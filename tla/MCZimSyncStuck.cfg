CONSTANTS
  Subs <- MCSubs
  Profiles <- MCProfiles
  Wants <- MCWants
  Requires <- MCWants
  Offers <- MCOffers
  Unopenable <- MCUnopenable
  Retention = 1
  Capacity = 2
  Bootstrap = TRUE
  MaxFaults = 1
  Missing = Missing
  Corrupt = Corrupt
SPECIFICATION FairSpec
PROPERTY NewestActive

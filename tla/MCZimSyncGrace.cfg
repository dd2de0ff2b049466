CONSTANTS
  Subs <- MCSubs
  Profiles <- MCProfiles
  Wants <- MCWants
  Requires <- MCWants
  Offers <- MCOffers
  Unopenable <- MCUnopenable
  Retention = 1
  Capacity = 4
  Bootstrap = TRUE
  MaxFaults = 1
  Missing = Missing
  Corrupt = Corrupt
SPECIFICATION Spec
PROPERTY GracePeriod

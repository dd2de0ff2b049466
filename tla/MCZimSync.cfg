CONSTANTS
  Subs <- MCSubs
  Profiles <- MCProfiles
  Wants <- MCWants
  Requires <- MCWants
  Offers <- MCOffers
  Unopenable <- MCUnopenable
  Retention = 1
  Capacity = 4
  Bootstrap = TRUE
  MaxFaults = 3
  Missing = Missing
  Corrupt = Corrupt
SPECIFICATION FairSpec
INVARIANT TypeOK
PROPERTIES NamedArchivesStay ServesOn RetiredGo NewestActive

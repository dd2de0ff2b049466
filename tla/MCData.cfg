CONSTANTS
  Missing = Missing
  Corrupt = Corrupt
  MaxRelease = 3
  MaxFaults = 2
  MaxBuilds = 1
  Archives = {"a1", "a2"}
  Newest = {"a2"}
  Threads = {"t1", "t2"}
  MaxWrites = 3
  MaxFailures = 2
  Curricula = {1, 2, 3}
  Lands = {"north", "south"}
  LandOf <- MCLandOf
  Tolerated = 0
  MaxChanges = 1
  MaxLapses = 1
  FirstInMem <- MCFirstInMem
  Interval = 6
  AliveEvery = 4
  Poll = 3
  Clients = {"c1", "c2"}
  MaxSaves = 2
  MaxSlips = 1
SPECIFICATION SystemSpec
CHECK_DEADLOCK FALSE
INVARIANTS TypesOK RequestRunsSoon ReadsAreFresh
PROPERTIES SettledInStep Implements  KeepsWhatItHas NoLostUpdate
PROPERTIES ChangeServed IndexGetsCurrent FollowsMem

CONSTANTS
  Archives = {a1, a2}
  Newest = {a2}
  Threads = {t1, t2}
  MaxWrites = 3
  MaxFailures = 0
  Missing = Missing
  Corrupt = Corrupt
SPECIFICATION FairSpec
PROPERTY FollowsActive
CHECK_DEADLOCK FALSE

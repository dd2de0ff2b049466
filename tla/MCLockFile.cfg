CONSTANTS
  Runs = {r1, r2, r3}
  Inodes = {i1, i2, i3}
  InodeReuse = FALSE
  MaxCrashes = 1
  NoFile = NoFile
  NoText = NoText
SPECIFICATION FairSpec
INVARIANTS TypeOK MutualExclusion
PROPERTIES ForeignLockKept PausedRunKeepsOff AbandonedLockGoes

CONSTANTS
  Runs = {r1, r2, r3}
  Inodes = {i1, i2}
  InodeReuse = TRUE
  MaxCrashes = 2
  NoFile = NoFile
  NoText = NoText
SPECIFICATION Spec
PROPERTY ForeignLockKept

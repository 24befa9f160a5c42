SPECIFICATION Spec
CONSTANTS
  NFiles = 2
  Foreign = {2}
  Dir = dir
  Default = 1
  Laws <- OddLaws
  Missing = missing
  Broken = broken
  Trees = {t1, t2}
  NoTree = notree
  Requests <- MCRequests
  MaxPacks = 2
  DevPack = FALSE
INVARIANT
  LoadReadsDisk

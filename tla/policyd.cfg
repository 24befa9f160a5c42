SPECIFICATION PolicydSpec
CONSTANTS
  NFiles = 1
  Foreign = {}
  Dir = dir
  Default = 1
  Laws <- MCLaws
  Missing = missing
  Broken = broken
  Trees = {t1}
  NoTree = notree
  Requests <- MCRequests
  MaxPacks = 1
  DevPack = FALSE
  PathMax = 7
  Agents = {a1}
  Null = null
  Workspaces <- MCWorkspaces
  Paths <- MCPaths
  Sensitive <- MCSensitive
VIEW WithoutHistory
INVARIANTS
  AdmitsNoGone
  Confined
  
PROPERTY
  LockdownDenies

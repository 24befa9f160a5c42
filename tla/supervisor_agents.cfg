SPECIFICATION Spec
CONSTANTS
  Hosts = {h1}
  Agents = {a1, a2}
  Pids = {2, 3}
  Workspaces = {}
  Empty = empty
  Dash = dash
  ExitCodes = {0}
  BindOnly = {1}
  SeatPids = {2}
  Moves <- IntoOther
  MaxAgents = 2
VIEW WithoutHistory
INVARIANTS
  TypeOK
  Ownership
  SignalsRealGroup
PROPERTY
  OnlyOwnKilled

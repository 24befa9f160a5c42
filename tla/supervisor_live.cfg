SPECIFICATION FairSpec
CONSTANTS
  Hosts = {h1}
  Agents = {a1}
  Pids = {2, 3}
  Workspaces = {w1, w2}
  Empty = empty
  Dash = dash
  ExitCodes = {0}
  BindOnly = {0}
  SeatPids = {}
  Moves <- AwayAndBack
  MaxAgents = 1
INVARIANTS
  LeaderTracked
  WriteThrough
  KilledGroupIsDead
PROPERTIES
  CallReturns
  StickyWorkspace

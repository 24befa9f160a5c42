SPECIFICATION FairSpec
CONSTANTS
  Hosts = {h1}
  Agents = {a1}
  Pids = {2, 3}
  Workspaces = {}
  Empty = empty
  Dash = dash
  ExitCodes = {0}
  BindOnly = {}
  SeatPids = {}
  Moves <- AwayAndBack
  MaxAgents = 1
INVARIANT
  StoppedHasNoLiveProcess

SPECIFICATION FairSpec
CONSTANTS
  Hosts = {h1, h2}
  Agents = {a1}
  Pids = {}
  Workspaces = {w1, w2}
  Empty = empty
  Dash = dash
  ExitCodes = {0}
  BindOnly = {0}
  SeatPids = {}
  Moves <- NoMoves
  MaxAgents = 1
PROPERTY
  StickyWorkspace

SPECIFICATION Spec
CONSTANTS
  Chars = {"/", ".", "a"}
  MaxWs = 4
  MaxPath = 7
  PathMax = 7
  Root = "root"
  Tree <- MCTree
  Out = "out"
  Names = {"a", "b"}
  MaxOpens = 1
  MaxComps = 3
  Openers = {o1, o2}
  Tmp = tmp
INVARIANTS
  CleanIsCanonical
  UnderIsInside
  ProbeInside
  ScriptResolves
  RelIsBeneath
  WalkConfined
  WalkAgrees
  DirsReady

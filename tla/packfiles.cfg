SPECIFICATION Spec
CONSTANTS
  h1 = h1
  w1 = w1
  w2 = w2
  t1 = t1
  Hosts = {h1}
  Installers = {h1, i2, i3}
  Writers = {w1, w2}
  Entry = 1
  Texts = {t1, broken}
  Broken = broken
  Absent = absent
  JanetVersion <- MCVersions
  MaxEdits = 2
  NFiles = 2
  Pack <- MCPack
  Cut = cut
INVARIANTS
  TypeOK
  LawIsSources
  ImageNeverFails
  LoadsEmbedded
  CompleteIsWhole

SPECIFICATION Spec
CONSTANTS
  Writers = {w1, w2}
  Readers = {r1}
  Records = {v1, v2}
  Inodes = {i1, i2, i3, i4}
  None = none
  Torn = torn
SYMMETRY Symmetry
INVARIANTS
  Private
  NoStrayFile
PROPERTIES
  IsRegister
  PublishesOwn

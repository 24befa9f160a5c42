SPECIFICATION Spec
CONSTANTS
  Readers = {r1, r2}
  Lengths = {2, 3, 4}
  Buf = 4
  MaxRecords = 3
  NL = nl
  RingSize = 3
  SpansMax = 2
  MaxSeq = 5
  MaxCalls = 2
INVARIANTS
  TypeOK
  TornSpoilsOne
  JsonIsTheEnd
  JsonMatchesCall
  SpansOfTheirEvent
PROPERTY
  LastIsLastLine
CHECK_DEADLOCK FALSE

SPECIFICATION ReceiveSpec
CONSTANTS
  Host = {"a"}
  Call = {c1, c2}
  MaxSeq = 2
  NumFields = 2
SYMMETRY Symmetry
INVARIANTS
  ReceiveTypeOK
  AnsweredIsHandled
  NoGhostSequence

SPECIFICATION Spec
CONSTANTS
  T30 = 2
  T32 = 1
  T72 = 1
  T84 = 1
  T100 = 2
  Copies <- MCCopies
  SizesOf <- MCSizes
  Garbage = {1}
INVARIANTS
  TypeOK
  ReservedAreLive
  LiveApart
  TreeCorrect
  ServesWhatItAdvertises

SPECIFICATION Spec
CONSTANTS
  WordBits = 8
  Shapes <- MCShapes
INVARIANTS
  TypeOK
  SummariesExact
  ScanAgrees
  FlagsExact
  InfoExact
PROPERTY
  ImplementsSlots

\* Files without ">": they are read as they are meant, and to their end.
SPECIFICATION Spec
CONSTANTS
  Files <- AllFiles
  Imports <- Home
  Functions = {"str"}
  MaxTokens = 90
  Step = 2
INVARIANTS
  TypeOK
  ReadAsMeant
  SoundAccepted
PROPERTY
  StepsShrink

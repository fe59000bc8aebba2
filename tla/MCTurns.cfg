\* An input, a steer and a desktop turn, four new steps, two surprises.
SPECIFICATION LiveSpec
CONSTANTS
  r1 = r1
  None = None
  Inputs <- OneInput
  Ordinal <- Ordinals
  MaxSteps = 5
  MaxDesktop = 1
  MaxSteers = 1
  MaxSurprises = 2
INVARIANTS
  TurnsTypeOK
  AnswerIsWhole
PROPERTIES
  UnsentUnlessDismissed
  TurnsAreClosed

\* An input, a steer and a desktop turn, four new steps, no surprise.
SPECIFICATION Spec
CONSTANTS
  r1 = r1
  None = None
  Inputs <- OneInput
  Ordinal <- Ordinals
  MaxSteps = 5
  MaxDesktop = 1
  MaxSteers = 1
  MaxSurprises = 0
INVARIANT
  FinalAnswerArrives

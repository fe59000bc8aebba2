SPECIFICATION LiveSpec
CONSTANTS
  MaxPresses = 2
  Limit = 2
  MaxSurprises = 1
  None = None
INVARIANTS
  PanelsTypeOK
  OneSessionPerForm
PROPERTIES
  SubmittedIsCreated
  ButtonsComeBack

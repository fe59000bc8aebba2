\* One question (a permission has no more to it), two turns, two presses, one surprise.
SPECIFICATION LiveSpec
CONSTANTS
  q1 = q1
  e1 = e1
  e2 = e2
  None = None
  Prompts <- OneQuestion
  Questions <- OneQuestion
  Presses <- TwoPresses
  MaxTurns = 2
  MaxSurprises = 1
PROPERTY
  UnansweredIsDenied

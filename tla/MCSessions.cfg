\* Two creations, one of them from a group, and an attachment; two surprises.
SPECIFICATION LiveSpec
CONSTANTS
  c1 = c1
  g1 = g1
  a1 = a1
  n1 = n1
  n2 = n2
  d1 = d1
  Creates <- BothCreates
  Attaches <- OneAttach
  FromGroup <- GroupCreate
  Natives <- ThreeNatives
  Desktop <- OnDesktop
  MaxSurprises = 2
  None = None
INVARIANTS
  ActiveIsProven
  StartedOnce
  OneSessionPerEvent
PROPERTIES
  ImplementsEffects
  EventuallyAnswered
  DoubtIsResolved

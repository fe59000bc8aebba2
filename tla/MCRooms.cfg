\* A group with a first task, two inbound verifications, three surprises.
SPECIFICATION LiveSpec
CONSTANTS
  g1 = g1
  i1 = i1
  i2 = i2
  Groups <- OneGroup
  WithTask <- OneGroup
  Inbound <- TwoTasks
  MaxSurprises = 3
  NoCheck = NoCheck
INVARIANTS
  KnownGroupIsKept
  FirstTaskOnce
PROPERTIES
  EventuallyReady
  FirstTaskReleased

\* A private card and one of a group, flushed together.
SPECIFICATION LiveSpec
CONSTANTS
  c1 = c1
  c2 = c2
  Cards = {c1, c2}
  GroupCards = {c2}
  Batch = 2
  MaxAttempts = 1
  MaxRevision = 2
  MaxSurprises = 2
INVARIANTS
  OneMessage
  DeliveredIsShown
PROPERTIES
  ImplementsEffects
  EventuallyDelivered

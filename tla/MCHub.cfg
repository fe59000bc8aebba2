\* Two inputs of one session beside a steer of another, no commands; one surprise.  The
\* requests r1, s1 and q1 (a steer beside an input of its session) may take their place.
CONSTANTS
  r1 = r1
  r2 = r2
  s1 = s1
  q1 = q1
  q2 = q2
  b1 = b1
  b2 = b2
  c1 = c1
  c2 = c2
  c3 = c3
  c4 = c4
  NoView = NoView
  Requests = {r1, r2, q2}
  Bindings = {b1, b2}
  BindingOf <- BindingOfMC
  KindOf <- KindOfMC
  Controls = {}
  ActionOf <- Actions
  TargetOf <- OnFirst
  SessionOrder <- TwoSessions
  SteerLevels <- AnySteer
  MaxSurprises = 1

SPECIFICATION LiveSpec

INVARIANTS
  AtMostOnce
  DoubtPausesQueue
  InOrder

PROPERTIES
  NeverResubmitted
  ImplementsSubmission
  EventuallySubmitted

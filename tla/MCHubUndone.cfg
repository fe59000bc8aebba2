\* A continue overtaken by a stop.
CONSTANTS
  r1 = r1
  r2 = r2
  s1 = s1
  q1 = q1
  q2 = q2
  b1 = b1
  b2 = b2
  c1 = c1
  c2 = c2
  c3 = c3
  c4 = c4
  NoView = NoView
  Requests = {r1}
  Bindings = {b1}
  BindingOf <- BindingOfMC
  KindOf <- KindOfMC
  Controls = {c1, c2}
  ActionOf <- Actions
  TargetOf <- OnFirst
  SessionOrder <- OneSession
  SteerLevels <- Steerable
  MaxSurprises = 0

SPECIFICATION Spec

INVARIANTS
  StopIsNotUndone

------------------------------- MODULE MCHub -------------------------------
\* Values for the constants of Hub; each configuration picks the requests and
\* commands it needs.
EXTENDS Hub

CONSTANTS r1, r2, s1, q1, q2, b1, b2, c1, c2, c3, c4

BindingOfMC == [r \in Requests |-> IF r \in {q1, q2} THEN b2 ELSE b1]
KindOfMC == [r \in Requests |-> IF r \in {s1, q2} THEN "steer" ELSE "input"]
TwoSessions == <<b1, b2>>
OneSession == <<b1>>

OnFirst == [c \in Controls |-> b1]
Actions == [c \in Controls |-> CASE c = c1 -> "stop" [] c = c2 -> "continue" [] c = c3 -> "archive" [] c = c4 -> "resume"]
Steerable == {TRUE}
AnySteer == {TRUE, FALSE}

=============================================================================

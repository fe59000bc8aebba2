----------------------------- MODULE MCSessions -----------------------------
(* A creation from the owner's chat, one from a group, and an attachment of a *)
(* session of the desktop.                                                    *)
EXTENDS Sessions

CONSTANTS c1, g1, a1, n1, n2, d1

GroupCreate == {g1}
BothCreates == {c1, g1}
OneAttach == {a1}
ThreeNatives == {n1, n2, d1}
OnDesktop == {d1}

=============================================================================

------------------------- MODULE MCMessagingOutbox -------------------------
(* Instances of MessagingOutbox for TLC. *)
EXTENDS MessagingOutbox, TLC

CONSTANTS d1, d2, m1, g1, i1, i2

TwoDrains == {d1, d2}
OneDrain == {d1}
OneDirect == {m1}
OneGroup == {g1}
TwoInvites == {i1, i2}
OneInvite == {i1}
Nothing == {}

Symmetry == Permutations(Drains) \cup Permutations(Direct) \cup Permutations(Invites)
=============================================================================

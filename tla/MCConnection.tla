---------------------------- MODULE MCConnection ----------------------------
(* A small instance of the Connection controller. *)
EXTENDS Connection

CONSTANTS r1, i1, i2, f1, v1, v2, u1, u2

OneReplica == {r1}
TwoIds == {i1, i2}
NoObservations == {}
OneField == {f1}
TwoValues == {v1, v2}
TwoUnchecked == {u1, u2}

Asks(v, u) == [fields |-> [f \in OneField |-> v], unchecked |-> u]

\* The field left out; given; given with other ends.
ThreeSpecs == {Asks(Unset, u1), Asks(v1, u1), Asks(v2, u2)}
EveryComponent == ConnectionDtos
Nothing == [fields |-> <<>>, unchecked |-> "", queued |-> FALSE]
=============================================================================

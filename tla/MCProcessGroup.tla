---------------------------- MODULE MCProcessGroup ----------------------------
(* A small instance of the ProcessGroup controller. *)
EXTENDS ProcessGroup

CONSTANTS r1, i1, i2, k1, k2, u1

OneReplica == {r1}
TwoIds == {i1, i2}
TwoChecked == {k1, k2}
OneUnchecked == {u1}
EveryState == {"RUNNING", "STOPPED", "DISABLED"}
TwoSpecs == [checked : TwoChecked, unchecked : OneUnchecked, desired : EveryState]
TwoComponents == [checked : TwoChecked, unchecked : OneUnchecked, counts : Counts]
Nothing == [checked |-> "", unchecked |-> "", counts |-> Empty]
=============================================================================

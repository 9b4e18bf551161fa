------------------------- MODULE MCControllerService -------------------------
(* A small instance of the ControllerService controller. *)
EXTENDS ControllerService

CONSTANTS r1, i1, i2, i3, k1, k2, u1

OneReplica == {r1}
ThreeIds == {i1, i2, i3}
TwoChecked == {k1, k2}
OneUnchecked == {u1}
BothStates == {"ENABLED", "DISABLED"}
TwoSpecs == [checked : TwoChecked, unchecked : OneUnchecked, desired : BothStates]
TwoComponents == [checked : TwoChecked, unchecked : OneUnchecked, state : States]
Nothing == [checked |-> "", unchecked |-> "", state |-> ""]
=============================================================================

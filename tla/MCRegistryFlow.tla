---------------------------- MODULE MCRegistryFlow ----------------------------
(* Small instances of the RegistryFlow controller. *)
EXTENDS RegistryFlow

CONSTANTS r1, i1, i2

OneReplica == {r1}
TwoIds == {i1, i2}
TwoVersions == {1, 2}
BothStates == {"RUNNING", "STOPPED"}
FlowSpecs == [version : {0, 1, 2}, desired : BothStates]
FlowComponents == [version : {0, 1, 2}, target : {0, 1, 2}, counts : Counts]
FlowObservations == {0, 1, 2}
Nothing == [version |-> 3, target |-> 0, counts |-> [running |-> FALSE, stopped |-> FALSE]]
=============================================================================

---------------------------- MODULE MCReconciler ----------------------------
(* A small instance of the reconcile loop: two replicas, any client. *)
EXTENDS ManagedReconciler, TLC

CONSTANTS r1, r2, i1, i2, i3, a, b

MCReplicas == {r1, r2}
MCIds == {i1, i2, i3}
MCSpecs == {a, b}
MCClientSteps == {"call"}

Symmetric == Permutations(Replicas) \cup Permutations(Ids)
=============================================================================

-------------------------- MODULE ManagedComponent --------------------------
(***************************************************************************)
(* What the provider promises about one custom resource, with no           *)
(* reconcilers, caches or calls: the resource manages at most one NiFi     *)
(* component at a time, a component it lost track of never becomes the     *)
(* managed one again, and once the resource is gone nothing is managed and *)
(* nothing is provisioned any more.                                        *)
(***************************************************************************)
CONSTANT Ids          \* the ids NiFi may give to a component

VARIABLES
  managed,            \* the component the resource manages: {} or {id}
  abandoned,          \* components created for the resource and lost track of
  finished            \* whether the custom resource is gone

lifecycle == <<managed, abandoned, finished>>

LifecycleInit ==
  /\ managed = {} \/ \E id \in Ids : managed = {id}    \* new, or imported
  /\ abandoned = {}
  /\ finished = FALSE

\* A component is created for the resource and becomes the managed one; one
\* that it takes the place of was lost track of.
Provision ==
  /\ ~finished
  /\ \E id \in Ids \ (abandoned \cup managed) : managed' = {id}
  /\ abandoned' = abandoned \cup managed
  /\ UNCHANGED finished

\* The managed component disappears from NiFi.
Vanish ==
  /\ managed # {}
  /\ managed' = {}
  /\ UNCHANGED <<abandoned, finished>>

\* Track is lost of a component: of the managed one, and the resource may go
\* with that, or of one created by a call whose reply never arrived.
Abandon ==
  /\ ~finished
  /\ \E id \in Ids \ abandoned :
       /\ abandoned' = abandoned \cup {id}
       /\ managed' = managed \ {id}
  /\ finished' \in BOOLEAN
  /\ finished' => managed' = {}

\* The custom resource goes away; it manages nothing then.
Finish ==
  /\ ~finished
  /\ managed = {}
  /\ finished' = TRUE
  /\ UNCHANGED <<managed, abandoned>>

LifecycleNext == Provision \/ Vanish \/ Abandon \/ Finish

LifecycleSpec == LifecycleInit /\ [][LifecycleNext]_lifecycle
=============================================================================

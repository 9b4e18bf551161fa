-------------------------- MODULE ManagedReconciler --------------------------
(***************************************************************************)
(* One custom resource of the provider, the API server that stores it, and *)
(* the replicas of the provider that reconcile it.  Every controller of    *)
(* internal/controller hands its client (Observe, Create, Update, Delete)  *)
(* to the same managed.NewReconciler of crossplane-runtime; this module is *)
(* that loop, with the client left open: it says which calls a client may  *)
(* make and when, the modules of the kinds say which calls theirs makes.   *)
(*                                                                         *)
(* A resourceVersion is only ever compared with the current one, so the    *)
(* model keeps the outcome of the comparison: fresh[w] says that the copy  *)
(* replica w holds is the stored one, cacheFresh[w] says it of w's cache.  *)
(***************************************************************************)
EXTENDS Naturals

CONSTANTS
  Replicas,           \* the provider's processes
  Ids,                \* the ids NiFi may give to a component
  NoName,             \* the external name of a resource never created
  Specs,              \* the desired states a user may write
  ClientSteps,        \* the points between two calls of an Update or Delete
  MaxDisturbances     \* bound: crashes, failed calls, edits, foreign deletes

ReconcilerSteps == {"idle", "observe", "decide", "create", "created",
                    "recordSuccess", "recordFailure"}

ASSUME NamesAssumption == NoName \notin Ids
ASSUME SpecsAssumption == Specs # {}
ASSUME StepsAssumption == ClientSteps \cap ReconcilerSteps = {}
ASSUME DisturbancesAssumption == MaxDisturbances \in Nat

VARIABLES
  cr,                 \* the resource as the API server stores it
  cache,              \* the resource as each replica's informer last saw it
  cacheFresh,         \* whether that is the stored one
  mem,                \* the copy each reconcile works on
  fresh,              \* whether that copy is the stored one
  pc,                 \* where each replica is in its reconcile
  seen,               \* what Observe reported of the component: the loop takes
                      \* "misread" for "absent", only the model knows better
  live,               \* the components NiFi holds that were made for cr
  used,               \* the ids NiFi has given away
  abandoned,          \* components the provider or the user lost track of
  disturbances        \* how much of MaxDisturbances is spent

rvars == <<cr, cache, cacheFresh, mem, fresh, pc, seen, live, used, abandoned,
           disturbances>>

Names == Ids \cup {NoName}

Resources == [exists : BOOLEAN, deleting : BOOLEAN, finalizer : BOOLEAN,
              name : Names, creation : {"none", "pending", "succeeded", "failed"},
              spec : Specs]

\* A resource that is not there; also the copy of a replica that has none.
Gone == [exists |-> FALSE, deleting |-> FALSE, finalizer |-> FALSE,
         name |-> NoName, creation |-> "none", spec |-> CHOOSE s \in Specs : TRUE]

\* Every variable has its type; the bookkeeping of ids is consistent.
ReconcilerTypeOK ==
  /\ cr \in Resources
  /\ cache \in [Replicas -> Resources]
  /\ cacheFresh \in [Replicas -> BOOLEAN]
  /\ mem \in [Replicas -> Resources]
  /\ fresh \in [Replicas -> BOOLEAN]
  /\ pc \in [Replicas -> ReconcilerSteps \cup ClientSteps]
  /\ seen \in [Replicas -> {"none", "absent", "misread", "different", "upToDate"}]
  /\ live \subseteq used
  /\ used \subseteq Ids
  /\ abandoned \subseteq used
  /\ disturbances \in 0 .. MaxDisturbances

\* A resource the user just wrote: without a component, or naming a
\* component of NiFi for the provider to take over.
ReconcilerInit ==
  /\ \E s \in Specs, n \in Names :
       /\ cr = [Gone EXCEPT !.exists = TRUE, !.name = n, !.spec = s]
       /\ live = {n} \cap Ids
  /\ cache = [w \in Replicas |-> cr]
  /\ cacheFresh = [w \in Replicas |-> TRUE]
  /\ mem = [w \in Replicas |-> Gone]
  /\ fresh = [w \in Replicas |-> FALSE]
  /\ pc = [w \in Replicas |-> "idle"]
  /\ seen = [w \in Replicas |-> "none"]
  /\ used = live
  /\ abandoned = {}
  /\ disturbances = 0

-----------------------------------------------------------------------------

Disturb == /\ disturbances < MaxDisturbances
           /\ disturbances' = disturbances + 1

Goto(w, step) == pc' = [pc EXCEPT ![w] = step]

\* A reconcile ends; what its replica held in memory is forgotten.
Forget(w) == /\ Goto(w, "idle")
             /\ mem' = [mem EXCEPT ![w] = Gone]
             /\ seen' = [seen EXCEPT ![w] = "none"]

Return(w) == /\ Forget(w)
             /\ fresh' = [fresh EXCEPT ![w] = FALSE]

\* Somebody else than a reconcile under way wrote the resource: every copy of
\* it is old.
Store(new) == /\ cr' = new
              /\ cacheFresh' = [w \in Replicas |-> FALSE]
              /\ fresh' = [w \in Replicas |-> FALSE]

\* (mutant of Write: the version is not compared)
BlindWrite(w, new) == /\ cr' = new
                      /\ mem' = [mem EXCEPT ![w] = new]
                      /\ cacheFresh' = [r \in Replicas |-> FALSE]
                      /\ fresh' = [r \in Replicas |-> r = w]

\* Replica w writes its copy, changed; the API server accepts it only from the
\* version it stores, and w then holds the new one.
Write(w, new) == /\ fresh[w]
                 /\ cr' = new
                 /\ mem' = [mem EXCEPT ![w] = new]
                 /\ cacheFresh' = [r \in Replicas |-> FALSE]
                 /\ fresh' = [r \in Replicas |-> r = w]

\* (mutant of CreateIncomplete: the annotations are not looked at)
NeverIncomplete(r) == FALSE

\* A creation was announced and its outcome never recorded.
CreateIncomplete(r) == r.creation = "pending"

-----------------------------------------------------------------------------
(* The informer and the reconcile loop of replica w *)

Sync(w) ==
  /\ ~cacheFresh[w]
  /\ cache' = [cache EXCEPT ![w] = cr]
  /\ cacheFresh' = [cacheFresh EXCEPT ![w] = TRUE]
  /\ UNCHANGED <<cr, mem, fresh, pc, seen, live, used, abandoned, disturbances>>

\* The worker takes the resource from its cache, unless a creation is open.
Begin(w) ==
  /\ pc[w] = "idle"
  /\ cache[w].exists
  /\ ~CreateIncomplete(cache[w])
  /\ mem' = [mem EXCEPT ![w] = cache[w]]
  /\ fresh' = [fresh EXCEPT ![w] = cacheFresh[w]]
  /\ Goto(w, "observe")
  /\ UNCHANGED <<cr, cache, cacheFresh, seen, live, used, abandoned, disturbances>>

\* What the client may report: a component NiFi has not is absent.  Of the calls
\* it makes for a report some may fail unnoticed, and the error of the one that
\* gets the component may be read as saying that there is none.
Reports(w) == IF mem[w].name \in live THEN {"different", "upToDate", "misread"}
                                      ELSE {"absent"}

Observe(w) ==
  /\ pc[w] = "observe"
  /\ \E report \in Reports(w) :
       /\ seen' = [seen EXCEPT ![w] = report]
       /\ Disturb \/ (report # "misread" /\ UNCHANGED disturbances)
  /\ Goto(w, "decide")
  /\ UNCHANGED <<cr, cache, cacheFresh, mem, fresh, live, used, abandoned>>

\* The loop goes by ExternalObservation.ResourceExists, true or not.
Absent(w) == seen[w] \in {"absent", "misread"}

\* The component that a misread error hides from replica w: track of it is lost
\* once the loop has done what an absent component calls for.
Overlooked(w) == IF seen[w] = "misread" THEN {mem[w].name} \cap live ELSE {}

\* (mutant of Alive: the deletion is not looked at)
AliveAnyway(w) == pc[w] = "decide"

\* What Observe and the copy in memory call for.
Alive(w) == pc[w] = "decide" /\ ~mem[w].deleting
FinalizerDue(w) == Alive(w) /\ ~mem[w].finalizer
CreateDue(w) == Alive(w) /\ mem[w].finalizer /\ Absent(w)
UpdateDue(w) == Alive(w) /\ mem[w].finalizer /\ seen[w] = "different"
NothingDue(w) == Alive(w) /\ mem[w].finalizer /\ seen[w] = "upToDate"
DeleteDue(w) == pc[w] = "decide" /\ mem[w].deleting /\ ~Absent(w)

\* (mutant of ReleaseDue: the component may still be there)
ReleaseAnyway(w) == pc[w] = "decide" /\ mem[w].deleting

\* The component of a resource being deleted is taken for gone.
ReleaseDue(w) == pc[w] = "decide" /\ mem[w].deleting /\ Absent(w)

AddFinalizer(w) ==
  /\ FinalizerDue(w)
  /\ Write(w, [mem[w] EXCEPT !.finalizer = TRUE])
  /\ UNCHANGED <<cache, pc, seen, live, used, abandoned, disturbances>>

\* The intent to create is stored before the component is asked for.
MarkPending(w) ==
  /\ CreateDue(w)
  /\ Write(w, [mem[w] EXCEPT !.creation = "pending"])
  /\ Goto(w, "create")
  /\ UNCHANGED <<cache, seen, live, used, abandoned, disturbances>>

\* The component is taken for gone: the finalizer goes, and the resource with it.
RemoveFinalizer(w) ==
  /\ ReleaseDue(w)
  /\ fresh[w]
  /\ Store(Gone)
  /\ abandoned' = abandoned \cup Overlooked(w)
  /\ Forget(w)
  /\ UNCHANGED <<cache, live, used, disturbances>>

\* A write from an old version is refused, and the reconcile retried later.
Conflict(w) ==
  /\ FinalizerDue(w) \/ CreateDue(w) \/ ReleaseDue(w)
  /\ ~fresh[w]
  /\ Return(w)
  /\ UNCHANGED <<cr, cache, cacheFresh, live, used, abandoned, disturbances>>

\* Nothing to do until the next poll or change.
Rest(w) ==
  /\ NothingDue(w)
  /\ Return(w)
  /\ UNCHANGED <<cr, cache, cacheFresh, live, used, abandoned, disturbances>>

-----------------------------------------------------------------------------
(* The calls the client makes to NiFi for replica w *)

\* NiFi makes the component; Create returns, or has more to do with it.
CreateAnswered(w, id) ==
  /\ pc[w] = "create"
  /\ id \in Ids \ used
  /\ live' = live \cup {id}
  /\ used' = used \cup {id}
  /\ abandoned' = abandoned \cup Overlooked(w)
  /\ mem' = [mem EXCEPT ![w].name = id]
  /\ \E step \in {"created", "recordSuccess"} : Goto(w, step)
  /\ UNCHANGED <<cr, cache, cacheFresh, fresh, seen, disturbances>>

\* NiFi makes the component and the reply is lost: nobody knows its id.
CreateReplyLost(w, id) ==
  /\ pc[w] = "create"
  /\ Disturb
  /\ id \in Ids \ used
  /\ live' = live \cup {id}
  /\ used' = used \cup {id}
  /\ abandoned' = abandoned \cup {id}
  /\ Goto(w, "recordFailure")
  /\ UNCHANGED <<cr, cache, cacheFresh, mem, fresh, seen>>

CreateRefused(w) ==
  /\ pc[w] = "create"
  /\ Disturb
  /\ Goto(w, "recordFailure")
  /\ UNCHANGED <<cr, cache, cacheFresh, mem, fresh, seen, live, used, abandoned>>

\* The rest of Create succeeds or fails; the id is known either way.
CreateReturns(w) ==
  /\ pc[w] = "created"
  /\ \E step \in {"recordSuccess", "recordFailure"} : Goto(w, step)
  /\ UNCHANGED <<cr, cache, cacheFresh, mem, fresh, seen, live, used, abandoned, disturbances>>

\* The outcome and the name are stored, over whatever the resource has become:
\* this write takes the newest version when its own is refused.
Record(w) ==
  /\ pc[w] \in {"recordSuccess", "recordFailure"}
  /\ Store([cr EXCEPT !.name = mem[w].name,
                      !.creation = IF pc[w] = "recordSuccess" THEN "succeeded" ELSE "failed"])
  /\ Forget(w)
  /\ UNCHANGED <<cache, live, used, abandoned, disturbances>>

\* A call of an Update or Delete that removes nothing, or the last of them; one
\* may fail unnoticed.
ClientCall(w) ==
  /\ UpdateDue(w) \/ DeleteDue(w) \/ pc[w] \in ClientSteps
  /\ \/ /\ \E step \in ClientSteps : Goto(w, step)
        /\ UNCHANGED <<mem, fresh, seen>>
     \/ Return(w)
  /\ Disturb \/ UNCHANGED disturbances
  /\ UNCHANGED <<cr, cache, cacheFresh, live, used, abandoned>>

\* NiFi removes the component of a resource being deleted.
RemoveComponent(w) ==
  /\ DeleteDue(w) \/ (pc[w] \in ClientSteps /\ mem[w].deleting)
  /\ live' = live \ {mem[w].name}
  /\ Return(w)
  /\ UNCHANGED <<cr, cache, cacheFresh, used, abandoned, disturbances>>

-----------------------------------------------------------------------------
(* What happens around the loop *)

\* Names that only the memory of a replica about to record them holds.
Recording(w) == pc[w] \in {"created", "recordSuccess", "recordFailure"}
Unrecorded(w) == IF Recording(w) THEN {mem[w].name} \ {cr.name} ELSE {}

\* The process dies, or a call fails in a way that ends the reconcile.
Crash(w) ==
  /\ pc[w] # "idle"
  /\ Disturb
  /\ abandoned' = abandoned \cup (Unrecorded(w) \cap live)
  /\ Return(w)
  /\ UNCHANGED <<cr, cache, cacheFresh, live, used>>

UserEdit(s) ==
  /\ cr.exists
  /\ ~cr.deleting
  /\ s # cr.spec
  /\ Disturb
  /\ Store([cr EXCEPT !.spec = s])
  /\ UNCHANGED <<cache, mem, pc, seen, live, used, abandoned>>

\* Without the provider's finalizer the resource goes at once, and the
\* component it named is left to itself.
UserDelete ==
  /\ cr.exists
  /\ ~cr.deleting
  /\ Store(IF cr.finalizer THEN [cr EXCEPT !.deleting = TRUE] ELSE Gone)
  /\ abandoned' = IF cr.finalizer THEN abandoned ELSE abandoned \cup ({cr.name} \cap live)
  /\ UNCHANGED <<cache, mem, pc, seen, live, used, disturbances>>

\* A user of NiFi, or another resource, removes a component.
ForeignDelete(id) ==
  /\ id \in live
  /\ Disturb
  /\ live' = live \ {id}
  /\ UNCHANGED <<cr, cache, cacheFresh, mem, fresh, pc, seen, used, abandoned>>

\* A disturbance the loop does not see: a component changes, and stays.
ForeignChange ==
  /\ live # {}
  /\ Disturb
  /\ UNCHANGED <<cr, cache, cacheFresh, mem, fresh, pc, seen, live, used, abandoned>>

ReplicaNext(w) ==
  \/ Sync(w) \/ Begin(w) \/ Observe(w)
  \/ AddFinalizer(w) \/ MarkPending(w) \/ RemoveFinalizer(w) \/ Conflict(w) \/ Rest(w)
  \/ \E id \in Ids : CreateAnswered(w, id) \/ CreateReplyLost(w, id)
  \/ CreateRefused(w) \/ CreateReturns(w) \/ Record(w)
  \/ ClientCall(w) \/ RemoveComponent(w) \/ Crash(w)

ReconcilerNext ==
  \/ \E w \in Replicas : ReplicaNext(w)
  \/ \E s \in Specs : UserEdit(s)
  \/ UserDelete
  \/ \E id \in Ids : ForeignDelete(id)
  \/ ForeignChange

ReconcilerSpec == ReconcilerInit /\ [][ReconcilerNext]_rvars

-----------------------------------------------------------------------------

\* At most one component NiFi holds is the resource's: a second one is made
\* only after the first is gone or was lost to a crash, a lost reply or an error
\* read as its absence, however old the caches and however many replicas
\* reconcile the resource at once.
AtMostOneManaged == \A i, j \in live \ abandoned : i = j

\* A component that was not lost that way can be found again: the stored
\* resource names it, or a replica is about to store its name.  In particular
\* no resource goes away while its component stays.
Accounted ==
  \A id \in live \ abandoned : \/ cr.exists /\ id = cr.name
                               \/ \E w \in Replicas : id \in Unrecorded(w)

\* The loop implements what the provider promises of one resource.
Lifecycle == INSTANCE ManagedComponent
               WITH managed <- live \ abandoned, finished <- ~cr.exists
LifecycleRefined == Lifecycle!LifecycleSpec

-----------------------------------------------------------------------------
(* Why it holds: the parts of the inductive invariant *)

\* A copy taken for the stored resource is the stored resource, as long as the
\* reconcile may still write it.
CopiesTrue ==
  \A w \in Replicas : /\ cacheFresh[w] => cache[w] = cr
                      /\ fresh[w] /\ pc[w] \in {"observe", "decide"} => mem[w] = cr

\* No copy names a component that is still to be made.
NamesUsed ==
  /\ cr.name \in used \cup {NoName}
  /\ \A w \in Replicas : /\ cache[w].name \in used \cup {NoName}
                         /\ mem[w].name \in used \cup {NoName}

\* A reconcile that may still write works on a resource with no open creation,
\* and a component it truly found absent has not come back.
WorkingCopies ==
  \A w \in Replicas :
    /\ pc[w] \in {"observe", "decide"} => mem[w].exists /\ ~CreateIncomplete(mem[w])
    /\ pc[w] = "decide" /\ seen[w] = "absent" => mem[w].name \notin live

\* Between the announcement of a creation and the record of its outcome the
\* resource stays, manages nothing that lives unless its absence was misread,
\* and no other replica creates.
Creating(w) == pc[w] = "create" \/ Recording(w)
CreationGuarded ==
  \A w \in Replicas : Creating(w) =>
    /\ cr.exists /\ cr.finalizer /\ CreateIncomplete(cr)
    /\ cr.name \in live \ abandoned => seen[w] = "misread" /\ mem[w].name = cr.name
    /\ \A v \in Replicas : Creating(v) => v = w

\* All of it together is preserved by every step of the loop, whatever the
\* replicas, the ids and the client.
ReconcilerInv == /\ ReconcilerTypeOK
                 /\ CopiesTrue
                 /\ NamesUsed
                 /\ WorkingCopies
                 /\ CreationGuarded
                 /\ Accounted
=============================================================================

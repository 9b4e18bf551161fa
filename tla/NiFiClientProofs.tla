-------------------------- MODULE NiFiClientProofs --------------------------
(***************************************************************************)
(* What is proved for every kind of resource at once, for any number of    *)
(* replicas, any ids, any client and any number of disturbances.           *)
(*                                                                         *)
(* First the loop: ReconcilerInv is inductive, so AtMostOneManaged and     *)
(* Accounted always hold, and every step is one that ManagedComponent      *)
(* allows; and a resource that took a component over, and that nobody else *)
(* touches, has it until the resource is deleted.  Then the calls that     *)
(* every client is made of: they are steps of the loop, so that all a      *)
(* client has to add to implement ManagedReconciler is to make them at the *)
(* right time; they keep the types of what NiFi holds; and what one        *)
(* replica does to a component every other replica that works on it is     *)
(* aware of.                                                               *)
(***************************************************************************)
EXTENDS NiFiClient, TLAPS

-----------------------------------------------------------------------------
(* The types and the invariant of the loop *)

\* The copy that stands for a missing resource is a resource.
LEMMA GoneType == Gone \in Resources
BY SpecsAssumption DEF Gone, Resources, Names

\* The types hold at the start.
LEMMA TypeInit == ReconcilerInit => ReconcilerTypeOK
<1> SUFFICES ASSUME ReconcilerInit PROVE ReconcilerTypeOK
  OBVIOUS
<1>1. cr \in Resources
  BY GoneType DEF ReconcilerInit, Resources, Names
<1>2. live \subseteq Ids
  BY DEF ReconcilerInit
<1> QED BY <1>1, <1>2, GoneType, DisturbancesAssumption
        DEF ReconcilerInit, ReconcilerTypeOK, ReconcilerSteps

\* One more disturbance stays within the bound.
LEMMA DisturbType ==
  ASSUME disturbances \in 0 .. MaxDisturbances, Disturb
  PROVE  disturbances' \in 0 .. MaxDisturbances
BY DisturbancesAssumption DEF Disturb

\* A client never sends the loop to one of the loop's own points by accident,
\* so every point a step reaches has the type of pc.
LEMMA GotoType ==
  ASSUME ReconcilerTypeOK, NEW w \in Replicas,
         NEW step \in ReconcilerSteps \cup ClientSteps, Goto(w, step)
  PROVE  pc' \in [Replicas -> ReconcilerSteps \cup ClientSteps]
BY DEF ReconcilerTypeOK, Goto

\* What a returning replica holds has its type.
LEMMA ForgetType ==
  ASSUME ReconcilerTypeOK, NEW w \in Replicas, Forget(w)
  PROVE  /\ pc' \in [Replicas -> ReconcilerSteps \cup ClientSteps]
         /\ mem' \in [Replicas -> Resources]
         /\ seen' \in [Replicas -> {"none", "absent", "misread", "different", "upToDate"}]
BY GoneType, GotoType DEF ReconcilerTypeOK, Forget, ReconcilerSteps

\* So has what a write leaves behind.
LEMMA WriteType ==
  ASSUME ReconcilerTypeOK, NEW w \in Replicas, NEW new \in Resources, Write(w, new)
  PROVE  /\ cr' \in Resources
         /\ mem' \in [Replicas -> Resources]
         /\ cacheFresh' \in [Replicas -> BOOLEAN]
         /\ fresh' \in [Replicas -> BOOLEAN]
BY DEF ReconcilerTypeOK, Write

\* Every step of one replica preserves the types.
LEMMA TypeReplica ==
  ASSUME ReconcilerTypeOK, NEW w \in Replicas, ReplicaNext(w)
  PROVE  ReconcilerTypeOK'
<1>1. CASE Sync(w)
  BY <1>1 DEF Sync, ReconcilerTypeOK
<1>2. CASE Begin(w)
  <2>1. pc' \in [Replicas -> ReconcilerSteps \cup ClientSteps]
    BY <1>2, GotoType DEF Begin, ReconcilerSteps
  <2> QED BY <1>2, <2>1 DEF Begin, ReconcilerTypeOK
<1>3. CASE Observe(w)
  <2>1. pc' \in [Replicas -> ReconcilerSteps \cup ClientSteps]
    BY <1>3, GotoType DEF Observe, ReconcilerSteps
  <2>2. disturbances' \in 0 .. MaxDisturbances
    BY <1>3, DisturbType DEF Observe, ReconcilerTypeOK
  <2>3. seen' \in [Replicas -> {"none", "absent", "misread", "different", "upToDate"}]
    BY <1>3 DEF Observe, Reports, ReconcilerTypeOK
  <2> QED BY <1>3, <2>1, <2>2, <2>3 DEF Observe, ReconcilerTypeOK
<1>4. CASE AddFinalizer(w)
  <2>1. [mem[w] EXCEPT !.finalizer = TRUE] \in Resources
    BY DEF ReconcilerTypeOK, Resources
  <2> QED BY <1>4, <2>1, WriteType DEF AddFinalizer, ReconcilerTypeOK
<1>5. CASE MarkPending(w)
  <2>1. [mem[w] EXCEPT !.creation = "pending"] \in Resources
    BY DEF ReconcilerTypeOK, Resources
  <2>2. pc' \in [Replicas -> ReconcilerSteps \cup ClientSteps]
    BY <1>5, GotoType DEF MarkPending, ReconcilerSteps
  <2> QED BY <1>5, <2>1, <2>2, WriteType DEF MarkPending, ReconcilerTypeOK
<1>6. CASE RemoveFinalizer(w)
  <2>1. abandoned' \subseteq used
    BY <1>6 DEF RemoveFinalizer, Overlooked, ReconcilerTypeOK
  <2> QED BY <1>6, <2>1, ForgetType, GoneType DEF RemoveFinalizer, Store, ReconcilerTypeOK
<1>7. CASE Conflict(w)
  BY <1>7, ForgetType DEF Conflict, Return, ReconcilerTypeOK
<1>8. CASE Rest(w)
  BY <1>8, ForgetType DEF Rest, Return, ReconcilerTypeOK
<1>9. ASSUME NEW id \in Ids, CreateAnswered(w, id) PROVE ReconcilerTypeOK'
  <2>1. pc' \in [Replicas -> ReconcilerSteps \cup ClientSteps]
    BY <1>9, GotoType DEF CreateAnswered, ReconcilerSteps
  <2>2. mem' \in [Replicas -> Resources]
    BY <1>9 DEF CreateAnswered, ReconcilerTypeOK, Resources, Names
  <2>3. abandoned' \subseteq used
    BY <1>9 DEF CreateAnswered, Overlooked, ReconcilerTypeOK
  <2> QED BY <1>9, <2>1, <2>2, <2>3 DEF CreateAnswered, ReconcilerTypeOK
<1>10. ASSUME NEW id \in Ids, CreateReplyLost(w, id) PROVE ReconcilerTypeOK'
  <2>1. pc' \in [Replicas -> ReconcilerSteps \cup ClientSteps]
    BY <1>10, GotoType DEF CreateReplyLost, ReconcilerSteps
  <2> QED BY <1>10, <2>1, DisturbType DEF CreateReplyLost, ReconcilerTypeOK
<1>11. CASE CreateRefused(w)
  <2>1. pc' \in [Replicas -> ReconcilerSteps \cup ClientSteps]
    BY <1>11, GotoType DEF CreateRefused, ReconcilerSteps
  <2> QED BY <1>11, <2>1, DisturbType DEF CreateRefused, ReconcilerTypeOK
<1>12. CASE CreateReturns(w)
  <2>1. pc' \in [Replicas -> ReconcilerSteps \cup ClientSteps]
    BY <1>12, GotoType DEF CreateReturns, ReconcilerSteps
  <2> QED BY <1>12, <2>1 DEF CreateReturns, ReconcilerTypeOK
<1>13. CASE Record(w)
  <2>1. cr' \in Resources
    BY <1>13 DEF Record, Store, ReconcilerTypeOK, Resources
  <2> QED BY <1>13, <2>1, ForgetType DEF Record, Store, ReconcilerTypeOK
<1>14. CASE ClientCall(w)
  <2>0. disturbances' \in 0 .. MaxDisturbances
    BY <1>14, DisturbType DEF ClientCall, ReconcilerTypeOK
  <2>1. CASE Return(w)
    BY <1>14, <2>0, <2>1, ForgetType DEF ClientCall, Return, ReconcilerTypeOK
  <2>2. CASE (\E step \in ClientSteps : Goto(w, step)) /\ UNCHANGED <<mem, fresh, seen>>
    <3>1. pc' \in [Replicas -> ReconcilerSteps \cup ClientSteps]
      BY <2>2, GotoType
    <3> QED BY <1>14, <2>0, <2>2, <3>1 DEF ClientCall, ReconcilerTypeOK
  <2> QED BY <1>14, <2>1, <2>2 DEF ClientCall
<1>15. CASE RemoveComponent(w)
  BY <1>15, ForgetType DEF RemoveComponent, Return, ReconcilerTypeOK
<1>16. CASE Crash(w)
  BY <1>16, ForgetType, DisturbType DEF Crash, Return, ReconcilerTypeOK
<1> QED
  BY <1>1, <1>2, <1>3, <1>4, <1>5, <1>6, <1>7, <1>8, <1>9, <1>10, <1>11, <1>12,
     <1>13, <1>14, <1>15, <1>16
  DEF ReplicaNext

\* Every step preserves the types.
LEMMA TypeStep == ReconcilerTypeOK /\ [ReconcilerNext]_rvars => ReconcilerTypeOK'
<1> SUFFICES ASSUME ReconcilerTypeOK, [ReconcilerNext]_rvars PROVE ReconcilerTypeOK'
  OBVIOUS
<1>1. ASSUME NEW w \in Replicas, ReplicaNext(w) PROVE ReconcilerTypeOK'
  BY <1>1, TypeReplica
<1>2. ASSUME NEW s \in Specs, UserEdit(s) PROVE ReconcilerTypeOK'
  <2>1. cr' \in Resources
    BY <1>2 DEF UserEdit, Store, ReconcilerTypeOK, Resources
  <2> QED BY <1>2, <2>1, DisturbType DEF UserEdit, Store, ReconcilerTypeOK
<1>3. CASE UserDelete
  <2>1. cr' \in Resources
    BY <1>3, GoneType DEF UserDelete, Store, ReconcilerTypeOK, Resources
  <2> QED BY <1>3, <2>1 DEF UserDelete, Store, ReconcilerTypeOK
<1>4. ASSUME NEW id \in Ids, ForeignDelete(id) PROVE ReconcilerTypeOK'
  BY <1>4, DisturbType DEF ForeignDelete, ReconcilerTypeOK
<1>5. CASE ForeignChange
  BY <1>5, DisturbType DEF ForeignChange, ReconcilerTypeOK
<1>6. CASE UNCHANGED rvars
  BY <1>6 DEF rvars, ReconcilerTypeOK
<1> QED BY <1>1, <1>2, <1>3, <1>4, <1>5, <1>6 DEF ReconcilerNext

\* The variables of the reconcile loop always have their types.
THEOREM TypeCorrect == ReconcilerSpec => []ReconcilerTypeOK
BY TypeInit, TypeStep, PTL DEF ReconcilerSpec

-----------------------------------------------------------------------------
(* The inductive invariant, part by part *)

\* The invariant holds at the start.
LEMMA InvInit == ReconcilerInit => ReconcilerInv
<1> SUFFICES ASSUME ReconcilerInit PROVE ReconcilerInv
  OBVIOUS
<1>1. ReconcilerTypeOK
  BY TypeInit
<1>2. PICK s \in Specs, n \in Names :
        /\ cr = [Gone EXCEPT !.exists = TRUE, !.name = n, !.spec = s]
        /\ live = {n} \cap Ids
  BY DEF ReconcilerInit
<1>3. cr.name = n /\ cr.exists /\ n \in Ids \cup {NoName}
  BY <1>2 DEF Gone, Names
<1>4. \A w \in Replicas : /\ pc[w] = "idle" /\ ~fresh[w]
                          /\ cache[w] = cr /\ mem[w].name = NoName
  BY DEF ReconcilerInit, Gone
<1>5. CopiesTrue /\ WorkingCopies
  BY <1>4 DEF CopiesTrue, WorkingCopies
<1>6. NamesUsed
  <2>1. cr.name \in used \cup {NoName}
    BY <1>2, <1>3 DEF ReconcilerInit
  <2> QED BY <1>4, <2>1 DEF NamesUsed
<1>7. CreationGuarded
  BY <1>4 DEF CreationGuarded, Creating, Recording
<1>8. Accounted
  BY <1>2, <1>3 DEF Accounted
<1> QED BY <1>1, <1>5, <1>6, <1>7, <1>8 DEF ReconcilerInv

\* At most one component is managed when the invariant holds: while a replica
\* creates, only that replica can know one, and otherwise only the resource.
LEMMA InvImpliesAtMostOne == ReconcilerInv => AtMostOneManaged
BY DEF ReconcilerInv, ReconcilerTypeOK, CreationGuarded, Accounted, AtMostOneManaged,
       Creating, Unrecorded

\* While a creation is open nobody holds the stored resource for writing.
LEMMA WriterSeesNoCreation ==
  ASSUME ReconcilerInv, NEW w \in Replicas, pc[w] \in {"observe", "decide"}, fresh[w]
  PROVE  /\ mem[w] = cr
         /\ \A v \in Replicas : ~Creating(v)
BY DEF ReconcilerInv, CopiesTrue, WorkingCopies, CreationGuarded

\* When no replica creates, what is not lost is named by the resource.
LEMMA AccountedAtRest ==
  ASSUME ReconcilerInv, \A v \in Replicas : ~Creating(v)
  PROVE  \A id \in live \ abandoned : cr.exists /\ id = cr.name
BY DEF ReconcilerInv, Accounted, Unrecorded, Creating

\* When a replica creates, what is not lost is what it has made, or what a
\* misread error hid from it.
LEMMA AccountedToCreator ==
  ASSUME ReconcilerInv, NEW w \in Replicas, Creating(w)
  PROVE  \A id \in live \ abandoned : /\ id = mem[w].name
                                      /\ \/ Recording(w) /\ id # cr.name
                                         \/ seen[w] = "misread" /\ id = cr.name
BY DEF ReconcilerInv, Accounted, Unrecorded, CreationGuarded, Creating

\* A reconcile that ends without a write leaves the invariant alone, as far as
\* the components it may have removed or lost go.
LEMMA ReturnKeeps ==
  ASSUME ReconcilerInv, NEW w \in Replicas, Return(w), live' \subseteq live,
         abandoned \subseteq abandoned', UNCHANGED <<cr, cache, cacheFresh, used>>
  PROVE  CopiesTrue' /\ NamesUsed' /\ WorkingCopies' /\ CreationGuarded'
<1>1. CopiesTrue'
  BY DEF ReconcilerInv, ReconcilerTypeOK, CopiesTrue, Goto, Return, Forget
<1>2. NamesUsed'
  BY DEF ReconcilerInv, NamesUsed, Gone, Return, Forget
<1>3. WorkingCopies'
  BY DEF ReconcilerInv, ReconcilerTypeOK, WorkingCopies, Goto, Return, Forget
<1>4. CreationGuarded'
  BY DEF ReconcilerInv, ReconcilerTypeOK, CreationGuarded, Creating, Recording, Goto, Return,
     Forget
<1> QED BY <1>1, <1>2, <1>3, <1>4

\* Nor does it lose a component, unless it was about to record one.
LEMMA ReturnAccounts ==
  ASSUME ReconcilerInv, NEW w \in Replicas, Return(w), ~Recording(w), live' \subseteq live,
         UNCHANGED <<cr, abandoned>>
  PROVE  Accounted'
BY DEF ReconcilerInv, Accounted, Recording, Unrecorded, Return, Forget, Goto

\* What a release leaves behind is what a misread error hides.
LEMMA ReleaseOverlooks ==
  ASSUME ReconcilerInv, NEW w \in Replicas, RemoveFinalizer(w)
  PROVE  cr.exists /\ live \ abandoned \subseteq Overlooked(w)
<1>1. pc[w] = "decide" /\ Absent(w) /\ fresh[w]
  BY DEF RemoveFinalizer, ReleaseDue
<1>2. mem[w] = cr /\ \A v \in Replicas : ~Creating(v)
  BY <1>1, WriterSeesNoCreation
<1>3. cr.exists /\ (seen[w] = "absent" => cr.name \notin live)
  BY <1>1, <1>2 DEF ReconcilerInv, WorkingCopies
<1>4. live \ abandoned \subseteq {cr.name}
  BY <1>2, AccountedAtRest
<1> QED BY <1>1, <1>2, <1>3, <1>4 DEF Absent, Overlooked

\* While a replica is about to create, what is managed is what a misread error
\* hid from it.
LEMMA CreateOverlooks ==
  ASSUME ReconcilerInv, NEW w \in Replicas, pc[w] = "create"
  PROVE  cr.exists /\ live \ abandoned \subseteq Overlooked(w)
<1>1. Creating(w) /\ ~Recording(w)
  BY DEF Creating, Recording
<1> QED BY <1>1, AccountedToCreator DEF ReconcilerInv, CreationGuarded, Overlooked

\* Every step of one replica preserves the invariant.
LEMMA InvReplica ==
  ASSUME ReconcilerInv, NEW w \in Replicas, ReplicaNext(w)
  PROVE  ReconcilerInv'
<1>0. ReconcilerTypeOK'
  BY TypeReplica DEF ReconcilerInv
<1>1. CASE Sync(w)
  <2>1. CopiesTrue'
    BY <1>1 DEF ReconcilerInv, ReconcilerTypeOK, CopiesTrue, Sync
  <2>2. NamesUsed'
    BY <1>1 DEF ReconcilerInv, NamesUsed, Sync
  <2>3. WorkingCopies'
    BY <1>1 DEF ReconcilerInv, WorkingCopies, Sync
  <2>4. CreationGuarded'
    BY <1>1 DEF ReconcilerInv, ReconcilerTypeOK, CreationGuarded, Creating, Recording, Goto,
       Sync
  <2>5. Accounted'
    BY <1>1 DEF ReconcilerInv, ReconcilerTypeOK, Accounted, Unrecorded, Recording, Goto, Sync
  <2> QED BY <1>0, <2>1, <2>2, <2>3, <2>4, <2>5 DEF ReconcilerInv
<1>2. CASE Begin(w)
  <2>1. CopiesTrue'
    BY <1>2 DEF ReconcilerInv, ReconcilerTypeOK, CopiesTrue, Goto, Begin
  <2>2. NamesUsed'
    BY <1>2 DEF ReconcilerInv, ReconcilerTypeOK, NamesUsed, Gone, Begin
  <2>3. WorkingCopies'
    BY <1>2 DEF ReconcilerInv, ReconcilerTypeOK, WorkingCopies, Goto, Begin
  <2>4. CreationGuarded'
    BY <1>2 DEF ReconcilerInv, ReconcilerTypeOK, CreationGuarded, Creating, Recording, Goto,
       Begin
  <2>5. Accounted'
    BY <1>2 DEF ReconcilerInv, ReconcilerTypeOK, Accounted, Unrecorded, Recording, Goto, Begin
  <2> QED BY <1>0, <2>1, <2>2, <2>3, <2>4, <2>5 DEF ReconcilerInv
<1>3. CASE Observe(w)
  <2>1. CopiesTrue'
    BY <1>3 DEF ReconcilerInv, ReconcilerTypeOK, CopiesTrue, Goto, Observe, Reports
  <2>2. NamesUsed'
    BY <1>3 DEF ReconcilerInv, ReconcilerTypeOK, NamesUsed, Gone, Observe, Reports
  <2>3. WorkingCopies'
    BY <1>3 DEF ReconcilerInv, ReconcilerTypeOK, WorkingCopies, Goto, Observe, Reports
  <2>4. CreationGuarded'
    BY <1>3 DEF ReconcilerInv, ReconcilerTypeOK, CreationGuarded, Creating, Recording, Goto,
       Observe, Reports
  <2>5. Accounted'
    BY <1>3 DEF ReconcilerInv, ReconcilerTypeOK, Accounted, Unrecorded, Recording, Goto,
       Observe, Reports
  <2> QED BY <1>0, <2>1, <2>2, <2>3, <2>4, <2>5 DEF ReconcilerInv
<1>4. CASE AddFinalizer(w)
  <2>1. CopiesTrue'
    BY <1>4 DEF ReconcilerInv, ReconcilerTypeOK, CopiesTrue, Goto, AddFinalizer, Write,
       FinalizerDue, Alive
  <2>2. NamesUsed'
    BY <1>4 DEF ReconcilerInv, ReconcilerTypeOK, NamesUsed, Gone, AddFinalizer, Write,
       FinalizerDue, Alive
  <2>3. WorkingCopies'
    BY <1>4 DEF ReconcilerInv, ReconcilerTypeOK, WorkingCopies, Goto, CreateIncomplete,
       CopiesTrue, NamesUsed, Resources, AddFinalizer, Write, FinalizerDue, Alive
  <2>4. CreationGuarded'
    BY <1>4, WriterSeesNoCreation DEF ReconcilerInv, ReconcilerTypeOK, CreationGuarded,
       Creating, Recording, Goto, AddFinalizer, Write, FinalizerDue, Alive
  <2>5. Accounted'
    BY <1>4, WriterSeesNoCreation, AccountedAtRest, AccountedToCreator DEF ReconcilerInv,
       ReconcilerTypeOK, Accounted, Unrecorded, Recording, Goto, AddFinalizer, Write,
       FinalizerDue, Alive
  <2> QED BY <1>0, <2>1, <2>2, <2>3, <2>4, <2>5 DEF ReconcilerInv
<1>5. CASE MarkPending(w)
  <2>1. CopiesTrue'
    BY <1>5 DEF ReconcilerInv, ReconcilerTypeOK, CopiesTrue, Goto, MarkPending, Write,
       CreateDue, Absent, Alive
  <2>2. NamesUsed'
    BY <1>5 DEF ReconcilerInv, ReconcilerTypeOK, NamesUsed, Gone, MarkPending, Write,
       CreateDue, Absent, Alive
  <2>3. WorkingCopies'
    BY <1>5 DEF ReconcilerInv, ReconcilerTypeOK, WorkingCopies, Goto, MarkPending, Write,
       CreateDue, Absent, Alive
  <2>4. CreationGuarded'
    BY <1>5, WriterSeesNoCreation DEF ReconcilerInv, ReconcilerTypeOK, CreationGuarded,
       Creating, Recording, Goto, CreateIncomplete, CopiesTrue, NamesUsed, WorkingCopies,
       Resources, Names, MarkPending, Write, CreateDue, Absent, Alive
  <2>5. Accounted'
    BY <1>5, WriterSeesNoCreation, AccountedAtRest, AccountedToCreator DEF ReconcilerInv,
       ReconcilerTypeOK, Accounted, Unrecorded, Recording, Goto, MarkPending, Write,
       CreateDue, Absent, Alive
  <2> QED BY <1>0, <2>1, <2>2, <2>3, <2>4, <2>5 DEF ReconcilerInv
<1>6. CASE RemoveFinalizer(w)
  <2>1. CopiesTrue'
    BY <1>6 DEF ReconcilerInv, ReconcilerTypeOK, CopiesTrue, Goto, RemoveFinalizer, Store,
       Forget, ReleaseDue
  <2>2. NamesUsed'
    BY <1>6 DEF ReconcilerInv, ReconcilerTypeOK, NamesUsed, Gone, RemoveFinalizer, Store,
       Forget, ReleaseDue
  <2>3. WorkingCopies'
    BY <1>6 DEF ReconcilerInv, ReconcilerTypeOK, WorkingCopies, Goto, RemoveFinalizer, Store,
       Forget, ReleaseDue
  <2>4. CreationGuarded'
    BY <1>6, WriterSeesNoCreation DEF ReconcilerInv, ReconcilerTypeOK, CreationGuarded,
       Creating, Recording, Goto, RemoveFinalizer, Store, Forget, ReleaseDue
  <2>5. Accounted'
    <3>1. live \ abandoned \subseteq Overlooked(w)
      BY <1>6, ReleaseOverlooks
    <3> QED BY <1>6, <3>1 DEF Accounted, RemoveFinalizer
  <2> QED BY <1>0, <2>1, <2>2, <2>3, <2>4, <2>5 DEF ReconcilerInv
<1>7. CASE Conflict(w)
  <2>1. CopiesTrue' /\ NamesUsed' /\ WorkingCopies' /\ CreationGuarded'
    BY <1>7, ReturnKeeps DEF Conflict
  <2>2. ~Recording(w)
    BY <1>7, StepsAssumption DEF Conflict, FinalizerDue, CreateDue, ReleaseDue, Alive,
       Recording, ReconcilerSteps
  <2>3. Accounted'
    BY <1>7, <2>2, ReturnAccounts DEF Conflict
  <2> QED BY <1>0, <2>1, <2>3 DEF ReconcilerInv
<1>8. CASE Rest(w)
  <2>1. CopiesTrue' /\ NamesUsed' /\ WorkingCopies' /\ CreationGuarded'
    BY <1>8, ReturnKeeps DEF Rest
  <2>2. ~Recording(w)
    BY <1>8, StepsAssumption DEF Rest, NothingDue, Alive, Recording, ReconcilerSteps
  <2>3. Accounted'
    BY <1>8, <2>2, ReturnAccounts DEF Rest
  <2> QED BY <1>0, <2>1, <2>3 DEF ReconcilerInv
<1>9. ASSUME NEW id \in Ids, CreateAnswered(w, id) PROVE ReconcilerInv'
  <2>1. CopiesTrue'
    BY <1>9 DEF ReconcilerInv, ReconcilerTypeOK, CopiesTrue, Goto, CreateAnswered
  <2>2. NamesUsed'
    BY <1>9 DEF ReconcilerInv, ReconcilerTypeOK, NamesUsed, Gone, CreateAnswered
  <2>3. WorkingCopies'
    BY <1>9, NamesAssumption DEF ReconcilerInv, ReconcilerTypeOK, NamesUsed, WorkingCopies,
       Goto, CreateAnswered
  <2>4. CreationGuarded'
    BY <1>9, NamesAssumption, WriterSeesNoCreation DEF ReconcilerInv, ReconcilerTypeOK,
       NamesUsed, CreationGuarded, Creating, Recording, Goto, CreateAnswered, Overlooked
  <2>5. Accounted'
    BY <1>9, CreateOverlooks, WriterSeesNoCreation DEF ReconcilerInv, ReconcilerTypeOK, Accounted, Unrecorded,
       Recording, Goto, Creating, CreationGuarded, CreateAnswered
  <2> QED BY <1>0, <2>1, <2>2, <2>3, <2>4, <2>5 DEF ReconcilerInv
<1>10. ASSUME NEW id \in Ids, CreateReplyLost(w, id) PROVE ReconcilerInv'
  <2>1. CopiesTrue'
    BY <1>10 DEF ReconcilerInv, ReconcilerTypeOK, CopiesTrue, Goto, CreateReplyLost, Disturb
  <2>2. NamesUsed'
    BY <1>10 DEF ReconcilerInv, ReconcilerTypeOK, NamesUsed, Gone, CreateReplyLost, Disturb
  <2>3. WorkingCopies'
    BY <1>10, NamesAssumption DEF ReconcilerInv, ReconcilerTypeOK, NamesUsed, WorkingCopies,
       Goto, CreateReplyLost, Disturb
  <2>4. CreationGuarded'
    BY <1>10, NamesAssumption, WriterSeesNoCreation DEF ReconcilerInv, ReconcilerTypeOK,
       NamesUsed, CreationGuarded, Creating, Recording, Goto, CreateReplyLost, Disturb
  <2>5. Accounted'
    BY <1>10 DEF ReconcilerInv, ReconcilerTypeOK, Accounted, Unrecorded, Recording, Goto,
       CreateReplyLost, Disturb
  <2> QED BY <1>0, <2>1, <2>2, <2>3, <2>4, <2>5 DEF ReconcilerInv
<1>11. CASE CreateRefused(w)
  <2>1. CopiesTrue'
    BY <1>11 DEF ReconcilerInv, ReconcilerTypeOK, CopiesTrue, Goto, CreateRefused, Disturb
  <2>2. NamesUsed'
    BY <1>11 DEF ReconcilerInv, ReconcilerTypeOK, NamesUsed, Gone, CreateRefused, Disturb
  <2>3. WorkingCopies'
    BY <1>11 DEF ReconcilerInv, ReconcilerTypeOK, WorkingCopies, Goto, CreateRefused, Disturb
  <2>4. CreationGuarded'
    BY <1>11 DEF ReconcilerInv, ReconcilerTypeOK, CreationGuarded, Creating, Recording, Goto,
       CreateRefused, Disturb
  <2>5. Accounted'
    BY <1>11 DEF ReconcilerInv, ReconcilerTypeOK, Accounted, Unrecorded, Recording, Goto,
       CreateRefused, Disturb
  <2> QED BY <1>0, <2>1, <2>2, <2>3, <2>4, <2>5 DEF ReconcilerInv
<1>12. CASE CreateReturns(w)
  <2>1. CopiesTrue'
    BY <1>12 DEF ReconcilerInv, ReconcilerTypeOK, CopiesTrue, Goto, CreateReturns
  <2>2. NamesUsed'
    BY <1>12 DEF ReconcilerInv, ReconcilerTypeOK, NamesUsed, Gone, CreateReturns
  <2>3. WorkingCopies'
    BY <1>12 DEF ReconcilerInv, ReconcilerTypeOK, WorkingCopies, Goto, CreateReturns
  <2>4. CreationGuarded'
    BY <1>12 DEF ReconcilerInv, ReconcilerTypeOK, CreationGuarded, Creating, Recording, Goto,
       CreateReturns
  <2>5. Accounted'
    BY <1>12 DEF ReconcilerInv, ReconcilerTypeOK, Accounted, Unrecorded, Recording, Goto,
       CreateReturns
  <2> QED BY <1>0, <2>1, <2>2, <2>3, <2>4, <2>5 DEF ReconcilerInv
<1>13. CASE Record(w)
  <2>1. CopiesTrue'
    BY <1>13 DEF ReconcilerInv, ReconcilerTypeOK, CopiesTrue, Goto, Record, Store, Forget
  <2>2. NamesUsed'
    BY <1>13 DEF ReconcilerInv, ReconcilerTypeOK, NamesUsed, Gone, Record, Store, Forget
  <2>3. WorkingCopies'
    BY <1>13 DEF ReconcilerInv, ReconcilerTypeOK, WorkingCopies, Goto, Record, Store, Forget
  <2>4. CreationGuarded'
    BY <1>13 DEF ReconcilerInv, ReconcilerTypeOK, CreationGuarded, Creating, Recording, Goto,
       Record, Store, Forget
  <2>5. Accounted'
    BY <1>13, WriterSeesNoCreation DEF ReconcilerInv, ReconcilerTypeOK, Accounted, Unrecorded,
       Recording, Goto, Creating, CreationGuarded, Record, Store, Forget
  <2> QED BY <1>0, <2>1, <2>2, <2>3, <2>4, <2>5 DEF ReconcilerInv
<1>14. CASE ClientCall(w)
  <2>1. ~Creating(w)
    BY <1>14, StepsAssumption DEF ClientCall, UpdateDue, DeleteDue, Alive, Creating,
       Recording, ReconcilerSteps
  <2>2. CASE Return(w)
    <3>1. CopiesTrue' /\ NamesUsed' /\ WorkingCopies' /\ CreationGuarded'
      BY <1>14, <2>2, ReturnKeeps DEF ClientCall
    <3>2. Accounted'
      BY <1>14, <2>1, <2>2, ReturnAccounts DEF ClientCall, Creating
    <3> QED BY <1>0, <3>1, <3>2 DEF ReconcilerInv
  <2>3. ASSUME NEW step \in ClientSteps, Goto(w, step), UNCHANGED <<mem, fresh, seen>>
        PROVE  ReconcilerInv'
    <3>1. step \notin ReconcilerSteps
      BY StepsAssumption
    <3>2. CopiesTrue' /\ NamesUsed'
      BY <1>14, <2>3, <3>1 DEF ClientCall, ReconcilerInv, ReconcilerTypeOK, CopiesTrue,
         NamesUsed, WorkingCopies, CreationGuarded, Accounted, Creating, Recording,
         Unrecorded, ReconcilerSteps, Goto
    <3>3. WorkingCopies'
      BY <1>14, <2>3, <3>1 DEF ClientCall, ReconcilerInv, ReconcilerTypeOK, CopiesTrue,
         NamesUsed, WorkingCopies, CreationGuarded, Accounted, Creating, Recording,
         Unrecorded, ReconcilerSteps, Goto
    <3>4. CreationGuarded' /\ Accounted'
      BY <1>14, <2>1, <2>3, <3>1 DEF ClientCall, ReconcilerInv, ReconcilerTypeOK, CopiesTrue,
         NamesUsed, WorkingCopies, CreationGuarded, Accounted, Creating, Recording,
         Unrecorded, ReconcilerSteps, Goto
    <3> QED BY <1>0, <3>2, <3>3, <3>4 DEF ReconcilerInv
  <2> QED BY <1>14, <2>2, <2>3 DEF ClientCall
<1>15. CASE RemoveComponent(w)
  <2>1. CopiesTrue' /\ NamesUsed' /\ WorkingCopies' /\ CreationGuarded'
    BY <1>15, ReturnKeeps DEF RemoveComponent
  <2>2. ~Recording(w)
    BY <1>15, StepsAssumption DEF RemoveComponent, DeleteDue, Recording, ReconcilerSteps
  <2>3. Accounted'
    BY <1>15, <2>2, ReturnAccounts DEF RemoveComponent
  <2> QED BY <1>0, <2>1, <2>3 DEF ReconcilerInv
<1>16. CASE Crash(w)
  <2>1. CopiesTrue' /\ NamesUsed' /\ WorkingCopies' /\ CreationGuarded'
    BY <1>16, ReturnKeeps DEF Crash
  <2>2. Accounted'
    BY <1>16 DEF ReconcilerInv, ReconcilerTypeOK, Accounted, Unrecorded, Recording, Goto,
       Crash, Return, Forget
  <2> QED BY <1>0, <2>1, <2>2 DEF ReconcilerInv
<1> QED
  BY <1>1, <1>2, <1>3, <1>4, <1>5, <1>6, <1>7, <1>8, <1>9, <1>10, <1>11, <1>12, <1>13, <1>14,
     <1>15, <1>16 DEF ReplicaNext

\* Every step preserves the invariant.
LEMMA InvStep == ReconcilerInv /\ [ReconcilerNext]_rvars => ReconcilerInv'
<1> SUFFICES ASSUME ReconcilerInv, [ReconcilerNext]_rvars PROVE ReconcilerInv'
  OBVIOUS
<1>0. ReconcilerTypeOK'
  BY TypeStep DEF ReconcilerInv
<1>1. ASSUME NEW w \in Replicas, ReplicaNext(w) PROVE ReconcilerInv'
  BY <1>1, InvReplica
<1>2. ASSUME NEW s \in Specs, UserEdit(s) PROVE ReconcilerInv'
  <2>1. CopiesTrue'
    BY <1>2 DEF ReconcilerInv, ReconcilerTypeOK, CopiesTrue, Goto, UserEdit, Store, Disturb
  <2>2. NamesUsed'
    BY <1>2 DEF ReconcilerInv, ReconcilerTypeOK, NamesUsed, Gone, UserEdit, Store, Disturb
  <2>3. WorkingCopies'
    BY <1>2 DEF ReconcilerInv, ReconcilerTypeOK, WorkingCopies, Goto, UserEdit, Store, Disturb
  <2>4. CreationGuarded'
    BY <1>2, WriterSeesNoCreation DEF ReconcilerInv, ReconcilerTypeOK, CreationGuarded,
       Creating, Recording, Goto, CreateIncomplete, CopiesTrue, UserEdit, Store, Disturb
  <2>5. Accounted'
    BY <1>2 DEF ReconcilerInv, ReconcilerTypeOK, Accounted, Unrecorded, Recording, Goto,
       UserEdit, Store, Disturb
  <2> QED BY <1>0, <2>1, <2>2, <2>3, <2>4, <2>5 DEF ReconcilerInv
<1>3. CASE UserDelete
  <2>1. CopiesTrue'
    BY <1>3 DEF ReconcilerInv, ReconcilerTypeOK, CopiesTrue, Goto, UserDelete, Store
  <2>2. NamesUsed'
    BY <1>3 DEF ReconcilerInv, ReconcilerTypeOK, NamesUsed, Gone, UserDelete, Store
  <2>3. WorkingCopies'
    BY <1>3 DEF ReconcilerInv, ReconcilerTypeOK, WorkingCopies, Goto, UserDelete, Store
  <2>4. CreationGuarded'
    BY <1>3, WriterSeesNoCreation DEF ReconcilerInv, ReconcilerTypeOK, CreationGuarded,
       Creating, Recording, Goto, CreateIncomplete, CopiesTrue, UserDelete, Store
  <2>5. Accounted'
    BY <1>3, WriterSeesNoCreation DEF ReconcilerInv, ReconcilerTypeOK, Accounted, Unrecorded,
       Recording, Goto, Creating, CreationGuarded, UserDelete, Store
  <2> QED BY <1>0, <2>1, <2>2, <2>3, <2>4, <2>5 DEF ReconcilerInv
<1>4. ASSUME NEW id \in Ids, ForeignDelete(id) PROVE ReconcilerInv'
  <2>1. CopiesTrue'
    BY <1>4 DEF ReconcilerInv, ReconcilerTypeOK, CopiesTrue, Goto, ForeignDelete, Disturb
  <2>2. NamesUsed'
    BY <1>4 DEF ReconcilerInv, ReconcilerTypeOK, NamesUsed, Gone, ForeignDelete, Disturb
  <2>3. WorkingCopies'
    BY <1>4 DEF ReconcilerInv, ReconcilerTypeOK, WorkingCopies, Goto, ForeignDelete, Disturb
  <2>4. CreationGuarded'
    BY <1>4 DEF ReconcilerInv, ReconcilerTypeOK, CreationGuarded, Creating, Recording, Goto,
       ForeignDelete, Disturb
  <2>5. Accounted'
    BY <1>4 DEF ReconcilerInv, ReconcilerTypeOK, Accounted, Unrecorded, Recording, Goto,
       ForeignDelete, Disturb
  <2> QED BY <1>0, <2>1, <2>2, <2>3, <2>4, <2>5 DEF ReconcilerInv
<1>5. CASE ForeignChange \/ UNCHANGED rvars
  <2>1. CopiesTrue' /\ NamesUsed' /\ WorkingCopies' /\ CreationGuarded' /\ Accounted'
    BY <1>5 DEF ReconcilerInv, ReconcilerTypeOK, CopiesTrue, NamesUsed, WorkingCopies,
       CreationGuarded, Accounted, Creating, Recording, Unrecorded, CreateIncomplete,
       ReconcilerSteps, Goto, Resources, Names, Gone, ForeignChange, rvars
  <2> QED BY <1>0, <2>1 DEF ReconcilerInv
<1> QED BY <1>1, <1>2, <1>3, <1>4, <1>5 DEF ReconcilerNext

\* The inductive invariant always holds.
THEOREM InvCorrect == ReconcilerSpec => []ReconcilerInv
BY InvInit, InvStep, PTL DEF ReconcilerSpec

\* A resource never manages two components at once.
THEOREM AtMostOneCorrect == ReconcilerSpec => []AtMostOneManaged
BY InvCorrect, InvImpliesAtMostOne, PTL

\* No component is forgotten but by a crash, a lost reply or a resource that
\* was never taken over.
THEOREM AccountedCorrect == ReconcilerSpec => []Accounted
<1>1. ReconcilerInv => Accounted
  BY DEF ReconcilerInv
<1> QED BY <1>1, InvCorrect, PTL

-----------------------------------------------------------------------------
(* The loop implements the abstract specification of one resource *)

\* The initial states are initial states of the abstract specification.
LEMMA LifecycleInitially == ReconcilerInit => Lifecycle!LifecycleInit
<1> SUFFICES ASSUME ReconcilerInit PROVE Lifecycle!LifecycleInit
  OBVIOUS
<1>1. PICK n \in Names : live = {n} \cap Ids /\ cr.exists
  BY DEF ReconcilerInit, Gone
<1>2. abandoned = {}
  BY DEF ReconcilerInit
<1>3. live = {} \/ \E id \in Ids : live = {id}
  BY <1>1 DEF Names
<1> QED BY <1>1, <1>2, <1>3 DEF Lifecycle!LifecycleInit

\* A component that goes is the managed one or was none of the resource's.
LEMMA LosingOne ==
  ASSUME ReconcilerInv, NEW id, live' = live \ {id}, UNCHANGED <<cr, abandoned>>
  PROVE  [Lifecycle!LifecycleNext]_(Lifecycle!lifecycle)
<1>1. AtMostOneManaged
  BY InvImpliesAtMostOne
<1>2. CASE id \in live \ abandoned
  <2>1. live \ abandoned = {id} /\ live' \ abandoned' = {}
    BY <1>1, <1>2 DEF AtMostOneManaged
  <2> QED BY <2>1 DEF Lifecycle!LifecycleNext, Lifecycle!Vanish
<1>3. CASE id \notin live \ abandoned
  <2>1. live' \ abandoned' = live \ abandoned
    BY <1>3
  <2> QED BY <2>1 DEF Lifecycle!lifecycle
<1> QED BY <1>2, <1>3

\* A step that only loses track of what was managed, if anything was.
LEMMA LosingTrack ==
  ASSUME ReconcilerInv, cr.exists, cr'.exists \in BOOLEAN, UNCHANGED live,
         NEW lost \in SUBSET live, abandoned' = abandoned \cup lost,
         cr'.exists \/ live \ abandoned \subseteq lost
  PROVE  [Lifecycle!LifecycleNext]_(Lifecycle!lifecycle)
<1>1. AtMostOneManaged
  BY InvImpliesAtMostOne
<1>2. CASE lost \subseteq abandoned
  <2>1. abandoned' = abandoned /\ live' \ abandoned' = live \ abandoned
    BY <1>2
  <2>2. CASE cr'.exists
    BY <2>1, <2>2 DEF Lifecycle!lifecycle
  <2>3. CASE ~cr'.exists
    BY <1>2, <2>1, <2>3 DEF Lifecycle!LifecycleNext, Lifecycle!Finish
  <2> QED BY <2>2, <2>3
<1>3. ASSUME NEW id \in lost, id \notin abandoned
      PROVE  [Lifecycle!LifecycleNext]_(Lifecycle!lifecycle)
  <2>1. live \ abandoned = {id} /\ id \in Ids
    BY <1>1, <1>3 DEF AtMostOneManaged, ReconcilerInv, ReconcilerTypeOK
  <2>2. /\ abandoned' = abandoned \cup {id}
        /\ live' \ abandoned' = {} /\ (live \ abandoned) \ {id} = {}
    BY <1>3, <2>1
  <2>3. Lifecycle!Abandon
    BY <1>3, <2>1, <2>2 DEF Lifecycle!Abandon
  <2> QED BY <2>3 DEF Lifecycle!LifecycleNext
<1> QED BY <1>2, <1>3

\* Every step of one replica is a step of the abstract specification, or none.
LEMMA LifecycleReplica ==
  ASSUME ReconcilerInv, NEW w \in Replicas, ReplicaNext(w)
  PROVE  [Lifecycle!LifecycleNext]_(Lifecycle!lifecycle)
<1>1. CASE Sync(w) \/ Begin(w) \/ Observe(w) \/ Conflict(w) \/ Rest(w)
           \/ CreateRefused(w) \/ CreateReturns(w) \/ ClientCall(w)
  BY <1>1 DEF Lifecycle!lifecycle, Sync, Begin, Observe, Conflict, Rest, CreateRefused,
              CreateReturns, ClientCall
<1>2. CASE AddFinalizer(w)
  <2>1. mem[w] = cr
    BY <1>2, WriterSeesNoCreation DEF AddFinalizer, FinalizerDue, Alive, Write
  <2> QED BY <1>2, <2>1 DEF AddFinalizer, Write, Lifecycle!lifecycle
<1>3. CASE MarkPending(w)
  <2>1. mem[w] = cr
    BY <1>3, WriterSeesNoCreation DEF MarkPending, CreateDue, Alive, Write
  <2> QED BY <1>3, <2>1 DEF MarkPending, Write, Lifecycle!lifecycle
<1>4. CASE RemoveFinalizer(w)
  <2>1. cr.exists /\ live \ abandoned \subseteq Overlooked(w)
    BY <1>4, ReleaseOverlooks
  <2>2. Overlooked(w) \in SUBSET live
    BY DEF Overlooked
  <2>3. cr'.exists = FALSE /\ live' = live /\ abandoned' = abandoned \cup Overlooked(w)
    BY <1>4 DEF RemoveFinalizer, Store, Gone
  <2> QED BY <2>1, <2>2, <2>3, LosingTrack
<1>5. ASSUME NEW id \in Ids, CreateAnswered(w, id)
      PROVE  [Lifecycle!LifecycleNext]_(Lifecycle!lifecycle)
  <2>1. cr.exists /\ live \ abandoned \subseteq Overlooked(w)
    BY <1>5, CreateOverlooks DEF CreateAnswered
  <2>2. /\ id \notin live \cup abandoned /\ cr' = cr
        /\ live' = live \cup {id} /\ abandoned' = abandoned \cup Overlooked(w)
    BY <1>5 DEF CreateAnswered, ReconcilerInv, ReconcilerTypeOK
  <2>3. Overlooked(w) \subseteq live
    BY DEF Overlooked
  <2>4. live' \ abandoned' = {id} /\ abandoned' = abandoned \cup (live \ abandoned)
    BY <2>1, <2>2, <2>3
  <2>5. Lifecycle!Provision
    BY <2>1, <2>2, <2>4 DEF Lifecycle!Provision
  <2> QED BY <2>5 DEF Lifecycle!LifecycleNext
<1>6. ASSUME NEW id \in Ids, CreateReplyLost(w, id)
      PROVE  [Lifecycle!LifecycleNext]_(Lifecycle!lifecycle)
  <2>1. cr.exists
    BY <1>6, CreateOverlooks DEF CreateReplyLost
  <2>2. /\ id \notin live \cup abandoned /\ cr' = cr
        /\ live' = live \cup {id} /\ abandoned' = abandoned \cup {id}
    BY <1>6 DEF CreateReplyLost, ReconcilerInv, ReconcilerTypeOK
  <2>3. live' \ abandoned' = (live \ abandoned) \ {id}
    BY <2>2
  <2>4. Lifecycle!Abandon
    BY <2>1, <2>2, <2>3 DEF Lifecycle!Abandon
  <2> QED BY <2>4 DEF Lifecycle!LifecycleNext
<1>7. CASE Record(w)
  BY <1>7 DEF Record, Store, Lifecycle!lifecycle, ReconcilerInv, ReconcilerTypeOK, Resources
<1>8. CASE RemoveComponent(w)
  BY <1>8, LosingOne DEF RemoveComponent
<1>9. CASE Crash(w)
  <2>1. CASE Recording(w)
    <3>1. cr.exists
      BY <2>1 DEF ReconcilerInv, CreationGuarded, Creating
    <3>2. cr' = cr /\ live' = live /\ abandoned' = abandoned \cup (Unrecorded(w) \cap live)
      BY <1>9 DEF Crash
    <3> QED BY <3>1, <3>2, LosingTrack
  <2>2. CASE ~Recording(w)
    BY <1>9, <2>2 DEF Crash, Unrecorded, Lifecycle!lifecycle
  <2> QED BY <2>1, <2>2
<1> QED
  BY <1>1, <1>2, <1>3, <1>4, <1>5, <1>6, <1>7, <1>8, <1>9 DEF ReplicaNext

\* So is every step of the loop.
LEMMA LifecycleStep ==
  ReconcilerInv /\ [ReconcilerNext]_rvars => [Lifecycle!LifecycleNext]_(Lifecycle!lifecycle)
<1> SUFFICES ASSUME ReconcilerInv, [ReconcilerNext]_rvars
             PROVE  [Lifecycle!LifecycleNext]_(Lifecycle!lifecycle)
  OBVIOUS
<1>1. ASSUME NEW w \in Replicas, ReplicaNext(w)
      PROVE  [Lifecycle!LifecycleNext]_(Lifecycle!lifecycle)
  BY <1>1, LifecycleReplica
<1>2. ASSUME NEW s \in Specs, UserEdit(s)
      PROVE  [Lifecycle!LifecycleNext]_(Lifecycle!lifecycle)
  BY <1>2 DEF UserEdit, Store, Lifecycle!lifecycle, ReconcilerInv, ReconcilerTypeOK, Resources
<1>3. CASE UserDelete
  <2>1. CASE cr.finalizer
    BY <1>3, <2>1
    DEF UserDelete, Store, Lifecycle!lifecycle, ReconcilerInv, ReconcilerTypeOK, Resources
  <2>2. CASE ~cr.finalizer
    <3>1. \A v \in Replicas : ~Creating(v)
      BY <2>2 DEF ReconcilerInv, CreationGuarded
    <3>2. live \ abandoned \subseteq {cr.name} \cap live
      BY <3>1, AccountedAtRest
    <3>3. /\ cr.exists /\ cr'.exists = FALSE /\ live' = live
          /\ abandoned' = abandoned \cup ({cr.name} \cap live)
      BY <1>3, <2>2 DEF UserDelete, Store, Gone
    <3> QED BY <3>2, <3>3, LosingTrack
  <2> QED BY <2>1, <2>2
<1>4. ASSUME NEW id \in Ids, ForeignDelete(id)
      PROVE  [Lifecycle!LifecycleNext]_(Lifecycle!lifecycle)
  BY <1>4, LosingOne DEF ForeignDelete
<1>5. CASE ForeignChange \/ UNCHANGED rvars
  BY <1>5 DEF ForeignChange, rvars, Lifecycle!lifecycle
<1> QED BY <1>1, <1>2, <1>3, <1>4, <1>5 DEF ReconcilerNext

\* The reconcile loop, over any client that keeps its contract, implements
\* ManagedComponent: whatever the interleaving, the caches, the crashes and the
\* lost replies, a resource goes through its life one component at a time.
THEOREM LifecycleCorrect == ReconcilerSpec => LifecycleRefined
<1>1. ReconcilerInit => Lifecycle!LifecycleInit
  BY LifecycleInitially
<1>2. ReconcilerInv /\ [ReconcilerNext]_rvars
        => [Lifecycle!LifecycleNext]_(Lifecycle!lifecycle)
  BY LifecycleStep
<1> QED
  BY <1>1, <1>2, InvCorrect, PTL
  DEF ReconcilerSpec, LifecycleRefined, Lifecycle!LifecycleSpec

-----------------------------------------------------------------------------
(* A resource whose component nobody but the provider removes *)

\* Replica v is where it was, with what it was told of the component, the name
\* and the spec it knows.
Stays(v) == /\ pc'[v] = pc[v]
            /\ seen'[v] = seen[v]
            /\ mem'[v].name = mem[v].name
            /\ mem'[v].spec = mem[v].spec
            /\ mem'[v].deleting = mem[v].deleting

\* Where a replica is, and the copy it works on, is its own affair.
LEMMA OthersStay ==
  ASSUME ReconcilerTypeOK, NEW w \in Replicas, NEW v \in Replicas, v # w, ReplicaNext(w)
  PROVE  Stays(v)
<1> USE DEF Stays
<1>1. CASE Sync(w) \/ Begin(w) \/ Observe(w) \/ AddFinalizer(w) \/ MarkPending(w)
  BY <1>1 DEF ReconcilerTypeOK, Sync, Begin, Observe, AddFinalizer, MarkPending, Write, Goto
<1>2. CASE RemoveFinalizer(w) \/ Conflict(w) \/ Rest(w) \/ Record(w) \/ Crash(w)
  BY <1>2 DEF ReconcilerTypeOK, RemoveFinalizer, Conflict, Rest, Record, Crash, Return, Forget,
     Goto
<1>3. CASE (\E id \in Ids : CreateAnswered(w, id) \/ CreateReplyLost(w, id))
           \/ CreateRefused(w) \/ CreateReturns(w)
  BY <1>3 DEF ReconcilerTypeOK, CreateAnswered, CreateReplyLost, CreateRefused, CreateReturns,
     Goto
<1>4. CASE ClientCall(w) \/ RemoveComponent(w)
  BY <1>4 DEF ReconcilerTypeOK, ClientCall, RemoveComponent, Return, Forget, Goto
<1> QED BY <1>1, <1>2, <1>3, <1>4 DEF ReplicaNext

\* What happens to it: nobody edits it, nor reaches past it into NiFi, and an
\* error is misread, if at all, once it is being deleted.
Alone == \/ \E w \in Replicas : /\ ReplicaNext(w)
                               /\ (seen[w] = "misread" => mem[w].deleting)'
         \/ UserDelete

\* If it took a component over, that component is there until the resource is
\* deleted, none is ever created, none lost but with the resource, and no copy
\* has been told of a deletion that is not final.
Kept ==
  /\ cr.deleting => cr.exists
  /\ cr.exists => abandoned = {}
  /\ cr.exists /\ ~cr.deleting => cr.name \in live
  /\ \A w \in Replicas : /\ ~Creating(w)
                         /\ cache[w].deleting \/ mem[w].deleting => cr.deleting \/ ~cr.exists
                         /\ seen[w] = "misread" => mem[w].deleting

\* What a step of replica w then does to the resource, its component and the
\* copies.
KeepsTo(w) ==
  /\ \/ cr' = cr /\ live' = live /\ abandoned' = abandoned
     \/ /\ cr' = cr /\ abandoned' = abandoned
        /\ mem[w].deleting /\ live' = live \ {mem[w].name}
     \/ /\ cr.exists /\ ~cr.deleting /\ cr' = [cr EXCEPT !.finalizer = TRUE]
        /\ live' = live /\ abandoned' = abandoned
     \/ /\ cr' = Gone /\ live' = live
        /\ abandoned \subseteq abandoned' /\ (cr.name \notin live \/ abandoned' # {})
  /\ \A v \in Replicas :
       /\ ~Creating(v)'
       /\ (seen[v] = "misread" => mem[v].deleting)'
       /\ cache'[v] \in {cache[v], cr}
       /\ \/ mem'[v] = mem[v] /\ (pc[v] = "idle" => pc'[v] = "idle")
          \/ mem'[v] = cache[v] /\ pc[v] = "idle"
          \/ mem'[v] = Gone /\ pc'[v] = "idle"
          \/ ~mem'[v].deleting /\ ~mem[v].deleting /\ pc[v] = "decide"

\* It holds of a resource that names its component when it is written.
LEMMA KeptInitially == ASSUME ReconcilerInit, cr.name # NoName PROVE Kept
<1>1. PICK s \in Specs, n \in Names :
        /\ cr = [Gone EXCEPT !.exists = TRUE, !.name = n, !.spec = s]
        /\ live = {n} \cap Ids
  BY DEF ReconcilerInit
<1>2. cr.exists /\ ~cr.deleting /\ cr.name \in live
  BY <1>1 DEF Gone, Names
<1>3. \A w \in Replicas :
        pc[w] = "idle" /\ cache[w] = cr /\ ~mem[w].deleting /\ seen[w] = "none"
  BY DEF ReconcilerInit, Gone
<1>4. abandoned = {}
  BY DEF ReconcilerInit
<1> QED BY <1>2, <1>3, <1>4 DEF Kept, Creating, Recording

\* While it holds no creation is announced: what is absent is being deleted.
LEMMA NothingToCreate ==
  ASSUME ReconcilerInv, Kept, NEW w \in Replicas
  PROVE  ~MarkPending(w)
<1> SUFFICES ASSUME MarkPending(w) PROVE FALSE
  OBVIOUS
<1>1. pc[w] = "decide" /\ seen[w] = "absent" /\ ~mem[w].deleting /\ fresh[w]
  BY DEF MarkPending, CreateDue, Absent, Alive, Write, Kept
<1>2. mem[w] = cr /\ cr.exists /\ cr.name \notin live
  BY <1>1 DEF ReconcilerInv, CopiesTrue, WorkingCopies
<1> QED BY <1>1, <1>2 DEF Kept

\* A replica that returns forgets its copy.
LEMMA ReturnKeepsTo ==
  ASSUME ReconcilerInv, Kept, NEW w \in Replicas, Return(w), UNCHANGED <<cache, abandoned>>,
         \/ UNCHANGED <<cr, live>>
         \/ cr' = cr /\ mem[w].deleting /\ live' = live \ {mem[w].name}
  PROVE  KeepsTo(w)
<1>1. \A v \in Replicas : ~Creating(v)'
  BY DEF Kept, Return, Forget, Goto, Creating, Recording, ReconcilerInv, ReconcilerTypeOK
<1>2. \A v \in Replicas : \/ mem'[v] = mem[v] /\ pc'[v] = pc[v]
                          \/ mem'[v] = Gone /\ pc'[v] = "idle"
  BY DEF Return, Forget, Goto, ReconcilerInv, ReconcilerTypeOK
<1>3. \A v \in Replicas : (seen[v] = "misread" => mem[v].deleting)'
  BY DEF Kept, Return, Forget, Goto, ReconcilerInv, ReconcilerTypeOK
<1> QED BY <1>1, <1>2, <1>3 DEF KeepsTo

\* Every step of a replica is of that kind.
LEMMA ReplicaKeepsTo ==
  ASSUME ReconcilerInv, Kept, NEW w \in Replicas, ReplicaNext(w),
         (seen[w] = "misread" => mem[w].deleting)'
  PROVE  KeepsTo(w)
<1> USE DEF ReconcilerInv, ReconcilerTypeOK
<1>a. \A v \in Replicas : (seen[v] = "misread" => mem[v].deleting)'
  BY OthersStay DEF Kept, Stays
<1>0. \A v \in Replicas : pc[v] \notin {"create", "created", "recordSuccess", "recordFailure"}
  BY DEF Kept, Creating, Recording
<1>1. CASE Sync(w)
  BY <1>0, <1>a, <1>1 DEF Sync, KeepsTo, Creating, Recording
<1>2. CASE Begin(w)
  BY <1>0, <1>a, <1>2 DEF Begin, Goto, KeepsTo, Creating, Recording
<1>3. CASE Observe(w)
  BY <1>0, <1>a, <1>3 DEF Observe, Goto, KeepsTo, Creating, Recording
<1>4. CASE AddFinalizer(w)
  <2>1. /\ pc[w] = "decide" /\ ~mem[w].deleting /\ fresh[w]
        /\ cr' = [mem[w] EXCEPT !.finalizer = TRUE]
        /\ mem' = [mem EXCEPT ![w] = [mem[w] EXCEPT !.finalizer = TRUE]]
        /\ UNCHANGED <<cache, pc, live, abandoned>>
    BY <1>4 DEF AddFinalizer, FinalizerDue, Alive, Write
  <2>2. mem[w] = cr /\ cr.exists /\ mem[w] \in Resources
    BY <2>1 DEF CopiesTrue, WorkingCopies
  <2>3. ~mem'[w].deleting
    BY <2>1, <2>2 DEF Resources
  <2>4. \A v \in Replicas : v # w => mem'[v] = mem[v]
    BY <2>1
  <2> QED BY <1>0, <1>a, <2>1, <2>2, <2>3, <2>4 DEF KeepsTo, Creating, Recording
<1>5. CASE MarkPending(w)
  BY <1>5, NothingToCreate
<1>6. CASE RemoveFinalizer(w)
  <2>1. /\ pc[w] = "decide" /\ Absent(w) /\ fresh[w]
        /\ cr' = Gone /\ Forget(w)
        /\ abandoned' = abandoned \cup Overlooked(w)
        /\ UNCHANGED <<cache, live>>
    BY <1>6 DEF RemoveFinalizer, ReleaseDue, Store
  <2>2. cr.name \notin live \/ abandoned' # {}
    BY <2>1 DEF CopiesTrue, WorkingCopies, Absent, Overlooked
  <2>3. \A v \in Replicas : \/ mem'[v] = mem[v] /\ pc'[v] = pc[v]
                            \/ mem'[v] = Gone /\ pc'[v] = "idle"
    BY <2>1 DEF Forget, Goto
  <2> QED BY <1>0, <1>a, <2>1, <2>2, <2>3 DEF KeepsTo, Creating, Recording
<1>7. CASE Conflict(w) \/ Rest(w)
  BY <1>7, ReturnKeepsTo DEF Conflict, Rest
<1>8. CASE \/ \E id \in Ids : CreateAnswered(w, id) \/ CreateReplyLost(w, id)
           \/ CreateRefused(w) \/ CreateReturns(w) \/ Record(w)
  BY <1>0, <1>a, <1>8 DEF CreateAnswered, CreateReplyLost, CreateRefused, CreateReturns, Record
<1>9. CASE ClientCall(w)
  <2>1. CASE Return(w)
    BY <1>9, <2>1, ReturnKeepsTo DEF ClientCall
  <2>2. CASE (\E step \in ClientSteps : Goto(w, step)) /\ UNCHANGED mem
    <3>1. PICK step \in ClientSteps : pc' = [pc EXCEPT ![w] = step]
      BY <2>2 DEF Goto
    <3>2. step \notin {"create", "created", "recordSuccess", "recordFailure"}
      BY StepsAssumption DEF ReconcilerSteps
    <3>3. pc[w] # "idle"
      BY <1>9, StepsAssumption DEF ClientCall, UpdateDue, DeleteDue, Alive, ReconcilerSteps
    <3> QED BY <1>0, <1>a, <1>9, <2>2, <3>1, <3>2, <3>3 DEF ClientCall, KeepsTo, Creating, Recording
  <2> QED BY <1>9, <2>1, <2>2 DEF ClientCall
<1>10. CASE RemoveComponent(w)
  <2>1. mem[w].deleting
    BY <1>10 DEF RemoveComponent, DeleteDue
  <2> QED BY <1>10, <2>1, ReturnKeepsTo DEF RemoveComponent
<1>11. CASE Crash(w)
  <2>1. abandoned' = abandoned
    BY <1>0, <1>a, <1>11 DEF Crash, Unrecorded, Recording
  <2> QED BY <1>11, <2>1, ReturnKeepsTo DEF Crash
<1> QED
  BY <1>1, <1>2, <1>3, <1>4, <1>5, <1>6, <1>7, <1>8, <1>9, <1>10, <1>11 DEF ReplicaNext

\* The deletion of the resource changes nothing else, but of what is lost.
LEMMA DeletionKeeps ==
  ASSUME ReconcilerInv, Kept, UserDelete
  PROVE  /\ cr.exists /\ ~cr.deleting
         /\ \/ cr' = Gone
            \/ cr'.deleting /\ cr'.exists /\ cr'.name = cr.name /\ abandoned' = abandoned
         /\ UNCHANGED <<cache, mem, pc, seen, live>>
<1>1. CASE cr.finalizer
  <2>1. cr' = [cr EXCEPT !.deleting = TRUE]
    BY <1>1 DEF UserDelete, Store
  <2> QED BY <1>1, <2>1 DEF UserDelete, ReconcilerInv, ReconcilerTypeOK, Resources
<1>2. CASE ~cr.finalizer
  BY <1>2 DEF UserDelete, Store
<1> QED BY <1>1, <1>2

\* So it holds as long as the resource is left alone,
LEMMA KeptStep ==
  ASSUME ReconcilerInv, Kept, [Alone]_rvars
  PROVE  Kept'
<1>1. ASSUME NEW w \in Replicas, KeepsTo(w) PROVE Kept'
  <2>1. cr \in Resources
    BY DEF ReconcilerInv, ReconcilerTypeOK
  <2>2. \A v \in Replicas : cache'[v].deleting \/ mem'[v].deleting => cr.deleting \/ ~cr.exists
    <3>1. ~Gone.deleting
      BY DEF Gone
    <3>2. ASSUME NEW v \in Replicas
          PROVE  cache'[v].deleting \/ mem'[v].deleting => cr.deleting \/ ~cr.exists
      BY <1>1, <3>1, <3>2 DEF KeepsTo, Kept
    <3> QED BY <3>2
  <2>3. CASE cr' = cr /\ live' = live /\ abandoned' = abandoned
    BY <1>1, <2>2, <2>3 DEF KeepsTo, Kept
  <2>4. CASE /\ cr' = cr /\ abandoned' = abandoned
             /\ mem[w].deleting /\ live' = live \ {mem[w].name}
    BY <1>1, <2>2, <2>4 DEF KeepsTo, Kept
  <2>5. CASE /\ cr.exists /\ ~cr.deleting /\ cr' = [cr EXCEPT !.finalizer = TRUE]
             /\ live' = live /\ abandoned' = abandoned
    <3>1. cr'.exists /\ ~cr'.deleting /\ cr'.name = cr.name
      BY <2>1, <2>5 DEF Resources
    <3> QED BY <1>1, <2>2, <2>5, <3>1 DEF KeepsTo, Kept
  <2>6. CASE cr' = Gone
    BY <1>1, <2>6 DEF KeepsTo, Kept, Gone
  <2> QED BY <1>1, <2>3, <2>4, <2>5, <2>6 DEF KeepsTo
<1>2. CASE UserDelete
  <2>1. ~Gone.exists /\ ~Gone.deleting
    BY DEF Gone
  <2> QED BY <1>2, <2>1, DeletionKeeps DEF Kept, Creating, Recording
<1>3. CASE UNCHANGED rvars
  BY <1>3 DEF rvars, Kept, Creating, Recording
<1> QED BY <1>1, <1>2, <1>3, ReplicaKeepsTo DEF Alone

\* and with it the component there may be, and a deletion under way while that
\* component is there.
LEMMA KeptOnly ==
  ASSUME ReconcilerInv, Kept, [Alone]_rvars
  PROVE  /\ live' \subseteq live
         /\ cr'.exists => cr.exists /\ cr'.name = cr.name
         /\ abandoned \subseteq abandoned'
         /\ cr.deleting /\ cr.name \in live => cr'.deleting \/ abandoned' # {}
<1>0. cr \in Resources
  BY DEF ReconcilerInv, ReconcilerTypeOK
<1>1. ASSUME NEW w \in Replicas, KeepsTo(w)
      PROVE  /\ live' \subseteq live
             /\ cr'.exists => cr.exists /\ cr'.name = cr.name
             /\ abandoned \subseteq abandoned'
             /\ cr.deleting /\ cr.name \in live => cr'.deleting \/ abandoned' # {}
  <2>1. CASE cr' = [cr EXCEPT !.finalizer = TRUE] /\ cr.exists
    BY <1>0, <1>1, <2>1 DEF KeepsTo, Resources
  <2> QED BY <1>1, <2>1 DEF KeepsTo, Gone
<1>2. CASE UserDelete
  BY <1>2, DeletionKeeps DEF UserDelete, Gone
<1>3. CASE UNCHANGED rvars
  BY <1>3 DEF rvars
<1> QED BY <1>1, <1>2, <1>3, ReplicaKeepsTo DEF Alone

\* A resource that took a component over and is left alone.
AloneSpec == ReconcilerInit /\ cr.name # NoName /\ [][Alone]_rvars

\* Such a resource never makes or loses a component, and keeps the one it has
\* until it is deleted, however often the provider crashes, as long as no error is
\* misread before the deletion.
THEOREM AloneCorrect == AloneSpec => [](ReconcilerInv /\ Kept)
<1>1. ReconcilerInit /\ cr.name # NoName => ReconcilerInv /\ Kept
  BY InvInit, KeptInitially
<1>2. ReconcilerInv /\ Kept /\ [Alone]_rvars => ReconcilerInv' /\ Kept'
  BY InvStep, KeptStep DEF Alone, ReconcilerNext
<1> QED BY <1>1, <1>2, PTL DEF AloneSpec

-----------------------------------------------------------------------------
(* The calls of a client are steps of the loop. *)

\* Replica w is in an Update or a Delete.
InCall(w) == UpdateDue(w) \/ DeleteDue(w) \/ pc[w] \in ClientSteps

\* A client reports truly what NiFi holds, or misreads an error.
LEMMA ObserveRefines ==
  ASSUME NEW w \in Replicas, NEW upToDate \in BOOLEAN, NEW observation,
         ObserveAs(w, upToDate, observation)
  PROVE  Observe(w)
<1>1. ASSUME NEW report \in Reports(w), seen' = [seen EXCEPT ![w] = report],
             Disturb \/ (report # "misread" /\ UNCHANGED disturbances)
      PROVE  Observe(w)
  BY <1>1 DEF ObserveAs, Observe
<1>2. CASE mem[w].name \in live
  BY <1>1, <1>2 DEF ObserveAs, Reports, MisreadAsNotFound
<1>3. CASE mem[w].name \notin live
  BY <1>1, <1>3 DEF ObserveAs, Reports, MisreadAsNotFound
<1> QED BY <1>2, <1>3

\* A call that creates is one of the three the loop knows.
LEMMA CreateRefines ==
  ASSUME NEW w \in Replicas, NEW c, NEW step, CreateAs(w, c, step)
  PROVE  ReplicaNext(w)
BY DEF CreateAs, ReplicaNext

\* An Update or a Delete may end at any time.
LEMMA LeaveRefines ==
  ASSUME NEW w \in Replicas, InCall(w), Leave(w)
  PROVE  ClientCall(w)
BY DEF InCall, Leave, ClientCall

\* A versioned call of an Update or Delete removes nothing.
LEMMA CallRefines ==
  ASSUME NEW w \in Replicas, NEW allowed, NEW c, NEW step \in ClientSteps, NEW current,
         InCall(w), Call(w, allowed, c, step, current)
  PROVE  ClientCall(w)
BY LeaveRefines DEF InCall, Call, Apply, ClientCall

\* Nor does a reading,
LEMMA RefreshRefines ==
  ASSUME NEW w \in Replicas, NEW step \in ClientSteps, InCall(w), RefreshThen(w, step)
  PROVE  ClientCall(w)
BY LeaveRefines DEF InCall, RefreshThen, ClientCall

\* nor the scheduling of a group.
LEMMA ScheduleRefines ==
  ASSUME NEW w \in Replicas, NEW c, NEW step \in ClientSteps, InCall(w),
         Schedule(w, c, step) \/ Leave(w)
  PROVE  ClientCall(w)
BY LeaveRefines DEF InCall, Schedule, ClientCall

\* The call that deletes removes the component that was to go, or nothing.
LEMMA DeleteRefines ==
  ASSUME NEW w \in Replicas, NEW removable,
         DeleteDue(w) \/ (pc[w] \in ClientSteps /\ mem[w].deleting),
         DeleteAs(w, removable)
  PROVE  RemoveComponent(w) \/ ClientCall(w)
BY LeaveRefines DEF InCall, DeleteAs, RemoveComponent

\* What the loop does without the client it does here too.
LEMMA LoopRefines ==
  ASSUME NEW w \in Replicas, LoopStep(w)
  PROVE  ReplicaNext(w)
BY DEF LoopStep, ReplicaNext

\* So is everything that happens around it.
LEMMA AroundRefines == Around => ReconcilerNext
BY DEF Around, SyncStep, ForeignRemoval, ReconcilerNext, ReplicaNext

-----------------------------------------------------------------------------
(* What NiFi holds and what the copies keep of it have their types. *)

\* Nothing is known of a component before Observe.
LEMMA NoStatusType == NoStatus \in Statuses
BY DEF NoStatus, Statuses

\* Versions get old without losing their type.
LEMMA TouchedType ==
  ASSUME ClientTypeOK, NEW id
  PROVE  Touched(id) \in [Replicas -> Statuses]
BY DEF ClientTypeOK, Touched, Statuses

\* A client that returns changes nothing in NiFi.
LEMMA LeaveType ==
  ASSUME ClientTypeOK, NEW w \in Replicas, Leave(w)
  PROVE  ClientTypeOK'
BY NoStatusType DEF ClientTypeOK, Leave

\* An accepted call leaves a component.
LEMMA ApplyType ==
  ASSUME ReconcilerTypeOK, ClientTypeOK, NEW w \in Replicas, NEW step,
         NEW c, mem[w].name \in live => c \in Components,
         NEW current \in BOOLEAN, Apply(w, c, step, current)
  PROVE  ClientTypeOK'
<1>1. mem[w].name \in live /\ c \in Components
  BY DEF Apply, AcceptsVersion
<1>2. comp' \in [Ids -> Components \cup {NoComponent}]
  BY <1>1 DEF Apply, ClientTypeOK
<1>3. \A id \in Ids : comp'[id] = NoComponent <=> id \notin live'
  BY <1>1, ComponentsAssumption DEF Apply, ClientTypeOK
<1>4. [status[w] EXCEPT !.current = current] \in Statuses
  BY DEF ClientTypeOK, Statuses
<1>5. status' \in [Replicas -> Statuses]
  BY <1>4, TouchedType DEF Apply
<1> QED BY <1>2, <1>3, <1>5 DEF ClientTypeOK

\* So does one that NiFi may refuse.
LEMMA CallType ==
  ASSUME ReconcilerTypeOK, ClientTypeOK, NEW w \in Replicas, NEW step, NEW allowed,
         NEW c, mem[w].name \in live => c \in Components,
         NEW current \in BOOLEAN, Call(w, allowed, c, step, current)
  PROVE  ClientTypeOK'
BY ApplyType, LeaveType DEF Call

\* The scheduling of a group leaves a component.
LEMMA ScheduleType ==
  ASSUME ReconcilerTypeOK, ClientTypeOK, NEW w \in Replicas, NEW step,
         NEW c, mem[w].name \in live => c \in Components, Schedule(w, c, step)
  PROVE  ClientTypeOK'
<1>1. comp' \in [Ids -> Components \cup {NoComponent}]
  BY DEF Schedule, ClientTypeOK
<1>2. \A id \in Ids : comp'[id] = NoComponent <=> id \notin live'
  BY ComponentsAssumption DEF Schedule, ClientTypeOK
<1>3. status' \in [Replicas -> Statuses]
  BY DEF Schedule, ClientTypeOK, Statuses
<1> QED BY <1>1, <1>2, <1>3 DEF ClientTypeOK

\* A reading brings a version.
LEMMA RefreshType ==
  ASSUME ClientTypeOK, NEW w \in Replicas, NEW step, RefreshThen(w, step)
  PROVE  ClientTypeOK'
<1>1. [status[w] EXCEPT !.current = TRUE] \in Statuses
  BY DEF ClientTypeOK, Statuses
<1> QED BY <1>1, LeaveType DEF RefreshThen, ClientTypeOK

\* Observe keeps an observation.
LEMMA ObserveType ==
  ASSUME ClientTypeOK, NEW w \in Replicas, NEW upToDate,
         NEW observation,
         mem[w].name \in live => observation \in Observations \cup {NoObservation},
         ObserveAs(w, upToDate, observation)
  PROVE  ClientTypeOK'
<1>1. mem[w].name \in live =>
        [observed |-> observation, current |-> TRUE, clean |-> TRUE] \in Statuses
  BY DEF Statuses
<1> QED BY <1>1 DEF ObserveAs, ClientTypeOK

\* A component that is made is a component.
LEMMA CreateType ==
  ASSUME ReconcilerTypeOK, ClientTypeOK, NEW w \in Replicas, NEW step, NEW c \in Components,
         CreateAs(w, c, step)
  PROVE  ClientTypeOK'
<1>1. ASSUME NEW id \in Ids, CreateAnswered(w, id) \/ CreateReplyLost(w, id),
             comp' = [comp EXCEPT ![id] = c]
      PROVE  /\ comp' \in [Ids -> Components \cup {NoComponent}]
             /\ \A i \in Ids : comp'[i] = NoComponent <=> i \notin live'
  BY <1>1, ComponentsAssumption DEF CreateAnswered, CreateReplyLost, ClientTypeOK
<1>2. [status[w] EXCEPT !.current = TRUE, !.clean = TRUE] \in Statuses
  BY DEF ClientTypeOK, Statuses
<1>3. CASE \E id \in Ids : /\ CreateAnswered(w, id)
                           /\ comp' = [comp EXCEPT ![id] = c]
                           /\ status' = [status EXCEPT ![w].current = TRUE, ![w].clean = TRUE]
  BY <1>1, <1>2, <1>3 DEF ClientTypeOK
<1>4. CASE \E id \in Ids : /\ CreateReplyLost(w, id)
                           /\ comp' = [comp EXCEPT ![id] = c]
                           /\ UNCHANGED status
  BY <1>1, <1>4 DEF ClientTypeOK
<1>5. CASE CreateRefused(w) /\ Quiet(w)
  BY <1>5, NoStatusType DEF CreateRefused, Quiet, ClientTypeOK
<1> QED BY <1>3, <1>4, <1>5 DEF CreateAs

\* What is deleted is no component any more.
LEMMA DeleteType ==
  ASSUME ReconcilerTypeOK, ClientTypeOK, NEW w \in Replicas, NEW removable,
         DeleteAs(w, removable)
  PROVE  ClientTypeOK'
<1>1. CASE /\ AcceptsVersion(w)
           /\ RemoveComponent(w)
           /\ comp' = [comp EXCEPT ![mem[w].name] = NoComponent]
           /\ status' = [Touched(mem[w].name) EXCEPT ![w] = NoStatus]
  <2>1. comp' \in [Ids -> Components \cup {NoComponent}]
    BY <1>1 DEF ClientTypeOK
  <2>2. \A id \in Ids : comp'[id] = NoComponent <=> id \notin live'
    BY <1>1 DEF RemoveComponent, ClientTypeOK
  <2>3. status' \in [Replicas -> Statuses]
    BY <1>1, TouchedType, NoStatusType
  <2> QED BY <2>1, <2>2, <2>3 DEF ClientTypeOK
<1> QED BY <1>1, LeaveType DEF DeleteAs

\* The loop on its own changes nothing in NiFi.
LEMMA QuietType ==
  ASSUME ClientTypeOK, NEW w \in Replicas, Quiet(w), UNCHANGED live
  PROVE  ClientTypeOK'
BY NoStatusType DEF ClientTypeOK, Quiet

\* Nor do the moves of the loop in particular.
LEMMA LoopType ==
  ASSUME ClientTypeOK, NEW w \in Replicas, LoopStep(w)
  PROVE  ClientTypeOK'
BY QuietType DEF LoopStep, Begin, AddFinalizer, MarkPending, RemoveFinalizer, Conflict, Rest,
   Record

\* A component that changes by itself stays a component,
LEMMA SettleType ==
  ASSUME ClientTypeOK, NEW id \in live, live \subseteq Ids, NEW c \in Components, Settle(id, c)
  PROVE  ClientTypeOK'
<1>1. UNCHANGED <<live, status>>
  BY DEF Settle, rvars
<1> QED BY <1>1, ComponentsAssumption DEF Settle, ClientTypeOK

\* and so does one that somebody else changes.
LEMMA ForeignEditType ==
  ASSUME ClientTypeOK, NEW id \in live, live \subseteq Ids, NEW c \in Components,
         ForeignEditTo(id, c)
  PROVE  ClientTypeOK'
BY ComponentsAssumption, TouchedType DEF ForeignEditTo, ForeignChange, ClientTypeOK

\* Whatever happens around the loop leaves the types alone.
LEMMA AroundType ==
  ASSUME ReconcilerTypeOK, ClientTypeOK, Around
  PROVE  ClientTypeOK'
<1>1. ASSUME NEW w \in Replicas, SyncStep(w) \/ (Crash(w) /\ Quiet(w)) PROVE ClientTypeOK'
  BY <1>1, QuietType DEF SyncStep, Sync, Crash
<1>2. CASE (UserDelete \/ \E s \in Specs : UserEdit(s)) /\ UNCHANGED <<comp, status>>
  BY <1>2 DEF UserDelete, UserEdit, ClientTypeOK
<1>3. ASSUME NEW id \in Ids, ForeignRemoval(id) PROVE ClientTypeOK'
  BY <1>3, TouchedType DEF ForeignRemoval, ForeignDelete, ClientTypeOK
<1> QED BY <1>1, <1>2, <1>3 DEF Around

-----------------------------------------------------------------------------
(* What one replica does to what the others carry. *)

\* Replica v keeps what it carries, and the component it works on keeps as it
\* is; or v no longer counts on being alone with the component.
Undisturbed(v) ==
  \/ ~status'[v].clean
  \/ /\ status'[v] = status[v]
     /\ mem[v].name \in live => mem[v].name \in live' /\ comp'[mem[v].name] = comp[mem[v].name]

\* Replica v is not disturbed when the client of another one returns,
LEMMA LeaveUndisturbs ==
  ASSUME ClientTypeOK, NEW w \in Replicas, NEW v \in Replicas, v # w, Leave(w)
  PROVE  Undisturbed(v)
BY DEF ClientTypeOK, Leave, Undisturbed

\* by a call that is accepted,
LEMMA ApplyUndisturbs ==
  ASSUME ReconcilerTypeOK, ClientTypeOK, NEW w \in Replicas, NEW v \in Replicas, v # w,
         NEW step, NEW c, NEW current, Apply(w, c, step, current)
  PROVE  Undisturbed(v)
<1>1. CASE mem[v].name = mem[w].name
  <2>1. status'[v] = [status[v] EXCEPT !.current = FALSE, !.clean = FALSE]
    BY <1>1 DEF Apply, Touched, ClientTypeOK
  <2> QED BY <2>1 DEF Undisturbed, ClientTypeOK, Statuses
<1>2. CASE mem[v].name # mem[w].name
  <2>1. status'[v] = status[v]
    BY <1>2 DEF Apply, Touched, ClientTypeOK
  <2>2. mem[v].name \in live =>
          mem[v].name \in live' /\ comp'[mem[v].name] = comp[mem[v].name]
    BY <1>2 DEF Apply, ReconcilerTypeOK, ClientTypeOK
  <2> QED BY <2>1, <2>2 DEF Undisturbed
<1> QED BY <1>1, <1>2

\* a call accepted or not,
LEMMA CallUndisturbs ==
  ASSUME ReconcilerTypeOK, ClientTypeOK, NEW w \in Replicas, NEW v \in Replicas, v # w,
         NEW step, NEW allowed, NEW c, NEW current, Call(w, allowed, c, step, current)
  PROVE  Undisturbed(v)
BY ApplyUndisturbs, LeaveUndisturbs DEF Call

\* the scheduling of a group,
LEMMA ScheduleUndisturbs ==
  ASSUME ReconcilerTypeOK, ClientTypeOK, NEW w \in Replicas, NEW v \in Replicas, v # w,
         NEW step, NEW c, Schedule(w, c, step)
  PROVE  Undisturbed(v)
<1>1. CASE mem[v].name = mem[w].name
  BY <1>1 DEF Schedule, Undisturbed, ClientTypeOK, Statuses
<1>2. CASE mem[v].name # mem[w].name
  <2>1. status'[v] = status[v]
    BY <1>2 DEF Schedule, ClientTypeOK
  <2>2. mem[v].name \in live =>
          mem[v].name \in live' /\ comp'[mem[v].name] = comp[mem[v].name]
    BY <1>2 DEF Schedule, ReconcilerTypeOK, ClientTypeOK
  <2> QED BY <2>1, <2>2 DEF Undisturbed
<1> QED BY <1>1, <1>2

\* a reading,
LEMMA RefreshUndisturbs ==
  ASSUME ClientTypeOK, NEW w \in Replicas, NEW v \in Replicas, v # w, NEW step,
         RefreshThen(w, step)
  PROVE  Undisturbed(v)
BY LeaveUndisturbs DEF RefreshThen, ClientTypeOK, Undisturbed

\* an Observe,
LEMMA ObserveUndisturbs ==
  ASSUME ClientTypeOK, NEW w \in Replicas, NEW v \in Replicas, v # w, NEW upToDate,
         NEW observation, ObserveAs(w, upToDate, observation)
  PROVE  Undisturbed(v)
BY DEF ObserveAs, ClientTypeOK, Undisturbed

\* a creation, whose id nobody has yet,
LEMMA CreateUndisturbs ==
  ASSUME ReconcilerTypeOK, ClientTypeOK, NEW w \in Replicas, NEW v \in Replicas, v # w,
         NEW step, NEW c, CreateAs(w, c, step)
  PROVE  Undisturbed(v)
<1>1. status'[v] = status[v]
  BY DEF CreateAs, Quiet, ClientTypeOK
<1>2. ASSUME NEW id \in Ids, CreateAnswered(w, id) \/ CreateReplyLost(w, id),
             comp' = [comp EXCEPT ![id] = c]
      PROVE  mem[v].name \in live =>
               mem[v].name \in live' /\ comp'[mem[v].name] = comp[mem[v].name]
  BY <1>2 DEF CreateAnswered, CreateReplyLost, ReconcilerTypeOK, ClientTypeOK
<1>3. CASE CreateRefused(w) /\ Quiet(w)
  BY <1>1, <1>3 DEF CreateRefused, Quiet, Undisturbed
<1> QED BY <1>1, <1>2, <1>3 DEF CreateAs, Undisturbed

\* or a deletion.
LEMMA DeleteUndisturbs ==
  ASSUME ReconcilerTypeOK, ClientTypeOK, NEW w \in Replicas, NEW v \in Replicas, v # w,
         NEW removable, DeleteAs(w, removable)
  PROVE  Undisturbed(v)
<1>1. CASE /\ AcceptsVersion(w)
           /\ RemoveComponent(w)
           /\ comp' = [comp EXCEPT ![mem[w].name] = NoComponent]
           /\ status' = [Touched(mem[w].name) EXCEPT ![w] = NoStatus]
  <2>1. CASE mem[v].name = mem[w].name
    <3>1. status'[v] = [status[v] EXCEPT !.current = FALSE, !.clean = FALSE]
      BY <1>1, <2>1 DEF Touched, ClientTypeOK
    <3> QED BY <3>1 DEF Undisturbed, ClientTypeOK, Statuses
  <2>2. CASE mem[v].name # mem[w].name
    <3>1. status'[v] = status[v]
      BY <1>1, <2>2 DEF Touched, ClientTypeOK
    <3>2. mem[v].name \in live =>
            mem[v].name \in live' /\ comp'[mem[v].name] = comp[mem[v].name]
      BY <1>1, <2>2 DEF RemoveComponent, ReconcilerTypeOK, ClientTypeOK
    <3> QED BY <3>1, <3>2 DEF Undisturbed
  <2> QED BY <2>1, <2>2
<1> QED BY <1>1, LeaveUndisturbs DEF DeleteAs

\* Neither do the moves of the loop disturb another replica.
LEMMA LoopUndisturbs ==
  ASSUME ClientTypeOK, NEW w \in Replicas, NEW v \in Replicas, v # w, LoopStep(w)
  PROVE  Undisturbed(v)
BY DEF LoopStep, Begin, AddFinalizer, MarkPending, RemoveFinalizer, Conflict, Rest, Record,
   Quiet, ClientTypeOK, Undisturbed

\* What somebody else does to a component every replica that works on it is
\* aware of.
LEMMA ForeignUndisturbs ==
  ASSUME ReconcilerTypeOK, ClientTypeOK, NEW v \in Replicas, NEW id \in Ids,
         \/ \E c \in Components : ForeignEditTo(id, c)
         \/ ForeignRemoval(id)
  PROVE  Undisturbed(v) /\ Stays(v)
<1>1. UNCHANGED <<pc, mem, seen>> /\ status' = Touched(id)
  BY DEF ForeignEditTo, ForeignChange, ForeignRemoval, ForeignDelete
<1>0. Stays(v)
  BY <1>1 DEF Stays
<1>2. CASE mem[v].name = id
  <2>1. status'[v] = [status[v] EXCEPT !.current = FALSE, !.clean = FALSE]
    BY <1>1, <1>2 DEF Touched, ClientTypeOK
  <2> QED BY <1>0, <2>1 DEF Undisturbed, ClientTypeOK, Statuses
<1>3. CASE mem[v].name # id
  <2>1. status'[v] = status[v]
    BY <1>1, <1>3 DEF Touched, ClientTypeOK
  <2>2. mem[v].name \in live =>
          mem[v].name \in live' /\ comp'[mem[v].name] = comp[mem[v].name]
    BY <1>3 DEF ForeignEditTo, ForeignChange, ForeignRemoval, ForeignDelete, ReconcilerTypeOK,
       ClientTypeOK
  <2> QED BY <1>0, <2>1, <2>2 DEF Undisturbed
<1> QED BY <1>2, <1>3

\* Around the loop a replica goes back to the start, or stays undisturbed where
\* it is.
LEMMA AroundUndisturbs ==
  ASSUME ReconcilerTypeOK, ClientTypeOK, NEW v \in Replicas, Around
  PROVE  pc'[v] = "idle" \/ (Undisturbed(v) /\ Stays(v))
<1> USE DEF Stays
<1>1. ASSUME NEW w \in Replicas, SyncStep(w)
      PROVE  pc'[v] = "idle" \/ (Undisturbed(v) /\ Stays(v))
  <2>1. /\ UNCHANGED <<pc, mem, seen, live, comp>>
        /\ status' = [status EXCEPT ![w] = IF pc'[w] = "idle" THEN NoStatus ELSE @]
    BY <1>1 DEF SyncStep, Sync, Quiet
  <2>2. CASE v = w /\ pc[v] = "idle"
    BY <2>1, <2>2
  <2>3. CASE v # w \/ pc[v] # "idle"
    BY <2>1, <2>3 DEF ClientTypeOK, Undisturbed
  <2> QED BY <2>1, <2>2, <2>3
<1>2. ASSUME NEW w \in Replicas, Crash(w), Quiet(w)
      PROVE  pc'[v] = "idle" \/ (Undisturbed(v) /\ Stays(v))
  <2>0. /\ pc' = [pc EXCEPT ![w] = "idle"] /\ mem' = [mem EXCEPT ![w] = Gone]
        /\ seen' = [seen EXCEPT ![w] = "none"]
    BY <1>2 DEF Crash, Return, Forget, Goto
  <2>1. CASE v = w
    <3>1. pc'[v] = "idle"
      BY <2>0, <2>1 DEF ReconcilerTypeOK
    <3> QED BY <3>1
  <2>2. CASE v # w
    BY <1>2, <2>0, <2>2 DEF Crash, Quiet, ReconcilerTypeOK, ClientTypeOK, Undisturbed
  <2> QED BY <2>1, <2>2
<1>3. CASE (UserDelete \/ \E s \in Specs : UserEdit(s)) /\ UNCHANGED <<comp, status>>
  BY <1>3 DEF UserDelete, UserEdit, Undisturbed
<1>4. ASSUME NEW id \in Ids, ForeignRemoval(id)
      PROVE  Undisturbed(v) /\ Stays(v)
  BY <1>4, ForeignUndisturbs
<1> QED BY <1>1, <1>2, <1>3, <1>4 DEF Around

-----------------------------------------------------------------------------
(* Where a step of the replica leads it. *)

\* An accepted call leaves the component it names as it says.
LEMMA ApplyEffect ==
  ASSUME ReconcilerTypeOK, ClientTypeOK, NEW w \in Replicas, NEW c, NEW step,
         NEW current \in BOOLEAN, Apply(w, c, step, current)
  PROVE  /\ mem[w].name \in live /\ mem' = mem /\ live' = live
         /\ pc'[w] = step
         /\ Named(w)' = c
         /\ status'[w].current = current
         /\ status'[w].clean = status[w].clean
         /\ status'[w].observed = status[w].observed
<1>1. mem[w].name \in live /\ mem' = mem /\ live' = live
  BY DEF Apply, AcceptsVersion
<1>2. Named(w)' = c
  BY <1>1 DEF Apply, Named, ReconcilerTypeOK, ClientTypeOK
<1>3. status'[w] = [status[w] EXCEPT !.current = current]
  BY DEF Apply, Touched, ClientTypeOK
<1>4. pc'[w] = step
  BY DEF Apply, Goto, ReconcilerTypeOK
<1> QED BY <1>1, <1>2, <1>3, <1>4 DEF ClientTypeOK, Statuses

\* So does the scheduling of a group, at the version it had,
LEMMA ScheduleEffect ==
  ASSUME ReconcilerTypeOK, ClientTypeOK, NEW w \in Replicas, NEW c, NEW step, Schedule(w, c, step)
  PROVE  /\ mem[w].name \in live /\ mem' = mem /\ live' = live
         /\ pc'[w] = step
         /\ Named(w)' = c
         /\ status'[w] = status[w]
<1>1. mem[w].name \in live /\ mem' = mem /\ live' = live
  BY DEF Schedule
<1>2. Named(w)' = c
  BY <1>1 DEF Schedule, Named, ReconcilerTypeOK, ClientTypeOK
<1>3. status'[w] = status[w] /\ pc'[w] = step
  BY DEF Schedule, Goto, ReconcilerTypeOK
<1> QED BY <1>1, <1>2, <1>3

\* while a reading, unless it is the end, brings the current version.
LEMMA RefreshEffect ==
  ASSUME ReconcilerTypeOK, ClientTypeOK, NEW w \in Replicas, NEW step, RefreshThen(w, step)
  PROVE  \/ Leave(w)
         \/ /\ mem[w].name \in live /\ mem' = mem /\ live' = live
            /\ pc'[w] = step
            /\ Named(w)' = Named(w)
            /\ status'[w].current = TRUE
            /\ status'[w].clean = status[w].clean
            /\ status'[w].observed = status[w].observed
<1>1. CASE /\ mem[w].name \in live
           /\ Goto(w, step)
           /\ status' = [status EXCEPT ![w].current = TRUE]
           /\ UNCHANGED <<mem, live, comp>>
  BY <1>1 DEF Goto, Named, ReconcilerTypeOK, ClientTypeOK, Statuses
<1> QED BY <1>1 DEF RefreshThen

\* After an Observe the replica knows of a component that it was not told is
\* absent, and of an absent one no more than before.
LEMMA ObserveEffect ==
  ASSUME ReconcilerTypeOK, ClientTypeOK, NEW w \in Replicas, NEW upToDate, NEW observation,
         ObserveAs(w, upToDate, observation)
  PROVE  /\ mem' = mem /\ live' = live
         /\ pc'[w] = "decide"
         /\ Named(w)' = Named(w)
         /\ ~Absent(w)' =>
              /\ mem[w].name \in live
              /\ seen'[w] = IF upToDate THEN "upToDate" ELSE "different"
              /\ status'[w] = [observed |-> observation, current |-> TRUE, clean |-> TRUE]
BY DEF ObserveAs, Absent, MisreadAsNotFound, Goto, Named, ReconcilerTypeOK, ClientTypeOK

\* After a creation the replica has the version of what was made, or nothing to
\* do but to record that it failed.
LEMMA CreateEffect ==
  ASSUME ReconcilerTypeOK, ClientTypeOK, NEW w \in Replicas, NEW c, NEW step, CreateAs(w, c, step)
  PROVE  pc'[w] = "recordFailure" \/ (pc'[w] = step /\ status'[w].current = TRUE)
<1>1. CASE status' = [status EXCEPT ![w].current = TRUE, ![w].clean = TRUE] /\ pc'[w] = step
  <2>1. status'[w] = [status[w] EXCEPT !.current = TRUE, !.clean = TRUE]
    BY <1>1 DEF ClientTypeOK
  <2> QED BY <1>1, <2>1 DEF ClientTypeOK, Statuses
<1> QED BY <1>1 DEF CreateAs, CreateReplyLost, CreateRefused, Goto, ReconcilerTypeOK

\* The moves of the loop lead away from a decision, or leave the replica there
\* with the same to decide upon.
LEMMA LoopStays ==
  ASSUME ReconcilerTypeOK, ClientTypeOK, NEW w \in Replicas, LoopStep(w)
  PROVE  \/ pc'[w] \in {"idle", "observe", "create"}
         \/ Stays(w) /\ Undisturbed(w)
<1>1. CASE AddFinalizer(w)
  <2>1. /\ pc[w] = "decide" /\ UNCHANGED <<pc, seen, live>>
        /\ mem' = [mem EXCEPT ![w] = [mem[w] EXCEPT !.finalizer = TRUE]]
    BY <1>1 DEF AddFinalizer, Write, FinalizerDue, Alive
  <2>2. /\ mem'[w].name = mem[w].name /\ mem'[w].spec = mem[w].spec
        /\ mem'[w].deleting = mem[w].deleting
    BY <2>1 DEF ReconcilerTypeOK, Resources
  <2>3. comp' = comp /\ status'[w] = status[w]
    BY <2>1 DEF LoopStep, Quiet, ClientTypeOK
  <2> QED BY <2>1, <2>2, <2>3 DEF Stays, Undisturbed
<1>2. CASE Begin(w) \/ MarkPending(w) \/ RemoveFinalizer(w)
  BY <1>2 DEF Begin, MarkPending, RemoveFinalizer, Forget, Goto, ReconcilerTypeOK
<1>3. CASE Conflict(w) \/ Rest(w) \/ Record(w)
  BY <1>3 DEF Conflict, Rest, Record, Return, Forget, Goto, ReconcilerTypeOK
<1> QED BY <1>1, <1>2, <1>3 DEF LoopStep

\* The moves of the loop lead out of the calls of an Update or a Delete,
LEMMA LoopLeads ==
  ASSUME ReconcilerTypeOK, NEW w \in Replicas, LoopStep(w)
  PROVE  pc'[w] \in {"idle", "observe", "decide", "create"}
<1>1. CASE Begin(w) \/ AddFinalizer(w) \/ MarkPending(w) \/ RemoveFinalizer(w)
  BY <1>1 DEF Begin, AddFinalizer, MarkPending, RemoveFinalizer, Forget, Goto, Alive,
     FinalizerDue, ReconcilerTypeOK
<1>2. CASE Conflict(w) \/ Rest(w) \/ Record(w)
  BY <1>2 DEF Conflict, Rest, Record, Return, Forget, Goto, ReconcilerTypeOK
<1> QED BY <1>1, <1>2 DEF LoopStep

\* and so do Observe,
LEMMA ObserveLeads ==
  ASSUME ReconcilerTypeOK, NEW w \in Replicas, NEW upToDate, NEW observation,
         ObserveAs(w, upToDate, observation)
  PROVE  pc'[w] = "decide"
BY DEF ObserveAs, Goto, ReconcilerTypeOK

\* Create,
LEMMA CreateLeads ==
  ASSUME ReconcilerTypeOK, NEW w \in Replicas, NEW c, NEW step, CreateAs(w, c, step)
  PROVE  pc'[w] \in {step, "recordFailure"}
BY DEF CreateAs, CreateReplyLost, CreateRefused, Goto, ReconcilerTypeOK

\* every return,
LEMMA LeaveLeads ==
  ASSUME ReconcilerTypeOK, NEW w \in Replicas, Leave(w)
  PROVE  pc'[w] = "idle"
BY DEF Leave, Return, Forget, Goto, ReconcilerTypeOK

\* and the call that deletes.
LEMMA DeleteLeads ==
  ASSUME ReconcilerTypeOK, NEW w \in Replicas, NEW removable, DeleteAs(w, removable)
  PROVE  pc'[w] = "idle"
BY DEF DeleteAs, RemoveComponent, Leave, Return, Forget, Goto, ReconcilerTypeOK
=============================================================================

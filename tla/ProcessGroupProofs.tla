-------------------------- MODULE ProcessGroupProofs --------------------------
(***************************************************************************)
(* What holds of the ProcessGroup controller for any number of replicas,   *)
(* ids, configurations and disturbances: an Update that nobody interferes  *)
(* with applies the spec, though it acts on the counts of Observe, and     *)
(* such a Delete stops what runs; and the client keeps the contract of the *)
(* loop.                                                                   *)
(***************************************************************************)
EXTENDS ProcessGroup, NiFiClientProofs

\* Only the Delete of a resource being deleted gets to the call that deletes.
DeletesOnly ==
  \A w \in Replicas : pc[w] \in {"deleteRefresh", "delete"} => mem[w].deleting

\* Every call of the client is one the loop knows.
LEMMA StepRefines ==
  ASSUME DeletesOnly, NEW w \in Replicas, Step(w)
  PROVE  ReplicaNext(w)
<1> USE GroupAssumption DEF GroupSteps, InCall
<1>1. CASE LoopStep(w)
  BY <1>1, LoopRefines
<1>2. CASE ObserveGroup(w)
  <2>1. IsProcessGroupUpToDate(mem[w].spec, Named(w)) \in BOOLEAN
    BY DEF IsProcessGroupUpToDate
  <2> QED BY <1>2, <2>1, ObserveRefines DEF ObserveGroup, ReplicaNext
<1>3. CASE CreateGroup(w)
  BY <1>3, CreateRefines DEF CreateGroup
<1>4. CASE Put(w)
  <2>1. AfterPut(w) \in ClientSteps
    BY DEF AfterPut
  <2> QED BY <1>4, <2>1, CallRefines DEF Put, ReplicaNext
<1>5. CASE Start(w) \/ Stop(w) \/ DeleteStop(w)
  BY <1>5, ScheduleRefines DEF Start, Stop, DeleteStop, ScheduleOrFail, ReplicaNext
<1>6. CASE UpdateReturns(w)
  BY <1>6, LeaveRefines DEF UpdateReturns, ReplicaNext
<1>7. CASE DeleteRefresh(w)
  BY <1>7, RefreshRefines DEF DeleteRefresh, ReplicaNext
<1>8. CASE DeleteCall(w)
  BY <1>8, DeleteRefines DEF DeleteCall, DeleteCallDue, DeletesOnly, ReplicaNext
<1> QED BY <1>1, <1>2, <1>3, <1>4, <1>5, <1>6, <1>7, <1>8 DEF Step

\* So is every step of the controller and of what is around it.
LEMMA NextRefines ==
  ASSUME DeletesOnly, [Next]_nvars
  PROVE  [ReconcilerNext]_rvars
<1>1. ASSUME NEW w \in Replicas, Step(w) PROVE ReconcilerNext
  BY <1>1, StepRefines DEF ReconcilerNext
<1>2. ASSUME NEW id \in Ids, ForeignEdit(id) PROVE ReconcilerNext
  BY <1>2 DEF ForeignEdit, ForeignEditTo, ReconcilerNext
<1>3. CASE Around
  BY <1>3, AroundRefines
<1>4. CASE UNCHANGED nvars
  BY <1>4 DEF nvars
<1> QED BY <1>1, <1>2, <1>3, <1>4 DEF Next

-----------------------------------------------------------------------------
(* The invariant that carries the rest *)

\* The group is configured as the spec says.
ConfiguredAs(c, spec) == c.checked = spec.checked /\ c.unchecked = spec.unchecked

\* Where an Update or a Delete that nobody interferes with has got to.
OnCourse(w) ==
  /\ pc[w] = "decide" /\ ~Absent(w) =>
       mem[w].name \in live /\ status[w].observed = Named(w).counts
  /\ pc[w] \in GroupSteps => mem[w].name \in live
  /\ pc[w] \in {"start", "stop", "updated"} => ConfiguredAs(Named(w), mem[w].spec)
  /\ pc[w] = "start" => DesiredState(mem[w].spec) = "RUNNING"
  /\ pc[w] = "stop" => DesiredState(mem[w].spec) = "STOPPED"
  /\ pc[w] = "updated" => /\ ~StartDue(mem[w].spec, Named(w).counts)
                          /\ ~StopDue(mem[w].spec, Named(w).counts)
  /\ pc[w] \in {"deleteRefresh", "delete"} => ~Named(w).counts.running

ReplicaOK(w) ==
  /\ pc[w] \in {"deleteRefresh", "delete"} => mem[w].deleting
  /\ status[w].clean => OnCourse(w)

GroupInv == ReconcilerTypeOK /\ ClientTypeOK /\ \A w \in Replicas : ReplicaOK(w)

\* It holds at the start, where nothing is under way.
LEMMA GroupInitially == ClientInit => GroupInv
<1> SUFFICES ASSUME ClientInit PROVE GroupInv
  OBVIOUS
<1>1. ReconcilerTypeOK
  BY TypeInit DEF ClientInit
<1>2. ClientTypeOK
  BY NoStatusType DEF ClientInit, ClientTypeOK
<1>3. \A w \in Replicas : pc[w] = "idle"
  BY DEF ClientInit, ReconcilerInit
<1> QED BY <1>1, <1>2, <1>3 DEF GroupInv, ReplicaOK, OnCourse, GroupSteps

\* What the client sends and keeps has its type, and what it leaves behind in a
\* group is what it sent.
LEMMA SentTypes ==
  ASSUME ReconcilerTypeOK, ClientTypeOK, NEW w \in Replicas, mem[w].name \in live
  PROVE  /\ Named(w) \in Components /\ Named(w).counts \in Counts
         /\ Configured(Named(w), mem[w].spec) \in Components
         /\ ConfiguredAs(Configured(Named(w), mem[w].spec), mem[w].spec)
         /\ Configured(Named(w), mem[w].spec).counts = Named(w).counts
         /\ \A c \in {Started(Named(w)), Stopped(Named(w))} :
              /\ c \in Components
              /\ c.checked = Named(w).checked /\ c.unchecked = Named(w).unchecked
         /\ ~Started(Named(w)).counts.stopped
         /\ ~Stopped(Named(w)).counts.running
<1>1. Named(w) \in Components
  BY DEF ReconcilerTypeOK, ClientTypeOK, Named
<1>2. mem[w].spec \in Specs
  BY DEF ReconcilerTypeOK, Resources
<1> DEFINE c == Named(w)
<1>3. c \in [checked : Checked, unchecked : Unchecked, counts : Counts]
  BY <1>1, GroupAssumption
<1>4. /\ Configured(c, mem[w].spec) \in Components
      /\ ConfiguredAs(Configured(c, mem[w].spec), mem[w].spec)
      /\ Configured(c, mem[w].spec).counts = c.counts
  BY <1>2, <1>3, GroupAssumption DEF ProcessGroupParameters, Configured, ConfiguredAs
<1>5. Some(c) \in BOOLEAN
  BY <1>3 DEF Some, Counts
<1>6. /\ Started(c) \in Components /\ ~Started(c).counts.stopped
      /\ Started(c).checked = c.checked /\ Started(c).unchecked = c.unchecked
  BY <1>3, <1>5, GroupAssumption DEF Started, Counts
<1>7. /\ Stopped(c) \in Components /\ ~Stopped(c).counts.running
      /\ Stopped(c).checked = c.checked /\ Stopped(c).unchecked = c.unchecked
  BY <1>3, <1>5, GroupAssumption DEF Stopped, Counts
<1> QED BY <1>1, <1>3, <1>4, <1>6, <1>7

\* The types are preserved by every step of a replica.
LEMMA StepType ==
  ASSUME ReconcilerTypeOK, ClientTypeOK, NEW w \in Replicas, Step(w)
  PROVE  ClientTypeOK'
<1>1. CASE LoopStep(w)
  BY <1>1, LoopType
<1>2. CASE ObserveGroup(w)
  BY <1>2, SentTypes, ObserveType, GroupAssumption DEF ObserveGroup
<1>3. CASE CreateGroup(w)
  <2>1. [checked |-> mem[w].spec.checked, unchecked |-> mem[w].spec.unchecked,
         counts |-> Empty] \in Components
    BY GroupAssumption DEF ProcessGroupParameters, ReconcilerTypeOK, Resources, Counts, Empty
  <2> QED BY <1>3, <2>1, CreateType DEF CreateGroup
<1>4. CASE Put(w)
  BY <1>4, SentTypes, CallType DEF Put
<1>5. CASE Start(w) \/ Stop(w) \/ DeleteStop(w)
  BY <1>5, SentTypes, ScheduleType, LeaveType DEF Start, Stop, DeleteStop, ScheduleOrFail
<1>6. CASE UpdateReturns(w)
  BY <1>6, LeaveType DEF UpdateReturns
<1>7. CASE DeleteRefresh(w)
  BY <1>7, RefreshType DEF DeleteRefresh
<1>8. CASE DeleteCall(w)
  BY <1>8, DeleteType DEF DeleteCall
<1> QED BY <1>1, <1>2, <1>3, <1>4, <1>5, <1>6, <1>7, <1>8 DEF Step

\* No step of a replica disturbs another one unnoticed.
LEMMA StepUndisturbs ==
  ASSUME ReconcilerTypeOK, ClientTypeOK, NEW w \in Replicas, NEW v \in Replicas, v # w, Step(w)
  PROVE  Undisturbed(v)
<1>1. CASE LoopStep(w)
  BY <1>1, LoopUndisturbs
<1>2. CASE ObserveGroup(w)
  BY <1>2, ObserveUndisturbs DEF ObserveGroup
<1>3. CASE CreateGroup(w)
  BY <1>3, CreateUndisturbs DEF CreateGroup
<1>4. CASE Put(w)
  BY <1>4, CallUndisturbs DEF Put
<1>5. CASE Start(w) \/ Stop(w) \/ DeleteStop(w)
  BY <1>5, ScheduleUndisturbs, LeaveUndisturbs DEF Start, Stop, DeleteStop, ScheduleOrFail
<1>6. CASE UpdateReturns(w)
  BY <1>6, LeaveUndisturbs DEF UpdateReturns
<1>7. CASE DeleteRefresh(w)
  BY <1>7, RefreshUndisturbs DEF DeleteRefresh
<1>8. CASE DeleteCall(w)
  BY <1>8, DeleteUndisturbs DEF DeleteCall
<1> QED BY <1>1, <1>2, <1>3, <1>4, <1>5, <1>6, <1>7, <1>8 DEF Step

-----------------------------------------------------------------------------
(* Every step preserves it, first for the replicas that do not move *)

\* A replica that stays where it is, undisturbed, stays on its course.
LEMMA StaysOK ==
  ASSUME NEW v \in Replicas, ReplicaOK(v), Undisturbed(v), Stays(v)
  PROVE  ReplicaOK(v)'
<1>1. CASE ~status'[v].clean
  BY <1>1 DEF ReplicaOK, Stays
<1>2. CASE /\ status'[v] = status[v]
           /\ mem[v].name \in live =>
                mem[v].name \in live' /\ comp'[mem[v].name] = comp[mem[v].name]
  <2>1. mem[v].name \in live => Named(v)' = Named(v)
    BY <1>2 DEF Named, Stays
  <2> QED
    BY <1>2, <2>1 DEF ReplicaOK, Stays, OnCourse, Absent, ConfiguredAs, DesiredState, StartDue,
       StopDue, GroupSteps
<1> QED BY <1>1, <1>2 DEF Undisturbed

\* What others do to a group no replica that works on it takes for its own doing.
LEMMA ForeignEditOK ==
  ASSUME ReconcilerTypeOK, ClientTypeOK, NEW id \in Ids, ForeignEdit(id)
  PROVE  ClientTypeOK' /\ \A v \in Replicas : ReplicaOK(v) => ReplicaOK(v)'
<1>1. ASSUME NEW c \in Components, ForeignEditTo(id, c)
      PROVE  ClientTypeOK' /\ \A v \in Replicas : ReplicaOK(v) => ReplicaOK(v)'
  <2>1. live \subseteq Ids /\ id \in live
    BY DEF ForeignEdit, ReconcilerTypeOK
  <2> QED BY <1>1, <2>1, ForeignEditType, ForeignUndisturbs, StaysOK
<1>2. ASSUME NEW counts \in Counts, ForeignChange, id \in live,
             comp' = [comp EXCEPT ![id].counts = counts],
             status' = [r \in Replicas |-> IF mem[r].name = id
                          THEN [status[r] EXCEPT !.clean = FALSE] ELSE status[r]]
      PROVE  ClientTypeOK' /\ \A v \in Replicas : ReplicaOK(v) => ReplicaOK(v)'
  <2>1. UNCHANGED <<pc, mem, seen, live>>
    BY <1>2 DEF ForeignChange
  <2>2. comp[id] \in Components
    BY <1>2 DEF ClientTypeOK
  <2>3. [comp[id] EXCEPT !.counts = counts] \in Components
    BY <2>2, GroupAssumption
  <2>4. comp' \in [Ids -> Components \cup {NoComponent}]
        /\ \A i \in Ids : comp'[i] = NoComponent <=> i \notin live'
    BY <1>2, <2>1, <2>3, ComponentsAssumption DEF ClientTypeOK
  <2>5. status' \in [Replicas -> Statuses]
    BY <1>2 DEF ClientTypeOK, Statuses
  <2>6. ASSUME NEW v \in Replicas PROVE Undisturbed(v) /\ Stays(v)
    <3>1. CASE mem[v].name = id
      BY <1>2, <2>1, <3>1 DEF Undisturbed, Stays, ClientTypeOK, Statuses
    <3>2. CASE mem[v].name # id
      BY <1>2, <2>1, <3>2 DEF Undisturbed, Stays, ClientTypeOK, ReconcilerTypeOK
    <3> QED BY <3>1, <3>2
  <2> QED BY <2>4, <2>5, <2>6, StaysOK DEF ClientTypeOK
<1> QED BY <1>1, <1>2 DEF ForeignEdit

-----------------------------------------------------------------------------
(* Then for the one that does *)

\* Outside of an Update or a Delete, and of the decision for one, there is no
\* course to keep.
LEMMA ElsewhereOK ==
  ASSUME NEW w \in Replicas, pc'[w] \notin GroupSteps \cup {"decide"}
  PROVE  ReplicaOK(w)'
BY DEF ReplicaOK, OnCourse, GroupSteps

\* The loop, Create and every return lead outside.
LEMMA OutsideOK ==
  ASSUME ReconcilerTypeOK, ClientTypeOK, NEW w \in Replicas, ReplicaOK(w),
         LoopStep(w) \/ CreateGroup(w) \/ Leave(w)
  PROVE  ReplicaOK(w)'
<1>1. CASE Stays(w) /\ Undisturbed(w)
  BY <1>1, StaysOK
<1>2. CASE pc'[w] \in {"idle", "observe", "create", "recordSuccess", "recordFailure"}
  BY <1>2, ElsewhereOK DEF GroupSteps
<1> QED BY <1>1, <1>2, LoopStays, CreateLeads, LeaveLeads DEF CreateGroup

\* Observe keeps the counts of the group that is there.
LEMMA ObserveOK ==
  ASSUME ReconcilerTypeOK, ClientTypeOK, NEW w \in Replicas, ObserveGroup(w)
  PROVE  ReplicaOK(w)'
<1> DEFINE upToDate == IsProcessGroupUpToDate(mem[w].spec, Named(w))
<1>1. /\ mem' = mem /\ live' = live /\ pc'[w] = "decide" /\ Named(w)' = Named(w)
      /\ ~Absent(w)' =>
           /\ mem[w].name \in live
           /\ status'[w] = [observed |-> Named(w).counts, current |-> TRUE, clean |-> TRUE]
  <2> HIDE DEF upToDate
  <2> QED BY ObserveEffect DEF ObserveGroup, upToDate
<1> QED BY <1>1 DEF ReplicaOK, OnCourse, GroupSteps

\* The put goes on to start or to stop what was counted, or has nothing to do:
\* it does not change the counts itself.
LEMMA PutOK ==
  ASSUME ReconcilerTypeOK, ClientTypeOK, NEW w \in Replicas, ReplicaOK(w), Put(w)
  PROVE  ReplicaOK(w)'
<1>1. CASE Leave(w)
  BY <1>1, OutsideOK
<1>2. CASE Apply(w, Configured(Named(w), mem[w].spec), AfterPut(w), TRUE)
  <2>1. /\ mem[w].name \in live /\ mem' = mem /\ live' = live /\ pc'[w] = AfterPut(w)
        /\ Named(w)' = Configured(Named(w), mem[w].spec)
        /\ status'[w].clean = status[w].clean
    BY <1>2, ApplyEffect
  <2>2. ConfiguredAs(Named(w)', mem[w].spec) /\ Named(w)'.counts = Named(w).counts
    BY <2>1, SentTypes
  <2>3. status[w].clean => status[w].observed = Named(w).counts
    BY DEF Put, UpdateDue, Alive, Absent, ReplicaOK, OnCourse
  <2>4. CASE StartDue(mem[w].spec, status[w].observed)
    BY <2>1, <2>2, <2>4 DEF AfterPut, StartDue, ReplicaOK, OnCourse, ConfiguredAs, DesiredState,
       GroupSteps
  <2>5. CASE /\ ~StartDue(mem[w].spec, status[w].observed)
             /\ StopDue(mem[w].spec, status[w].observed)
    BY <2>1, <2>2, <2>5 DEF AfterPut, StopDue, ReplicaOK, OnCourse, ConfiguredAs, DesiredState,
       GroupSteps
  <2>6. CASE /\ ~StartDue(mem[w].spec, status[w].observed)
             /\ ~StopDue(mem[w].spec, status[w].observed)
    BY <2>1, <2>2, <2>3, <2>6 DEF AfterPut, StartDue, StopDue, ReplicaOK, OnCourse, ConfiguredAs,
       DesiredState, GroupSteps
  <2> QED BY <2>4, <2>5, <2>6
<1> QED BY <1>1, <1>2 DEF Put, Call

\* Starting and stopping leave nothing against the desired state, or against
\* the deletion.
LEMMA ScheduleOK ==
  ASSUME ReconcilerTypeOK, ClientTypeOK, NEW w \in Replicas, ReplicaOK(w),
         Start(w) \/ Stop(w) \/ DeleteStop(w)
  PROVE  ReplicaOK(w)'
<1> USE SentTypes, ScheduleEffect
<1>1. CASE Leave(w)
  BY <1>1, OutsideOK
<1>2. CASE pc[w] = "start" /\ Schedule(w, Started(Named(w)), "updated")
  <2>1. /\ mem[w].name \in live /\ mem' = mem /\ live' = live /\ pc'[w] = "updated"
        /\ Named(w)' = Started(Named(w)) /\ status'[w] = status[w]
    BY <1>2
  <2> QED BY <1>2, <2>1 DEF ReplicaOK, OnCourse, ConfiguredAs, DesiredState, StartDue, StopDue,
             GroupSteps
<1>3. CASE pc[w] = "stop" /\ Schedule(w, Stopped(Named(w)), "updated")
  <2>1. /\ mem[w].name \in live /\ mem' = mem /\ live' = live /\ pc'[w] = "updated"
        /\ Named(w)' = Stopped(Named(w)) /\ status'[w] = status[w]
    BY <1>3
  <2> QED BY <1>3, <2>1 DEF ReplicaOK, OnCourse, ConfiguredAs, DesiredState, StartDue, StopDue,
             GroupSteps
<1>4. CASE DeleteDue(w) /\ Schedule(w, Stopped(Named(w)), "deleteRefresh")
  <2>1. /\ mem[w].name \in live /\ mem' = mem /\ live' = live /\ pc'[w] = "deleteRefresh"
        /\ Named(w)' = Stopped(Named(w)) /\ status'[w] = status[w]
    BY <1>4
  <2> QED BY <1>4, <2>1 DEF DeleteDue, ReplicaOK, OnCourse, GroupSteps
<1> QED BY <1>1, <1>2, <1>3, <1>4 DEF Start, Stop, DeleteStop, ScheduleOrFail

\* The reading before the deletion starts nothing.
LEMMA RefreshOK ==
  ASSUME ReconcilerTypeOK, ClientTypeOK, NEW w \in Replicas, ReplicaOK(w), DeleteRefresh(w)
  PROVE  ReplicaOK(w)'
<1>1. CASE Leave(w)
  BY <1>1, OutsideOK
<1>2. CASE /\ mem[w].name \in live /\ mem' = mem /\ live' = live
           /\ pc'[w] = "delete" /\ Named(w)' = Named(w)
           /\ status'[w].clean = status[w].clean
  BY <1>2 DEF DeleteRefresh, ReplicaOK, OnCourse, GroupSteps
<1> QED BY <1>1, <1>2, RefreshEffect DEF DeleteRefresh

\* No step of a replica takes itself or another one off its course.
LEMMA StepOK ==
  ASSUME ReconcilerTypeOK, ClientTypeOK, \A v \in Replicas : ReplicaOK(v),
         NEW w \in Replicas, Step(w), NEW v \in Replicas
  PROVE  ReplicaOK(v)'
<1>1. CASE v # w
  <2>1. ReplicaNext(w)
    BY StepRefines DEF DeletesOnly, ReplicaOK
  <2>2. Undisturbed(v) /\ Stays(v)
    BY <1>1, <2>1, StepUndisturbs, OthersStay
  <2> QED BY <2>2, StaysOK
<1>2. CASE v = w
  <2>1. CASE LoopStep(w) \/ CreateGroup(w) \/ UpdateReturns(w)
    BY <1>2, <2>1, OutsideOK DEF UpdateReturns
  <2>2. CASE DeleteCall(w)
    BY <1>2, <2>2, DeleteLeads, ElsewhereOK DEF DeleteCall, GroupSteps
  <2>3. CASE \/ ObserveGroup(w) \/ Put(w) \/ Start(w) \/ Stop(w)
             \/ DeleteStop(w) \/ DeleteRefresh(w)
    BY <1>2, <2>3, ObserveOK, PutOK, ScheduleOK, RefreshOK
  <2> QED BY <2>1, <2>2, <2>3 DEF Step
<1> QED BY <1>1, <1>2

-----------------------------------------------------------------------------
(* The invariant, and what follows from it *)

\* Every step of the controller and of whatever is around preserves the
\* invariant.
LEMMA GroupStep ==
  ASSUME GroupInv, [Next]_nvars
  PROVE  GroupInv'
<1> USE DEF GroupInv
<1>1. ReconcilerTypeOK'
  BY NextRefines, TypeStep DEF DeletesOnly, ReplicaOK
<1>2. ASSUME NEW w \in Replicas, Step(w)
      PROVE  ClientTypeOK' /\ \A v \in Replicas : ReplicaOK(v)'
  BY <1>2, StepType, StepOK
<1>3. ASSUME NEW id \in Ids, ForeignEdit(id)
      PROVE  ClientTypeOK' /\ \A v \in Replicas : ReplicaOK(v)'
  BY <1>3, ForeignEditOK
<1>4. ASSUME Around
      PROVE  ClientTypeOK' /\ \A v \in Replicas : ReplicaOK(v)'
  <2>1. ClientTypeOK'
    BY <1>4, AroundType
  <2>2. ASSUME NEW v \in Replicas PROVE ReplicaOK(v)'
    BY <1>4, AroundUndisturbs, StaysOK, ElsewhereOK DEF GroupSteps
  <2> QED BY <2>1, <2>2
<1>5. ASSUME UNCHANGED nvars
      PROVE  ClientTypeOK' /\ \A v \in Replicas : ReplicaOK(v)'
  BY <1>5, StaysOK DEF nvars, rvars, ClientTypeOK, Undisturbed, Stays
<1> QED BY <1>1, <1>2, <1>3, <1>4, <1>5 DEF Next

\* The invariant holds throughout.
THEOREM GroupCorrect == Spec => []GroupInv
<1>1. GroupInv /\ [Next]_nvars => GroupInv'
  BY GroupStep
<1> QED BY GroupInitially, <1>1, PTL DEF Spec

\* An Update that nobody interfered with has applied the whole spec, although it
\* started or stopped what Observe had counted.
THEOREM UpdateCorrect == Spec => []UpdateEstablishesSpec
<1>1. ASSUME GroupInv, NEW w \in Replicas, status[w].clean, pc[w] = "updated"
      PROVE  /\ Named(w) = Configured(Named(w), mem[w].spec)
             /\ IsProcessGroupUpToDate(mem[w].spec, Named(w))
  <2>1. /\ mem[w].name \in live
        /\ ConfiguredAs(Named(w), mem[w].spec)
        /\ ~StartDue(mem[w].spec, Named(w).counts)
        /\ ~StopDue(mem[w].spec, Named(w).counts)
    BY <1>1 DEF GroupInv, ReplicaOK, OnCourse, GroupSteps
  <2>2. Named(w) \in Components
    BY <1>1, <2>1, SentTypes DEF GroupInv
  <2>3. Named(w) = Configured(Named(w), mem[w].spec)
    BY <2>1, <2>2, GroupAssumption DEF Configured, ConfiguredAs
  <2> QED BY <2>1, <2>3 DEF IsProcessGroupUpToDate, ConfiguredAs
<1>2. GroupInv => UpdateEstablishesSpec
  BY <1>1 DEF UpdateEstablishesSpec
<1> QED BY GroupCorrect, <1>2, PTL

\* Unless somebody interferes, nothing runs in a group that is being deleted.
THEOREM StopsBeforeDeleteCorrect == Spec => []StopsBeforeDelete
<1>1. GroupInv => StopsBeforeDelete
  BY DEF GroupInv, ReplicaOK, OnCourse, StopsBeforeDelete, DeleteCallDue, DeleteDue, SawRunning
<1> QED BY GroupCorrect, <1>1, PTL

\* The client keeps the contract of the loop, misread errors and all.
THEOREM ImplementsCorrect ==
  Spec => ImplementsReconciler
<1>1. ClientInit => ReconcilerInit
  BY DEF ClientInit
<1>2. GroupInv /\ [Next]_nvars => [ReconcilerNext]_rvars
  BY NextRefines DEF GroupInv, ReplicaOK, DeletesOnly
<1> QED BY GroupCorrect, <1>1, <1>2, PTL DEF Spec, ImplementsReconciler, ReconcilerSpec

\* So the loop's guarantees are the ProcessGroup controller's: at most one component,
\* none forgotten, but for one that a crash, a lost reply or an error misread as its
\* absence loses, and a life that ManagedComponent allows.
THEOREM GroupManagesOne ==
  Spec => [](AtMostOneManaged /\ Accounted) /\ LifecycleRefined
BY ImplementsCorrect, AtMostOneCorrect, AccountedCorrect, LifecycleCorrect, PTL
DEF ImplementsReconciler
=============================================================================

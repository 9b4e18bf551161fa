-------------------------- MODULE RegistryFlowProofs --------------------------
(***************************************************************************)
(* What holds of the RegistryFlow controller for any number of replicas,   *)
(* ids, versions and disturbances, however long NiFi takes to change a     *)
(* version and whatever readings fail: an Update that nobody interferes    *)
(* with has asked for the version of the spec and left the processors in   *)
(* the desired state; and the client keeps the contract of the loop.       *)
(***************************************************************************)
EXTENDS RegistryFlow, NiFiClientProofs

\* Only the Delete of a resource being deleted gets to the call that deletes.
DeletesOnly ==
  \A w \in Replicas : pc[w] \in {"deleteRefresh", "delete"} => mem[w].deleting

\* A reading of the version that fails says nothing untrue of the group.
LEMMA UnversionedRefines ==
  ASSUME NEW w \in Replicas, ObserveUnversioned(w)
  PROVE  Observe(w)
<1>1. ASSUME NEW report \in {"different", "upToDate"}, seen' = [seen EXCEPT ![w] = report]
      PROVE  Observe(w)
  BY <1>1 DEF ObserveUnversioned, Observe, Reports
<1> QED BY <1>1 DEF ObserveUnversioned

\* Every call of the client is one the loop knows.
LEMMA StepRefines ==
  ASSUME DeletesOnly, NEW w \in Replicas, Step(w)
  PROVE  ReplicaNext(w)
<1> USE FlowAssumption DEF FlowSteps, InCall
<1>1. CASE LoopStep(w)
  BY <1>1, LoopRefines
<1>2. CASE ObserveFlow(w)
  <2>1. IsRegistryFlowUpToDate(mem[w].spec, CurrentVersion(w)) \in BOOLEAN
    BY DEF IsRegistryFlowUpToDate
  <2> QED BY <1>2, <2>1, ObserveRefines DEF ObserveFlow, ReplicaNext
<1>3. CASE ObserveUnversioned(w)
  BY <1>3, UnversionedRefines DEF ReplicaNext
<1>4. CASE CreateFlow(w)
  BY <1>4, CreateRefines DEF CreateFlow
<1>5. CASE StartImported(w)
  BY <1>5 DEF StartImported, Schedule, CreateReturns, ReplicaNext
<1>6. CASE ReadVersionControl(w) \/ DeleteRefresh(w)
  BY <1>6, RefreshRefines DEF ReadVersionControl, DeleteRefresh, ReplicaNext
<1>7. CASE ChangeFlowVersion(w)
  BY <1>7, CallRefines DEF ChangeFlowVersion, ReplicaNext
<1>8. CASE ReadCounts(w)
  <2>1. AfterCounts(w) \in ClientSteps
    BY DEF AfterCounts
  <2> QED BY <1>8, <2>1, RefreshRefines DEF ReadCounts, ReplicaNext
<1>9. CASE Start(w) \/ Stop(w)
  BY <1>9, ScheduleRefines DEF Start, Stop, ScheduleOrFail, ReplicaNext
<1>10. CASE UpdateReturns(w)
  BY <1>10, LeaveRefines DEF UpdateReturns, ReplicaNext
<1>11. CASE DeleteStop(w)
  BY <1>11 DEF DeleteStop, Schedule, StopFails, ClientCall, ReplicaNext
<1>12. CASE DeleteCall(w)
  BY <1>12, DeleteRefines DEF DeleteCall, DeletesOnly, ReplicaNext
<1> QED
  BY <1>1, <1>2, <1>3, <1>4, <1>5, <1>6, <1>7, <1>8, <1>9, <1>10, <1>11, <1>12 DEF Step

\* So is every step of the controller, of NiFi and of what is around them.
LEMMA NextRefines ==
  ASSUME DeletesOnly, [Next]_fvars
  PROVE  [ReconcilerNext]_rvars
<1>1. ASSUME NEW w \in Replicas, Step(w) PROVE ReconcilerNext
  BY <1>1, StepRefines DEF ReconcilerNext
<1>2. ASSUME NEW id \in Ids, Changing(id) PROVE UNCHANGED rvars
  BY <1>2 DEF Changing, VersionChanged
<1>3. ASSUME NEW id \in Ids, ForeignEdit(id) PROVE ReconcilerNext
  BY <1>3 DEF ForeignEdit, ForeignEditTo, ReconcilerNext
<1>4. CASE Around
  BY <1>4, AroundRefines
<1>5. CASE UNCHANGED fvars
  BY <1>5 DEF fvars, nvars
<1> QED BY <1>1, <1>2, <1>3, <1>4, <1>5 DEF Next

-----------------------------------------------------------------------------
(* The invariant that carries the rest *)

UpdateSteps == {"change", "counts", "start", "stop", "updated"}

\* NiFi is changing the flow to the version of the spec, or cannot.
AskedFor(c, spec) == c.version # None => c.target = spec.version

\* Where an Update that nobody interferes with has got to.
OnCourse(w) ==
  /\ pc[w] \in UpdateSteps => mem[w].name \in live
  /\ pc[w] \in UpdateSteps \ {"change"} => AskedFor(Named(w), mem[w].spec)
  /\ pc[w] = "start" => DesiredState(mem[w].spec) = "RUNNING"
  /\ pc[w] = "stop" => DesiredState(mem[w].spec) = "STOPPED"
  /\ pc[w] = "updated" => /\ ~StartDue(mem[w].spec, Named(w).counts)
                          /\ ~StopDue(mem[w].spec, Named(w).counts)

ReplicaOK(w) ==
  /\ pc[w] \in {"deleteRefresh", "delete"} => mem[w].deleting
  /\ status[w].clean => OnCourse(w)

FlowInv == /\ ReconcilerTypeOK
           /\ ClientTypeOK
           /\ recorded \in CurrentVersions
           /\ \A w \in Replicas : ReplicaOK(w)

\* It holds at the start, where nothing is under way.
LEMMA FlowInitially == Init => FlowInv
<1> SUFFICES ASSUME Init PROVE FlowInv
  OBVIOUS
<1>1. ReconcilerTypeOK
  BY TypeInit DEF Init, ClientInit
<1>2. ClientTypeOK
  BY NoStatusType DEF Init, ClientInit, ClientTypeOK
<1>3. \A w \in Replicas : pc[w] = "idle"
  BY DEF Init, ClientInit, ReconcilerInit
<1>4. recorded \in CurrentVersions
  BY DEF Init, CurrentVersions
<1> QED BY <1>1, <1>2, <1>3, <1>4 DEF FlowInv, ReplicaOK, OnCourse, UpdateSteps

\* What the client sends and keeps has its type, and what it leaves behind in a
\* group is what it sent.
LEMMA SentTypes ==
  ASSUME ReconcilerTypeOK, ClientTypeOK, NEW w \in Replicas, mem[w].name \in live
  PROVE  /\ Named(w) \in Components /\ Named(w).version \in CurrentVersions
         /\ mem[w].spec \in Specs
         /\ Changed(Named(w), mem[w].spec) \in Components
         /\ Changed(Named(w), mem[w].spec).target = mem[w].spec.version
         /\ \A c \in {Started(Named(w)), Stopped(Named(w))} :
              /\ c \in Components
              /\ c.version = Named(w).version /\ c.target = Named(w).target
         /\ ~Started(Named(w)).counts.stopped
         /\ ~Stopped(Named(w)).counts.running
<1>1. Named(w) \in Components
  BY DEF ReconcilerTypeOK, ClientTypeOK, Named
<1>2. mem[w].spec \in Specs
  BY DEF ReconcilerTypeOK, Resources
<1> DEFINE c == Named(w)
<1>3. c \in [version : CurrentVersions, target : CurrentVersions, counts : Counts]
  BY <1>1, FlowAssumption
<1>4. /\ Changed(c, mem[w].spec) \in Components
      /\ Changed(c, mem[w].spec).target = mem[w].spec.version
  BY <1>2, <1>3, FlowAssumption DEF RegistryFlowParameters, Changed
<1>5. Some(c) \in BOOLEAN
  BY <1>3 DEF Some, Counts
<1>6. /\ Started(c) \in Components /\ ~Started(c).counts.stopped
      /\ Started(c).version = c.version /\ Started(c).target = c.target
  BY <1>3, <1>5, FlowAssumption DEF Started, Counts
<1>7. /\ Stopped(c) \in Components /\ ~Stopped(c).counts.running
      /\ Stopped(c).version = c.version /\ Stopped(c).target = c.target
  BY <1>3, <1>5, FlowAssumption DEF Stopped, Counts
<1> QED BY <1>1, <1>2, <1>3, <1>4, <1>6, <1>7

\* So has the version that Observe ends up with, and keeps for the next one.
LEMMA VersionTypes ==
  ASSUME ReconcilerTypeOK, ClientTypeOK, recorded \in CurrentVersions,
         NEW w \in Replicas, mem[w].name \in live
  PROVE  CurrentVersion(w) \in Observations /\ recorded \in Observations
BY SentTypes, FlowAssumption DEF CurrentVersion

\* The version that the status keeps is one that was deployed, or none.
LEMMA RecordedType ==
  ASSUME ReconcilerTypeOK, ClientTypeOK, recorded \in CurrentVersions,
         NEW w \in Replicas, Step(w)
  PROVE  recorded' \in CurrentVersions
<1>1. CASE ObserveFlow(w)
  <2>1. CASE Absent(w)'
    BY <1>1, <2>1 DEF ObserveFlow
  <2>2. CASE ~Absent(w)'
    <3> DEFINE upToDate == IsRegistryFlowUpToDate(mem[w].spec, CurrentVersion(w))
    <3>1. mem[w].name \in live
      <4> HIDE DEF upToDate
      <4> QED BY <1>1, <2>2, ObserveEffect DEF ObserveFlow, upToDate
    <3> QED BY <1>1, <2>2, <3>1, VersionTypes, FlowAssumption DEF ObserveFlow
  <2> QED BY <2>1, <2>2
<1>2. CASE UNCHANGED recorded
  BY <1>2
<1> QED BY <1>1, <1>2 DEF Step, ObserveUnversioned

\* The types are preserved by every step of a replica.
LEMMA StepType ==
  ASSUME ReconcilerTypeOK, ClientTypeOK, recorded \in CurrentVersions,
         NEW w \in Replicas, Step(w)
  PROVE  ClientTypeOK'
<1>1. CASE LoopStep(w)
  BY <1>1, LoopType
<1>2. CASE ObserveFlow(w)
  BY <1>2, VersionTypes, ObserveType DEF ObserveFlow
<1>3. CASE ObserveUnversioned(w)
  <2>1. [observed |-> recorded, current |-> TRUE, clean |-> TRUE] \in Statuses
    BY <1>3, VersionTypes DEF ObserveUnversioned, Statuses
  <2> QED BY <1>3, <2>1 DEF ObserveUnversioned, ClientTypeOK
<1>4. CASE CreateFlow(w)
  <2>1. Imported(mem[w].spec) \in Components
    BY FlowAssumption DEF RegistryFlowParameters, ReconcilerTypeOK, Resources, Imported, Counts,
       CurrentVersions
  <2> QED BY <1>4, <2>1, CreateType DEF CreateFlow
<1>5. CASE UNCHANGED <<live, comp, status>>
  BY <1>5 DEF ClientTypeOK
<1>6. CASE StartImported(w)
  BY <1>5, <1>6, SentTypes, ScheduleType DEF StartImported
<1>7. CASE ReadVersionControl(w) \/ ReadCounts(w) \/ DeleteRefresh(w)
  BY <1>7, RefreshType DEF ReadVersionControl, ReadCounts, DeleteRefresh
<1>8. CASE ChangeFlowVersion(w)
  BY <1>8, SentTypes, CallType DEF ChangeFlowVersion
<1>9. CASE Start(w) \/ Stop(w)
  BY <1>9, SentTypes, ScheduleType, LeaveType DEF Start, Stop, ScheduleOrFail
<1>10. CASE UpdateReturns(w)
  BY <1>10, LeaveType DEF UpdateReturns
<1>11. CASE DeleteStop(w)
  BY <1>5, <1>11, SentTypes, ScheduleType DEF DeleteStop, DeleteStopped, StopFails
<1>12. CASE DeleteCall(w)
  BY <1>12, DeleteType DEF DeleteCall
<1> QED
  BY <1>1, <1>2, <1>3, <1>4, <1>6, <1>7, <1>8, <1>9, <1>10, <1>11, <1>12 DEF Step

\* No step of a replica disturbs another one unnoticed.
LEMMA StepUndisturbs ==
  ASSUME ReconcilerTypeOK, ClientTypeOK, NEW w \in Replicas, NEW v \in Replicas, v # w, Step(w)
  PROVE  Undisturbed(v)
<1>1. CASE LoopStep(w)
  BY <1>1, LoopUndisturbs
<1>2. CASE ObserveFlow(w)
  BY <1>2, ObserveUndisturbs DEF ObserveFlow
<1>3. CASE ObserveUnversioned(w)
  BY <1>3 DEF ObserveUnversioned, ClientTypeOK, Undisturbed
<1>4. CASE CreateFlow(w)
  BY <1>4, CreateUndisturbs DEF CreateFlow
<1>5. CASE UNCHANGED <<live, comp, status>>
  BY <1>5 DEF Undisturbed
<1>6. CASE StartImported(w) \/ DeleteStop(w)
  BY <1>5, <1>6, ScheduleUndisturbs DEF StartImported, DeleteStop, StopFails
<1>7. CASE ReadVersionControl(w) \/ ReadCounts(w) \/ DeleteRefresh(w)
  BY <1>7, RefreshUndisturbs DEF ReadVersionControl, ReadCounts, DeleteRefresh
<1>8. CASE ChangeFlowVersion(w)
  BY <1>8, CallUndisturbs DEF ChangeFlowVersion
<1>9. CASE Start(w) \/ Stop(w)
  BY <1>9, ScheduleUndisturbs, LeaveUndisturbs DEF Start, Stop, ScheduleOrFail
<1>10. CASE UpdateReturns(w)
  BY <1>10, LeaveUndisturbs DEF UpdateReturns
<1>11. CASE DeleteCall(w)
  BY <1>11, DeleteUndisturbs DEF DeleteCall
<1> QED
  BY <1>1, <1>2, <1>3, <1>4, <1>6, <1>7, <1>8, <1>9, <1>10, <1>11 DEF Step

-----------------------------------------------------------------------------
(* Every step preserves it, first for the replicas that do not move *)

\* A replica that stays where it is, undisturbed, stays on its course.
LEMMA StaysOK ==
  ASSUME NEW v \in Replicas, ReplicaOK(v), Undisturbed(v), Stays(v)
  PROVE  ReplicaOK(v)'
<1>1. CASE ~status'[v].clean
  BY <1>1 DEF ReplicaOK, Stays
<1>2. CASE /\ status'[v] = status[v]
           /\ mem[v].name \in live =>
                mem[v].name \in live' /\ comp'[mem[v].name] = comp[mem[v].name]
  <2>1. mem[v].name \in live => Named(v)' = Named(v)
    BY <1>2 DEF Named, Stays
  <2> QED
    BY <1>2, <2>1 DEF ReplicaOK, Stays, OnCourse, AskedFor, DesiredState, StartDue, StopDue,
       UpdateSteps
<1> QED BY <1>1, <1>2 DEF Undisturbed

\* A change of version that NiFi completes every replica that works on the flow
\* is aware of: the revision has moved.
LEMMA VersionChangedOK ==
  ASSUME ReconcilerTypeOK, ClientTypeOK, NEW id \in Ids, VersionChanged(id)
  PROVE  ClientTypeOK' /\ \A v \in Replicas : ReplicaOK(v) => ReplicaOK(v)'
<1>1. /\ UNCHANGED <<pc, mem, seen, live>> /\ id \in live /\ status' = Touched(id)
      /\ comp' = [comp EXCEPT ![id] = [comp[id] EXCEPT !.version = comp[id].target,
                                                       !.target = None]]
  BY DEF VersionChanged, rvars, ClientTypeOK
<1>2. comp[id] \in Components
  BY <1>1 DEF ClientTypeOK
<1>3. [comp[id] EXCEPT !.version = comp[id].target, !.target = None] \in Components
  BY <1>2, FlowAssumption DEF CurrentVersions
<1>4. ClientTypeOK'
  BY <1>1, <1>3, ComponentsAssumption, TouchedType DEF ClientTypeOK
<1>5. ASSUME NEW v \in Replicas PROVE Undisturbed(v) /\ Stays(v)
  <2>1. CASE mem[v].name = id
    <3>1. status'[v] = [status[v] EXCEPT !.current = FALSE, !.clean = FALSE]
      BY <1>1, <2>1 DEF Touched, ClientTypeOK
    <3> QED BY <1>1, <3>1 DEF Undisturbed, Stays, ClientTypeOK, Statuses
  <2>2. CASE mem[v].name # id
    BY <1>1, <2>2 DEF Touched, Undisturbed, Stays, ClientTypeOK, ReconcilerTypeOK
  <2> QED BY <2>1, <2>2
<1> QED BY <1>4, <1>5, StaysOK

-----------------------------------------------------------------------------
(* Then for the one that does *)

\* Outside of an Update or a Delete there is no course to keep.
LEMMA ElsewhereOK ==
  ASSUME NEW w \in Replicas, pc'[w] \notin FlowSteps
  PROVE  ReplicaOK(w)'
BY DEF ReplicaOK, OnCourse, UpdateSteps, FlowSteps

\* The loop, Observe, Create and every return lead outside.
LEMMA OutsideOK ==
  ASSUME ReconcilerTypeOK, ClientTypeOK, NEW w \in Replicas,
         \/ LoopStep(w) \/ ObserveFlow(w) \/ ObserveUnversioned(w)
         \/ CreateFlow(w) \/ StartImported(w) \/ Leave(w)
  PROVE  ReplicaOK(w)'
<1>1. {"idle", "observe", "decide", "create", "created", "recordSuccess", "recordFailure"}
        \cap FlowSteps = {}
  BY DEF FlowSteps
<1>2. CASE LoopStep(w)
  BY <1>1, <1>2, LoopLeads, ElsewhereOK
<1>3. CASE ObserveFlow(w)
  BY <1>1, <1>3, ObserveLeads, ElsewhereOK DEF ObserveFlow
<1>4. CASE ObserveUnversioned(w)
  BY <1>1, <1>4, ElsewhereOK DEF ObserveUnversioned, Goto, ReconcilerTypeOK
<1>5. CASE CreateFlow(w)
  BY <1>1, <1>5, CreateLeads, ElsewhereOK DEF CreateFlow
<1>6. CASE StartImported(w)
  BY <1>1, <1>6, ElsewhereOK DEF StartImported, Schedule, Goto, ReconcilerTypeOK
<1>7. CASE Leave(w)
  BY <1>1, <1>7, LeaveLeads, ElsewhereOK
<1> QED BY <1>2, <1>3, <1>4, <1>5, <1>6, <1>7

\* The version control is read, and there is nothing to change without it;
LEMMA ReadVersionOK ==
  ASSUME ReconcilerTypeOK, ClientTypeOK, NEW w \in Replicas, ReadVersionControl(w)
  PROVE  ReplicaOK(w)'
<1> DEFINE step == IF Named(w).version = None THEN "counts" ELSE "change"
<1>1. CASE Leave(w)
  BY <1>1, OutsideOK
<1>2. CASE /\ mem[w].name \in live /\ mem' = mem /\ live' = live
           /\ pc'[w] = step /\ Named(w)' = Named(w)
  BY <1>2 DEF ReplicaOK, OnCourse, AskedFor, UpdateSteps
<1>3. RefreshThen(w, step)
  BY DEF ReadVersionControl
<1> HIDE DEF step
<1> QED BY <1>1, <1>2, <1>3, RefreshEffect

\* the change of version asks for that of the spec,
LEMMA ChangeOK ==
  ASSUME ReconcilerTypeOK, ClientTypeOK, NEW w \in Replicas, ChangeFlowVersion(w)
  PROVE  ReplicaOK(w)'
<1>1. CASE Leave(w)
  BY <1>1, OutsideOK
<1>2. CASE Apply(w, Changed(Named(w), mem[w].spec), "counts", FALSE)
  <2>1. /\ mem[w].name \in live /\ mem' = mem /\ live' = live /\ pc'[w] = "counts"
        /\ Named(w)' = Changed(Named(w), mem[w].spec)
    BY <1>2, ApplyEffect
  <2>2. Named(w)'.target = mem[w].spec.version
    BY <2>1, SentTypes
  <2> QED BY <2>1, <2>2 DEF ReplicaOK, OnCourse, AskedFor, UpdateSteps
<1> QED BY <1>1, <1>2 DEF ChangeFlowVersion, Call

\* the counts lead to a start or a stop only when one is due,
LEMMA CountsOK ==
  ASSUME ReconcilerTypeOK, ClientTypeOK, NEW w \in Replicas, ReplicaOK(w), ReadCounts(w)
  PROVE  ReplicaOK(w)'
<1>1. CASE Leave(w)
  BY <1>1, OutsideOK
<1>2. CASE /\ mem[w].name \in live /\ mem' = mem /\ live' = live
           /\ pc'[w] = AfterCounts(w) /\ Named(w)' = Named(w)
           /\ status'[w].clean = status[w].clean
  <2>1. status[w].clean => AskedFor(Named(w), mem[w].spec)
    BY DEF ReadCounts, ReplicaOK, OnCourse, UpdateSteps
  <2>2. CASE StartDue(mem[w].spec, Named(w).counts)
    BY <1>2, <2>1, <2>2 DEF AfterCounts, StartDue, ReplicaOK, OnCourse, AskedFor, DesiredState,
       UpdateSteps
  <2>3. CASE ~StartDue(mem[w].spec, Named(w).counts) /\ StopDue(mem[w].spec, Named(w).counts)
    BY <1>2, <2>1, <2>3 DEF AfterCounts, StopDue, ReplicaOK, OnCourse, AskedFor, DesiredState,
       UpdateSteps
  <2>4. CASE ~StartDue(mem[w].spec, Named(w).counts) /\ ~StopDue(mem[w].spec, Named(w).counts)
    BY <1>2, <2>1, <2>4 DEF AfterCounts, StartDue, StopDue, ReplicaOK, OnCourse, AskedFor,
       DesiredState, UpdateSteps
  <2> QED BY <2>2, <2>3, <2>4
<1>3. RefreshThen(w, AfterCounts(w))
  BY DEF ReadCounts
<1> QED BY <1>1, <1>2, <1>3, RefreshEffect

\* starting and stopping leave nothing against the desired state, nor do they
\* touch the version,
LEMMA ScheduleOK ==
  ASSUME ReconcilerTypeOK, ClientTypeOK, NEW w \in Replicas, ReplicaOK(w), Start(w) \/ Stop(w)
  PROVE  ReplicaOK(w)'
<1>1. CASE Leave(w)
  BY <1>1, OutsideOK
<1>2. CASE pc[w] = "start" /\ Schedule(w, Started(Named(w)), "updated")
  <2>1. /\ mem[w].name \in live /\ mem' = mem /\ live' = live /\ pc'[w] = "updated"
        /\ Named(w)' = Started(Named(w)) /\ status'[w] = status[w]
    BY <1>2, ScheduleEffect
  <2> QED BY <1>2, <2>1, SentTypes
          DEF ReplicaOK, OnCourse, AskedFor, DesiredState, StartDue, StopDue, UpdateSteps
<1>3. CASE pc[w] = "stop" /\ Schedule(w, Stopped(Named(w)), "updated")
  <2>1. /\ mem[w].name \in live /\ mem' = mem /\ live' = live /\ pc'[w] = "updated"
        /\ Named(w)' = Stopped(Named(w)) /\ status'[w] = status[w]
    BY <1>3, ScheduleEffect
  <2> QED BY <1>3, <2>1, SentTypes
          DEF ReplicaOK, OnCourse, AskedFor, DesiredState, StartDue, StopDue, UpdateSteps
<1> QED BY <1>1, <1>2, <1>3 DEF Start, Stop, ScheduleOrFail

\* and a Delete goes on to delete what is being deleted.
LEMMA DeleteOK ==
  ASSUME ReconcilerTypeOK, ClientTypeOK, NEW w \in Replicas, ReplicaOK(w),
         DeleteStop(w) \/ DeleteRefresh(w)
  PROVE  ReplicaOK(w)'
<1>1. CASE Leave(w)
  BY <1>1, OutsideOK
<1>2. CASE mem[w].deleting /\ mem' = mem /\ pc'[w] \in {"deleteRefresh", "delete"}
  BY <1>2 DEF ReplicaOK, OnCourse, UpdateSteps
<1>3. CASE DeleteStop(w)
  BY <1>2, <1>3 DEF DeleteStop, DeleteDue, Schedule, StopFails, Goto, ReconcilerTypeOK
<1>4. CASE DeleteRefresh(w)
  BY <1>1, <1>2, <1>4, RefreshEffect DEF DeleteRefresh, ReplicaOK
<1> QED BY <1>3, <1>4

\* No step of a replica takes itself or another one off its course.
LEMMA StepOK ==
  ASSUME ReconcilerTypeOK, ClientTypeOK, \A v \in Replicas : ReplicaOK(v),
         NEW w \in Replicas, Step(w), NEW v \in Replicas
  PROVE  ReplicaOK(v)'
<1>1. CASE v # w
  <2>1. ReplicaNext(w)
    BY StepRefines DEF DeletesOnly, ReplicaOK
  <2>2. Undisturbed(v) /\ Stays(v)
    BY <1>1, <2>1, StepUndisturbs, OthersStay
  <2> QED BY <2>2, StaysOK
<1>2. CASE v = w
  <2>1. CASE \/ LoopStep(w) \/ ObserveFlow(w) \/ ObserveUnversioned(w)
             \/ CreateFlow(w) \/ StartImported(w) \/ UpdateReturns(w)
    BY <1>2, <2>1, OutsideOK DEF UpdateReturns
  <2>2. CASE DeleteCall(w)
    BY <1>2, <2>2, DeleteLeads, ElsewhereOK DEF DeleteCall, FlowSteps
  <2>3. CASE \/ ReadVersionControl(w) \/ ChangeFlowVersion(w) \/ ReadCounts(w)
             \/ Start(w) \/ Stop(w) \/ DeleteStop(w) \/ DeleteRefresh(w)
    BY <1>2, <2>3, ReadVersionOK, ChangeOK, CountsOK, ScheduleOK, DeleteOK
  <2> QED BY <2>1, <2>2, <2>3 DEF Step
<1> QED BY <1>1, <1>2

-----------------------------------------------------------------------------
(* The invariant, and what follows from it *)

\* Every step of the controller, of NiFi and of whatever is around preserves
\* the invariant.
LEMMA FlowStep ==
  ASSUME FlowInv, [Next]_fvars
  PROVE  FlowInv'
<1> USE DEF FlowInv
<1>1. ReconcilerTypeOK'
  BY NextRefines, TypeStep DEF DeletesOnly, ReplicaOK
<1>2. ASSUME NEW w \in Replicas, Step(w)
      PROVE  /\ ClientTypeOK' /\ recorded' \in CurrentVersions
             /\ \A v \in Replicas : ReplicaOK(v)'
  BY <1>2, StepType, RecordedType, StepOK
<1>3. ASSUME NEW id \in Ids, Changing(id)
      PROVE  /\ ClientTypeOK' /\ recorded' \in CurrentVersions
             /\ \A v \in Replicas : ReplicaOK(v)'
  BY <1>3, VersionChangedOK DEF Changing
<1>4. ASSUME NEW id \in Ids, ForeignEdit(id)
      PROVE  ClientTypeOK' /\ \A v \in Replicas : ReplicaOK(v)'
  <2>1. live \subseteq Ids /\ id \in live
    BY <1>4 DEF ForeignEdit, ReconcilerTypeOK
  <2>2. ClientTypeOK'
    BY <1>4, <2>1, ForeignEditType DEF ForeignEdit
  <2>3. ASSUME NEW v \in Replicas PROVE ReplicaOK(v)'
    BY <1>4, ForeignUndisturbs, StaysOK DEF ForeignEdit
  <2> QED BY <2>2, <2>3
<1>5. ASSUME Around
      PROVE  ClientTypeOK' /\ \A v \in Replicas : ReplicaOK(v)'
  <2>1. ClientTypeOK'
    BY <1>5, AroundType
  <2>2. ASSUME NEW v \in Replicas PROVE ReplicaOK(v)'
    BY <1>5, AroundUndisturbs, StaysOK, ElsewhereOK DEF FlowSteps
  <2> QED BY <2>1, <2>2
<1>6. ASSUME UNCHANGED fvars
      PROVE  ClientTypeOK' /\ \A v \in Replicas : ReplicaOK(v)'
  BY <1>6, StaysOK DEF fvars, nvars, rvars, ClientTypeOK, Undisturbed, Stays
<1> QED BY <1>1, <1>2, <1>3, <1>4, <1>5, <1>6 DEF Next, fvars

\* The invariant holds throughout.
THEOREM FlowCorrect == Spec => []FlowInv
<1>1. FlowInv /\ [Next]_fvars => FlowInv'
  BY FlowStep
<1> QED BY FlowInitially, <1>1, PTL DEF Spec

\* An Update that nobody interfered with has asked for the version of the spec
\* and brought the processors into the desired state.
THEOREM UpdateCorrect == Spec => []UpdateEstablishesSpec
<1>1. FlowInv => UpdateEstablishesSpec
  BY DEF FlowInv, ReplicaOK, OnCourse, AskedFor, UpdateSteps, UpdateEstablishesSpec
<1> QED BY FlowCorrect, <1>1, PTL

\* The client keeps the contract of the loop, misread errors and all.
THEOREM ImplementsCorrect ==
  Spec => ImplementsReconciler
<1>1. Init => ReconcilerInit
  BY DEF Init, ClientInit
<1>2. FlowInv /\ [Next]_fvars => [ReconcilerNext]_rvars
  BY NextRefines DEF FlowInv, ReplicaOK, DeletesOnly
<1> QED BY FlowCorrect, <1>1, <1>2, PTL DEF Spec, ImplementsReconciler, ReconcilerSpec

\* So the loop's guarantees are the RegistryFlow controller's: at most one component,
\* none forgotten, but for one that a crash, a lost reply or an error misread as its
\* absence loses, whatever readings fail, and a life that ManagedComponent allows.
THEOREM FlowManagesOne ==
  Spec => [](AtMostOneManaged /\ Accounted) /\ LifecycleRefined
BY ImplementsCorrect, AtMostOneCorrect, AccountedCorrect, LifecycleCorrect, PTL
DEF ImplementsReconciler
=============================================================================

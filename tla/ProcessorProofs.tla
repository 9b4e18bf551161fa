--------------------------- MODULE ProcessorProofs ---------------------------
(***************************************************************************)
(* What holds of the Processor controller for any number of replicas, ids, *)
(* configurations and disturbances: an Update or a Delete that nobody      *)
(* interferes with never sends a version that the provider made old, the   *)
(* Update applies the spec, the Delete stops the processor first; and the  *)
(* client keeps the contract of the loop, so that the loop's guarantees are *)
(* the controller's.                                                       *)
(***************************************************************************)
EXTENDS Processor, NiFiClientProofs

\* Only the Delete of a resource being deleted gets to the call that deletes.
DeletesOnly ==
  \A w \in Replicas : pc[w] \in {"deleteRefresh", "delete"} => mem[w].deleting

\* Every call of the client is one the loop knows.
LEMMA StepRefines ==
  ASSUME DeletesOnly, NEW w \in Replicas, Step(w)
  PROVE  ReplicaNext(w)
<1> USE ProcessorAssumption DEF ProcessorParameters, ProcessorSteps, InCall
<1>1. CASE LoopStep(w)
  BY <1>1, LoopRefines
<1>2. CASE ObserveProcessor(w)
  <2>1. IsProcessorUpToDate(mem[w].spec, Named(w)) \in BOOLEAN
    BY DEF IsProcessorUpToDate
  <2> QED BY <1>2, <2>1, ObserveRefines DEF ObserveProcessor, ReplicaNext
<1>3. CASE CreateProcessor(w)
  BY <1>3, CreateRefines DEF CreateProcessor
<1>4. CASE Stop(w) \/ DeleteStop(w)
  BY <1>4, CallRefines DEF Stop, DeleteStop, StopThen, ReplicaNext
<1>5. CASE Refresh(w) \/ DeleteRefresh(w)
  BY <1>5, RefreshRefines DEF Refresh, DeleteRefresh, ReplicaNext
<1>6. CASE Put(w)
  <2>1. AfterPut(mem[w].spec) \in ClientSteps
    BY DEF AfterPut
  <2> QED BY <1>6, <2>1, CallRefines DEF Put, ReplicaNext
<1>7. CASE Start(w)
  BY <1>7, CallRefines DEF Start, ReplicaNext
<1>8. CASE UpdateReturns(w)
  BY <1>8, LeaveRefines DEF UpdateReturns, ReplicaNext
<1>9. CASE DeleteCall(w)
  BY <1>9, DeleteRefines DEF DeleteCall, DeleteCalled, DeletesOnly, ReplicaNext
<1> QED
  BY <1>1, <1>2, <1>3, <1>4, <1>5, <1>6, <1>7, <1>8, <1>9 DEF Step

\* So is every step of the controller and of what is around it.
LEMMA NextRefines ==
  ASSUME DeletesOnly, [Next]_pvars
  PROVE  [ReconcilerNext]_rvars
<1>1. ASSUME NEW w \in Replicas, Step(w) PROVE ReconcilerNext
  BY <1>1, StepRefines DEF ReconcilerNext
<1>2. ASSUME NEW id \in Ids, Drain(id) PROVE UNCHANGED rvars
  BY <1>2 DEF Drain, Settle
<1>3. ASSUME NEW id \in Ids, ForeignEdit(id) PROVE ReconcilerNext
  BY <1>3 DEF ForeignEdit, ForeignEditTo, ReconcilerNext
<1>4. CASE Around
  BY <1>4, AroundRefines
<1>5. CASE UNCHANGED pvars
  BY <1>5 DEF pvars, nvars
<1> QED BY <1>1, <1>2, <1>3, <1>4, <1>5 DEF Next

-----------------------------------------------------------------------------
(* The invariant that carries the rest *)

\* Where an Update or a Delete that nobody interferes with has got to.
OnCourse(w) ==
  /\ pc[w] = "decide" /\ ~Absent(w) =>
       mem[w].name \in live /\ status[w].observed = RunStatus(Named(w).run)
  /\ pc[w] \in {"put", "start", "delete"} => status[w].current
  /\ pc[w] \in ProcessorSteps => mem[w].name \in live
  /\ pc[w] \in {"refresh", "put", "deleteRefresh", "delete"} => Named(w).run \in {"STOPPING", "STOPPED"}
  /\ pc[w] = "start" => /\ Named(w) = [Configured(Named(w), mem[w].spec) EXCEPT !.run = "STOPPED"]
                        /\ DesiredState(mem[w].spec) = "RUNNING"
  /\ pc[w] = "updated" /\ mem[w].spec.desired # "DISABLED" => Matches(Named(w), mem[w].spec)

ReplicaOK(w) ==
  /\ pc[w] \in {"deleteRefresh", "delete"} => mem[w].deleting
  /\ pc[w] \in {"refresh", "put", "start", "updated"} => ~mem[w].deleting
  /\ status[w].clean => OnCourse(w)

ProcessorInv == /\ ReconcilerTypeOK
                /\ ClientTypeOK
                /\ spelling \in Spellings
                /\ \A w \in Replicas : ReplicaOK(w)

\* It holds at the start, where nothing is under way.
LEMMA ProcessorInitially == Init => ProcessorInv
<1> SUFFICES ASSUME Init PROVE ProcessorInv
  OBVIOUS
<1>1. ReconcilerTypeOK
  BY TypeInit DEF Init, ClientInit
<1>2. ClientTypeOK
  BY NoStatusType DEF Init, ClientInit, ClientTypeOK
<1>3. \A w \in Replicas : pc[w] = "idle"
  BY DEF Init, ClientInit, ReconcilerInit
<1> QED BY <1>1, <1>2, <1>3 DEF Init, ProcessorInv, ReplicaOK, OnCourse, ProcessorSteps

\* What the client sends and keeps has its type.
LEMMA SentTypes ==
  ASSUME ReconcilerTypeOK, ClientTypeOK, NEW w \in Replicas, mem[w].name \in live
  PROVE  /\ Named(w) \in Components
         /\ \A run \in RunStates : [Named(w) EXCEPT !.run = run] \in Components
         /\ Configured(Named(w), mem[w].spec) \in Components
         /\ RunStatus(Named(w).run) \in Observations
<1>1. Named(w) \in Components
  BY DEF ReconcilerTypeOK, ClientTypeOK, Named
<1>2. mem[w].spec \in Specs
  BY DEF ReconcilerTypeOK, Resources
<1>3. RunStatus(Named(w).run) \in Observations
  <2>1. Named(w).run \in RunStates
    BY <1>1, ProcessorAssumption
  <2>2. MixedCase["RUNNING"] = "Running" /\ MixedCase["STOPPED"] = "Stopped"
        /\ MixedCase["DISABLED"] = "Disabled"
    BY DEF MixedCase
  <2> QED BY <2>1, <2>2, ProcessorAssumption DEF ProcessorParameters, RunStatus, RunStates, RunStatuses
<1> QED BY <1>1, <1>2, <1>3, ProcessorAssumption DEF ProcessorParameters, Configured

\* The types are preserved by every step of a replica.
LEMMA StepType ==
  ASSUME ReconcilerTypeOK, ClientTypeOK, NEW w \in Replicas, Step(w)
  PROVE  ClientTypeOK'
<1>1. CASE LoopStep(w)
  BY <1>1, LoopType
<1>2. CASE ObserveProcessor(w)
  BY <1>2, SentTypes, ObserveType DEF ObserveProcessor
<1>3. CASE CreateProcessor(w)
  <2>1. [checked |-> mem[w].spec.checked, unchecked |-> mem[w].spec.unchecked,
         run |-> "STOPPED"] \in Components
    BY ProcessorAssumption DEF ProcessorParameters, ReconcilerTypeOK, Resources, RunStates
  <2> QED BY <1>3, <2>1, CreateType DEF CreateProcessor
<1>4. CASE Stop(w) \/ DeleteStop(w)
  <2>1. PICK step : StopThen(w, step)
    BY <1>4 DEF Stop, DeleteStop
  <2>2. PICK run \in RunsAfterStop(Named(w).run) :
          Call(w, TRUE, [Named(w) EXCEPT !.run = run], step, FALSE)
    BY <2>1 DEF StopThen
  <2>3. run \in RunStates
    BY <2>2 DEF RunsAfterStop, RunStates
  <2> QED BY <2>2, <2>3, SentTypes, CallType
<1>5. CASE Refresh(w) \/ DeleteRefresh(w)
  BY <1>5, RefreshType DEF Refresh, DeleteRefresh
<1>6. CASE Put(w)
  BY <1>6, SentTypes, CallType DEF Put
<1>7. CASE Start(w)
  <2>1. "RUNNING" \in RunStates
    BY DEF RunStates
  <2> QED BY <1>7, <2>1, SentTypes, CallType DEF Start
<1>8. CASE UpdateReturns(w)
  BY <1>8, LeaveType DEF UpdateReturns
<1>9. CASE DeleteCall(w)
  BY <1>9, DeleteType DEF DeleteCall
<1> QED
  BY <1>1, <1>2, <1>3, <1>4, <1>5, <1>6, <1>7, <1>8, <1>9 DEF Step

\* No step of a replica disturbs another one unnoticed.
LEMMA StepUndisturbs ==
  ASSUME ReconcilerTypeOK, ClientTypeOK, NEW w \in Replicas, NEW v \in Replicas, v # w, Step(w)
  PROVE  Undisturbed(v)
<1>1. CASE LoopStep(w)
  BY <1>1, LoopUndisturbs
<1>2. CASE ObserveProcessor(w)
  BY <1>2, ObserveUndisturbs DEF ObserveProcessor
<1>3. CASE CreateProcessor(w)
  BY <1>3, CreateUndisturbs DEF CreateProcessor
<1>4. CASE Stop(w) \/ DeleteStop(w) \/ Put(w) \/ Start(w)
  BY <1>4, CallUndisturbs DEF Stop, DeleteStop, StopThen, Put, Start
<1>5. CASE Refresh(w) \/ DeleteRefresh(w)
  BY <1>5, RefreshUndisturbs DEF Refresh, DeleteRefresh
<1>6. CASE UpdateReturns(w)
  BY <1>6, LeaveUndisturbs DEF UpdateReturns
<1>7. CASE DeleteCall(w)
  BY <1>7, DeleteUndisturbs DEF DeleteCall
<1> QED BY <1>1, <1>2, <1>3, <1>4, <1>5, <1>6, <1>7 DEF Step
-----------------------------------------------------------------------------
(* Every step preserves it, first for the replicas that do not move *)

\* A replica that stays where it is, undisturbed, stays on its course.
LEMMA StaysOK ==
  ASSUME NEW v \in Replicas, ReplicaOK(v), Undisturbed(v), Stays(v), UNCHANGED spelling
  PROVE  ReplicaOK(v)'
<1>1. CASE ~status'[v].clean
  BY <1>1 DEF ReplicaOK, Stays
<1>2. CASE /\ status'[v] = status[v]
           /\ mem[v].name \in live =>
                mem[v].name \in live' /\ comp'[mem[v].name] = comp[mem[v].name]
  <2>1. mem[v].name \in live => Named(v)' = Named(v)
    BY <1>2 DEF Named, Stays
  <2> QED
    BY <1>2, <2>1
       DEF ReplicaOK, Stays, OnCourse, Absent, RunStatus, Configured, Matches, ProcessorSteps
<1> QED BY <1>1, <1>2 DEF Undisturbed

\* So does one whose processor comes to rest.
LEMMA DrainStaysOK ==
  ASSUME ReconcilerTypeOK, ClientTypeOK, NEW v \in Replicas, ReplicaOK(v),
         NEW id \in Ids, Drain(id), UNCHANGED spelling
  PROVE  ReplicaOK(v)'
<1>1. /\ UNCHANGED <<pc, mem, seen, live, status>>
      /\ id \in live /\ comp[id].run = "STOPPING"
      /\ comp' = [comp EXCEPT ![id] = [comp[id] EXCEPT !.run = "STOPPED"]]
  BY DEF Drain, Settle, rvars
<1>2. CASE mem[v].name # id
  <2>1. mem[v].name \in live =>
          mem[v].name \in live' /\ comp'[mem[v].name] = comp[mem[v].name]
    BY <1>1, <1>2 DEF ReconcilerTypeOK, ClientTypeOK
  <2> QED BY <1>1, <2>1, StaysOK DEF Undisturbed, Stays
<1>3. CASE mem[v].name = id
  <2>1. Named(v).run = "STOPPING"
    BY <1>1, <1>3 DEF Named
  <2>2. id \in live /\ Named(v) \in Components
    BY <1>1, <1>3 DEF ReconcilerTypeOK, ClientTypeOK, Named
  <2>3. Named(v)' = [Named(v) EXCEPT !.run = "STOPPED"]
    BY <1>1, <1>3, <2>2 DEF Named, ClientTypeOK
  <2>4. Named(v)'.run = "STOPPED"
    BY <2>2, <2>3, ProcessorAssumption
  <2>5. DesiredState(mem[v].spec) # "STOPPING"
    BY ProcessorAssumption DEF ProcessorParameters, ReconcilerTypeOK, Resources, DesiredState
  <2>6. ~Matches(Named(v), mem[v].spec)
    BY <2>1, <2>5 DEF Matches
  <2>7. Named(v) # [Configured(Named(v), mem[v].spec) EXCEPT !.run = "STOPPED"]
    BY <2>1, <2>2, ProcessorAssumption DEF ProcessorParameters, Configured
  <2>8. RunStatus(Named(v).run)' = RunStatus(Named(v).run)
    BY <2>1, <2>4 DEF RunStatus
  <2> QED BY <1>1, <1>3, <2>4, <2>6, <2>7, <2>8 DEF ReplicaOK, OnCourse, Absent, ProcessorSteps
<1> QED BY <1>2, <1>3

-----------------------------------------------------------------------------
(* Then for the one that does *)

\* Outside of an Update or a Delete, and of the decision for one, there is no
\* course to keep.
LEMMA ElsewhereOK ==
  ASSUME NEW w \in Replicas, pc'[w] \notin ProcessorSteps \cup {"decide"}
  PROVE  ReplicaOK(w)'
BY DEF ReplicaOK, OnCourse, ProcessorSteps

\* The loop, Create and every return lead outside.
LEMMA OutsideOK ==
  ASSUME ReconcilerTypeOK, ClientTypeOK, NEW w \in Replicas, ReplicaOK(w),
         LoopStep(w) \/ CreateProcessor(w) \/ Leave(w), UNCHANGED spelling
  PROVE  ReplicaOK(w)'
<1>1. CASE Stays(w) /\ Undisturbed(w)
  BY <1>1, StaysOK
<1>2. CASE pc'[w] \in {"idle", "observe", "create", "recordSuccess", "recordFailure"}
  BY <1>2, ElsewhereOK DEF ProcessorSteps
<1> QED BY <1>1, <1>2, LoopStays, CreateLeads, LeaveLeads DEF CreateProcessor

\* Observe keeps the run status of the processor that is there.
LEMMA ObserveOK ==
  ASSUME ReconcilerTypeOK, ClientTypeOK, NEW w \in Replicas, ObserveProcessor(w),
         UNCHANGED spelling
  PROVE  ReplicaOK(w)'
<1> DEFINE upToDate == IsProcessorUpToDate(mem[w].spec, Named(w))
<1>1. /\ mem' = mem /\ live' = live /\ pc'[w] = "decide" /\ Named(w)' = Named(w)
      /\ ~Absent(w)' =>
           /\ mem[w].name \in live
           /\ status'[w] = [observed |-> RunStatus(Named(w).run), current |-> TRUE, clean |-> TRUE]
  <2> HIDE DEF upToDate
  <2> QED BY ObserveEffect DEF ObserveProcessor, upToDate
<1> QED BY <1>1 DEF ReplicaOK, OnCourse, RunStatus, ProcessorSteps

\* The calls of an Update or a Delete keep to the course.
LEMMA CallsOK ==
  ASSUME ReconcilerTypeOK, ClientTypeOK, NEW w \in Replicas, ReplicaOK(w),
         \/ Stop(w) \/ Refresh(w) \/ Put(w) \/ Start(w)
         \/ DeleteStop(w) \/ DeleteRefresh(w),
         UNCHANGED spelling
  PROVE  ReplicaOK(w)'
<1>0. mem[w].spec \in Specs
  BY DEF ReconcilerTypeOK, Resources
<1> DEFINE run == Named(w).run
<1>1. ASSUME NEW step \in {"refresh", "deleteRefresh"}, StopThen(w, step),
             step = "deleteRefresh" <=> mem[w].deleting
      PROVE  ReplicaOK(w)'
  <2>1. CASE Leave(w)
    BY <2>1, OutsideOK
  <2>2. ASSUME NEW r \in RunsAfterStop(run), Apply(w, [Named(w) EXCEPT !.run = r], step, FALSE)
        PROVE  ReplicaOK(w)'
    <3>1. /\ mem[w].name \in live /\ mem' = mem /\ live' = live /\ pc'[w] = step
          /\ Named(w)' = [Named(w) EXCEPT !.run = r]
      BY <2>2, ApplyEffect
    <3>2. Named(w) \in Components
      BY <3>1, SentTypes
    <3>3. r \in {"STOPPING", "STOPPED"}
      BY DEF RunsAfterStop
    <3>4. Named(w)'.run \in {"STOPPING", "STOPPED"}
      BY <3>1, <3>2, <3>3, ProcessorAssumption
    <3> QED BY <1>1, <3>1, <3>4 DEF ReplicaOK, OnCourse, ProcessorSteps
  <2> QED BY <1>1, <2>1, <2>2 DEF StopThen, Call
<1>2. CASE Stop(w)
  BY <1>1, <1>2 DEF Stop, UpdateDue, Alive
<1>3. CASE DeleteStop(w)
  BY <1>1, <1>3 DEF DeleteStop, DeleteDue
<1>4. ASSUME NEW step \in {"put", "delete"}, RefreshThen(w, step),
             pc[w] = IF step = "put" THEN "refresh" ELSE "deleteRefresh"
      PROVE  ReplicaOK(w)'
  <2>1. CASE Leave(w)
    BY <2>1, OutsideOK
  <2>2. CASE /\ mem[w].name \in live /\ mem' = mem /\ live' = live
             /\ pc'[w] = step /\ Named(w)' = Named(w)
             /\ status'[w].current = TRUE /\ status'[w].clean = status[w].clean
    BY <1>4, <2>2 DEF ReplicaOK, OnCourse, ProcessorSteps
  <2> QED BY <1>4, <2>1, <2>2, RefreshEffect
<1>5. CASE Refresh(w) \/ DeleteRefresh(w)
  BY <1>4, <1>5 DEF Refresh, DeleteRefresh
<1>6. CASE Put(w)
  <2>0. ~mem[w].deleting
    BY <1>6 DEF Put, ReplicaOK
  <2>1. CASE Leave(w)
    BY <2>1, OutsideOK
  <2>2. CASE /\ Quiescent(run)
             /\ Apply(w, Configured(Named(w), mem[w].spec), AfterPut(mem[w].spec), TRUE)
    <3>1. /\ mem[w].name \in live /\ mem' = mem /\ live' = live
          /\ pc'[w] = AfterPut(mem[w].spec)
          /\ Named(w)' = Configured(Named(w), mem[w].spec)
          /\ status'[w].current = TRUE /\ status'[w].clean = status[w].clean
      BY <2>2, ApplyEffect
    <3>2. Named(w) \in Components
      BY <3>1, SentTypes
    <3>3. Named(w)' = [checked |-> mem[w].spec.checked, unchecked |-> mem[w].spec.unchecked,
                       run |-> run]
      BY <3>1, <3>2, ProcessorAssumption DEF ProcessorParameters, Configured
    <3>4. status[w].clean => run = "STOPPED"
      BY <1>6, <2>2 DEF Put, Quiescent, ReplicaOK, OnCourse
    <3>5. CASE DesiredState(mem[w].spec) = "RUNNING"
      <4>1. pc'[w] = "start"
        BY <3>1, <3>5 DEF AfterPut
      <4>2. run = "STOPPED" =>
              Named(w)' = [Configured(Named(w), mem[w].spec)' EXCEPT !.run = "STOPPED"]
        BY <3>1, <3>3 DEF Configured
      <4> QED BY <2>0, <3>1, <3>4, <3>5, <4>1, <4>2 DEF ReplicaOK, OnCourse, DesiredState, ProcessorSteps
    <3>6. CASE DesiredState(mem[w].spec) # "RUNNING"
      <4>1. pc'[w] = "updated"
        BY <3>1, <3>6 DEF AfterPut
      <4>2. mem[w].spec.desired \in {"", "STOPPED", "DISABLED"}
        BY <1>0, <3>6, ProcessorAssumption DEF ProcessorParameters, DesiredState
      <4>3. mem[w].spec.desired # "DISABLED" => DesiredState(mem[w].spec) = "STOPPED"
        BY <4>2 DEF DesiredState
      <4> QED BY <2>0, <3>1, <3>3, <3>4, <4>1, <4>3 DEF ReplicaOK, OnCourse, Matches, DesiredState,
              ProcessorSteps
    <3> QED BY <3>5, <3>6
  <2> QED BY <1>6, <2>1, <2>2 DEF Put, Call
<1>7. CASE Start(w)
  <2>0. ~mem[w].deleting
    BY <1>7 DEF Start, ReplicaOK
  <2>1. CASE Leave(w)
    BY <2>1, OutsideOK
  <2>2. CASE Apply(w, [Named(w) EXCEPT !.run = "RUNNING"], "updated", FALSE)
    <3>1. /\ mem[w].name \in live /\ mem' = mem /\ live' = live
          /\ pc'[w] = "updated"
          /\ Named(w)' = [Named(w) EXCEPT !.run = "RUNNING"]
          /\ status'[w].clean = status[w].clean
      BY <2>2, ApplyEffect
    <3>2. Named(w) \in Components
      BY <3>1, SentTypes
    <3>3. status[w].clean =>
            /\ Named(w) = [Configured(Named(w), mem[w].spec) EXCEPT !.run = "STOPPED"]
            /\ DesiredState(mem[w].spec) = "RUNNING"
      BY <1>7 DEF Start, ReplicaOK, OnCourse
    <3>4. status[w].clean =>
            Named(w)' = [checked |-> mem[w].spec.checked, unchecked |-> mem[w].spec.unchecked,
                         run |-> "RUNNING"]
      BY <3>1, <3>2, <3>3, ProcessorAssumption DEF ProcessorParameters, Configured
    <3> QED BY <2>0, <3>1, <3>3, <3>4 DEF ReplicaOK, OnCourse, Matches, DesiredState,
              ProcessorSteps
  <2> QED BY <1>7, <2>1, <2>2 DEF Start, Call
<1> QED BY <1>2, <1>3, <1>5, <1>6, <1>7

\* No step of a replica takes itself or another one off its course.
LEMMA StepOK ==
  ASSUME ReconcilerTypeOK, ClientTypeOK, \A v \in Replicas : ReplicaOK(v),
         NEW w \in Replicas, Step(w), NEW v \in Replicas, UNCHANGED spelling
  PROVE  ReplicaOK(v)'
<1>1. CASE v # w
  <2>1. ReplicaNext(w)
    BY StepRefines DEF DeletesOnly, ReplicaOK
  <2>2. Undisturbed(v) /\ Stays(v)
    BY <1>1, <2>1, StepUndisturbs, OthersStay
  <2> QED BY <2>2, StaysOK
<1>2. CASE v = w
  <2>1. CASE LoopStep(w) \/ ObserveProcessor(w) \/ CreateProcessor(w) \/ UpdateReturns(w)
    BY <1>2, <2>1, OutsideOK, ObserveOK DEF UpdateReturns
  <2>2. CASE DeleteCall(w)
    BY <1>2, <2>2, DeleteLeads, ElsewhereOK DEF DeleteCall, ProcessorSteps
  <2>3. CASE \/ Stop(w) \/ Refresh(w) \/ Put(w) \/ Start(w)
             \/ DeleteStop(w) \/ DeleteRefresh(w)
    BY <1>2, <2>3, CallsOK
  <2> QED BY <2>1, <2>2, <2>3 DEF Step
<1> QED BY <1>1, <1>2

-----------------------------------------------------------------------------
(* The invariant, and what follows from it *)

\* Every step of the controller, of NiFi and of whatever is around preserves
\* the invariant.
LEMMA ProcessorStep ==
  ASSUME ProcessorInv, [Next]_pvars
  PROVE  ProcessorInv'
<1> USE DEF ProcessorInv
<1>1. ReconcilerTypeOK'
  BY NextRefines, TypeStep DEF DeletesOnly, ReplicaOK
<1>0. UNCHANGED spelling
  BY DEF Next, pvars
<1>2. ASSUME NEW w \in Replicas, Step(w)
      PROVE  ClientTypeOK' /\ \A v \in Replicas : ReplicaOK(v)'
  BY <1>0, <1>2, StepType, StepOK
<1>3. ASSUME NEW id \in Ids, Drain(id)
      PROVE  ClientTypeOK' /\ \A v \in Replicas : ReplicaOK(v)'
  <2>1. live \subseteq Ids /\ id \in live
    BY <1>3 DEF Drain, ReconcilerTypeOK
  <2>2. [comp[id] EXCEPT !.run = "STOPPED"] \in Components
    BY <2>1, ProcessorAssumption DEF ProcessorParameters, ClientTypeOK, RunStates
  <2>3. ClientTypeOK'
    BY <1>3, <2>1, <2>2, SettleType DEF Drain
  <2> QED BY <1>0, <1>3, <2>3, DrainStaysOK
<1>4. ASSUME NEW id \in Ids, ForeignEdit(id)
      PROVE  ClientTypeOK' /\ \A v \in Replicas : ReplicaOK(v)'
  <2>1. live \subseteq Ids /\ id \in live
    BY <1>4 DEF ForeignEdit, ReconcilerTypeOK
  <2>2. ClientTypeOK'
    BY <1>4, <2>1, ForeignEditType DEF ForeignEdit
  <2>3. ASSUME NEW v \in Replicas PROVE ReplicaOK(v)'
    BY <1>0, <1>4, ForeignUndisturbs, StaysOK DEF ForeignEdit
  <2> QED BY <2>2, <2>3
<1>5. ASSUME Around
      PROVE  ClientTypeOK' /\ \A v \in Replicas : ReplicaOK(v)'
  <2>1. ClientTypeOK'
    BY <1>5, AroundType
  <2>2. ASSUME NEW v \in Replicas PROVE ReplicaOK(v)'
    BY <1>0, <1>5, AroundUndisturbs, StaysOK, ElsewhereOK DEF ProcessorSteps
  <2> QED BY <2>1, <2>2
<1>6. ASSUME UNCHANGED pvars
      PROVE  ClientTypeOK' /\ \A v \in Replicas : ReplicaOK(v)'
  BY <1>6, StaysOK DEF pvars, nvars, rvars, ClientTypeOK, Undisturbed, Stays
<1> QED BY <1>0, <1>1, <1>2, <1>3, <1>4, <1>5, <1>6 DEF Next

\* The invariant holds throughout.
THEOREM ProcessorCorrect == Spec => []ProcessorInv
<1>1. ProcessorInv /\ [Next]_pvars => ProcessorInv'
  BY ProcessorStep
<1> QED BY ProcessorInitially, <1>1, PTL DEF Spec

\* What NiFi holds and what the client keeps of it have their types.
THEOREM ClientTypeCorrect == Spec => []ClientTypeOK
<1>1. ProcessorInv => ClientTypeOK
  BY DEF ProcessorInv
<1> QED BY ProcessorCorrect, <1>1, PTL

\* A call is never refused for a version the provider itself has made old.
THEOREM RevisionsCorrect == Spec => []RevisionsCurrent
<1>1. ProcessorInv => RevisionsCurrent
  BY DEF ProcessorInv, ReplicaOK, OnCourse, RevisionsCurrent
<1> QED BY ProcessorCorrect, <1>1, PTL

\* An Update that returns without interference has applied the spec, for every
\* desired state but DISABLED.
THEOREM UpdateCorrect ==
  ASSUME "DISABLED" \notin DesiredStates
  PROVE  Spec => []UpdateEstablishesSpec
<1>1. ASSUME ProcessorInv, NEW w \in Replicas PROVE mem[w].spec.desired # "DISABLED"
  <2>1. mem[w].spec \in Specs
    BY <1>1 DEF ProcessorInv, ReconcilerTypeOK, Resources
  <2>2. mem[w].spec.desired \in DesiredStates
    BY <2>1, ProcessorAssumption DEF ProcessorParameters
  <2> QED BY <2>2
<1>2. ProcessorInv => UpdateEstablishesSpec
  BY <1>1 DEF ProcessorInv, ReplicaOK, OnCourse, UpdateEstablishesSpec
<1> QED BY ProcessorCorrect, <1>2, PTL

\* Unless somebody interferes, no processor that NiFi reports RUNNING, in this
\* spelling, is there to run when the call that deletes it is made.
StopsWhatItSees ==
  [][\A w \in Replicas : DeleteCall(w) /\ status[w].clean
                             => RunStatus(Named(w).run) # "RUNNING"]_pvars

\* So it is, whatever the spelling: a processor that Delete does not stop it has
\* been told of in another one.
THEOREM StopsWhatItSeesCorrect == Spec => StopsWhatItSees
<1>1. ASSUME ProcessorInv, NEW w \in Replicas, DeleteCall(w), status[w].clean
      PROVE  RunStatus(Named(w).run) # "RUNNING"
  <2>1. CASE DeleteDue(w) /\ ~SawRunning(w)
    BY <1>1, <2>1 DEF ProcessorInv, ReplicaOK, OnCourse, DeleteDue, SawRunning
  <2>2. CASE pc[w] = "delete"
    <3>1. Named(w).run \in {"STOPPING", "STOPPED"}
      BY <1>1, <2>2 DEF ProcessorInv, ReplicaOK, OnCourse
    <3> QED BY <3>1 DEF RunStatus, MixedCase
  <2> QED BY <1>1, <2>1, <2>2 DEF DeleteCall, DeleteCalled
<1>2. ProcessorInv => \A w \in Replicas : DeleteCall(w) /\ status[w].clean
                                             => RunStatus(Named(w).run) # "RUNNING"
  BY <1>1
<1> QED BY ProcessorCorrect, <1>2, PTL DEF StopsWhatItSees

\* Where NiFi spells run statuses as the code expects, a processor that has been
\* running since Observe is stopped before the call that deletes it.
THEOREM StopsBeforeDeleteCorrect ==
  ASSUME Spellings = {"upper"}
  PROVE  Spec => StopsBeforeDelete
<1>1. ProcessorInv /\ (\A w \in Replicas : DeleteCall(w) /\ status[w].clean
                               => RunStatus(Named(w).run) # "RUNNING")
        => \A w \in Replicas : DeleteCall(w) /\ status[w].clean => Named(w).run # "RUNNING"
  BY DEF ProcessorInv, RunStatus
<1> QED BY ProcessorCorrect, StopsWhatItSeesCorrect, <1>1, PTL DEF StopsWhatItSees, StopsBeforeDelete

\* The client keeps the contract of the loop, misread errors and all.
THEOREM ImplementsCorrect ==
  Spec => ImplementsReconciler
<1>1. Init => ReconcilerInit
  BY DEF Init, ClientInit
<1>2. ProcessorInv /\ [Next]_pvars => [ReconcilerNext]_rvars
  BY NextRefines DEF ProcessorInv, ReplicaOK, DeletesOnly
<1> QED BY ProcessorCorrect, <1>1, <1>2, PTL DEF Spec, ImplementsReconciler, ReconcilerSpec

\* So the loop's guarantees are the Processor controller's: at most one component,
\* none forgotten, but for one that a crash, a lost reply or an error misread as its
\* absence loses, and a life that ManagedComponent allows.
THEOREM ProcessorManagesOne ==
  Spec => [](AtMostOneManaged /\ Accounted) /\ LifecycleRefined
BY ImplementsCorrect, AtMostOneCorrect, AccountedCorrect, LifecycleCorrect, PTL
DEF ImplementsReconciler
=============================================================================

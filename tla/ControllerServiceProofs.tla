------------------------ MODULE ControllerServiceProofs ------------------------
(***************************************************************************)
(* What holds of the ControllerService controller for any number of        *)
(* replicas, ids, configurations and disturbances: an Update or a Delete   *)
(* that nobody interferes with disables an enabled service before it       *)
(* changes it, never sends a version that the provider made old, and the   *)
(* Update applies the spec, however long NiFi takes to enable and disable; *)
(* and the client keeps the contract of the loop.                          *)
(***************************************************************************)
EXTENDS ControllerService, NiFiClientProofs

\* Only the Delete of a resource being deleted gets to the call that deletes.
DeletesOnly ==
  \A w \in Replicas : pc[w] \in {"deleteRefresh", "delete"} => mem[w].deleting

\* Every call of the client is one the loop knows.
LEMMA StepRefines ==
  ASSUME DeletesOnly, NEW w \in Replicas, Step(w)
  PROVE  ReplicaNext(w)
<1> USE ServiceAssumption DEF ServiceSteps, InCall
<1>1. CASE LoopStep(w)
  BY <1>1, LoopRefines
<1>2. CASE ObserveService(w)
  <2>1. IsControllerServiceUpToDate(mem[w].spec, Named(w)) \in BOOLEAN
    BY DEF IsControllerServiceUpToDate
  <2> QED BY <1>2, <2>1, ObserveRefines DEF ObserveService, ReplicaNext
<1>3. CASE CreateService(w)
  BY <1>3, CreateRefines DEF CreateService
<1>4. CASE EnableCreated(w)
  BY <1>4 DEF EnableCreated, Apply, CreateReturns, ReplicaNext
<1>5. CASE Disable(w) \/ DeleteDisable(w)
  BY <1>5, CallRefines DEF Disable, DeleteDisable, DisableThen, ReplicaNext
<1>6. CASE Refresh(w) \/ DeleteRefresh(w)
  BY <1>6, RefreshRefines DEF Refresh, DeleteRefresh, ReplicaNext
<1>7. CASE Put(w)
  <2>1. AfterPut(mem[w].spec) \in ClientSteps
    BY DEF AfterPut
  <2> QED BY <1>7, <2>1, CallRefines DEF Put, PutDue, ReplicaNext
<1>8. CASE Enable(w)
  BY <1>8, CallRefines DEF Enable, ReplicaNext
<1>9. CASE UpdateReturns(w)
  BY <1>9, LeaveRefines DEF UpdateReturns, ReplicaNext
<1>10. CASE DeleteCall(w)
  BY <1>10, DeleteRefines DEF DeleteCall, DeleteCallDue, DeletesOnly, ReplicaNext
<1> QED
  BY <1>1, <1>2, <1>3, <1>4, <1>5, <1>6, <1>7, <1>8, <1>9, <1>10 DEF Step

\* So is every step of the controller, of NiFi and of what is around them.
LEMMA NextRefines ==
  ASSUME DeletesOnly, [Next]_nvars
  PROVE  [ReconcilerNext]_rvars
<1>1. ASSUME NEW w \in Replicas, Step(w) PROVE ReconcilerNext
  BY <1>1, StepRefines DEF ReconcilerNext
<1>2. ASSUME NEW id \in Ids, Complete(id) PROVE UNCHANGED rvars
  BY <1>2 DEF Complete, Settle
<1>3. ASSUME NEW id \in Ids, ForeignEdit(id) PROVE ReconcilerNext
  BY <1>3 DEF ForeignEdit, ForeignEditTo, ReconcilerNext
<1>4. CASE Around
  BY <1>4, AroundRefines
<1>5. CASE UNCHANGED nvars
  BY <1>5 DEF nvars
<1> QED BY <1>1, <1>2, <1>3, <1>4, <1>5 DEF Next

-----------------------------------------------------------------------------
(* The invariant that carries the rest *)

\* The service is configured as the spec says.
ConfiguredAs(c, spec) == c.checked = spec.checked /\ c.unchecked = spec.unchecked

\* The states in which an Update leaves it.
DesiredOutcomes(spec) ==
  IF DesiredState(spec) = "ENABLED" THEN {"ENABLING", "ENABLED"} ELSE {"DISABLED"}

\* Where a Create, an Update or a Delete that nobody interferes with has got to.
OnCourse(w) ==
  /\ pc[w] \in {"created", "put", "enable", "delete"} => status[w].current
  /\ pc[w] \in ServiceSteps => mem[w].name \in live
  /\ pc[w] \in {"refresh", "put", "deleteRefresh", "delete"} =>
       Named(w).state \in {"DISABLING", "DISABLED"}
  /\ pc[w] = "enable" => /\ ConfiguredAs(Named(w), mem[w].spec)
                         /\ Named(w).state = "DISABLED"
                         /\ DesiredState(mem[w].spec) = "ENABLED"
  /\ pc[w] = "updated" => /\ ConfiguredAs(Named(w), mem[w].spec)
                          /\ Named(w).state \in DesiredOutcomes(mem[w].spec)

ReplicaOK(w) ==
  /\ pc[w] \in {"deleteRefresh", "delete"} => mem[w].deleting
  /\ status[w].clean => OnCourse(w)

ServiceInv == ReconcilerTypeOK /\ ClientTypeOK /\ \A w \in Replicas : ReplicaOK(w)

\* It holds at the start, where nothing is under way.
LEMMA ServiceInitially == Init => ServiceInv
<1> SUFFICES ASSUME Init PROVE ServiceInv
  OBVIOUS
<1>1. ReconcilerTypeOK
  BY TypeInit DEF Init, ClientInit
<1>2. ClientTypeOK
  BY NoStatusType DEF Init, ClientInit, ClientTypeOK
<1>3. \A w \in Replicas : pc[w] = "idle"
  BY DEF Init, ClientInit, ReconcilerInit
<1> QED BY <1>1, <1>2, <1>3 DEF ServiceInv, ReplicaOK, OnCourse, ServiceSteps

\* What the client sends and keeps has its type.
LEMMA SentTypes ==
  ASSUME ReconcilerTypeOK, ClientTypeOK, NEW w \in Replicas, mem[w].name \in live
  PROVE  /\ Named(w) \in Components
         /\ Named(w).state \in States
         /\ \A s \in States : [Named(w) EXCEPT !.state = s] \in Components
         /\ Configured(Named(w), mem[w].spec) \in Components
<1>1. Named(w) \in Components
  BY DEF ReconcilerTypeOK, ClientTypeOK, Named
<1>2. mem[w].spec \in Specs
  BY DEF ReconcilerTypeOK, Resources
<1> QED BY <1>1, <1>2, ServiceAssumption DEF ControllerServiceParameters, Configured

\* The types are preserved by every step of a replica.
LEMMA StepType ==
  ASSUME ReconcilerTypeOK, ClientTypeOK, NEW w \in Replicas, Step(w)
  PROVE  ClientTypeOK'
<1>1. CASE LoopStep(w)
  BY <1>1, LoopType
<1>2. CASE ObserveService(w)
  BY <1>2, SentTypes, ObserveType, ServiceAssumption DEF ObserveService
<1>3. CASE CreateService(w)
  <2>1. [checked |-> mem[w].spec.checked, unchecked |-> mem[w].spec.unchecked,
         state |-> "DISABLED"] \in Components
    BY ServiceAssumption DEF ControllerServiceParameters, ReconcilerTypeOK, Resources, States
  <2> QED BY <1>3, <2>1, CreateType DEF CreateService
<1>4. ASSUME NEW c \in Enabled(Named(w)), mem[w].name \in live PROVE c \in Components
  BY <1>4, SentTypes DEF Enabled, States
<1>5. CASE EnableCreated(w)
  <2>1. CASE \E c \in Enabled(Named(w)) : Apply(w, c, "recordSuccess", FALSE)
    BY <1>4, <2>1, ApplyType
  <2>2. CASE UNCHANGED <<live, comp, status>>
    BY <2>2 DEF ClientTypeOK
  <2> QED BY <1>5, <2>1, <2>2 DEF EnableCreated
<1>6. CASE Disable(w) \/ DeleteDisable(w)
  <2>1. PICK step : DisableThen(w, step)
    BY <1>6 DEF Disable, DeleteDisable
  <2>2. PICK s : /\ s \in {"DISABLING", "DISABLED", Named(w).state}
                 /\ Call(w, TRUE, [Named(w) EXCEPT !.state = s], step, FALSE)
    BY <2>1 DEF DisableThen
  <2>3. mem[w].name \in live => s \in States
    BY <2>2, SentTypes DEF States
  <2> QED BY <2>2, <2>3, SentTypes, CallType
<1>7. CASE Refresh(w) \/ DeleteRefresh(w)
  BY <1>7, RefreshType DEF Refresh, DeleteRefresh
<1>8. CASE Put(w)
  BY <1>8, SentTypes, CallType DEF Put
<1>9. CASE Enable(w)
  BY <1>4, <1>9, CallType DEF Enable
<1>10. CASE UpdateReturns(w)
  BY <1>10, LeaveType DEF UpdateReturns
<1>11. CASE DeleteCall(w)
  BY <1>11, DeleteType DEF DeleteCall
<1> QED
  BY <1>1, <1>2, <1>3, <1>5, <1>6, <1>7, <1>8, <1>9, <1>10, <1>11 DEF Step

\* No step of a replica disturbs another one unnoticed.
LEMMA StepUndisturbs ==
  ASSUME ReconcilerTypeOK, ClientTypeOK, NEW w \in Replicas, NEW v \in Replicas, v # w, Step(w)
  PROVE  Undisturbed(v)
<1>1. CASE LoopStep(w)
  BY <1>1, LoopUndisturbs
<1>2. CASE ObserveService(w)
  BY <1>2, ObserveUndisturbs DEF ObserveService
<1>3. CASE CreateService(w)
  BY <1>3, CreateUndisturbs DEF CreateService
<1>4. CASE EnableCreated(w)
  <2>1. CASE UNCHANGED <<live, comp, status>>
    BY <2>1 DEF Undisturbed
  <2> QED BY <1>4, <2>1, ApplyUndisturbs DEF EnableCreated
<1>5. CASE Disable(w) \/ DeleteDisable(w) \/ Put(w) \/ Enable(w)
  BY <1>5, CallUndisturbs DEF Disable, DeleteDisable, DisableThen, Put, Enable
<1>6. CASE Refresh(w) \/ DeleteRefresh(w)
  BY <1>6, RefreshUndisturbs DEF Refresh, DeleteRefresh
<1>7. CASE UpdateReturns(w)
  BY <1>7, LeaveUndisturbs DEF UpdateReturns
<1>8. CASE DeleteCall(w)
  BY <1>8, DeleteUndisturbs DEF DeleteCall
<1> QED BY <1>1, <1>2, <1>3, <1>4, <1>5, <1>6, <1>7, <1>8 DEF Step

-----------------------------------------------------------------------------
(* Every step preserves it, first for the replicas that do not move *)

\* A replica that stays where it is, undisturbed, stays on its course.
LEMMA StaysOK ==
  ASSUME NEW v \in Replicas, ReplicaOK(v), Undisturbed(v), Stays(v)
  PROVE  ReplicaOK(v)'
<1>1. CASE ~status'[v].clean
  BY <1>1 DEF ReplicaOK, Stays
<1>2. CASE /\ status'[v] = status[v]
           /\ mem[v].name \in live =>
                mem[v].name \in live' /\ comp'[mem[v].name] = comp[mem[v].name]
  <2>1. mem[v].name \in live => Named(v)' = Named(v)
    BY <1>2 DEF Named, Stays
  <2> QED
    BY <1>2, <2>1 DEF ReplicaOK, Stays, OnCourse, ConfiguredAs, DesiredOutcomes, DesiredState,
       ServiceSteps
<1> QED BY <1>1, <1>2 DEF Undisturbed

\* So does one whose service NiFi is done with.
LEMMA CompleteStaysOK ==
  ASSUME ReconcilerTypeOK, ClientTypeOK, NEW v \in Replicas, ReplicaOK(v),
         NEW id \in Ids, Complete(id)
  PROVE  ReplicaOK(v)'
<1>1. /\ UNCHANGED <<pc, mem, seen, live, status>> /\ id \in live
      /\ \E s \in {"ENABLED", "DISABLED"} :
           /\ comp[id].state = IF s = "ENABLED" THEN "ENABLING" ELSE "DISABLING"
           /\ comp' = [comp EXCEPT ![id] = [comp[id] EXCEPT !.state = s]]
  BY DEF Complete, Settle, rvars
<1>2. CASE mem[v].name # id
  <2>1. mem[v].name \in live =>
          mem[v].name \in live' /\ comp'[mem[v].name] = comp[mem[v].name]
    BY <1>1, <1>2 DEF ReconcilerTypeOK, ClientTypeOK
  <2> QED BY <1>1, <2>1, StaysOK DEF Undisturbed, Stays
<1>3. CASE mem[v].name = id
  <2>1. Named(v) \in Components
    BY <1>1, <1>3, SentTypes
  <2>2. PICK s \in {"ENABLED", "DISABLED"} :
          /\ Named(v).state = IF s = "ENABLED" THEN "ENABLING" ELSE "DISABLING"
          /\ Named(v)' = [Named(v) EXCEPT !.state = s]
    BY <1>1, <1>3 DEF Named, ClientTypeOK
  <2>3. /\ Named(v)'.state = s /\ Named(v)'.checked = Named(v).checked
        /\ Named(v)'.unchecked = Named(v).unchecked
    BY <2>1, <2>2, ServiceAssumption
  <2> QED
    BY <1>1, <1>3, <2>2, <2>3 DEF ReplicaOK, OnCourse, ConfiguredAs, DesiredOutcomes, DesiredState,
       ServiceSteps
<1> QED BY <1>2, <1>3

-----------------------------------------------------------------------------
(* Then for the one that does *)

\* Where nothing is called but Observe there is no course to keep.
LEMMA ElsewhereOK ==
  ASSUME NEW w \in Replicas, pc'[w] \notin ServiceSteps \cup {"created"}
  PROVE  ReplicaOK(w)'
BY DEF ReplicaOK, OnCourse, ServiceSteps

\* The loop, Observe, the end of Create and every return lead there.
LEMMA OutsideOK ==
  ASSUME ReconcilerTypeOK, ClientTypeOK, NEW w \in Replicas, ReplicaOK(w),
         LoopStep(w) \/ ObserveService(w) \/ EnableCreated(w) \/ Leave(w)
  PROVE  ReplicaOK(w)'
<1>1. {"idle", "observe", "decide", "create", "recordSuccess", "recordFailure"}
        \cap (ServiceSteps \cup {"created"}) = {}
  BY DEF ServiceSteps
<1>2. CASE LoopStep(w)
  BY <1>1, <1>2, LoopLeads, ElsewhereOK
<1>3. CASE EnableCreated(w)
  BY <1>1, <1>3, ElsewhereOK DEF EnableCreated, Apply, Goto, ReconcilerTypeOK
<1> QED BY <1>1, <1>2, <1>3, ObserveLeads, LeaveLeads, ElsewhereOK DEF ObserveService

\* What was made, to be enabled, is known at its first version.
LEMMA CreateOK ==
  ASSUME ReconcilerTypeOK, ClientTypeOK, NEW w \in Replicas, CreateService(w)
  PROVE  ReplicaOK(w)'
<1>1. pc'[w] = "recordFailure" \/ (pc'[w] = AfterCreate(mem[w].spec) /\ status'[w].current = TRUE)
  BY CreateEffect DEF CreateService
<1> QED BY <1>1 DEF AfterCreate, ReplicaOK, OnCourse, ServiceSteps

\* Disabling, before a put or a deletion, keeps to the course,
LEMMA DisableOK ==
  ASSUME ReconcilerTypeOK, ClientTypeOK, NEW w \in Replicas, ReplicaOK(w),
         Disable(w) \/ DeleteDisable(w)
  PROVE  ReplicaOK(w)'
<1>1. PICK step \in {"refresh", "deleteRefresh"} :
        DisableThen(w, step) /\ (step = "deleteRefresh" => mem[w].deleting)
  BY DEF Disable, DeleteDisable, DeleteDue
<1>2. CASE Leave(w)
  BY <1>2, OutsideOK
<1>3. ASSUME NEW s, Apply(w, [Named(w) EXCEPT !.state = s], step, FALSE),
             s \in IF Named(w).state \in {"ENABLED", "ENABLING"} THEN {"DISABLING", "DISABLED"}
                                                                 ELSE {Named(w).state}
      PROVE  ReplicaOK(w)'
  <2>1. /\ mem[w].name \in live /\ mem' = mem /\ live' = live /\ pc'[w] = step
        /\ Named(w)' = [Named(w) EXCEPT !.state = s]
    BY <1>3, ApplyEffect
  <2>2. Named(w) \in Components /\ Named(w).state \in States
    BY <2>1, SentTypes
  <2>3. Named(w)'.state \in {"DISABLING", "DISABLED"}
    BY <1>3, <2>1, <2>2, ServiceAssumption DEF States
  <2> QED BY <1>1, <2>1, <2>3 DEF ReplicaOK, OnCourse, ServiceSteps
<1> QED BY <1>1, <1>2, <1>3 DEF DisableThen, Call

\* so does the reading that follows,
LEMMA RefreshOK ==
  ASSUME ReconcilerTypeOK, ClientTypeOK, NEW w \in Replicas, ReplicaOK(w),
         Refresh(w) \/ DeleteRefresh(w)
  PROVE  ReplicaOK(w)'
<1>1. PICK step \in {"put", "delete"} :
        /\ RefreshThen(w, step)
        /\ pc[w] = IF step = "put" THEN "refresh" ELSE "deleteRefresh"
  BY DEF Refresh, DeleteRefresh
<1>2. CASE Leave(w)
  BY <1>2, OutsideOK
<1>3. CASE /\ mem[w].name \in live /\ mem' = mem /\ live' = live
           /\ pc'[w] = step /\ Named(w)' = Named(w)
           /\ status'[w].current = TRUE /\ status'[w].clean = status[w].clean
  BY <1>1, <1>3 DEF ReplicaOK, OnCourse, ServiceSteps
<1> QED BY <1>1, <1>2, <1>3, RefreshEffect

\* and the put, which NiFi accepts of a disabled service only,
LEMMA PutOK ==
  ASSUME ReconcilerTypeOK, ClientTypeOK, NEW w \in Replicas, ReplicaOK(w), Put(w)
  PROVE  ReplicaOK(w)'
<1>1. CASE Leave(w)
  BY <1>1, OutsideOK
<1>2. CASE /\ Named(w).state = "DISABLED"
           /\ Apply(w, Configured(Named(w), mem[w].spec), AfterPut(mem[w].spec), TRUE)
  <2>1. /\ mem[w].name \in live /\ mem' = mem /\ live' = live
        /\ pc'[w] = AfterPut(mem[w].spec)
        /\ Named(w)' = Configured(Named(w), mem[w].spec)
        /\ status'[w].current = TRUE
    BY <1>2, ApplyEffect
  <2>2. Named(w) \in Components
    BY <2>1, SentTypes
  <2>3. ConfiguredAs(Named(w)', mem[w].spec) /\ Named(w)'.state = "DISABLED"
    BY <1>2, <2>1, <2>2, ServiceAssumption DEF Configured, ConfiguredAs
  <2> QED
    BY <2>1, <2>3 DEF AfterPut, ReplicaOK, OnCourse, ConfiguredAs, DesiredOutcomes, DesiredState,
       ServiceSteps
<1> QED BY <1>1, <1>2 DEF Put, Call

\* and the enabling after it.
LEMMA EnableOK ==
  ASSUME ReconcilerTypeOK, ClientTypeOK, NEW w \in Replicas, ReplicaOK(w), Enable(w)
  PROVE  ReplicaOK(w)'
<1>1. CASE Leave(w)
  BY <1>1, OutsideOK
<1>2. ASSUME NEW s \in {"ENABLING", "ENABLED"},
             Apply(w, [Named(w) EXCEPT !.state = s], "updated", FALSE)
      PROVE  ReplicaOK(w)'
  <2>1. /\ mem[w].name \in live /\ mem' = mem /\ live' = live /\ pc'[w] = "updated"
        /\ Named(w)' = [Named(w) EXCEPT !.state = s]
        /\ status'[w].clean = status[w].clean
    BY <1>2, ApplyEffect
  <2>2. Named(w) \in Components
    BY <2>1, SentTypes
  <2>3. /\ Named(w)'.state = s /\ Named(w)'.checked = Named(w).checked
        /\ Named(w)'.unchecked = Named(w).unchecked
    BY <2>1, <2>2, ServiceAssumption
  <2> QED
    BY <2>1, <2>3 DEF Enable, ReplicaOK, OnCourse, ConfiguredAs, DesiredOutcomes, DesiredState,
       ServiceSteps
<1> QED BY <1>1, <1>2 DEF Enable, Enabled, Call

\* No step of a replica takes itself or another one off its course.
LEMMA StepOK ==
  ASSUME ReconcilerTypeOK, ClientTypeOK, \A v \in Replicas : ReplicaOK(v),
         NEW w \in Replicas, Step(w), NEW v \in Replicas
  PROVE  ReplicaOK(v)'
<1>1. CASE v # w
  <2>1. ReplicaNext(w)
    BY StepRefines DEF DeletesOnly, ReplicaOK
  <2>2. Undisturbed(v) /\ Stays(v)
    BY <1>1, <2>1, StepUndisturbs, OthersStay
  <2> QED BY <2>2, StaysOK
<1>2. CASE v = w
  <2>1. CASE LoopStep(w) \/ ObserveService(w) \/ EnableCreated(w) \/ UpdateReturns(w)
    BY <1>2, <2>1, OutsideOK DEF UpdateReturns
  <2>2. CASE DeleteCall(w)
    BY <1>2, <2>2, DeleteLeads, ElsewhereOK DEF DeleteCall, ServiceSteps
  <2>3. CASE \/ CreateService(w)
             \/ Disable(w) \/ Refresh(w) \/ Put(w) \/ Enable(w)
             \/ DeleteDisable(w) \/ DeleteRefresh(w)
    BY <1>2, <2>3, CreateOK, DisableOK, RefreshOK, PutOK, EnableOK
  <2> QED BY <2>1, <2>2, <2>3 DEF Step
<1> QED BY <1>1, <1>2

-----------------------------------------------------------------------------
(* The invariant, and what follows from it *)

\* Every step of the controller, of NiFi and of whatever is around preserves
\* the invariant.
LEMMA ServiceStep ==
  ASSUME ServiceInv, [Next]_nvars
  PROVE  ServiceInv'
<1> USE DEF ServiceInv
<1>1. ReconcilerTypeOK'
  BY NextRefines, TypeStep DEF DeletesOnly, ReplicaOK
<1>2. ASSUME NEW w \in Replicas, Step(w)
      PROVE  ClientTypeOK' /\ \A v \in Replicas : ReplicaOK(v)'
  BY <1>2, StepType, StepOK
<1>3. ASSUME NEW id \in Ids, Complete(id)
      PROVE  ClientTypeOK' /\ \A v \in Replicas : ReplicaOK(v)'
  <2>1. live \subseteq Ids /\ id \in live
    BY <1>3 DEF Complete, ReconcilerTypeOK
  <2>2. \A s \in States : [comp[id] EXCEPT !.state = s] \in Components
    BY <2>1, ServiceAssumption DEF ClientTypeOK
  <2>3. ClientTypeOK'
    BY <1>3, <2>1, <2>2, SettleType DEF Complete, States
  <2> QED BY <1>3, <2>3, CompleteStaysOK
<1>4. ASSUME NEW id \in Ids, ForeignEdit(id)
      PROVE  ClientTypeOK' /\ \A v \in Replicas : ReplicaOK(v)'
  <2>1. live \subseteq Ids /\ id \in live
    BY <1>4 DEF ForeignEdit, ReconcilerTypeOK
  <2>2. ClientTypeOK'
    BY <1>4, <2>1, ForeignEditType DEF ForeignEdit
  <2>3. ASSUME NEW v \in Replicas PROVE ReplicaOK(v)'
    BY <1>4, ForeignUndisturbs, StaysOK DEF ForeignEdit
  <2> QED BY <2>2, <2>3
<1>5. ASSUME Around
      PROVE  ClientTypeOK' /\ \A v \in Replicas : ReplicaOK(v)'
  <2>1. ClientTypeOK'
    BY <1>5, AroundType
  <2>2. ASSUME NEW v \in Replicas PROVE ReplicaOK(v)'
    BY <1>5, AroundUndisturbs, StaysOK, ElsewhereOK DEF ServiceSteps
  <2> QED BY <2>1, <2>2
<1>6. ASSUME UNCHANGED nvars
      PROVE  ClientTypeOK' /\ \A v \in Replicas : ReplicaOK(v)'
  BY <1>6, StaysOK DEF nvars, rvars, ClientTypeOK, Undisturbed, Stays
<1> QED BY <1>1, <1>2, <1>3, <1>4, <1>5, <1>6 DEF Next

\* The invariant holds throughout.
THEOREM ServiceCorrect == Spec => []ServiceInv
<1>1. ServiceInv /\ [Next]_nvars => ServiceInv'
  BY ServiceStep
<1> QED BY ServiceInitially, <1>1, PTL DEF Spec

\* A call is never refused for a version the provider itself has made old.
THEOREM RevisionsCorrect == Spec => []RevisionsCurrent
<1>1. ServiceInv => RevisionsCurrent
  BY DEF ServiceInv, ReplicaOK, OnCourse, RevisionsCurrent
<1> QED BY ServiceCorrect, <1>1, PTL

\* A service observed enabled is not changed or removed before it is disabled.
THEOREM DisabledCorrect == Spec => []DisabledForChange
<1>1. ServiceInv => DisabledForChange
  BY DEF ServiceInv, ReplicaOK, OnCourse, DisabledForChange, PutDue, DeleteCallDue, SawEnabled
<1> QED BY ServiceCorrect, <1>1, PTL

\* An Update that nobody interfered with has applied the whole spec, or NiFi is
\* about to.
THEOREM UpdateCorrect == Spec => []UpdateEstablishesSpec
<1>1. ASSUME ServiceInv, NEW w \in Replicas, status[w].clean, pc[w] = "updated"
      PROVE  Named(w) \in {Configured([Named(w) EXCEPT !.state = s], mem[w].spec) :
                             s \in DesiredOutcomes(mem[w].spec)}
  <2>1. /\ mem[w].name \in live
        /\ ConfiguredAs(Named(w), mem[w].spec)
        /\ Named(w).state \in DesiredOutcomes(mem[w].spec)
    BY <1>1 DEF ServiceInv, ReplicaOK, OnCourse, ServiceSteps
  <2>2. Named(w) \in Components
    BY <1>1, <2>1, SentTypes DEF ServiceInv
  <2>3. Named(w) = Configured([Named(w) EXCEPT !.state = Named(w).state], mem[w].spec)
    BY <2>1, <2>2, ServiceAssumption DEF Configured, ConfiguredAs
  <2> QED BY <2>1, <2>3
<1>2. ServiceInv => UpdateEstablishesSpec
  BY <1>1 DEF UpdateEstablishesSpec, DesiredOutcomes
<1> QED BY ServiceCorrect, <1>2, PTL

\* The client keeps the contract of the loop, misread errors and all.
THEOREM ImplementsCorrect ==
  Spec => ImplementsReconciler
<1>1. Init => ReconcilerInit
  BY DEF Init, ClientInit
<1>2. ServiceInv /\ [Next]_nvars => [ReconcilerNext]_rvars
  BY NextRefines DEF ServiceInv, ReplicaOK, DeletesOnly
<1> QED BY ServiceCorrect, <1>1, <1>2, PTL DEF Spec, ImplementsReconciler, ReconcilerSpec

\* So the loop's guarantees are the ControllerService controller's: at most one component,
\* none forgotten, but for one that a crash, a lost reply or an error misread as its
\* absence loses, and a life that ManagedComponent allows.
THEOREM ServiceManagesOne ==
  Spec => [](AtMostOneManaged /\ Accounted) /\ LifecycleRefined
BY ImplementsCorrect, AtMostOneCorrect, AccountedCorrect, LifecycleCorrect, PTL
DEF ImplementsReconciler
=============================================================================

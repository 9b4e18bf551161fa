--------------------------- MODULE ConnectionProofs ---------------------------
(***************************************************************************)
(* What holds of the Connection controller for any number of replicas,     *)
(* ids, fields, values and disturbances: an Update that nobody interferes  *)
(* with applies the spec, whatever flows meanwhile; and its client keeps   *)
(* the contract of the loop.                                               *)
(***************************************************************************)
EXTENDS Connection, NiFiClientProofs

\* Every call of the client is one the loop knows.
LEMMA StepRefines ==
  ASSUME NEW w \in Replicas, Step(w)
  PROVE  ReplicaNext(w)
<1> USE ConnectionAssumption DEF ConnectionSteps, InCall
<1>1. CASE LoopStep(w)
  BY <1>1, LoopRefines
<1>2. CASE ObserveConnection(w)
  <2>1. IsConnectionUpToDate(mem[w].spec, Named(w)) \in BOOLEAN
    BY DEF IsConnectionUpToDate
  <2> QED BY <1>2, <2>1, ObserveRefines DEF ObserveConnection, ReplicaNext
<1>3. CASE CreateConnection(w)
  BY <1>3, CreateRefines DEF CreateConnection
<1>4. CASE Put(w)
  BY <1>4, CallRefines DEF Put, ReplicaNext
<1>5. CASE UpdateReturns(w)
  BY <1>5, LeaveRefines DEF UpdateReturns, ReplicaNext
<1>6. CASE DeleteCall(w)
  BY <1>6, DeleteRefines DEF DeleteCall, ReplicaNext
<1> QED BY <1>1, <1>2, <1>3, <1>4, <1>5, <1>6 DEF Step

\* So is every step of the controller, of the flow and of what is around it.
LEMMA NextRefines ==
  ASSUME [Next]_cvars
  PROVE  [ReconcilerNext]_rvars
<1>1. ASSUME NEW w \in Replicas, Step(w) PROVE ReconcilerNext
  BY <1>1, StepRefines DEF ReconcilerNext
<1>2. ASSUME NEW id \in Ids, Flow(id) PROVE UNCHANGED rvars
  BY <1>2 DEF Flow, Arrive, Drain, Settle
<1>3. ASSUME NEW id \in Ids, ForeignEdit(id) PROVE ReconcilerNext
  BY <1>3 DEF ForeignEdit, ForeignEditTo, ReconcilerNext
<1>4. CASE Around
  BY <1>4, AroundRefines
<1>5. CASE EndsChange \/ UNCHANGED cvars
  BY <1>5 DEF EndsChange, cvars, nvars
<1> QED BY <1>1, <1>2, <1>3, <1>4, <1>5 DEF Next

-----------------------------------------------------------------------------
(* The invariant: types, and what an Update has done when it returns *)

Matches(spec, c) == IsConnectionUpToDate(spec, c) /\ c.unchecked = spec.unchecked

ReplicaOK(w) ==
  status[w].clean /\ pc[w] = "updated" =>
    mem[w].name \in live /\ Matches(mem[w].spec, Named(w))

ConnectionInv == ReconcilerTypeOK /\ ClientTypeOK /\ \A w \in Replicas : ReplicaOK(w)

\* It holds at the start, where nothing is under way.
LEMMA ConnectionInitially == Init => ConnectionInv
<1> SUFFICES ASSUME Init PROVE ConnectionInv
  OBVIOUS
<1>1. ReconcilerTypeOK
  BY TypeInit DEF Init, ClientInit
<1>2. ClientTypeOK
  BY NoStatusType DEF Init, ClientInit, ClientTypeOK
<1>3. \A w \in Replicas : pc[w] = "idle"
  BY DEF Init, ClientInit, ReconcilerInit
<1> QED BY <1>1, <1>2, <1>3 DEF ConnectionInv, ReplicaOK

\* What is sent over values of the fields is values of the fields.
LEMMA SentType ==
  ASSUME NEW spec \in ConnectionParameters, NEW held \in [Fields -> Values]
  PROVE  Sent(spec, held) \in [Fields -> Values]
<1>1. spec.fields \in [Fields -> Values \cup {Unset}]
  BY DEF ConnectionParameters
<1> QED BY <1>1 DEF Sent

\* A connection that is put or made is a connection that the spec matches.
LEMMA ConfiguredMatches ==
  ASSUME NEW spec \in ConnectionParameters
  PROVE  /\ New(spec) \in Components
         /\ \A c \in Components : /\ Configured(c, spec) \in Components
                                  /\ Matches(spec, Configured(c, spec))
<1>1. New(spec) \in Components
  <2>1. Sent(spec, [f \in Fields |-> Default]) \in [Fields -> Values]
    BY SentType, ConnectionAssumption
  <2> QED BY <2>1, ConnectionAssumption DEF New, ConnectionDtos, ConnectionParameters
<1>2. ASSUME NEW c \in Components
      PROVE  Configured(c, spec) \in Components /\ Matches(spec, Configured(c, spec))
  <2>1. c.fields \in [Fields -> Values]
    BY ConnectionAssumption DEF ConnectionDtos
  <2>2. Sent(spec, c.fields) \in [Fields -> Values]
    BY <2>1, SentType
  <2>3. /\ Configured(c, spec) \in Components
        /\ Configured(c, spec).fields = Sent(spec, c.fields)
        /\ Configured(c, spec).unchecked = spec.unchecked
    BY <2>2, ConnectionAssumption DEF Configured, ConnectionDtos, ConnectionParameters
  <2>4. \A f \in Fields : Agrees(spec.fields[f], Sent(spec, c.fields)[f])
    BY DEF Agrees, Sent
  <2> QED BY <2>3, <2>4 DEF Matches, IsConnectionUpToDate
<1> QED BY <1>1, <1>2

\* The types are preserved by every step of a replica.
LEMMA StepType ==
  ASSUME ReconcilerTypeOK, ClientTypeOK, NEW w \in Replicas, Step(w)
  PROVE  ClientTypeOK'
<1>0. mem[w].spec \in ConnectionParameters
  BY ConnectionAssumption DEF ReconcilerTypeOK, Resources
<1>1. CASE LoopStep(w)
  BY <1>1, LoopType
<1>2. CASE ObserveConnection(w)
  BY <1>2, ObserveType DEF ObserveConnection
<1>3. CASE CreateConnection(w)
  BY <1>0, <1>3, ConfiguredMatches, CreateType DEF CreateConnection
<1>4. CASE Put(w)
  <2>1. mem[w].name \in live => Named(w) \in Components
    BY DEF ReconcilerTypeOK, ClientTypeOK, Named
  <2> QED BY <1>0, <1>4, <2>1, ConfiguredMatches, CallType DEF Put
<1>5. CASE UpdateReturns(w)
  BY <1>5, LeaveType DEF UpdateReturns
<1>6. CASE DeleteCall(w)
  BY <1>6, DeleteType DEF DeleteCall
<1> QED BY <1>1, <1>2, <1>3, <1>4, <1>5, <1>6 DEF Step

\* No step of a replica disturbs another one unnoticed.
LEMMA StepUndisturbs ==
  ASSUME ReconcilerTypeOK, ClientTypeOK, NEW w \in Replicas, NEW v \in Replicas, v # w, Step(w)
  PROVE  Undisturbed(v)
<1>1. CASE LoopStep(w)
  BY <1>1, LoopUndisturbs
<1>2. CASE ObserveConnection(w)
  BY <1>2, ObserveUndisturbs DEF ObserveConnection
<1>3. CASE CreateConnection(w)
  BY <1>3, CreateUndisturbs DEF CreateConnection
<1>4. CASE Put(w)
  BY <1>4, CallUndisturbs DEF Put
<1>5. CASE UpdateReturns(w)
  BY <1>5, LeaveUndisturbs DEF UpdateReturns
<1>6. CASE DeleteCall(w)
  BY <1>6, DeleteUndisturbs DEF DeleteCall
<1> QED BY <1>1, <1>2, <1>3, <1>4, <1>5, <1>6 DEF Step

-----------------------------------------------------------------------------
(* Every step preserves it *)

\* A replica that stays where it is, undisturbed, keeps what it has applied.
LEMMA StaysOK ==
  ASSUME NEW v \in Replicas, ReplicaOK(v), Undisturbed(v),
         Stays(v)
  PROVE  ReplicaOK(v)'
<1>1. CASE ~status'[v].clean
  BY <1>1 DEF ReplicaOK
<1>2. CASE /\ status'[v] = status[v]
           /\ mem[v].name \in live =>
                mem[v].name \in live' /\ comp'[mem[v].name] = comp[mem[v].name]
  BY <1>2 DEF ReplicaOK, Stays, Named, Matches, IsConnectionUpToDate
<1> QED BY <1>1, <1>2 DEF Undisturbed

\* What flows through a connection changes its queue and nothing else.
LEMMA FlowOK ==
  ASSUME ReconcilerTypeOK, ClientTypeOK, NEW id \in Ids, Flow(id)
  PROVE  /\ ClientTypeOK'
         /\ \A v \in Replicas : ReplicaOK(v) => ReplicaOK(v)'
<1>1. PICK queued \in BOOLEAN : id \in live /\ Settle(id, [comp[id] EXCEPT !.queued = queued])
  BY DEF Flow, Arrive, Drain
<1>2. comp[id] \in Components
  BY <1>1 DEF ClientTypeOK
<1>3. /\ [comp[id] EXCEPT !.queued = queued] \in Components
      /\ [comp[id] EXCEPT !.queued = queued].fields = comp[id].fields
      /\ [comp[id] EXCEPT !.queued = queued].unchecked = comp[id].unchecked
  BY <1>2, ConnectionAssumption DEF ConnectionDtos
<1>4. ClientTypeOK'
  BY <1>1, <1>3, SettleType DEF ReconcilerTypeOK
<1>5. UNCHANGED <<pc, mem, live, status>>
      /\ comp' = [comp EXCEPT ![id] = [comp[id] EXCEPT !.queued = queued]]
  BY <1>1 DEF Settle, rvars
<1>6. ASSUME NEW v \in Replicas, ReplicaOK(v), mem[v].name \in live PROVE
        /\ Named(v)'.fields = Named(v).fields
        /\ Named(v)'.unchecked = Named(v).unchecked
  BY <1>3, <1>5, <1>6 DEF Named, ReconcilerTypeOK, ClientTypeOK
<1>7. ASSUME NEW v \in Replicas, ReplicaOK(v) PROVE ReplicaOK(v)'
  BY <1>5, <1>6, <1>7 DEF ReplicaOK, Matches, IsConnectionUpToDate
<1> QED BY <1>4, <1>7

\* No step of a replica breaks what itself or another one has applied.
LEMMA StepOK ==
  ASSUME ReconcilerTypeOK, ClientTypeOK, \A v \in Replicas : ReplicaOK(v),
         NEW w \in Replicas, Step(w), NEW v \in Replicas
  PROVE  ReplicaOK(v)'
<1>1. CASE v # w
  <2>1. Undisturbed(v) /\ Stays(v)
    BY <1>1, StepRefines, StepUndisturbs, OthersStay
  <2> QED BY <2>1, StaysOK
<1>2. CASE v = w /\ pc'[w] # "updated"
  BY <1>2 DEF ReplicaOK
<1>3. CASE v = w /\ pc'[w] = "updated"
  <2>1. "updated" \notin ReconcilerSteps
    BY DEF ReconcilerSteps
  <2>2. Put(w) /\ Apply(w, Configured(Named(w), mem[w].spec), "updated", TRUE)
    BY <1>3, <2>1, LoopLeads, ObserveLeads, CreateLeads, LeaveLeads, DeleteLeads
    DEF Step, ObserveConnection, CreateConnection, Put, Call, UpdateReturns, DeleteCall,
        ReconcilerSteps
  <2>3. /\ mem[w].name \in live /\ mem' = mem /\ live' = live
        /\ Named(w)' = Configured(Named(w), mem[w].spec)
    BY <2>2, ApplyEffect
  <2>4. Named(w) \in Components /\ mem[w].spec \in ConnectionParameters
    BY <2>3, ConnectionAssumption DEF ReconcilerTypeOK, ClientTypeOK, Named, Resources
  <2>5. Matches(mem[w].spec, Configured(Named(w), mem[w].spec))
    BY <2>4, ConfiguredMatches
  <2> QED BY <1>3, <2>3, <2>5 DEF ReplicaOK, Matches, IsConnectionUpToDate
<1> QED BY <1>1, <1>2, <1>3

\* Every step of the controller, of the flow and of whatever is around
\* preserves the invariant.
LEMMA ConnectionStep ==
  ASSUME ConnectionInv, [Next]_cvars
  PROVE  ConnectionInv'
<1> USE DEF ConnectionInv
<1>1. ReconcilerTypeOK'
  BY NextRefines, TypeStep
<1>2. ASSUME NEW w \in Replicas, Step(w)
      PROVE  ClientTypeOK' /\ \A v \in Replicas : ReplicaOK(v)'
  BY <1>2, StepType, StepOK
<1>3. ASSUME NEW id \in Ids, Flow(id)
      PROVE  ClientTypeOK' /\ \A v \in Replicas : ReplicaOK(v)'
  BY <1>3, FlowOK
<1>4. ASSUME NEW id \in Ids, ForeignEdit(id)
      PROVE  ClientTypeOK' /\ \A v \in Replicas : ReplicaOK(v)'
  <2>1. live \subseteq Ids /\ id \in live
    BY <1>4 DEF ForeignEdit, ReconcilerTypeOK
  <2>2. ClientTypeOK'
    BY <1>4, <2>1, ForeignEditType DEF ForeignEdit
  <2>3. ASSUME NEW v \in Replicas PROVE ReplicaOK(v)'
    BY <1>4, ForeignUndisturbs, StaysOK DEF ForeignEdit
  <2> QED BY <2>2, <2>3
<1>5. ASSUME Around
      PROVE  ClientTypeOK' /\ \A v \in Replicas : ReplicaOK(v)'
  <2>1. ClientTypeOK'
    BY <1>5, AroundType
  <2>2. ASSUME NEW v \in Replicas PROVE ReplicaOK(v)'
    <3>1. CASE pc'[v] = "idle"
      BY <3>1 DEF ReplicaOK
    <3> QED BY <1>5, <3>1, AroundUndisturbs, StaysOK
  <2> QED BY <2>1, <2>2
<1>6. ASSUME EndsChange \/ UNCHANGED cvars
      PROVE  ClientTypeOK' /\ \A v \in Replicas : ReplicaOK(v)'
  BY <1>6, StaysOK DEF EndsChange, cvars, nvars, rvars, ClientTypeOK, Undisturbed, Stays
<1> QED BY <1>1, <1>2, <1>3, <1>4, <1>5, <1>6 DEF Next

\* What is queued neither a call of the client takes nor does it remove the
\* connection from under it.
LEMMA QueuedStays ==
  ASSUME ReconcilerTypeOK, ClientTypeOK, NEW w \in Replicas, Step(w),
         NEW id \in live, comp[id].queued
  PROVE  id \in live' /\ comp'[id].queued
<1> DEFINE kept == live' = live /\ comp' = comp
<1>0. id \in Ids /\ id \in used /\ comp[id] \in Components
  BY DEF ReconcilerTypeOK, ClientTypeOK
<1>1. CASE LoopStep(w)
  <2>1. kept
    BY <1>1 DEF LoopStep, Begin, AddFinalizer, MarkPending, RemoveFinalizer, Conflict, Rest,
       Record, Quiet
  <2> QED BY <2>1
<1>2. CASE ObserveConnection(w) \/ UpdateReturns(w)
  <2>1. kept
    BY <1>2 DEF ObserveConnection, ObserveAs, UpdateReturns, Leave
  <2> QED BY <2>1
<1>3. CASE CreateConnection(w)
  BY <1>0, <1>3 DEF CreateConnection, CreateAs, CreateAnswered, CreateReplyLost, CreateRefused,
     Quiet, ClientTypeOK
<1>4. CASE Put(w)
  <2>1. CASE Leave(w)
    BY <2>1 DEF Leave
  <2>2. CASE Apply(w, Configured(Named(w), mem[w].spec), "updated", TRUE)
    <3>1. live' = live /\ comp' = [comp EXCEPT ![mem[w].name] = Configured(Named(w), mem[w].spec)]
      BY <2>2 DEF Apply
    <3>2. mem[w].name = id => Configured(Named(w), mem[w].spec).queued
      BY <1>0, ConnectionAssumption DEF Configured, Named, ConnectionDtos
    <3> QED BY <1>0, <3>1, <3>2 DEF ClientTypeOK
  <2> QED BY <1>4, <2>1, <2>2 DEF Put, Call
<1>5. CASE DeleteCall(w)
  <2>1. CASE Leave(w)
    BY <2>1 DEF Leave
  <2>2. CASE /\ Removable(Named(w))
             /\ live' = live \ {mem[w].name}
             /\ comp' = [comp EXCEPT ![mem[w].name] = NoComponent]
    <3>1. mem[w].name # id
      BY <2>2 DEF Removable, Named
    <3> QED BY <1>0, <2>2, <3>1 DEF ClientTypeOK
  <2> QED BY <1>5, <2>1, <2>2 DEF DeleteCall, DeleteAs, RemoveComponent
<1> QED BY <1>1, <1>2, <1>3, <1>4, <1>5 DEF Step

-----------------------------------------------------------------------------

\* The invariant holds throughout.
THEOREM ConnectionCorrect == Spec => []ConnectionInv
<1>1. ConnectionInv /\ [Next]_cvars => ConnectionInv'
  BY ConnectionStep
<1> QED BY ConnectionInitially, <1>1, PTL DEF Spec

\* An Update that nobody interfered with has applied the whole spec.
THEOREM UpdateCorrect == Spec => []UpdateEstablishesSpec
<1>1. ConnectionInv => UpdateEstablishesSpec
  BY DEF ConnectionInv, ReplicaOK, Matches, UpdateEstablishesSpec
<1> QED BY ConnectionCorrect, <1>1, PTL

\* The client keeps the contract of the loop, misread errors and all.
THEOREM ImplementsCorrect == Spec => ImplementsReconciler
<1>1. Init => ReconcilerInit
  BY DEF Init, ClientInit
<1>2. [Next]_cvars => [ReconcilerNext]_rvars
  BY NextRefines
<1> QED BY <1>1, <1>2, PTL DEF Spec, ImplementsReconciler, ReconcilerSpec

\* So the loop's guarantees are the Connection controller's: at most one component,
\* none forgotten, but for one that a crash, a lost reply or an error misread as its
\* absence loses, and a life that ManagedComponent allows.
THEOREM ConnectionManagesOne ==
  Spec => [](AtMostOneManaged /\ Accounted) /\ LifecycleRefined
BY ImplementsCorrect, AtMostOneCorrect, AccountedCorrect, LifecycleCorrect, PTL
DEF ImplementsReconciler
=============================================================================

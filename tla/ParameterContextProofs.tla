------------------------ MODULE ParameterContextProofs ------------------------
(***************************************************************************)
(* What holds of the ParameterContext controller for any number of         *)
(* replicas, ids, parameters and disturbances.                             *)
(*                                                                         *)
(* First the lists of parameters: where the two are of one length and each *)
(* name of the one is found in the other, they have the same names; and    *)
(* what a put leaves passes for the spec, unless NiFi holds a name that    *)
(* the spec does not.  Then the controller: a context found up to date     *)
(* matches the spec, an Update that nobody interferes with leaves what the *)
(* next Observe takes for it; and the client keeps the contract of the     *)
(* loop.                                                                   *)
(***************************************************************************)
EXTENDS ParameterContext, NiFiClientProofs, FiniteSetTheorems

-----------------------------------------------------------------------------
(* Lists of parameters *)

\* A list that gives no name twice has as many names as parameters.
LEMMA NamesCount ==
  ASSUME NEW parameters, IsFiniteSet(parameters), Distinct(parameters)
  PROVE  /\ IsFiniteSet(NamesOf(parameters))
         /\ Cardinality(NamesOf(parameters)) = Cardinality(parameters)
<1> DEFINE nameOf == [p \in parameters |-> p.name]
<1>1. nameOf \in Surjection(parameters, NamesOf(parameters))
  BY DEF Surjection, NamesOf
<1>2. nameOf \in Injection(parameters, NamesOf(parameters))
  BY <1>1 DEF Injection, IsInjective, Surjection, Distinct
<1> HIDE DEF nameOf
<1> QED BY <1>1, <1>2, FS_Surjection

\* A list that has the names of another one of the same length has no others.
LEMMA SameNames ==
  ASSUME NEW asked, IsFiniteSet(asked), Distinct(asked),
         NEW held, IsFiniteSet(held), Distinct(held),
         Cardinality(asked) = Cardinality(held),
         \A desired \in asked : \E actual \in held : actual.name = desired.name
  PROVE  NamesOf(asked) = NamesOf(held)
<1>1. NamesOf(asked) \in SUBSET NamesOf(held)
  BY DEF NamesOf
<1>2. Cardinality(NamesOf(held)) = Cardinality(NamesOf(asked))
  BY NamesCount
<1> QED BY <1>1, <1>2, NamesCount, FS_Subset

\* A put keeps the names it is given, so it leaves as many parameters.
LEMMA MergedCount ==
  ASSUME NEW c \in Components, NEW spec \in Specs
  PROVE  /\ \A p \in spec.parameters : Merged(c, p).name = p.name
         /\ Cardinality({ Merged(c, p) : p \in spec.parameters })
              = Cardinality(spec.parameters)
<1> DEFINE asked == spec.parameters
           merged == { Merged(c, p) : p \in asked }
           mergedFrom == [p \in asked |-> Merged(c, p)]
<1>1. asked \subseteq Parameters /\ IsFiniteSet(asked) /\ Distinct(asked)
  BY ContextAssumption DEF Contexts
<1>2. \A p \in asked : Merged(c, p).name = p.name
  BY <1>1 DEF Merged, Parameters
<1>3. mergedFrom \in Surjection(asked, merged)
  BY DEF Surjection
<1>4. mergedFrom \in Injection(asked, merged)
  <2>1. ASSUME NEW p \in asked, NEW q \in asked, mergedFrom[p] = mergedFrom[q]
        PROVE  p = q
    <3>1. p.name = q.name
      BY <1>2, <2>1
    <3> QED BY <1>1, <3>1 DEF Distinct
  <2> HIDE DEF mergedFrom, merged
  <2> QED BY <1>3, <2>1 DEF Injection, IsInjective, Surjection
<1>5. Cardinality(merged) = Cardinality(asked)
  <2> HIDE DEF mergedFrom, merged
  <2> QED BY <1>1, <1>3, <1>4, FS_Surjection
<1> QED BY <1>2, <1>5

\* What NiFi would show of a merged parameter agrees with the one it was sent.
LEMMA MergedAgrees ==
  ASSUME NEW c, NEW p \in Parameters
  PROVE  Agrees(p, Reported(Merged(c, p)))
<1>1. Merged(c, p).description = p.description
  BY DEF Merged, Parameters
<1>2. Reported(Merged(c, p)).description = p.description
  BY <1>1 DEF Reported, Merged, Parameters
<1>3. CASE p.value = Unset
  BY <1>2, <1>3 DEF Agrees
<1>4. CASE p.value # Unset
  <2>1. Merged(c, p) = p
    BY <1>4 DEF Merged
  <2>2. Reported(p).value \in {Unset, p.value}
    BY DEF Reported, Parameters
  <2> QED BY <1>2, <2>1, <2>2 DEF Agrees
<1> QED BY <1>3, <1>4

\* A put leaves what drift detection takes for the spec, unless the context has
\* a parameter that the spec does not name.
LEMMA PutSettles ==
  ASSUME NEW c \in Components, NEW spec \in Specs
  PROVE  Settled(spec, Configured(c, spec))
<1> DEFINE put == Configured(c, spec)
<1> SUFFICES ASSUME Extra(spec, put) = {}
             PROVE  IsParameterContextUpToDate(spec, put)
  BY DEF Settled
<1>1. put.parameters = { Merged(c, p) : p \in spec.parameters }
  BY DEF Extra, Configured, Built
<1>2. SameLength(spec, put)
  BY <1>1, MergedCount DEF SameLength
<1>3. ASSUME NEW desired \in spec.parameters
      PROVE  \E actual \in put.parameters :
               actual.name = desired.name /\ Agrees(desired, Reported(actual))
  <2>1. desired \in Parameters
    BY ContextAssumption DEF Contexts
  <2>2. Merged(c, desired) \in put.parameters
    BY <1>1
  <2> QED BY <2>1, <2>2, MergedCount, MergedAgrees
<1> QED BY <1>2, <1>3 DEF IsParameterContextUpToDate, Configured

\* The asked and the held parameters match: the same names, and no value that
\* NiFi shows, nor a description, is other than the one the spec gives.
Matching(spec, c) ==
  /\ NamesOf(spec.parameters) = NamesOf(c.parameters)
  /\ \A p \in spec.parameters, q \in c.parameters :
       p.name = q.name =>
         /\ p.value # Unset /\ q.value # Unset /\ ~q.sensitive => q.value = p.value
         /\ p.description # Blank => q.description \in {Unset, p.description}

\* A context taken for what the spec asks matches it.
LEMMA UpToDateMatches ==
  ASSUME NEW c \in Components, NEW spec \in Specs, IsParameterContextUpToDate(spec, c)
  PROVE  Matching(spec, c)
<1> DEFINE asked == spec.parameters
           held == c.parameters
<1>1. /\ IsFiniteSet(asked) /\ Distinct(asked)
      /\ IsFiniteSet(held) /\ Distinct(held)
  BY ContextAssumption
<1>2. \A desired \in asked : \E actual \in held :
        actual.name = desired.name /\ Agrees(desired, Reported(actual))
  BY DEF IsParameterContextUpToDate
<1>3. NamesOf(asked) = NamesOf(held)
  BY <1>1, <1>2, SameNames DEF IsParameterContextUpToDate, SameLength
<1>4. ASSUME NEW p \in asked, NEW q \in held, p.name = q.name
      PROVE  /\ p.value # Unset /\ q.value # Unset /\ ~q.sensitive => q.value = p.value
             /\ p.description # Blank => q.description \in {Unset, p.description}
  <2>1. PICK actual \in held : actual.name = p.name /\ Agrees(p, Reported(actual))
    BY <1>2
  <2>2. actual = q
    BY <1>1, <1>4, <2>1 DEF Distinct
  <2>3. Reported(q).description = q.description
    <3>1. q \in Parameters
      BY ContextAssumption DEF Contexts
    <3> QED BY <3>1 DEF Reported, Parameters
  <2>4. ~q.sensitive => Reported(q) = q
    BY DEF Reported
  <2> QED BY <2>1, <2>2, <2>3, <2>4 DEF Agrees
<1> QED BY <1>3, <1>4 DEF Matching

-----------------------------------------------------------------------------
(* The calls, as the loop sees them *)

\* Every call of the client is one the loop knows.
LEMMA StepRefines ==
  ASSUME NEW w \in Replicas, Step(w)
  PROVE  ReplicaNext(w)
<1> USE ContextAssumption DEF ContextSteps, InCall
<1>1. CASE LoopStep(w)
  BY <1>1, LoopRefines
<1>2. CASE ObserveContext(w)
  <2>1. IsParameterContextUpToDate(mem[w].spec, Named(w)) \in BOOLEAN
    BY DEF IsParameterContextUpToDate
  <2> QED BY <1>2, <2>1, ObserveRefines DEF ObserveContext, ReplicaNext
<1>3. CASE CreateContext(w)
  BY <1>3, CreateRefines DEF CreateContext
<1>4. CASE Put(w)
  BY <1>4, CallRefines DEF Put, ReplicaNext
<1>5. CASE UpdateReturns(w)
  BY <1>5, LeaveRefines DEF UpdateReturns, ReplicaNext
<1>6. CASE DeleteCall(w)
  BY <1>6, DeleteRefines DEF DeleteCall, ReplicaNext
<1> QED BY <1>1, <1>2, <1>3, <1>4, <1>5, <1>6 DEF Step

\* So is every step of the controller and of what is around it.
LEMMA NextRefines == [Next]_nvars => [ReconcilerNext]_rvars
<1> SUFFICES ASSUME [Next]_nvars PROVE [ReconcilerNext]_rvars
  OBVIOUS
<1>1. ASSUME NEW w \in Replicas, Step(w) PROVE ReconcilerNext
  BY <1>1, StepRefines DEF ReconcilerNext
<1>2. ASSUME NEW id \in Ids, ForeignEdit(id) PROVE ReconcilerNext
  BY <1>2 DEF ForeignEdit, ForeignEditTo, ReconcilerNext
<1>3. CASE Around
  BY <1>3, AroundRefines
<1>4. CASE UNCHANGED nvars
  BY <1>4 DEF nvars
<1> QED BY <1>1, <1>2, <1>3, <1>4 DEF Next

-----------------------------------------------------------------------------
(* The invariant that carries the rest *)

\* What a reconcile that nobody interferes with knows of the context: what
\* Observe made of it, and what the put left of it.
OnCourse(w) ==
  /\ pc[w] = "decide" /\ seen[w] = "upToDate" =>
       mem[w].name \in live /\ IsParameterContextUpToDate(mem[w].spec, Named(w))
  /\ pc[w] = "updated" => mem[w].name \in live /\ Settled(mem[w].spec, Named(w))

ReplicaOK(w) == status[w].clean => OnCourse(w)

ContextInv == ReconcilerTypeOK /\ ClientTypeOK /\ \A w \in Replicas : ReplicaOK(w)

\* It holds at the start, where nothing is under way.
LEMMA ContextInitially == ClientInit => ContextInv
<1> SUFFICES ASSUME ClientInit PROVE ContextInv
  OBVIOUS
<1>1. ReconcilerTypeOK
  BY TypeInit DEF ClientInit
<1>2. ClientTypeOK
  BY NoStatusType DEF ClientInit, ClientTypeOK
<1>3. \A w \in Replicas : pc[w] = "idle"
  BY DEF ClientInit, ReconcilerInit
<1> QED BY <1>1, <1>2, <1>3 DEF ContextInv, ReplicaOK, OnCourse

\* The context a replica works on and its spec have their types.
LEMMA SentTypes ==
  ASSUME ReconcilerTypeOK, ClientTypeOK, NEW w \in Replicas
  PROVE  /\ mem[w].spec \in Specs
         /\ mem[w].name \in live => Named(w) \in Components
BY DEF ReconcilerTypeOK, ClientTypeOK, Resources, Named

\* The types are preserved by every step of a replica.
LEMMA StepType ==
  ASSUME ReconcilerTypeOK, ClientTypeOK, NEW w \in Replicas, Step(w)
  PROVE  ClientTypeOK'
<1>1. CASE LoopStep(w)
  BY <1>1, LoopType
<1>2. CASE ObserveContext(w)
  BY <1>2, ObserveType DEF ObserveContext
<1>3. CASE CreateContext(w)
  BY <1>3, SentTypes, CreateType, ContextAssumption DEF CreateContext
<1>4. CASE Put(w)
  BY <1>4, SentTypes, CallType, ContextAssumption DEF Put
<1>5. CASE UpdateReturns(w)
  BY <1>5, LeaveType DEF UpdateReturns
<1>6. CASE DeleteCall(w)
  BY <1>6, DeleteType DEF DeleteCall
<1> QED BY <1>1, <1>2, <1>3, <1>4, <1>5, <1>6 DEF Step

\* No step of a replica disturbs another one unnoticed.
LEMMA StepUndisturbs ==
  ASSUME ReconcilerTypeOK, ClientTypeOK, NEW w \in Replicas, NEW v \in Replicas, v # w, Step(w)
  PROVE  Undisturbed(v)
<1>1. CASE LoopStep(w)
  BY <1>1, LoopUndisturbs
<1>2. CASE ObserveContext(w)
  BY <1>2, ObserveUndisturbs DEF ObserveContext
<1>3. CASE CreateContext(w)
  BY <1>3, CreateUndisturbs DEF CreateContext
<1>4. CASE Put(w)
  BY <1>4, CallUndisturbs DEF Put
<1>5. CASE UpdateReturns(w)
  BY <1>5, LeaveUndisturbs DEF UpdateReturns
<1>6. CASE DeleteCall(w)
  BY <1>6, DeleteUndisturbs DEF DeleteCall
<1> QED BY <1>1, <1>2, <1>3, <1>4, <1>5, <1>6 DEF Step

\* A replica that stays where it is, undisturbed, stays on its course.
LEMMA StaysOK ==
  ASSUME NEW v \in Replicas, ReplicaOK(v), Undisturbed(v), Stays(v)
  PROVE  ReplicaOK(v)'
<1>1. CASE ~status'[v].clean
  BY <1>1 DEF ReplicaOK
<1>2. CASE /\ status'[v] = status[v]
           /\ mem[v].name \in live =>
                mem[v].name \in live' /\ comp'[mem[v].name] = comp[mem[v].name]
  <2>1. mem[v].name \in live => Named(v)' = Named(v)
    BY <1>2 DEF Named, Stays
  <2>2. ASSUME mem[v].name \in live, IsParameterContextUpToDate(mem[v].spec, Named(v))
        PROVE  IsParameterContextUpToDate(mem[v].spec, Named(v))'
    BY <2>1, <2>2 DEF IsParameterContextUpToDate, SameLength, Stays
  <2>3. ASSUME mem[v].name \in live, Settled(mem[v].spec, Named(v))
        PROVE  Settled(mem[v].spec, Named(v))'
    BY <2>1, <2>3 DEF Settled, Extra, IsParameterContextUpToDate, SameLength, Stays
  <2> QED BY <1>2, <2>2, <2>3 DEF ReplicaOK, OnCourse, Stays
<1> QED BY <1>1, <1>2 DEF Undisturbed

\* Outside of an Update, and of the decision for one, there is no course to keep.
LEMMA ElsewhereOK ==
  ASSUME NEW w \in Replicas, pc'[w] \notin {"decide", "updated"}
  PROVE  ReplicaOK(w)'
BY DEF ReplicaOK, OnCourse

\* The loop, Create and every return lead outside.
LEMMA OutsideOK ==
  ASSUME ReconcilerTypeOK, ClientTypeOK, NEW w \in Replicas, ReplicaOK(w),
         LoopStep(w) \/ CreateContext(w) \/ Leave(w)
  PROVE  ReplicaOK(w)'
<1>1. CASE Stays(w) /\ Undisturbed(w)
  BY <1>1, StaysOK
<1>2. CASE pc'[w] \in {"idle", "observe", "create", "recordSuccess", "recordFailure"}
  BY <1>2, ElsewhereOK
<1> QED BY <1>1, <1>2, LoopStays, CreateLeads, LeaveLeads DEF CreateContext

\* Observe finds up to date what it has compared with the spec.
LEMMA ObserveOK ==
  ASSUME ReconcilerTypeOK, ClientTypeOK, NEW w \in Replicas, ObserveContext(w)
  PROVE  ReplicaOK(w)'
<1> DEFINE upToDate == IsParameterContextUpToDate(mem[w].spec, Named(w))
<1>1. /\ mem' = mem /\ live' = live /\ pc'[w] = "decide" /\ Named(w)' = Named(w)
      /\ ~Absent(w)' =>
           /\ mem[w].name \in live
           /\ seen'[w] = IF upToDate THEN "upToDate" ELSE "different"
  <2>1. ObserveAs(w, upToDate, NoObservation)
    BY DEF ObserveContext
  <2>2. upToDate \in BOOLEAN
    BY DEF IsParameterContextUpToDate
  <2> HIDE DEF upToDate
  <2> QED BY <2>1, <2>2, ObserveEffect
<1>2. seen'[w] = "upToDate" => mem[w].name \in live /\ upToDate
  <2> HIDE DEF upToDate
  <2> QED BY <1>1 DEF Absent
<1>3. upToDate => IsParameterContextUpToDate(mem[w].spec, Named(w))'
  BY <1>1 DEF IsParameterContextUpToDate, SameLength
<1> QED BY <1>1, <1>2, <1>3 DEF ReplicaOK, OnCourse

\* The put leaves what passes for the spec.
LEMMA PutOK ==
  ASSUME ReconcilerTypeOK, ClientTypeOK, NEW w \in Replicas, ReplicaOK(w), Put(w)
  PROVE  ReplicaOK(w)'
<1>1. CASE Leave(w)
  BY <1>1, OutsideOK
<1>2. CASE Apply(w, Configured(Named(w), mem[w].spec), "updated", TRUE)
  <2>1. /\ mem[w].name \in live /\ mem' = mem /\ live' = live /\ pc'[w] = "updated"
        /\ Named(w)' = Configured(Named(w), mem[w].spec)
    BY <1>2, ApplyEffect
  <2>2. Settled(mem[w].spec, Configured(Named(w), mem[w].spec))
    BY <2>1, SentTypes, PutSettles
  <2>3. Settled(mem[w].spec, Named(w))'
    BY <2>1, <2>2 DEF Settled, Extra, IsParameterContextUpToDate, SameLength
  <2> QED BY <2>1, <2>3 DEF ReplicaOK, OnCourse
<1> QED BY <1>1, <1>2 DEF Put, Call

\* No step of a replica takes itself or another one off its course.
LEMMA StepOK ==
  ASSUME ReconcilerTypeOK, ClientTypeOK, \A v \in Replicas : ReplicaOK(v),
         NEW w \in Replicas, Step(w), NEW v \in Replicas
  PROVE  ReplicaOK(v)'
<1>1. CASE v # w
  <2>1. Undisturbed(v) /\ Stays(v)
    BY <1>1, StepRefines, StepUndisturbs, OthersStay
  <2> QED BY <2>1, StaysOK
<1>2. CASE v = w
  <2>1. CASE LoopStep(w) \/ CreateContext(w) \/ UpdateReturns(w)
    BY <1>2, <2>1, OutsideOK DEF UpdateReturns
  <2>2. CASE DeleteCall(w)
    BY <1>2, <2>2, DeleteLeads, ElsewhereOK DEF DeleteCall
  <2>3. CASE ObserveContext(w) \/ Put(w)
    BY <1>2, <2>3, ObserveOK, PutOK
  <2> QED BY <2>1, <2>2, <2>3 DEF Step
<1> QED BY <1>1, <1>2

-----------------------------------------------------------------------------
(* The invariant, and what follows from it *)

\* Every step of the controller and of whatever is around preserves the
\* invariant.
LEMMA ContextStep ==
  ASSUME ContextInv, [Next]_nvars
  PROVE  ContextInv'
<1> USE DEF ContextInv
<1>1. ReconcilerTypeOK'
  BY NextRefines, TypeStep
<1>2. ASSUME NEW w \in Replicas, Step(w)
      PROVE  ClientTypeOK' /\ \A v \in Replicas : ReplicaOK(v)'
  BY <1>2, StepType, StepOK
<1>3. ASSUME NEW id \in Ids, ForeignEdit(id)
      PROVE  ClientTypeOK' /\ \A v \in Replicas : ReplicaOK(v)'
  <2>1. live \subseteq Ids /\ id \in live
    BY <1>3 DEF ForeignEdit, ReconcilerTypeOK
  <2>2. ClientTypeOK'
    BY <1>3, <2>1, ForeignEditType DEF ForeignEdit
  <2>3. ASSUME NEW v \in Replicas PROVE ReplicaOK(v)'
    BY <1>3, ForeignUndisturbs, StaysOK DEF ForeignEdit
  <2> QED BY <2>2, <2>3
<1>4. ASSUME Around
      PROVE  ClientTypeOK' /\ \A v \in Replicas : ReplicaOK(v)'
  <2>1. ClientTypeOK'
    BY <1>4, AroundType
  <2>2. ASSUME NEW v \in Replicas PROVE ReplicaOK(v)'
    BY <1>4, AroundUndisturbs, StaysOK, ElsewhereOK
  <2> QED BY <2>1, <2>2
<1>5. ASSUME UNCHANGED nvars
      PROVE  ClientTypeOK' /\ \A v \in Replicas : ReplicaOK(v)'
  BY <1>5, StaysOK DEF nvars, rvars, ClientTypeOK, Undisturbed, Stays
<1> QED BY <1>1, <1>2, <1>3, <1>4, <1>5 DEF Next

\* The invariant holds throughout.
THEOREM ContextCorrect == Spec => []ContextInv
<1>1. ContextInv /\ [Next]_nvars => ContextInv'
  BY ContextStep
<1> QED BY ContextInitially, <1>1, PTL DEF Spec

\* A context found up to date has just the parameters of the spec and no value
\* or description that contradicts it, though only a length and one direction are compared.
THEOREM UpToDateCorrect == Spec => []UpToDateMeansMatching
<1>1. ASSUME ContextInv, NEW w \in Replicas,
             pc[w] = "decide", seen[w] = "upToDate", status[w].clean
      PROVE  Matching(mem[w].spec, Named(w))
  BY <1>1, SentTypes, UpToDateMatches DEF ContextInv, ReplicaOK, OnCourse
<1>2. ContextInv => UpToDateMeansMatching
  BY <1>1 DEF UpToDateMeansMatching, Matching
<1> QED BY ContextCorrect, <1>2, PTL

\* An Update that nobody interfered with leaves what the next Observe takes for
\* the spec, but for parameters that the spec does not name.
THEOREM UpdateCorrect == Spec => []UpdateEstablishesSpec
<1>1. ContextInv => UpdateEstablishesSpec
  BY DEF ContextInv, ReplicaOK, OnCourse, UpdateEstablishesSpec
<1> QED BY ContextCorrect, <1>1, PTL

\* The client keeps the contract of the loop, misread errors and all.
THEOREM ImplementsCorrect ==
  Spec => ImplementsReconciler
<1>1. ClientInit => ReconcilerInit
  BY DEF ClientInit
<1>2. [Next]_nvars => [ReconcilerNext]_rvars
  BY NextRefines
<1> QED BY <1>1, <1>2, PTL DEF Spec, ImplementsReconciler, ReconcilerSpec

\* So the loop's guarantees are the ParameterContext controller's: at most one component,
\* none forgotten, but for one that a crash, a lost reply or an error misread as its
\* absence loses, and a life that ManagedComponent allows.
THEOREM ContextManagesOne ==
  Spec => [](AtMostOneManaged /\ Accounted) /\ LifecycleRefined
BY ImplementsCorrect, AtMostOneCorrect, AccountedCorrect, LifecycleCorrect, PTL
DEF ImplementsReconciler
=============================================================================

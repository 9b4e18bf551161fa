-------------------------- MODULE CompositionProofs --------------------------
(***************************************************************************)
(* What is proved of resources that depend on each other.                  *)
(*                                                                         *)
(* First those that share a configuration: one that is deleted stays while *)
(* resources that its controller had heard of use it, for any number of    *)
(* them, if it is of the kind whose usages the provider records.           *)
(*                                                                         *)
(* Then a processor and the connection that leads to it: neither           *)
(* controller forgets a component though NiFi refuses a Delete of the one  *)
(* because of the other, and what is stranded between them stays.          *)
(***************************************************************************)
EXTENDS ProviderConfig, Pipeline, FiniteSetTheorems, TLAPS

-----------------------------------------------------------------------------
(* The configuration *)

\* The count of a set of resources is a number the status can show, and zero
\* only of the empty set.
LEMMA CountOfUsers ==
  ASSUME NEW S \in SUBSET Users
  PROVE  /\ Cardinality(S) \in 0 .. Cardinality(Users)
         /\ Cardinality(S) = 0 <=> S = {}
<1>1. IsFiniteSet(Users) BY UsersAssumption
<1>2. IsFiniteSet(S) /\ Cardinality(S) <= Cardinality(Users) BY <1>1, FS_Subset
<1>3. Cardinality(S) \in Nat /\ Cardinality(Users) \in Nat BY <1>1, <1>2, FS_CardinalityType
<1>4. Cardinality(S) = 0 <=> S = {} BY <1>2, FS_EmptySet
<1> QED BY <1>2, <1>3, <1>4

\* A configuration that is not there and one just written are configurations,
\* and no deletion mark or finalizer makes one anything else.
LEMMA ConfigsWritten ==
  /\ 0 \in 0 .. Cardinality(Users)
  /\ NoConfig \in Configs /\ ~NoConfig.exists
  /\ NewConfig \in Configs /\ NewConfig.exists
  /\ \A c \in Configs : /\ [c EXCEPT !.deleting = TRUE] \in Configs
                        /\ [c EXCEPT !.deleting = TRUE].exists = c.exists
                        /\ [c EXCEPT !.finalizer = TRUE] \in Configs
                        /\ [c EXCEPT !.finalizer = TRUE].exists = c.exists
                        /\ \A n \in 0 .. Cardinality(Users) :
                             /\ [c EXCEPT !.users = n] \in Configs
                             /\ [c EXCEPT !.users = n].exists = c.exists
<1> DEFINE Counts == 0 .. Cardinality(Users)
<1>1. 0 \in Counts
  <2>1. Cardinality(Users) \in Nat BY UsersAssumption, FS_CardinalityType
  <2> QED BY <2>1
<1> HIDE DEF Counts
<1>2. Configs = [exists : BOOLEAN, deleting : BOOLEAN, finalizer : BOOLEAN, users : Counts]
  BY DEF Configs, Counts
<1>3. NoConfig \in Configs /\ ~NoConfig.exists BY <1>1, <1>2 DEF NoConfig
<1>4. NewConfig \in Configs /\ NewConfig.exists BY <1>1, <1>2 DEF NoConfig, NewConfig
<1>5. ASSUME NEW c \in Configs
      PROVE  /\ [c EXCEPT !.deleting = TRUE] \in Configs
             /\ [c EXCEPT !.deleting = TRUE].exists = c.exists
             /\ [c EXCEPT !.finalizer = TRUE] \in Configs
             /\ [c EXCEPT !.finalizer = TRUE].exists = c.exists
             /\ \A n \in Counts : /\ [c EXCEPT !.users = n] \in Configs
                                 /\ [c EXCEPT !.users = n].exists = c.exists
  BY <1>2
<1> QED BY <1>1, <1>3, <1>4, <1>5 DEF Counts

\* The invariant holds before anything was reconciled.
LEMMA InitInv == Init => ConfigInv
<1> SUFFICES ASSUME Init PROVE ConfigInv OBVIOUS
<1> USE DEF Init
<1>1. /\ {config, configCache, copy} \subseteq Configs
      /\ listed \in 0 .. Cardinality(Users)
  BY ConfigsWritten
<1>2. {usages, usageCache} \subseteq [UsageKinds -> SUBSET Users] OBVIOUS
<1>3. disturbances \in 0 .. MaxDisturbances BY DisturbancesAssumption
<1>4. /\ life \in [Users -> {"live", "deleting", "gone"}]
      /\ finalizer \in [Users -> BOOLEAN]
      /\ wpc \in [Users -> {"idle", "track", "get", "connected"}]
  OBVIOUS
<1>5. secret \in Secrets /\ heard \subseteq Users OBVIOUS
<1>6. ConfigTypeOK BY <1>1, <1>2, <1>3, <1>4, <1>5 DEF ConfigTypeOK
<1>7. CopiesTrue BY DEF CopiesTrue
<1>8. TrackedFirst BY DEF TrackedFirst
<1>9. HeardSeen /\ HeardCounted /\ UsersKeepConfig BY DEF HeardSeen, HeardCounted, UsersKeepConfig
<1> QED BY <1>6, <1>7, <1>8, <1>9 DEF ConfigInv

\* A disturbance keeps within the bound.
LEMMA DisturbanceCounted ==
  ASSUME disturbances \in 0 .. MaxDisturbances, Disturb
  PROVE  disturbances' \in 0 .. MaxDisturbances
BY DisturbancesAssumption DEF Disturb

USE DEF stored, resources, controller

\* A step of the reconcile of resource r keeps the invariant.
LEMMA WorkerKeeps ==
  ASSUME ConfigInv, NEW r \in Users, Worker(r) \/ WorkerCrash(r)
  PROVE  ConfigInv'
<1> USE DEF ConfigInv, WorkerAt, Disturb
<1>1. CASE Begin(r)
  <2>1. ConfigTypeOK' BY <1>1 DEF Begin, ConfigTypeOK
  <2>2. TrackedFirst' BY <1>1 DEF Begin, TrackedFirst, ConfigTypeOK
  <2> QED BY <1>1, <2>1, <2>2 DEF Begin, CopiesTrue, HeardSeen, HeardCounted, UsersKeepConfig
<1>2. CASE Track(r)
  <2> USE <1>2 DEF Track, TrackFails
  <2>1. ConfigTypeOK' BY DisturbancesAssumption DEF ConfigTypeOK, UsageKinds, TrackedKind
  <2>2. usages[TrackedKind] \subseteq usages'[TrackedKind]
    BY DEF ConfigTypeOK, UsageKinds, TrackedKind
  <2>3. wpc'[r] = "get" => r \in usages'[TrackedKind]
    BY DEF ConfigTypeOK, UsageKinds, TrackedKind
  <2>4. TrackedFirst' BY <2>2, <2>3 DEF TrackedFirst, ConfigTypeOK
  <2> QED BY <2>1, <2>4 DEF CopiesTrue, HeardSeen, HeardCounted, UsersKeepConfig
<1>3. CASE GetNiFiClient(r)
  <2>1. ConfigTypeOK' BY <1>3 DEF GetNiFiClient, ConfigTypeOK
  <2>2. TrackedFirst' BY <1>3 DEF GetNiFiClient, TrackedFirst, ConfigTypeOK
  <2> QED BY <1>3, <2>1, <2>2
        DEF GetNiFiClient, CopiesTrue, HeardSeen, HeardCounted, UsersKeepConfig
<1>4. CASE Reconciled(r)
  <2> USE <1>4 DEF Reconciled
  <2>1. ConfigTypeOK' BY DEF ConfigTypeOK
  <2>2. TrackedFirst' BY DEF TrackedFirst, ConfigTypeOK
  <2>3. HeardSeen'
    <3> SUFFICES ASSUME NEW q \in heard' PROVE finalizer'[q] /\ q \in usageCache'[TrackedKind]
      BY DEF HeardSeen
    <3>1. q \in heard /\ finalizer[q] /\ q \in usageCache[TrackedKind] BY DEF HeardSeen
    <3>2. finalizer'[q]
      <4>1. CASE q # r BY <3>1, <4>1 DEF ConfigTypeOK
      <4>2. CASE q = r BY <3>1, <4>2 DEF ConfigTypeOK, TrackedFirst
      <4> QED BY <4>1, <4>2
    <3> QED BY <3>1, <3>2
  <2>4. heard' \subseteq heard OBVIOUS
  <2> QED BY <2>1, <2>2, <2>3, <2>4 DEF CopiesTrue, HeardCounted, UsersKeepConfig
<1>5. CASE WorkerCrash(r)
  <2>1. ConfigTypeOK' BY <1>5, DisturbancesAssumption DEF WorkerCrash, ConfigTypeOK
  <2>2. TrackedFirst' BY <1>5 DEF WorkerCrash, TrackedFirst, ConfigTypeOK
  <2> QED BY <1>5, <2>1, <2>2
        DEF WorkerCrash, CopiesTrue, HeardSeen, HeardCounted, UsersKeepConfig
<1> QED BY <1>1, <1>2, <1>3, <1>4, <1>5 DEF Worker

\* A step of the controller of the configuration keeps the invariant, if it
\* counts the usages that the resources have.
LEMMA ControllerKeeps ==
  ASSUME Kind = "ProviderConfig", ConfigInv, ConfigController \/ ControllerCrash
  PROVE  ConfigInv'
<1> USE DEF ConfigInv, Unchanged, Disturb
<1>1. CASE ReadConfig
  <2>1. ConfigTypeOK' BY <1>1 DEF ReadConfig, ConfigTypeOK
  <2> QED BY <1>1, <2>1
        DEF ReadConfig, CopiesTrue, TrackedFirst, HeardSeen, HeardCounted, UsersKeepConfig
<1>2. CASE ListUsages
  <2> USE <1>2 DEF ListUsages
  <2>1. UsageKind(Kind) = TrackedKind BY DEF UsageKind, TrackedKind
  <2>2. usageCache[TrackedKind] \in SUBSET Users
    BY DEF ConfigTypeOK, UsageKinds, TrackedKind
  <2>3. listed' = Cardinality(usageCache[TrackedKind]) BY <2>1 DEF Counted
  <2>4. /\ listed' \in 0 .. Cardinality(Users)
        /\ listed' = 0 => usageCache[TrackedKind] = {}
    BY <2>2, <2>3, CountOfUsers
  <2>5. ConfigTypeOK' BY <2>4 DEF ConfigTypeOK
  <2>6. HeardCounted' BY <2>4 DEF HeardCounted, HeardSeen
  <2> QED BY <2>5, <2>6 DEF CopiesTrue, TrackedFirst, HeardSeen, UsersKeepConfig
<1>3. CASE Release
  <2> USE <1>3 DEF Release, Settled
  <2>1. heard = {} BY DEF ReleaseDue, HeardCounted
  <2>2. ConfigTypeOK' BY ConfigsWritten DEF ConfigTypeOK
  <2> QED BY <2>1, <2>2 DEF CopiesTrue, TrackedFirst, HeardSeen, HeardCounted, UsersKeepConfig
<1>4. CASE AddFinalizer
  <2> USE <1>4 DEF AddFinalizer
  <2>1. copy = config BY DEF CopiesTrue
  <2>2. ConfigTypeOK' /\ config'.exists = config.exists
    <3>1. config' \in Configs /\ config'.exists = config.exists
      BY <2>1, ConfigsWritten DEF ConfigTypeOK
    <3> QED BY <3>1, ConfigsWritten DEF ConfigTypeOK
  <2> QED BY <2>2 DEF CopiesTrue, TrackedFirst, HeardSeen, HeardCounted, UsersKeepConfig
<1>5. CASE ReportUsers
  <2> USE <1>5 DEF ReportUsers, Settled, Reported
  <2>1. copy = config BY DEF CopiesTrue
  <2>2. ConfigTypeOK' /\ config'.exists = config.exists
    <3>1. config' \in Configs /\ config'.exists = config.exists
      BY <2>1, ConfigsWritten DEF ConfigTypeOK
    <3> QED BY <3>1, ConfigsWritten DEF ConfigTypeOK
  <2> QED BY <2>2 DEF CopiesTrue, TrackedFirst, HeardSeen, HeardCounted, UsersKeepConfig
<1>6. CASE WriteNothing
  <2>1. ConfigTypeOK' BY <1>6, ConfigsWritten DEF WriteNothing, Settled, ConfigTypeOK
  <2> QED BY <1>6, <2>1 DEF WriteNothing, Settled, CopiesTrue, TrackedFirst, HeardSeen,
                            HeardCounted, UsersKeepConfig
<1>7. CASE ControllerCrash
  <2>1. ConfigTypeOK'
    <3>1. disturbances' \in 0 .. MaxDisturbances
      BY <1>7, DisturbanceCounted DEF ControllerCrash, ConfigTypeOK
    <3> QED BY <1>7, <3>1, ConfigsWritten DEF ControllerCrash, Settled, ConfigTypeOK
  <2> QED BY <1>7, <2>1 DEF ControllerCrash, Settled, CopiesTrue, TrackedFirst, HeardSeen,
                            HeardCounted, UsersKeepConfig
<1> QED BY <1>1, <1>2, <1>3, <1>4, <1>5, <1>6, <1>7 DEF ConfigController

\* What the API server and the users do keeps the invariant.
LEMMA AroundKeeps ==
  ASSUME ConfigInv,
         \/ DeliverConfig \/ DeliverUsages
         \/ \E r \in Users : Collect(r) \/ DeleteResource(r)
         \/ DeleteConfig \/ CreateConfig \/ WriteSecret
  PROVE  ConfigInv'
<1> USE DEF ConfigInv, Unchanged, Disturb, StoreConfig
<1>1. CASE DeliverConfig
  <2>1. ConfigTypeOK' BY <1>1 DEF DeliverConfig, ConfigTypeOK
  <2> QED BY <1>1, <2>1
        DEF DeliverConfig, CopiesTrue, TrackedFirst, HeardSeen, HeardCounted, UsersKeepConfig
<1>2. CASE DeliverUsages
  <2>1. ConfigTypeOK' BY <1>2 DEF DeliverUsages, ConfigTypeOK
  <2>2. HeardSeen' BY <1>2 DEF DeliverUsages, HeardSeen, TrackedFirst, ConfigTypeOK
  <2> QED BY <1>2, <2>1, <2>2
        DEF DeliverUsages, CopiesTrue, TrackedFirst, HeardCounted, UsersKeepConfig
<1>3. ASSUME NEW r \in Users, Collect(r) PROVE ConfigInv'
  <2> USE <1>3 DEF Collect
  <2>1. ConfigTypeOK' BY DEF ConfigTypeOK
  <2>2. \A q \in Users : q # r /\ q \in usages[TrackedKind] => q \in usages'[TrackedKind]
    BY DEF TrackedKind, UsageKinds
  <2>3. TrackedFirst' BY <2>2 DEF TrackedFirst
  <2> QED BY <2>1, <2>3 DEF CopiesTrue, HeardSeen, HeardCounted, UsersKeepConfig
<1>4. ASSUME NEW r \in Users, DeleteResource(r) PROVE ConfigInv'
  <2> USE <1>4 DEF DeleteResource
  <2>1. ConfigTypeOK' BY DEF ConfigTypeOK
  <2>2. TrackedFirst' BY DEF TrackedFirst, ConfigTypeOK
  <2> QED BY <2>1, <2>2 DEF CopiesTrue, HeardSeen, HeardCounted, UsersKeepConfig
<1>5. CASE DeleteConfig
  <2> USE <1>5 DEF DeleteConfig
  <2>1. ConfigTypeOK'
    <3>1. config \in Configs BY DEF ConfigTypeOK
    <3>2. config' \in Configs BY <3>1, ConfigsWritten
    <3> QED BY <3>2, ConfigsWritten DEF ConfigTypeOK
  <2>2. HeardSeen' BY DEF HeardSeen, TrackedFirst
  <2>3. UsersKeepConfig' BY ConfigsWritten DEF UsersKeepConfig, ConfigTypeOK
  <2> QED BY <2>1, <2>2, <2>3 DEF CopiesTrue, TrackedFirst, HeardCounted
<1>6. CASE CreateConfig
  <2>1. ConfigTypeOK'
    <3>1. disturbances' \in 0 .. MaxDisturbances
      BY <1>6, DisturbanceCounted DEF CreateConfig, ConfigTypeOK
    <3> QED BY <1>6, <3>1, ConfigsWritten DEF CreateConfig, ConfigTypeOK
  <2> QED BY <1>6, <2>1
        DEF CreateConfig, CopiesTrue, TrackedFirst, HeardSeen, HeardCounted, UsersKeepConfig
<1>7. CASE WriteSecret
  <2>1. ConfigTypeOK' BY <1>7, DisturbancesAssumption DEF WriteSecret, ConfigTypeOK
  <2> QED BY <1>7, <2>1
        DEF WriteSecret, CopiesTrue, TrackedFirst, HeardSeen, HeardCounted, UsersKeepConfig
<1> QED BY <1>1, <1>2, <1>3, <1>4, <1>5, <1>6, <1>7

-----------------------------------------------------------------------------

\* The accounting of usages keeps its invariant, whatever the number of
\* resources, the secrets and the disturbances.
THEOREM ConfigInvCorrect == ASSUME Kind = "ProviderConfig" PROVE Spec => []ConfigInv
<1>1. ConfigInv /\ [Next]_cfgvars => ConfigInv'
  <2> SUFFICES ASSUME ConfigInv, [Next]_cfgvars PROVE ConfigInv' OBVIOUS
  <2>1. CASE Next BY <2>1, WorkerKeeps, ControllerKeeps, AroundKeeps DEF Next
  <2>2. CASE UNCHANGED cfgvars
    BY <2>2 DEF cfgvars, ConfigInv, ConfigTypeOK, CopiesTrue, TrackedFirst, HeardSeen,
                HeardCounted, UsersKeepConfig
  <2> QED BY <2>1, <2>2
<1> QED BY InitInv, <1>1, PTL DEF Spec

\* A configuration that has its finalizer when it is deleted stays until the
\* resources are gone whose usages had reached its controller by then.
THEOREM UsersKeepConfigCorrect ==
  ASSUME Kind = "ProviderConfig" PROVE Spec => []UsersKeepConfig
<1>1. ConfigInv => UsersKeepConfig BY DEF ConfigInv
<1> QED BY ConfigInvCorrect, <1>1, PTL

-----------------------------------------------------------------------------
(* The processor and the connection: PP and CP are the proofs about each alone *)

PP == INSTANCE ProcessorProofs WITH
  Specs <- PSpecs, ClientSteps <- PSteps, Components <- PComponents,
  NoComponent <- PNothing, Observations <- PObservations,
  MaxDisturbances <- MaxCrashes,
  cr <- pcr, cache <- pcache, cacheFresh <- pcacheFresh, mem <- pmem, fresh <- pfresh,
  pc <- ppc, seen <- pseen, live <- plive, used <- pused, abandoned <- pabandoned,
  disturbances <- pdisturbances, comp <- pcomp, status <- pstatus

CP == INSTANCE ConnectionProofs WITH
  Specs <- CSpecs, ClientSteps <- CSteps, Components <- CComponents,
  NoComponent <- CNothing, Observations <- {},
  MaxDisturbances <- MaxCrashes,
  cr <- ccr, cache <- ccache, cacheFresh <- ccacheFresh, mem <- cmem, fresh <- cfresh,
  pc <- cpc, seen <- cseen, live <- clive, used <- cused, abandoned <- cabandoned,
  disturbances <- cdisturbances, comp <- ccomp, status <- cstatus,
  ends <- [source |-> sourceRuns, destination |-> DestinationRuns]

\* The constants of the processor are what the proofs about it assume,
LEMMA ProcessorMeets ==
  /\ PSpecs # {} /\ PNothing \notin PComponents
  /\ PSteps \cap PP!ReconcilerSteps = {}
  /\ MaxCrashes \in Nat /\ NoName \notin Ids
  /\ PP!ProcessorAssumption
BY PipelineAssumption
DEF ProcessorConstants, PP!ReconcilerSteps, PP!ProcessorSteps, PP!ProcessorParameters,
    PP!RunStates, PP!RunStatuses, Proc!ProcessorSteps, Proc!ProcessorParameters,
    Proc!RunStates, Proc!RunStatuses

\* and so are those of the connection.
LEMMA ConnectionMeets ==
  /\ CSpecs # {} /\ CNothing \notin CComponents
  /\ CSteps \cap CP!ReconcilerSteps = {}
  /\ MaxCrashes \in Nat /\ NoName \notin Ids
  /\ CP!ConnectionAssumption
BY PipelineAssumption
DEF ConnectionConstants, CP!ReconcilerSteps, CP!ConnectionSteps, CP!ConnectionDtos,
    CP!ConnectionParameters, Conn!ConnectionSteps, Conn!ConnectionDtos,
    Conn!ConnectionParameters

-----------------------------------------------------------------------------
(* The steps of the flow are steps of the one or of the other *)

\* What the processor's controller, NiFi's threads and the user do.
ProcessorActs ==
  \/ \E w \in Replicas : \/ /\ PP!Step(w) /\ (plive' = plive \/ clive = {})
                            /\ (pseen[w] = "misread" => pmem[w].deleting)'
                         \/ PP!DeleteCalled(w) /\ PP!Leave(w)
                         \/ PP!SyncStep(w)
                         \/ PP!Crash(w) /\ PP!Quiet(w)
  \/ \E id \in Ids : PP!Drain(id)
  \/ PP!UserDelete /\ UNCHANGED <<pcomp, pstatus>>

\* The same of the connection, with what flows through it.
ConnectionActs ==
  \/ \E w \in Replicas : \/ CP!Step(w) /\ (cseen[w] = "misread" => cmem[w].deleting)'
                         \/ CP!SyncStep(w)
                         \/ CP!Crash(w) /\ CP!Quiet(w)
  \/ \E id \in Ids : CP!Flow(id)
  \/ CP!UserDelete /\ UNCHANGED <<ccomp, cstatus>>

\* The processor of the flow is the one of ProcessorProofs: its replicas take the
\* same steps,
LEMMA SameProcessorSteps ==
  ASSUME NEW w \in Replicas
  PROVE  /\ Proc!Step(w) <=> PP!Step(w)
         /\ Proc!Leave(w) <=> PP!Leave(w)
         /\ Proc!DeleteCalled(w) <=> PP!DeleteCalled(w)
         /\ Proc!SyncStep(w) <=> PP!SyncStep(w)
         /\ Proc!Crash(w) /\ Proc!Quiet(w) <=> PP!Crash(w) /\ PP!Quiet(w)
BY DEF Proc!Step, Proc!Leave, Proc!DeleteCalled, Proc!SyncStep,
        Proc!Crash, Proc!Quiet, Proc!LoopStep, Proc!ObserveProcessor,
        Proc!CreateProcessor, Proc!Stop, Proc!Refresh, Proc!Put,
        Proc!Start, Proc!UpdateReturns, Proc!DeleteStop,
        Proc!DeleteRefresh, Proc!DeleteCall, Proc!Return, Proc!NoStatus,
        Proc!DeleteDue, Proc!SawRunning, Proc!Sync, Proc!Disturb,
        Proc!Unrecorded, Proc!Begin, Proc!AddFinalizer, Proc!MarkPending,
        Proc!RemoveFinalizer, Proc!Conflict, Proc!Rest, Proc!Record,
        Proc!ObserveAs, Proc!IsProcessorUpToDate, Proc!Named,
        Proc!RunStatus, Proc!CreateAs, Proc!UpdateDue, Proc!StopThen,
        Proc!RefreshThen, Proc!Call, Proc!Quiescent, Proc!Configured,
        Proc!AfterPut, Proc!Startable, Proc!DeleteAs, Proc!Forget,
        Proc!Recording, Proc!CreateIncomplete, Proc!Goto,
        Proc!FinalizerDue, Proc!Write, Proc!CreateDue, Proc!ReleaseDue,
        Proc!Store, Proc!Gone, Proc!NothingDue, Proc!Absent,
        Proc!Overlooked, Proc!MisreadAsNotFound,
        Proc!EqualFold, Proc!DesiredState, Proc!MixedCase,
        Proc!CreateAnswered, Proc!CreateReplyLost, Proc!CreateRefused,
        Proc!Alive, Proc!RunsAfterStop, Proc!Apply, Proc!AcceptsVersion,
        Proc!RemoveComponent, Proc!Touched, PP!Step, PP!Leave, PP!DeleteCalled, PP!SyncStep,
        PP!Crash, PP!Quiet, PP!LoopStep, PP!ObserveProcessor, PP!CreateProcessor, PP!Stop,
        PP!Refresh, PP!Put, PP!Start,
        PP!UpdateReturns, PP!DeleteStop, PP!DeleteRefresh, PP!DeleteCall, PP!Return,
        PP!NoStatus, PP!DeleteDue,
        PP!SawRunning, PP!Sync, PP!Disturb, PP!Unrecorded, PP!Begin, PP!AddFinalizer,
        PP!MarkPending,
        PP!RemoveFinalizer, PP!Conflict, PP!Rest, PP!Record, PP!ObserveAs,
        PP!IsProcessorUpToDate, PP!Named,
        PP!RunStatus, PP!CreateAs, PP!UpdateDue, PP!StopThen, PP!RefreshThen, PP!Call,
        PP!Quiescent, PP!Configured,
        PP!AfterPut, PP!Startable, PP!DeleteAs, PP!Forget, PP!Recording,
        PP!CreateIncomplete, PP!Goto,
        PP!FinalizerDue, PP!Write, PP!CreateDue, PP!ReleaseDue, PP!Store, PP!Gone,
        PP!NothingDue, PP!Absent, PP!Overlooked,
        PP!MisreadAsNotFound, PP!EqualFold, PP!DesiredState, PP!MixedCase,
        PP!CreateAnswered,
        PP!CreateReplyLost, PP!CreateRefused, PP!Alive, PP!RunsAfterStop, PP!Apply,
        PP!AcceptsVersion,
        PP!RemoveComponent, PP!Touched

\* it starts as that one does, and the same happens around it.
LEMMA SameProcessorAround ==
  /\ Proc!Init <=> PP!Init
  /\ \A id \in Ids : Proc!Drain(id) <=> PP!Drain(id)
  /\ Proc!UserDelete <=> PP!UserDelete
BY DEF Proc!Init, Proc!Drain, Proc!UserDelete, Proc!ClientInit,
        Proc!Settle, Proc!Store, Proc!Gone, Proc!ReconcilerInit,
        Proc!NoStatus, Proc!rvars, Proc!Names, PP!Init, PP!Drain, PP!UserDelete,
        PP!ClientInit, PP!Settle, PP!Store, PP!Gone, PP!ReconcilerInit, PP!NoStatus,
        PP!rvars, PP!Names

\* The connection of the flow is the one of ConnectionProofs,
LEMMA SameConnectionSteps ==
  ASSUME NEW w \in Replicas
  PROVE  /\ Conn!Step(w) <=> CP!Step(w)
         /\ Conn!SyncStep(w) <=> CP!SyncStep(w)
         /\ Conn!Crash(w) /\ Conn!Quiet(w) <=> CP!Crash(w) /\ CP!Quiet(w)
BY DEF Conn!Step, Conn!SyncStep, Conn!Crash, Conn!Quiet,
        Conn!LoopStep, Conn!ObserveConnection, Conn!CreateConnection,
        Conn!Put, Conn!UpdateReturns, Conn!DeleteCall, Conn!Sync,
        Conn!Disturb, Conn!Unrecorded, Conn!Return, Conn!NoStatus,
        Conn!Begin, Conn!AddFinalizer, Conn!MarkPending,
        Conn!RemoveFinalizer, Conn!Conflict, Conn!Rest, Conn!Record,
        Conn!ObserveAs, Conn!IsConnectionUpToDate, Conn!Named,
        Conn!CreateAs, Conn!New, Conn!UpdateDue, Conn!Call,
        Conn!Configured, Conn!Leave, Conn!DeleteDue, Conn!DeleteAs,
        Conn!Removable, Conn!Recording, Conn!Forget,
        Conn!CreateIncomplete, Conn!Goto, Conn!FinalizerDue, Conn!Write,
        Conn!CreateDue, Conn!ReleaseDue, Conn!Store, Conn!Gone,
        Conn!NothingDue, Conn!Absent, Conn!Overlooked, Conn!MisreadAsNotFound, Conn!Agrees,
        Conn!CreateAnswered, Conn!CreateReplyLost, Conn!CreateRefused,
        Conn!Sent, Conn!Alive, Conn!Apply, Conn!AcceptsVersion,
        Conn!RemoveComponent, Conn!Touched, CP!Step, CP!SyncStep, CP!Crash,
        CP!Quiet, CP!LoopStep, CP!ObserveConnection, CP!CreateConnection, CP!Put,
        CP!UpdateReturns, CP!DeleteCall, CP!Sync, CP!Disturb, CP!Unrecorded,
        CP!Return, CP!NoStatus, CP!Begin, CP!AddFinalizer, CP!MarkPending,
        CP!RemoveFinalizer, CP!Conflict, CP!Rest, CP!Record, CP!ObserveAs,
        CP!IsConnectionUpToDate, CP!Named, CP!CreateAs, CP!New, CP!UpdateDue,
        CP!Call, CP!Configured, CP!Leave, CP!DeleteDue, CP!DeleteAs, CP!Removable,
        CP!Recording, CP!Forget, CP!CreateIncomplete, CP!Goto, CP!FinalizerDue,
        CP!Write, CP!CreateDue, CP!ReleaseDue, CP!Store, CP!Gone, CP!NothingDue,
        CP!Absent, CP!Overlooked, CP!MisreadAsNotFound, CP!Agrees, CP!CreateAnswered, CP!CreateReplyLost,
        CP!CreateRefused, CP!Sent, CP!Alive, CP!Apply, CP!AcceptsVersion,
        CP!RemoveComponent, CP!Touched

\* in what happens around it too.
LEMMA SameConnectionAround ==
  /\ Conn!ClientInit <=> CP!ClientInit
  /\ \A id \in Ids : Conn!Arrive(id) \/ Conn!Drain(id) <=> CP!Flow(id)
  /\ Conn!UserDelete <=> CP!UserDelete
BY DEF Conn!ClientInit, Conn!Arrive, Conn!Drain, Conn!UserDelete,
        Conn!ReconcilerInit, Conn!NoStatus, Conn!Settle, Conn!Store,
        Conn!Gone, Conn!Names, Conn!rvars, CP!ClientInit, CP!Arrive,
        CP!Drain, CP!UserDelete, CP!ReconcilerInit, CP!NoStatus, CP!Settle,
        CP!Store, CP!Gone, CP!Names, CP!rvars, CP!Flow

\* Every step of the flow is one of the two's, or the source's.
LEMMA PipelineSteps ==
  ASSUME [PipelineNext]_pipeline
  PROVE  \/ ProcessorActs /\ UNCHANGED <<CP!nvars, sourceRuns, spelling>>
         \/ ConnectionActs /\ UNCHANGED <<PP!pvars, sourceRuns>>
         \/ UNCHANGED <<PP!pvars, CP!nvars>> /\ sourceRuns' \in {sourceRuns, ~sourceRuns}
<1> USE DEF processor, connection, PP!pvars, PP!nvars, PP!rvars, CP!nvars, CP!rvars
<1>1. ASSUME NEW w \in Replicas, ProcessorStep(w) \/ ProcessorSync(w)
      PROVE  ProcessorActs /\ UNCHANGED <<CP!nvars, sourceRuns, spelling>>
  BY <1>1, SameProcessorSteps
  DEF ProcessorStep, ProcessorSync, DeleteRefused, MisreadLate, Attached, ProcessorActs
<1>2. ASSUME NEW w \in Replicas, ConnectionStep(w) \/ ConnectionSync(w)
      PROVE  ConnectionActs /\ UNCHANGED <<PP!pvars, sourceRuns>>
  BY <1>2, SameConnectionSteps
  DEF ConnectionStep, ConnectionSync, MisreadLate, ConnectionActs
<1>3. ASSUME NEW w \in Replicas, ReconcileEnds(w)
      PROVE  \/ ProcessorActs /\ UNCHANGED <<CP!nvars, sourceRuns, spelling>>
             \/ ConnectionActs /\ UNCHANGED <<PP!pvars, sourceRuns>>
  BY <1>3, SameProcessorSteps, SameConnectionSteps
  DEF ReconcileEnds, ProcessorActs, ConnectionActs
<1>4. ASSUME NEW id \in Ids, ThreadsEnd(id)
      PROVE  ProcessorActs /\ UNCHANGED <<CP!nvars, sourceRuns, spelling>>
  BY <1>4, SameProcessorAround DEF ThreadsEnd, ProcessorActs
<1>5. ASSUME NEW id \in Ids, Arrive(id) \/ Take(id)
      PROVE  ConnectionActs /\ UNCHANGED <<PP!pvars, sourceRuns>>
  BY <1>5, SameConnectionAround DEF Arrive, Take, ConnectionActs
<1>6. CASE UserActs
  BY <1>6, SameProcessorAround, SameConnectionAround
  DEF UserActs, ProcessorActs, ConnectionActs
<1>7. CASE SourceChanges \/ UNCHANGED pipeline
  BY <1>7 DEF SourceChanges, pipeline
<1> QED BY <1>1, <1>2, <1>3, <1>4, <1>5, <1>6, <1>7 DEF PipelineNext

\* Everything the processor does is what a resource left alone does, a refused
\* Delete included, and keeps what is proved of it.
LEMMA ProcessorActsAlone ==
  ASSUME PP!ProcessorInv, PP!Kept, ProcessorActs, UNCHANGED spelling
  PROVE  PP!ProcessorInv' /\ [PP!Alone]_(PP!rvars)
<1>0. PP!DeletesOnly
  BY DEF PP!ProcessorInv, PP!ReplicaOK, PP!DeletesOnly
<1>1. ASSUME NEW w \in Replicas, PP!Step(w), (pseen[w] = "misread" => pmem[w].deleting)'
      PROVE  PP!ProcessorInv' /\ [PP!Alone]_(PP!rvars)
  <2>1. PP!ReplicaNext(w)
    BY <1>0, <1>1, ProcessorMeets, PP!StepRefines
  <2> QED BY <1>1, <2>1, ProcessorMeets, PP!ProcessorStep DEF PP!Next, PP!Alone
<1>2. ASSUME NEW w \in Replicas, PP!DeleteCalled(w), PP!Leave(w)
      PROVE  PP!ProcessorInv' /\ [PP!Alone]_(PP!rvars)
  <2>1. PP!ReplicaNext(w)
    BY <1>2, ProcessorMeets, PP!LeaveRefines
    DEF PP!DeleteCalled, PP!InCall, PP!ProcessorSteps, PP!ReplicaNext
  <2>2. PP!ReconcilerTypeOK'
    BY <2>1, ProcessorMeets, PP!TypeStep DEF PP!ProcessorInv, PP!ReconcilerNext
  <2>3. PP!ClientTypeOK'
    BY <1>2, ProcessorMeets, PP!LeaveType DEF PP!ProcessorInv
  <2>4. ASSUME NEW v \in Replicas PROVE PP!ReplicaOK(v)'
    <3>1. CASE v = w
      BY <1>2, <3>1, ProcessorMeets, PP!OutsideOK DEF PP!ProcessorInv
    <3>2. CASE v # w
      BY <1>2, <2>1, <3>2, ProcessorMeets, PP!LeaveUndisturbs, PP!OthersStay,
        PP!StaysOK DEF PP!ProcessorInv
    <3> QED BY <3>1, <3>2
  <2>5. pseen'[w] = "none"
    BY <1>2 DEF PP!Leave, PP!Return, PP!Forget, PP!ProcessorInv, PP!ReconcilerTypeOK
  <2> QED BY <2>1, <2>2, <2>3, <2>4, <2>5 DEF PP!ProcessorInv, PP!Alone
<1>3. ASSUME NEW w \in Replicas, PP!SyncStep(w) \/ (PP!Crash(w) /\ PP!Quiet(w))
      PROVE  PP!ProcessorInv' /\ [PP!Alone]_(PP!rvars)
  <2>1. (pseen[w] = "misread" => pmem[w].deleting)'
    BY <1>3 DEF PP!SyncStep, PP!Sync, PP!Crash, PP!Return, PP!Forget, PP!Kept,
      PP!ProcessorInv, PP!ReconcilerTypeOK
  <2> QED BY <1>3, <2>1, ProcessorMeets, PP!ProcessorStep
          DEF PP!Next, PP!Around, PP!SyncStep, PP!Alone, PP!ReplicaNext
<1>4. ASSUME NEW id \in Ids, PP!Drain(id)
      PROVE  PP!ProcessorInv' /\ [PP!Alone]_(PP!rvars)
  <2>1. UNCHANGED PP!rvars
    BY <1>4 DEF PP!Drain, PP!Settle
  <2> QED BY <1>4, <2>1, ProcessorMeets, PP!ProcessorStep DEF PP!Next
<1>5. CASE PP!UserDelete /\ UNCHANGED <<pcomp, pstatus>>
  BY <1>5, ProcessorMeets, PP!ProcessorStep DEF PP!Next, PP!Around, PP!Alone
<1> QED BY <1>1, <1>2, <1>3, <1>4, <1>5 DEF ProcessorActs

\* So does everything the connection does.
LEMMA ConnectionActsAlone ==
  ASSUME CP!ReconcilerTypeOK, CP!Kept, ConnectionActs
  PROVE  [CP!Alone]_(CP!rvars)
<1>1. ASSUME NEW w \in Replicas, CP!Step(w), (cseen[w] = "misread" => cmem[w].deleting)'
      PROVE  CP!Alone
  <2>1. CP!ReplicaNext(w)
    BY <1>1, ConnectionMeets, CP!StepRefines
  <2> QED BY <1>1, <2>1 DEF CP!Alone
<1>2. ASSUME NEW w \in Replicas, CP!SyncStep(w) \/ (CP!Crash(w) /\ CP!Quiet(w))
      PROVE  CP!Alone
  <2>1. (cseen[w] = "misread" => cmem[w].deleting)'
    BY <1>2 DEF CP!SyncStep, CP!Sync, CP!Crash, CP!Return, CP!Forget, CP!Kept,
      CP!ReconcilerTypeOK
  <2> QED BY <1>2, <2>1 DEF CP!SyncStep, CP!ReplicaNext, CP!Alone
<1>3. ASSUME NEW id \in Ids, CP!Flow(id)
      PROVE  UNCHANGED CP!rvars
  BY <1>3 DEF CP!Flow, CP!Arrive, CP!Drain, CP!Settle
<1>4. CASE CP!UserDelete
  BY <1>4 DEF CP!Alone
<1> QED BY <1>1, <1>2, <1>3, <1>4 DEF ConnectionActs

\* The ends of the connection are the source and the processor: whatever changes
\* them, the connection takes the steps it takes with ends of any kind.
LEMMA ConnectionAnyEnds ==
  ASSUME sourceRuns \in BOOLEAN, [PipelineNext]_pipeline
  PROVE  [CP!Next]_(CP!cvars) /\ sourceRuns' \in BOOLEAN
<1> DEFINE ends == [source |-> sourceRuns, destination |-> DestinationRuns]
<1>1. ends \in CP!Ends /\ (sourceRuns' \in BOOLEAN => ends' \in CP!Ends)
  BY DEF CP!Ends, DestinationRuns
<1>2. sourceRuns' \in BOOLEAN
  BY PipelineSteps
<1>3. CASE ConnectionActs /\ UNCHANGED <<PP!pvars, sourceRuns>>
  <2>1. UNCHANGED ends
    BY <1>3 DEF PP!pvars, PP!nvars, PP!rvars, DestinationRuns
  <2> QED BY <1>2, <1>3, <2>1 DEF ConnectionActs, CP!Next, CP!Around
<1>4. CASE UNCHANGED CP!nvars
  <2>1. CASE UNCHANGED ends
    BY <1>2, <1>4, <2>1 DEF CP!cvars
  <2>2. CASE ends' # ends
    BY <1>1, <1>2, <1>4, <2>2 DEF CP!Next, CP!EndsChange
  <2> QED BY <2>1, <2>2
<1> QED BY <1>3, <1>4, PipelineSteps

\* Left alone is what each of the two is.
LEMMA BothAlone ==
  ASSUME PP!ProcessorInv, PP!Kept, CP!ReconcilerTypeOK, CP!Kept, [PipelineNext]_pipeline
  PROVE  PP!ProcessorInv' /\ [PP!Alone]_(PP!rvars) /\ [CP!Alone]_(CP!rvars)
<1>1. UNCHANGED PP!pvars => PP!ProcessorInv' /\ [PP!Alone]_(PP!rvars)
  BY ProcessorMeets, PP!ProcessorStep DEF PP!pvars, PP!nvars
<1>2. UNCHANGED CP!nvars => [CP!Alone]_(CP!rvars)
  BY DEF CP!nvars
<1> QED BY <1>1, <1>2, PipelineSteps, ProcessorActsAlone, ConnectionActsAlone

\* While a connection is there no processor is removed.
LEMMA AttachedKeeps ==
  ASSUME clive # {}, [PipelineNext]_pipeline
  PROVE  plive' = plive
<1>1. ProcessorActs => plive' = plive
  BY DEF ProcessorActs, PP!Leave, PP!SyncStep, PP!Sync, PP!Crash, PP!Drain, PP!Settle,
    PP!rvars, PP!UserDelete
<1>2. UNCHANGED PP!pvars => plive' = plive
  BY DEF PP!pvars, PP!nvars, PP!rvars
<1> QED BY <1>1, <1>2, PipelineSteps

-----------------------------------------------------------------------------
(* The invariant of the flow *)

\* Each of the two is what it is alone, and while the connection is there the
\* processor that its resource names is.
PipelineInv ==
  /\ sourceRuns \in BOOLEAN
  /\ PP!ProcessorInv /\ PP!ReconcilerInv /\ PP!Kept
  /\ CP!ConnectionInv /\ CP!ReconcilerInv /\ CP!Kept
  /\ clive # {} /\ pcr.exists => pcr.name \in plive

\* It holds of a flow that was taken over,
LEMMA PipelineInitially ==
  ASSUME PipelineInit
  PROVE  PipelineInv
<1>1. /\ PP!Init /\ pcr.name # NoName
      /\ CP!ClientInit /\ ccr.name # NoName
      /\ sourceRuns \in BOOLEAN
  BY SameProcessorAround, SameConnectionAround DEF PipelineInit
<1>2. PP!ReconcilerInit /\ CP!ReconcilerInit
  BY <1>1 DEF PP!Init, PP!ClientInit, CP!ClientInit
<1>3. PP!ProcessorInv /\ PP!ReconcilerInv /\ PP!Kept
  BY <1>1, <1>2, ProcessorMeets, PP!ProcessorInitially, PP!InvInit, PP!KeptInitially
<1>4. CP!ReconcilerInv /\ CP!Kept
  BY <1>1, <1>2, ConnectionMeets, CP!InvInit, CP!KeptInitially
<1>5. CP!Init
  BY <1>1 DEF CP!Init, CP!Ends, DestinationRuns
<1>6. CP!ConnectionInv
  BY <1>5, ConnectionMeets, CP!ConnectionInitially
<1>7. pcr.exists => pcr.name \in plive
  <2>1. pcr.exists /\ ~pcr.deleting
    BY <1>2 DEF PP!ReconcilerInit, PP!Gone
  <2> QED BY <1>3, <2>1 DEF PP!Kept
<1> QED BY <1>1, <1>3, <1>4, <1>6, <1>7 DEF PipelineInv

\* and every step preserves it.
LEMMA PipelineStep ==
  ASSUME PipelineInv, [PipelineNext]_pipeline
  PROVE  PipelineInv'
<1> USE DEF PipelineInv
<1> USE DEF CP!ReconcilerInv
<1>1. PP!ProcessorInv' /\ [PP!Alone]_(PP!rvars)
  BY BothAlone
<1>2. PP!ReconcilerInv' /\ PP!Kept'
  BY <1>1, ProcessorMeets, PP!InvStep, PP!KeptStep DEF PP!Alone, PP!ReconcilerNext
<1>3. [CP!Alone]_(CP!rvars)
  BY BothAlone
<1>4. [CP!ReconcilerNext]_(CP!rvars)
  BY <1>3 DEF CP!Alone, CP!ReconcilerNext
<1>5. CP!ReconcilerInv' /\ CP!Kept'
  BY <1>3, <1>4, ConnectionMeets, CP!InvStep, CP!KeptStep
<1>6. CP!ConnectionInv' /\ sourceRuns' \in BOOLEAN
  BY ConnectionAnyEnds, ConnectionMeets, CP!ConnectionStep
<1>7. ASSUME clive' # {}, pcr'.exists
      PROVE  pcr'.name \in plive'
  <2>1. clive # {} /\ pcr.exists /\ pcr'.name = pcr.name
    BY <1>1, <1>3, <1>7, ProcessorMeets, PP!KeptOnly, ConnectionMeets, CP!KeptOnly
  <2>2. plive' = plive
    BY <2>1, AttachedKeeps
  <2> QED BY <2>1, <2>2
<1> QED BY <1>1, <1>2, <1>5, <1>6, <1>7

-----------------------------------------------------------------------------
(* What the two resources promise together *)

\* A flow that was taken over keeps the invariant: each controller's guarantees
\* outlive what the other's does to it.
THEOREM PipelineCorrect == PipelineSpec => []PipelineInv
<1>1. PipelineInv /\ [PipelineNext]_pipeline => PipelineInv'
  BY PipelineStep
<1> QED BY PipelineInitially, <1>1, PTL DEF PipelineSpec

\* Neither resource goes while its component stays, unless an error is misread as
\* its absence, though NiFi refuses to remove the one component because of the
\* other.
THEOREM NoneLeftBehindCorrect == PipelineSpec => []NoneLeftBehind
<1>1. PP!Accounted => Proc!Accounted
  BY DEF PP!Accounted, PP!Unrecorded, PP!Recording, Proc!Accounted, Proc!Unrecorded,
     Proc!Recording
<1>2. CP!Accounted => Conn!Accounted
  BY DEF CP!Accounted, CP!Unrecorded, CP!Recording, Conn!Accounted,
     Conn!Unrecorded, Conn!Recording
<1>3. PipelineInv => NoneLeftBehind
  BY <1>1, <1>2 DEF PipelineInv, PP!ReconcilerInv, CP!ReconcilerInv, NoneLeftBehind
<1> QED BY PipelineCorrect, <1>3, PTL

\* A reconcile that has heard of the deletion is not followed by one that has not.
LEMMA HeardStays ==
  ASSUME PP!ReconcilerInv, PP!Kept, pcr.deleting, Heard, [PP!Alone]_(PP!rvars)
  PROVE  Heard'
<1>1. ASSUME NEW w \in Replicas, PP!KeepsTo(w) PROVE Heard'
  <2>1. ASSUME NEW v \in Replicas
        PROVE  pcache'[v].deleting /\ (ppc'[v] = "idle" \/ pmem'[v].deleting)
    BY <1>1, <2>1 DEF PP!KeepsTo, Heard
  <2> QED BY <2>1 DEF Heard
<1>2. ~PP!UserDelete
  BY DEF PP!UserDelete
<1>3. CASE UNCHANGED PP!rvars
  BY <1>3 DEF PP!rvars, Heard
<1> QED BY <1>1, <1>2, <1>3, ProcessorMeets, PP!ReplicaKeepsTo DEF PP!Alone

\* Once all have heard of it, no controller starts the processor again.
LEMMA NobodyStarts ==
  ASSUME PP!ProcessorInv, PP!Kept, Heard, ~DestinationRuns, ProcessorActs
  PROVE  ~DestinationRuns'
<1> DEFINE still == plive' = plive /\ pcomp' = pcomp
<1>1. ASSUME still PROVE ~DestinationRuns'
  BY <1>1 DEF DestinationRuns
<1>2. ASSUME NEW w \in Replicas, PP!Leave(w) PROVE still
  BY <1>2 DEF PP!Leave
<1>3. ASSUME NEW w \in Replicas, PP!Step(w) PROVE ~DestinationRuns'
  <2>1. ppc[w] = "idle" \/ pmem[w].deleting
    BY DEF Heard
  <2>2. ~(PP!Stop(w) \/ PP!Refresh(w) \/ PP!Put(w) \/ PP!Start(w) \/ PP!UpdateReturns(w))
    BY <2>1 DEF PP!Stop, PP!UpdateDue, PP!Alive, PP!Refresh, PP!Put, PP!Start,
      PP!UpdateReturns, PP!ProcessorInv, PP!ReplicaOK
  <2>3. ~PP!CreateProcessor(w)
    BY DEF PP!CreateProcessor, PP!CreateAs, PP!CreateAnswered, PP!CreateReplyLost,
      PP!CreateRefused, PP!Kept, PP!Creating
  <2>4. CASE PP!LoopStep(w) \/ PP!ObserveProcessor(w)
    <3>1. still
      BY <2>4 DEF PP!LoopStep, PP!Begin, PP!AddFinalizer, PP!MarkPending,
        PP!RemoveFinalizer, PP!Conflict, PP!Rest,
         PP!Record, PP!Quiet, PP!ObserveProcessor, PP!ObserveAs
    <3> QED BY <1>1, <3>1
  <2>5. CASE PP!DeleteStop(w)
    <3>1. CASE PP!Leave(w)
      BY <1>1, <1>2, <3>1
    <3>2. ASSUME NEW run \in PP!RunsAfterStop(PP!Named(w).run),
                 PP!Apply(w, [PP!Named(w) EXCEPT !.run = run], "deleteRefresh", FALSE)
          PROVE  ~DestinationRuns'
      <4>1. /\ pmem[w].name \in plive /\ plive' = plive /\ plive \subseteq Ids
            /\ pcomp' = [pcomp EXCEPT ![pmem[w].name] = [PP!Named(w) EXCEPT !.run = run]]
        BY <3>2 DEF PP!Apply, PP!AcceptsVersion, PP!ProcessorInv, PP!ReconcilerTypeOK
      <4>2. PP!Named(w).run \notin {"RUNNING", "STOPPING"}
        BY <4>1 DEF DestinationRuns, PP!Named
      <4>3. run = "STOPPED"
        BY <4>2 DEF PP!RunsAfterStop
      <4>4. PP!Named(w) \in PComponents
        BY <4>1, ProcessorMeets, PP!SentTypes DEF PP!ProcessorInv
      <4>5. [PP!Named(w) EXCEPT !.run = run].run = "STOPPED"
        BY <4>3, <4>4, ProcessorMeets
      <4>6. pcomp \in [Ids -> PComponents \cup {PNothing}]
        BY DEF PP!ProcessorInv, PP!ClientTypeOK
      <4>7. ASSUME NEW id \in plive PROVE pcomp'[id].run \notin {"RUNNING", "STOPPING"}
        BY <4>1, <4>5, <4>6 DEF DestinationRuns
      <4> QED BY <4>1, <4>7 DEF DestinationRuns
    <3> QED BY <2>5, <3>1, <3>2 DEF PP!DeleteStop, PP!StopThen, PP!Call
  <2>6. CASE PP!DeleteRefresh(w)
    <3>1. still
      BY <1>2, <2>6 DEF PP!DeleteRefresh, PP!RefreshThen
    <3> QED BY <1>1, <3>1
  <2>7. CASE PP!DeleteCall(w)
    <3>1. CASE PP!Leave(w)
      BY <1>1, <1>2, <3>1
    <3>2. CASE /\ plive' = plive \ {pmem[w].name}
               /\ pcomp' = [pcomp EXCEPT ![pmem[w].name] = PNothing]
      <4>1. pcomp \in [Ids -> PComponents \cup {PNothing}] /\ plive \subseteq Ids
        BY DEF PP!ProcessorInv, PP!ClientTypeOK, PP!ReconcilerTypeOK
      <4>2. \A id \in plive' : id \in plive /\ pcomp'[id] = pcomp[id]
        BY <3>2, <4>1
      <4> QED BY <4>2 DEF DestinationRuns
    <3> QED BY <2>7, <3>1, <3>2 DEF PP!DeleteCall, PP!DeleteAs, PP!RemoveComponent
  <2> QED BY <1>3, <2>2, <2>3, <2>4, <2>5, <2>6, <2>7 DEF PP!Step
<1>4. ASSUME NEW w \in Replicas, PP!SyncStep(w) \/ (PP!Crash(w) /\ PP!Quiet(w)) PROVE still
  BY <1>4 DEF PP!SyncStep, PP!Sync, PP!Crash, PP!Quiet
<1>5. ASSUME NEW id \in Ids PROVE ~PP!Drain(id)
  BY DEF PP!Drain, DestinationRuns
<1>6. ASSUME PP!UserDelete, UNCHANGED <<pcomp, pstatus>> PROVE still
  BY <1>6 DEF PP!UserDelete
<1> QED BY <1>1, <1>2, <1>3, <1>4, <1>5, <1>6 DEF ProcessorActs

\* Nor does the connection's controller empty or remove what is queued.
LEMMA QueuedStays ==
  ASSUME CP!ConnectionInv, ~DestinationRuns, ConnectionActs,
         NEW id \in clive, ccomp[id].queued
  PROVE  id \in clive' /\ ccomp'[id].queued
<1> DEFINE still == clive' = clive /\ ccomp' = ccomp
<1>1. ASSUME NEW w \in Replicas, CP!Step(w)
      PROVE  id \in clive' /\ ccomp'[id].queued
  BY <1>1, ConnectionMeets, CP!QueuedStays DEF CP!ConnectionInv
<1>2. ASSUME NEW w \in Replicas, CP!SyncStep(w) \/ (CP!Crash(w) /\ CP!Quiet(w))
      PROVE  still
  BY <1>2 DEF CP!SyncStep, CP!Sync, CP!Crash, CP!Quiet
<1>3. ASSUME NEW i \in Ids, CP!Flow(i)
      PROVE  id \in clive' /\ ccomp'[id].queued
  <2>1. CP!Arrive(i)
    BY <1>3 DEF CP!Flow, CP!Drain
  <2>2. ~ccomp[i].queued /\ clive' = clive
        /\ ccomp' = [ccomp EXCEPT ![i] = [ccomp[i] EXCEPT !.queued = TRUE]]
    BY <2>1 DEF CP!Arrive, CP!Settle, CP!rvars
  <2>3. id # i /\ id \in Ids
    BY <2>2 DEF CP!ConnectionInv, CP!ReconcilerTypeOK
  <2> QED BY <2>2, <2>3 DEF CP!ConnectionInv, CP!ClientTypeOK
<1>4. ASSUME CP!UserDelete, UNCHANGED <<ccomp, cstatus>> PROVE still
  BY <1>4 DEF CP!UserDelete
<1> QED BY <1>1, <1>2, <1>3, <1>4 DEF ConnectionActs

\* What is queued in front of a processor that does not run stays there for
\* good, once both resources are being deleted and no reconcile is left that has
\* not heard of it.
THEOREM StrandedForGoodCorrect == PipelineSpec => StrandedForGood
<1>1. ASSUME PipelineInv, [PipelineNext]_pipeline,
             BothDeleting, Heard, Stranded
      PROVE  (BothDeleting /\ Heard /\ Stranded)' \/ Lost'
  <2>0. PICK id \in clive : ccomp[id].queued
    BY <1>1 DEF Stranded
  <2>1. pcr.deleting /\ pcr.exists /\ pcr.name \in plive /\ ccr.deleting
    BY <1>1, <2>0 DEF PipelineInv, PP!Kept, BothDeleting
  <2>2. ccr.name \in clive
    <3>1. id \in clive \ cabandoned
      BY <1>1, <2>0, <2>1 DEF PipelineInv, CP!Kept
    <3>2. \A v \in Replicas : ~CP!Creating(v)
      BY <1>1 DEF PipelineInv, CP!Kept
    <3>3. id = ccr.name
      BY <1>1, <3>1, <3>2, ConnectionMeets, CP!AccountedAtRest DEF PipelineInv
    <3> QED BY <3>3
  <2>3. [PP!Alone]_(PP!rvars) /\ [CP!Alone]_(CP!rvars)
    BY <1>1, BothAlone DEF PipelineInv, CP!ReconcilerInv
  <2>4. (pcr'.deleting /\ ccr'.deleting) \/ Lost'
    BY <1>1, <2>1, <2>2, <2>3, ProcessorMeets, PP!KeptOnly, ConnectionMeets,
      CP!KeptOnly DEF PipelineInv, Lost
  <2>5. Heard'
    BY <1>1, <2>1, <2>3, HeardStays DEF PipelineInv
  <2>6. ~DestinationRuns'
    <3>1. CASE UNCHANGED PP!pvars
      BY <1>1, <3>1 DEF PP!pvars, PP!nvars, PP!rvars, DestinationRuns, Stranded
    <3> QED BY <1>1, <3>1, PipelineSteps, NobodyStarts DEF PipelineInv, Stranded
  <2>7. id \in clive' /\ ccomp'[id].queued
    <3>1. CASE UNCHANGED CP!nvars
      BY <2>0, <3>1 DEF CP!nvars, CP!rvars
    <3> QED BY <1>1, <2>0, <3>1, PipelineSteps, QueuedStays DEF PipelineInv, Stranded
  <2> QED BY <2>4, <2>5, <2>6, <2>7 DEF BothDeleting, Stranded
<1>2. PipelineInv /\ [PipelineNext]_pipeline
        => [BothDeleting /\ Heard /\ Stranded
              => (BothDeleting /\ Heard /\ Stranded)' \/ Lost']_pipeline
  BY <1>1
<1> QED BY PipelineCorrect, <1>2, PTL DEF PipelineSpec, StrandedForGood

\* Each controller keeps the contract of the loop and the abstract lifecycle,
\* though NiFi refuses a Delete of the one because of the other.
THEOREM PipelineImplements ==
  PipelineSpec => /\ PP!ReconcilerSpec /\ PP!LifecycleRefined
                  /\ CP!ReconcilerSpec /\ CP!LifecycleRefined
<1>1. PipelineInit => PP!ReconcilerInit /\ CP!ReconcilerInit
  BY SameProcessorAround, SameConnectionAround DEF PipelineInit, PP!Init, PP!ClientInit,
    CP!ClientInit
<1>2. PipelineInv /\ [PipelineNext]_pipeline
        => [PP!ReconcilerNext]_(PP!rvars) /\ [CP!ReconcilerNext]_(CP!rvars)
  BY BothAlone
  DEF PipelineInv, PP!Alone, PP!ReconcilerNext, CP!Alone, CP!ReconcilerNext, CP!ReconcilerInv
<1>3. PipelineSpec => PP!ReconcilerSpec /\ CP!ReconcilerSpec
  BY PipelineCorrect, <1>1, <1>2, PTL DEF PipelineSpec, PP!ReconcilerSpec, CP!ReconcilerSpec
<1>4. CP!ReconcilerSpec => CP!LifecycleRefined
  BY ConnectionMeets, CP!LifecycleCorrect
<1> QED BY <1>3, <1>4, ProcessorMeets, PP!LifecycleCorrect, PTL

\* No component that is lost track of is found again.
LEMMA LostForGood ==
  ASSUME PipelineInv, [PipelineNext]_pipeline, Lost
  PROVE  Lost'
<1>1. [PP!Alone]_(PP!rvars) /\ [CP!Alone]_(CP!rvars)
  BY BothAlone DEF PipelineInv, CP!ReconcilerInv
<1>2. pabandoned \subseteq pabandoned' /\ cabandoned \subseteq cabandoned'
  BY <1>1, ProcessorMeets, PP!KeptOnly, ConnectionMeets, CP!KeptOnly DEF PipelineInv
<1> QED BY <1>2 DEF Lost

\* So what is stranded between two resources that are being deleted, once every
\* reconcile has heard of it, is stranded for ever, and neither of them goes, but
\* on an error misread as the absence of a component, which is left behind.
THEOREM StrandedNeverGoes ==
  PipelineSpec => [](BothDeleting /\ Heard /\ Stranded
                       => []((BothDeleting /\ Stranded) \/ Lost))
<1> DEFINE waiting == BothDeleting /\ Heard /\ Stranded
<1>1. ASSUME waiting, [waiting => waiting' \/ Lost']_pipeline
      PROVE  waiting' \/ Lost'
  BY <1>1
  DEF pipeline, processor, connection, BothDeleting, Heard,
     Stranded, DestinationRuns
<1>2. PipelineInv /\ [PipelineNext]_pipeline /\ Lost => Lost'
  BY LostForGood
<1>3. waiting => BothDeleting /\ Stranded
  OBVIOUS
<1> HIDE DEF waiting
<1>4. PipelineSpec => [][waiting => waiting' \/ Lost']_pipeline
  BY StrandedForGoodCorrect DEF StrandedForGood, waiting
<1>5. PipelineSpec => [](waiting => [](waiting \/ Lost))
  BY PipelineCorrect, <1>1, <1>2, <1>4, PTL DEF PipelineSpec
<1>6. PipelineSpec => [](waiting => []((BothDeleting /\ Stranded) \/ Lost))
  BY <1>3, <1>5, PTL
<1> QED BY <1>6 DEF waiting
=============================================================================

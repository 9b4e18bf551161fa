------------------------------ MODULE Pipeline ------------------------------
(***************************************************************************)
(* Two resources of one flow: a processor and the connection that leads to *)
(* it, each with a controller of its own that knows nothing of the other.  *)
(* NiFi ties the components: it does not remove a processor while the      *)
(* connection is there, nor the connection while the processor runs or the *)
(* queue between them holds something, and only the running processor      *)
(* empties the queue.                                                      *)
(*                                                                         *)
(* The variables are those of ManagedReconciler and NiFiClient, with a p   *)
(* for the processor's and a c for the connection's.  The source of the    *)
(* connection is somebody else's.                                          *)
(***************************************************************************)
EXTENDS Naturals

CONSTANTS
  Replicas, Ids, NoName, NoObservation, Checked, Unchecked,
  DesiredStates, Spellings, Fields, Values, Unset, Default,
  PSpecs, PSteps, PComponents, PNothing, PObservations,
  CSpecs, CSteps, CComponents, CNothing,
  MaxCrashes          \* bound: crashes and failed calls of each controller

VARIABLES
  pcr, pcache, pcacheFresh, pmem, pfresh, ppc, pseen, plive, pused, pabandoned,
  pdisturbances, pcomp, pstatus, spelling,
  ccr, ccache, ccacheFresh, cmem, cfresh, cpc, cseen, clive, cused, cabandoned,
  cdisturbances, ccomp, cstatus,
  sourceRuns          \* whether the source of the connection runs

processor == <<pcr, pcache, pcacheFresh, pmem, pfresh, ppc, pseen, plive, pused,
               pabandoned, pdisturbances, pcomp, pstatus>>
connection == <<ccr, ccache, ccacheFresh, cmem, cfresh, cpc, cseen, clive, cused,
                cabandoned, cdisturbances, ccomp, cstatus>>
pipeline == <<processor, connection, sourceRuns, spelling>>

Proc == INSTANCE Processor WITH
  Specs <- PSpecs, ClientSteps <- PSteps, Components <- PComponents,
  NoComponent <- PNothing, Observations <- PObservations,
  MaxDisturbances <- MaxCrashes,
  cr <- pcr, cache <- pcache, cacheFresh <- pcacheFresh, mem <- pmem, fresh <- pfresh,
  pc <- ppc, seen <- pseen, live <- plive, used <- pused, abandoned <- pabandoned,
  disturbances <- pdisturbances, comp <- pcomp, status <- pstatus

\* The processor is the connection's destination.
DestinationRuns == \E id \in plive : pcomp[id].run \in {"RUNNING", "STOPPING"}

Conn == INSTANCE Connection WITH
  Specs <- CSpecs, ClientSteps <- CSteps, Components <- CComponents,
  NoComponent <- CNothing, Observations <- {},
  MaxDisturbances <- MaxCrashes,
  cr <- ccr, cache <- ccache, cacheFresh <- ccacheFresh, mem <- cmem, fresh <- cfresh,
  pc <- cpc, seen <- cseen, live <- clive, used <- cused, abandoned <- cabandoned,
  disturbances <- cdisturbances, comp <- ccomp, status <- cstatus,
  ends <- [source |-> sourceRuns, destination |-> DestinationRuns]

\* What Processor and Connection assume of their constants.
ProcessorConstants ==
  /\ PSpecs # {} /\ PSpecs = Proc!ProcessorParameters
  /\ DesiredStates \subseteq {"", "RUNNING", "STOPPED", "DISABLED"}
  /\ PSteps = Proc!ProcessorSteps
  /\ PComponents = [checked : Checked, unchecked : Unchecked, run : Proc!RunStates]
  /\ PNothing \notin PComponents
  /\ PObservations = Proc!RunStatuses
  /\ Spellings \subseteq {"upper", "mixed"}

ConnectionConstants ==
  /\ CSpecs # {} /\ CSpecs \subseteq Conn!ConnectionParameters
  /\ CSteps = Conn!ConnectionSteps
  /\ CComponents = Conn!ConnectionDtos
  /\ CNothing \notin CComponents
  /\ Unset \notin Values /\ Default \in Values

ASSUME PipelineAssumption ==
  /\ NoName \notin Ids
  /\ MaxCrashes \in Nat
  /\ ProcessorConstants
  /\ ConnectionConstants

\* Two resources that were given the components of a flow that is there.
PipelineInit ==
  /\ Proc!Init
  /\ pcr.name # NoName
  /\ Conn!ClientInit
  /\ ccr.name # NoName
  /\ sourceRuns \in BOOLEAN

-----------------------------------------------------------------------------

Attached == clive # {}

\* NiFi refuses to remove a processor with a connection: the Delete fails.
DeleteRefused(w) == Proc!DeleteCalled(w) /\ Attached /\ Proc!Leave(w)

\* An error is misread as the absence of a component only once the component is
\* to be deleted.  Misread earlier it makes the controller create a second one:
\* that is ManagedReconciler's matter, for the flow has one of each.
MisreadLate(w) == /\ pseen[w] = "misread" => pmem[w].deleting
                  /\ cseen[w] = "misread" => cmem[w].deleting

ProcessorStep(w) == /\ \/ Proc!Step(w) /\ (plive' = plive \/ ~Attached)
                       \/ DeleteRefused(w)
                    /\ UNCHANGED <<connection, sourceRuns, spelling>>
                    /\ MisreadLate(w)'
ProcessorSync(w) == Proc!SyncStep(w) /\ UNCHANGED <<connection, sourceRuns, spelling>>
ConnectionStep(w) == /\ Conn!Step(w)
                     /\ UNCHANGED <<processor, sourceRuns, spelling>>
                     /\ MisreadLate(w)'
ConnectionSync(w) == Conn!SyncStep(w) /\ UNCHANGED <<processor, sourceRuns, spelling>>

\* A process dies, or a call fails.
ReconcileEnds(w) ==
  \/ Proc!Crash(w) /\ Proc!Quiet(w) /\ UNCHANGED <<connection, sourceRuns, spelling>>
  \/ Conn!Crash(w) /\ Conn!Quiet(w) /\ UNCHANGED <<processor, sourceRuns, spelling>>

ThreadsEnd(id) == Proc!Drain(id) /\ UNCHANGED <<connection, sourceRuns, spelling>>
Arrive(id) == Conn!Arrive(id) /\ UNCHANGED <<processor, sourceRuns, spelling>>
Take(id) == Conn!Drain(id) /\ UNCHANGED <<processor, sourceRuns, spelling>>

\* The user deletes one of the two.
UserActs ==
  \/ Proc!UserDelete /\ UNCHANGED <<pcomp, pstatus, connection, sourceRuns, spelling>>
  \/ Conn!UserDelete /\ UNCHANGED <<processor, ccomp, cstatus, sourceRuns, spelling>>

SourceChanges == sourceRuns' = ~sourceRuns /\ UNCHANGED <<processor, connection, spelling>>

PipelineNext ==
  \/ \E w \in Replicas : ProcessorStep(w) \/ ProcessorSync(w)
                         \/ ConnectionStep(w) \/ ConnectionSync(w)
                         \/ ReconcileEnds(w)
  \/ \E id \in Ids : ThreadsEnd(id) \/ Arrive(id) \/ Take(id)
  \/ UserActs
  \/ SourceChanges

\* The workers and the informers of the provider keep going, the threads of a
\* stopping processor finish, and a running one takes what is queued.
PipelineSpec ==
  /\ PipelineInit
  /\ [][PipelineNext]_pipeline
  /\ \A w \in Replicas :
       /\ WF_pipeline(ProcessorStep(w)) /\ WF_pipeline(ProcessorSync(w))
       /\ WF_pipeline(ConnectionStep(w)) /\ WF_pipeline(ConnectionSync(w))
  /\ \A id \in Ids : WF_pipeline(ThreadsEnd(id)) /\ WF_pipeline(Take(id))

-----------------------------------------------------------------------------

BothDeleting == pcr.deleting /\ ccr.deleting

\* Something is queued and nobody is going to take it.
Stranded == ~DestinationRuns /\ \E id \in clive : ccomp[id].queued

\* The processor runs, and NiFi does not spell that as its Delete expects it.
RunsUnseen == spelling = "mixed" /\ DestinationRuns

\* A component was left to itself: its resource went without a finalizer, or on
\* an error misread as the component's absence.
Lost == pabandoned # {} \/ cabandoned # {}

\* Both are to go, and one of them is not gone yet.
Leaving == \/ BothDeleting
           \/ pcr.deleting /\ ~ccr.exists
           \/ ccr.deleting /\ ~pcr.exists

\* Of two resources that are deleted both go, in the order NiFi asks for, though
\* each Delete is refused until the other's has got far enough; unless the source
\* runs again and again, something is stranded, the Delete of the processor never
\* stops it for the spelling of its run status, or a component was left to itself.
PipelineGoes ==
  []<>(~Leaving \/ (Attached /\ sourceRuns) \/ Stranded \/ RunsUnseen \/ Lost)

\* No reconcile of the processor is left that has not heard of its deletion.
Heard == \A w \in Replicas : pcache[w].deleting /\ (ppc[w] = "idle" \/ pmem[w].deleting)

\* What is stranded between two resources that are being deleted stays: once
\* the last Update is over, neither controller ever starts the destination again,
\* and neither resource goes but on an error that loses its component.
StrandedForGood ==
  [][BothDeleting /\ Heard /\ Stranded
       => (BothDeleting /\ Heard /\ Stranded)' \/ Lost']_pipeline

\* Neither resource goes while its component stays, unless an error is misread
\* as its absence, though each component hinders the removal of the other.
NoneLeftBehind == Proc!Accounted /\ Conn!Accounted
=============================================================================

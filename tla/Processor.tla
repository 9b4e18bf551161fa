------------------------------ MODULE Processor ------------------------------
(***************************************************************************)
(* The Processor controller: the client it gives the reconcile loop        *)
(* (Observe, Create, Update, Delete), one action per call to NiFi, and the *)
(* run states of a processor, whose changes NiFi refuses while it runs.    *)
(***************************************************************************)
EXTENDS NiFiClient

CONSTANTS
  Checked,            \* name, properties, scheduling: what drift detection reads
  Unchecked,          \* position, tasks, durations, ...: what it never reads
  DesiredStates,      \* the values of spec.desiredState in use
  Spellings           \* how the run statuses that NiFi reports may be spelt

VARIABLE spelling     \* how they are: as the spec spells them, or "Running"

pvars == <<nvars, spelling>>

RunStates == {"RUNNING", "STOPPING", "STOPPED", "DISABLED"}
ProcessorSteps == {"refresh", "put", "start", "updated", "deleteRefresh", "delete"}
RunStatuses == {"RUNNING", "STOPPED", "DISABLED", "Running", "Stopped", "Disabled"}

ProcessorParameters == [checked : Checked, unchecked : Unchecked, desired : DesiredStates]

ASSUME ProcessorAssumption ==
  /\ Specs = ProcessorParameters
  /\ DesiredStates \subseteq {"", "RUNNING", "STOPPED", "DISABLED"}
  /\ ClientSteps = ProcessorSteps
  /\ Components = [checked : Checked, unchecked : Unchecked, run : RunStates]
  /\ Observations = RunStatuses
  /\ Spellings \subseteq {"upper", "mixed"}

Init == /\ ClientInit
        /\ \A id \in live : comp[id].run # "STOPPING"
        /\ spelling \in Spellings

-----------------------------------------------------------------------------
(* The pure parts of the client *)

\* The run status as NiFi reports it: threads still finishing do not show.
MixedCase == [RUNNING |-> "Running", STOPPED |-> "Stopped", DISABLED |-> "Disabled"]
RunStatus(run) == LET state == IF run = "STOPPING" THEN "STOPPED" ELSE run
                  IN  IF spelling = "upper" THEN state ELSE MixedCase[state]

EqualFold(s, t) == s = t \/ (t \in DOMAIN MixedCase /\ s = MixedCase[t])

DesiredState(spec) == IF spec.desired = "" THEN "STOPPED" ELSE spec.desired

IsProcessorUpToDate(spec, c) ==
  /\ c.checked = spec.checked
  /\ EqualFold(RunStatus(c.run), DesiredState(spec))

\* (mutant of Configured: the entity is the spec, without what NiFi holds)
SendsSpec(c, spec) == spec

\* What buildProcessorEntity sends, over what NiFi holds.
Configured(c, spec) == [c EXCEPT !.checked = spec.checked, !.unchecked = spec.unchecked]

\* Whether a component is what the spec asks for, in every part.
Matches(c, spec) == c = [checked |-> spec.checked, unchecked |-> spec.unchecked,
                         run |-> DesiredState(spec)]

-----------------------------------------------------------------------------
(* Observe and Create *)

\* Observe keeps the run status; the name it gives a resource without one is
\* no component's.
ObserveProcessor(w) ==
  ObserveAs(w, IsProcessorUpToDate(mem[w].spec, Named(w)), RunStatus(Named(w).run))

\* A processor is made as the spec describes it, but stopped, and Create does
\* nothing more.
CreateProcessor(w) ==
  CreateAs(w, [checked |-> mem[w].spec.checked, unchecked |-> mem[w].spec.unchecked,
               run |-> "STOPPED"], "recordSuccess")

-----------------------------------------------------------------------------
(* Update: stop, read the revision the stop moved on, put, start again *)

\* Stopping a processor that does not run is accepted, and enables a disabled
\* one; the threads of a running one may take a while.
RunsAfterStop(run) == CASE run = "RUNNING"  -> {"STOPPING", "STOPPED"}
                        [] run = "STOPPING" -> {"STOPPING"}
                        [] OTHER            -> {"STOPPED"}

StopThen(w, step) ==
  \E run \in RunsAfterStop(Named(w).run) :
    Call(w, TRUE, [Named(w) EXCEPT !.run = run], step, FALSE)

Stop(w) == UpdateDue(w) /\ StopThen(w, "refresh")

Refresh(w) == pc[w] = "refresh" /\ RefreshThen(w, "put")

Quiescent(run) == run \in {"STOPPED", "DISABLED"}

\* (mutant of AfterPut: the processor stays stopped)
NeverRestart(spec) == "updated"

\* Where Update goes when the configuration is in place.
AfterPut(spec) == IF DesiredState(spec) = "RUNNING" THEN "start" ELSE "updated"

Put(w) ==
  /\ pc[w] = "put"
  /\ Call(w, Quiescent(Named(w).run), Configured(Named(w), mem[w].spec),
          AfterPut(mem[w].spec), TRUE)

Startable(run) == run \in {"STOPPED", "RUNNING"}

Start(w) ==
  /\ pc[w] = "start"
  /\ Call(w, Startable(Named(w).run), [Named(w) EXCEPT !.run = "RUNNING"], "updated", FALSE)

UpdateReturns(w) == pc[w] = "updated" /\ Leave(w)

-----------------------------------------------------------------------------
(* Delete: stop first when the observed run status says so *)

\* Run statuses are spelt in capitals here.
SawRunning(w) == status[w].observed = "RUNNING"

DeleteStop(w) == DeleteDue(w) /\ SawRunning(w) /\ StopThen(w, "deleteRefresh")

DeleteRefresh(w) == pc[w] = "deleteRefresh" /\ RefreshThen(w, "delete")

\* (mutant of DeleteCalled: what did not run is left alone)
DeleteStoppedOnly(w) == pc[w] = "delete"

DeleteCalled(w) == (DeleteDue(w) /\ ~SawRunning(w)) \/ pc[w] = "delete"

DeleteCall(w) == DeleteCalled(w) /\ DeleteAs(w, Quiescent(Named(w).run))

-----------------------------------------------------------------------------
(* NiFi on its own, and its other users *)

Drain(id) ==
  /\ id \in live
  /\ comp[id].run = "STOPPING"
  /\ Settle(id, [comp[id] EXCEPT !.run = "STOPPED"])

\* Somebody else configures, starts, stops or disables the processor.
ForeignEdit(id) ==
  /\ id \in live
  /\ comp[id].run # "STOPPING"
  /\ \E c \in Components : c.run # "STOPPING" /\ ForeignEditTo(id, c)

Step(w) ==
  \/ LoopStep(w)
  \/ ObserveProcessor(w) \/ CreateProcessor(w)
  \/ Stop(w) \/ Refresh(w) \/ Put(w) \/ Start(w) \/ UpdateReturns(w)
  \/ DeleteStop(w) \/ DeleteRefresh(w) \/ DeleteCall(w)

Next ==
  /\ \/ \E w \in Replicas : Step(w)
     \/ \E id \in Ids : Drain(id) \/ ForeignEdit(id)
     \/ Around
  /\ UNCHANGED spelling

Spec == Init /\ [][Next]_pvars

\* The worker and the informer of a process keep going, and so do the threads
\* of a stopping processor.
FairSpec ==
  /\ Spec
  /\ \A w \in Replicas : /\ WF_pvars(Step(w) /\ UNCHANGED spelling)
                         /\ WF_pvars(SyncStep(w) /\ UNCHANGED spelling)
  /\ \A id \in Ids : WF_pvars(Drain(id) /\ UNCHANGED spelling)

-----------------------------------------------------------------------------

\* Every call of an Update or Delete carries the component's revision, unless
\* somebody else moved it since Observe: the refresh after a stop, and the
\* version taken from the answer of the put, keep up with the provider's own
\* changes.
RevisionsCurrent ==
  \A w \in Replicas : status[w].clean /\ pc[w] \in {"put", "start", "delete"}
                        => status[w].current

\* An Update that nobody interfered with leaves the component as the spec
\* describes it, in configuration and in run state.
UpdateEstablishesSpec ==
  \A w \in Replicas : status[w].clean /\ pc[w] = "updated" => Matches(Named(w), mem[w].spec)

\* A processor that has been running since Observe is stopped before the call
\* that deletes it.
StopsBeforeDelete ==
  [][\A w \in Replicas : DeleteCall(w) /\ status[w].clean => Named(w).run # "RUNNING"]_pvars

\* After the last edit, crash and outside change the component becomes what
\* drift detection takes for the spec, and stays so.
Applied == cr.exists /\ ~cr.deleting /\ ~CreateIncomplete(cr)
             => cr.name \in live /\ IsProcessorUpToDate(cr.spec, comp[cr.name])
EventuallyApplied == <>[]Applied

\* A resource being deleted goes away, unless its creation is left open, or the
\* processor runs and NiFi does not spell that as Delete expects it: Delete then
\* never stops it, and waits for somebody else to.
RunsUnseen == spelling = "mixed" /\ cr.name \in live /\ comp[cr.name].run = "RUNNING"
DeletionCompletes == cr.deleting ~> (~cr.exists \/ CreateIncomplete(cr) \/ RunsUnseen)
=============================================================================

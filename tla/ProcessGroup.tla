---------------------------- MODULE ProcessGroup ----------------------------
(***************************************************************************)
(* The ProcessGroup controller: the client it gives the reconcile loop,    *)
(* one action per call to NiFi, and what it reads of a group: its          *)
(* configuration and whether anything in it runs or is stopped.  The       *)
(* processors of a group come, go, start and stop by other hands.          *)
(*                                                                         *)
(* NiFi refuses to schedule a group, or to remove one whose threads are    *)
(* still finishing, in its own time: that is a Crash of the reconcile.     *)
(***************************************************************************)
EXTENDS NiFiClient

CONSTANTS
  Checked,            \* name and comments: what drift detection reads
  Unchecked,          \* position, parameter context: what it never reads
  DesiredStates       \* the values of spec.desiredState in use

GroupSteps == {"start", "stop", "updated", "deleteRefresh", "delete"}

\* Whether RunningCount and StoppedCount are above zero; the processors that
\* are disabled or invalid count in neither.
Counts == [running : BOOLEAN, stopped : BOOLEAN]
Empty == [running |-> FALSE, stopped |-> FALSE]

ProcessGroupParameters == [checked : Checked, unchecked : Unchecked, desired : DesiredStates]

ASSUME GroupAssumption ==
  /\ Specs = ProcessGroupParameters
  /\ DesiredStates \subseteq {"", "RUNNING", "STOPPED", "DISABLED"}
  /\ ClientSteps = GroupSteps
  /\ Components = [checked : Checked, unchecked : Unchecked, counts : Counts]
  /\ Observations = Counts

-----------------------------------------------------------------------------
(* The pure parts of the client *)

DesiredState(spec) == IF spec.desired = "" THEN "STOPPED" ELSE spec.desired

\* What of the desired state the counts contradict.
StartDue(spec, counts) == DesiredState(spec) = "RUNNING" /\ counts.stopped
StopDue(spec, counts) == DesiredState(spec) = "STOPPED" /\ counts.running

IsProcessGroupUpToDate(spec, c) ==
  /\ c.checked = spec.checked
  /\ ~StartDue(spec, c.counts)
  /\ ~StopDue(spec, c.counts)

\* What buildProcessGroupEntity sends, over what NiFi holds.
Configured(c, spec) == [c EXCEPT !.checked = spec.checked, !.unchecked = spec.unchecked]

Some(c) == c.counts.running \/ c.counts.stopped
Started(c) == [c EXCEPT !.counts = [running |-> Some(c), stopped |-> FALSE]]
Stopped(c) == [c EXCEPT !.counts = [running |-> FALSE, stopped |-> Some(c)]]

-----------------------------------------------------------------------------
(* Observe and Create *)

ObserveGroup(w) ==
  ObserveAs(w, IsProcessGroupUpToDate(mem[w].spec, Named(w)), Named(w).counts)

CreateGroup(w) ==
  CreateAs(w, [checked |-> mem[w].spec.checked, unchecked |-> mem[w].spec.unchecked,
               counts |-> Empty], "recordSuccess")

-----------------------------------------------------------------------------
(* Update: put, then start or stop what Observe counted *)

\* (mutant of AfterPut: what runs is never stopped)
OnlyStarts(w) == IF StartDue(mem[w].spec, status[w].observed) THEN "start" ELSE "updated"

AfterPut(w) == IF StartDue(mem[w].spec, status[w].observed) THEN "start"
               ELSE IF StopDue(mem[w].spec, status[w].observed) THEN "stop"
               ELSE "updated"

Put(w) == UpdateDue(w) /\ Call(w, TRUE, Configured(Named(w), mem[w].spec), AfterPut(w), TRUE)

ScheduleOrFail(w, c, step) == Schedule(w, c, step) \/ (mem[w].name \notin live /\ Leave(w))

Start(w) == pc[w] = "start" /\ ScheduleOrFail(w, Started(Named(w)), "updated")

Stop(w) == pc[w] = "stop" /\ ScheduleOrFail(w, Stopped(Named(w)), "updated")

UpdateReturns(w) == pc[w] = "updated" /\ Leave(w)

-----------------------------------------------------------------------------
(* Delete: stop first what Observe counted *)

\* (mutant of SawRunning: the stopped processors are counted)
SawStopped(w) == status[w].observed.stopped

SawRunning(w) == status[w].observed.running

DeleteStop(w) ==
  DeleteDue(w) /\ SawRunning(w) /\ ScheduleOrFail(w, Stopped(Named(w)), "deleteRefresh")

DeleteRefresh(w) == pc[w] = "deleteRefresh" /\ RefreshThen(w, "delete")

DeleteCallDue(w) == (DeleteDue(w) /\ ~SawRunning(w)) \/ pc[w] = "delete"

DeleteCall(w) == DeleteCallDue(w) /\ DeleteAs(w, ~Named(w).counts.running)

-----------------------------------------------------------------------------

\* Somebody else configures the group, or fills, empties, starts or stops it.
\* Only the configuration moves the revision of the group itself.
ForeignEdit(id) ==
  /\ id \in live
  /\ \/ \E c \in Components : c.counts = comp[id].counts /\ ForeignEditTo(id, c)
     \/ \E counts \in Counts \ {comp[id].counts} :
          /\ ForeignChange
          /\ comp' = [comp EXCEPT ![id].counts = counts]
          /\ status' = [r \in Replicas |-> IF mem[r].name = id
                          THEN [status[r] EXCEPT !.clean = FALSE] ELSE status[r]]

Step(w) ==
  \/ LoopStep(w)
  \/ ObserveGroup(w) \/ CreateGroup(w)
  \/ Put(w) \/ Start(w) \/ Stop(w) \/ UpdateReturns(w)
  \/ DeleteStop(w) \/ DeleteRefresh(w) \/ DeleteCall(w)

Next ==
  \/ \E w \in Replicas : Step(w)
  \/ \E id \in Ids : ForeignEdit(id)
  \/ Around

Spec == ClientInit /\ [][Next]_nvars

\* The worker and the informer of a process keep going.
FairSpec == /\ Spec
            /\ \A w \in Replicas : WF_nvars(Step(w)) /\ WF_nvars(SyncStep(w))

-----------------------------------------------------------------------------

\* An Update that nobody interfered with leaves the group configured as the
\* spec says and nothing in it against the desired state, though the counts it
\* acts on are those of Observe and not of the put.
UpdateEstablishesSpec ==
  \A w \in Replicas : status[w].clean /\ pc[w] = "updated" =>
    /\ Named(w) = Configured(Named(w), mem[w].spec)
    /\ IsProcessGroupUpToDate(mem[w].spec, Named(w))

\* Unless somebody interferes, nothing in a group runs when it is deleted.
StopsBeforeDelete ==
  \A w \in Replicas : status[w].clean /\ DeleteCallDue(w) => ~Named(w).counts.running

\* After the last edit, crash and outside change the group becomes what drift
\* detection takes for the spec, and stays so.
Applied == cr.exists /\ ~cr.deleting /\ ~CreateIncomplete(cr)
             => cr.name \in live /\ IsProcessGroupUpToDate(cr.spec, comp[cr.name])
EventuallyApplied == <>[]Applied

\* A resource being deleted goes away, unless its creation is left open.
DeletionCompletes == cr.deleting ~> (~cr.exists \/ CreateIncomplete(cr))
=============================================================================

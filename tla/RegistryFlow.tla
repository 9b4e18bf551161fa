---------------------------- MODULE RegistryFlow ----------------------------
(***************************************************************************)
(* The RegistryFlow controller: a process group imported from a registry   *)
(* at a version, whose version NiFi changes in its own time.  Observe      *)
(* reads the deployed version in a second call, and when that call fails   *)
(* or shows no version control it goes on with the version that the status *)
(* of the resource held before.                                            *)
(***************************************************************************)
EXTENDS NiFiClient

CONSTANTS
  Versions,           \* the versions of the flow in the registry
  Latest,             \* the latest of them
  DesiredStates       \* the values of spec.desiredState in use

FlowSteps == {"change", "counts", "start", "stop", "updated", "deleteRefresh", "delete"}

\* No version: of a group not under version control, of a spec that leaves the
\* version to the import, of a status before the first reading.
None == 0

\* Whether RunningCount and StoppedCount are above zero.
Counts == [running : BOOLEAN, stopped : BOOLEAN]

CurrentVersions == Versions \cup {None}
RegistryFlowParameters == [version : CurrentVersions, desired : DesiredStates]

ASSUME FlowAssumption ==
  /\ Versions \subseteq Nat \ {None}
  /\ Latest \in Versions
  /\ Specs = RegistryFlowParameters
  /\ DesiredStates \subseteq {"", "RUNNING", "STOPPED", "DISABLED"}
  /\ ClientSteps = FlowSteps
  /\ Components = [version : CurrentVersions, target : CurrentVersions, counts : Counts]
  /\ Observations = CurrentVersions

VARIABLE recorded   \* status.atProvider.currentVersion of the stored resource

fvars == <<nvars, recorded>>

Init == /\ ClientInit
        /\ \A id \in live : comp[id].target = None
        /\ recorded = None

-----------------------------------------------------------------------------
(* The pure parts of the client *)

IsRegistryFlowUpToDate(spec, current) == spec.version # None => current = spec.version

DesiredState(spec) == IF spec.desired = "" THEN "STOPPED" ELSE spec.desired

StartDue(spec, counts) == DesiredState(spec) = "RUNNING" /\ counts.stopped
StopDue(spec, counts) == DesiredState(spec) = "STOPPED" /\ counts.running

Some(c) == c.counts.running \/ c.counts.stopped
Started(c) == [c EXCEPT !.counts = [running |-> Some(c), stopped |-> FALSE]]
Stopped(c) == [c EXCEPT !.counts = [running |-> FALSE, stopped |-> Some(c)]]

-----------------------------------------------------------------------------
(* Observe and Create *)

\* The version Observe ends up with when the second call is answered.
CurrentVersion(w) == IF Named(w).version # None THEN Named(w).version ELSE recorded

ObserveFlow(w) ==
  /\ ObserveAs(w, IsRegistryFlowUpToDate(mem[w].spec, CurrentVersion(w)), CurrentVersion(w))
  /\ recorded' = IF Absent(w)' THEN recorded ELSE CurrentVersion(w)

\* The second call fails, and nobody notices.
ObserveUnversioned(w) ==
  /\ pc[w] = "observe"
  /\ mem[w].name \in live
  /\ Disturb
  /\ Goto(w, "decide")
  /\ seen' = [seen EXCEPT ![w] = IF IsRegistryFlowUpToDate(mem[w].spec, recorded)
                                 THEN "upToDate" ELSE "different"]
  /\ status' = [status EXCEPT ![w] = [observed |-> recorded, current |-> TRUE, clean |-> TRUE]]
  /\ UNCHANGED <<cr, cache, cacheFresh, mem, fresh, live, used, abandoned, comp, recorded>>

\* The flow is imported, with its processors stopped.
Imported(spec) == [version |-> IF spec.version = None THEN Latest ELSE spec.version,
                   target |-> None, counts |-> [running |-> FALSE, stopped |-> TRUE]]

CreateFlow(w) ==
  CreateAs(w, Imported(mem[w].spec),
           IF mem[w].spec.desired = "RUNNING" THEN "created" ELSE "recordSuccess")

\* NiFi may refuse to start it; the group is there all the same.
StartImported(w) ==
  /\ pc[w] = "created"
  /\ \/ Schedule(w, Started(Named(w)), "recordSuccess")
     \/ /\ Goto(w, "recordFailure")
        /\ UNCHANGED <<cr, cache, cacheFresh, mem, fresh, seen, live, used, abandoned,
                       disturbances, comp, status>>

-----------------------------------------------------------------------------
(* Update: change the version, then start or stop what is counted now.     *)
(* Update is only called when Observe found another version, so it always  *)
(* begins with the change.                                                 *)

\* The version control information is read, and with it the group's revision.
ReadVersionControl(w) ==
  UpdateDue(w) /\ RefreshThen(w, IF Named(w).version = None THEN "counts" ELSE "change")

\* (mutant of Changed: the version that was read is sent back)
SendsBack(c, spec) == [c EXCEPT !.target = c.version]

Changed(c, spec) == [c EXCEPT !.target = spec.version]

\* NiFi begins to change the version, unless it is changing it already.
ChangeFlowVersion(w) ==
  /\ pc[w] = "change"
  /\ Call(w, Named(w).target = None, Changed(Named(w), mem[w].spec), "counts", FALSE)

\* (mutant of AfterCounts: what runs is never stopped)
OnlyStarts(w) == IF StartDue(mem[w].spec, Named(w).counts) THEN "start" ELSE "updated"

AfterCounts(w) == IF StartDue(mem[w].spec, Named(w).counts) THEN "start"
                  ELSE IF StopDue(mem[w].spec, Named(w).counts) THEN "stop"
                  ELSE "updated"

\* The group is read for its counts; no call that follows carries a version.
ReadCounts(w) == pc[w] = "counts" /\ RefreshThen(w, AfterCounts(w))

ScheduleOrFail(w, c, step) == Schedule(w, c, step) \/ (mem[w].name \notin live /\ Leave(w))

Start(w) == pc[w] = "start" /\ ScheduleOrFail(w, Started(Named(w)), "updated")

Stop(w) == pc[w] = "stop" /\ ScheduleOrFail(w, Stopped(Named(w)), "updated")

UpdateReturns(w) == pc[w] = "updated" /\ Leave(w)

-----------------------------------------------------------------------------
(* Delete: stop everything, read the revision, delete.  The error of a stop  *)
(* that is refused, or fails, is dropped, and the Delete goes on.            *)

\* (mutant of DeleteStopped: the processors are left alone)
DeleteRunning(c) == c

DeleteStopped(c) == Stopped(c)

StopFails(w) ==
  /\ Goto(w, "deleteRefresh")
  /\ IF mem[w].name \in live THEN Disturb ELSE UNCHANGED disturbances
  /\ UNCHANGED <<cr, cache, cacheFresh, mem, fresh, seen, live, used, abandoned, comp, status>>

DeleteStop(w) ==
  /\ DeleteDue(w)
  /\ Schedule(w, DeleteStopped(Named(w)), "deleteRefresh") \/ StopFails(w)

DeleteRefresh(w) == pc[w] = "deleteRefresh" /\ RefreshThen(w, "delete")

DeleteCall(w) == pc[w] = "delete" /\ DeleteAs(w, ~Named(w).counts.running)

-----------------------------------------------------------------------------
(* NiFi on its own, and its other users *)

\* NiFi is done with changing the version; the group's revision moves on.
VersionChanged(id) ==
  /\ id \in live
  /\ comp[id].target # None
  /\ comp' = [comp EXCEPT ![id].version = comp[id].target, ![id].target = None]
  /\ status' = Touched(id)
  /\ UNCHANGED rvars

\* Somebody else changes the version, ends version control, starts or stops
\* processors, or a change of version fails.
ForeignEdit(id) ==
  id \in live /\ \E c \in Components : c.target = None /\ ForeignEditTo(id, c)

Step(w) ==
  \/ ObserveFlow(w) \/ ObserveUnversioned(w)
  \/ /\ \/ LoopStep(w)
        \/ CreateFlow(w) \/ StartImported(w)
        \/ ReadVersionControl(w) \/ ChangeFlowVersion(w)
        \/ ReadCounts(w) \/ Start(w) \/ Stop(w) \/ UpdateReturns(w)
        \/ DeleteStop(w) \/ DeleteRefresh(w) \/ DeleteCall(w)
     /\ UNCHANGED recorded

Changing(id) == VersionChanged(id) /\ UNCHANGED recorded

Syncing(w) == SyncStep(w) /\ UNCHANGED recorded

Next ==
  \/ \E w \in Replicas : Step(w)
  \/ \E id \in Ids : Changing(id) \/ (ForeignEdit(id) /\ UNCHANGED recorded)
  \/ Around /\ UNCHANGED recorded

Spec == Init /\ [][Next]_fvars

\* The worker and the informer of a process keep going, and NiFi finishes the
\* changes of version it began.
FairSpec == /\ Spec
            /\ \A w \in Replicas : WF_fvars(Step(w)) /\ WF_fvars(Syncing(w))
            /\ \A id \in Ids : WF_fvars(Changing(id))

-----------------------------------------------------------------------------

\* An Update that nobody interfered with leaves the flow changing to the
\* version of the spec, with its processors as the spec says, unless the group
\* is not under version control.
UpdateEstablishesSpec ==
  \A w \in Replicas : status[w].clean /\ pc[w] = "updated" =>
    /\ Named(w).version # None => Named(w).target = mem[w].spec.version
    /\ ~StartDue(mem[w].spec, Named(w).counts)
    /\ ~StopDue(mem[w].spec, Named(w).counts)

\* After the last edit, crash, failed reading and outside change the flow gets
\* to the version of the spec and stays there, although a reading that failed
\* left an older version to compare with.
VersionApplied == cr.exists /\ ~cr.deleting /\ ~CreateIncomplete(cr)
                    => /\ cr.name \in live
                       /\ \/ comp[cr.name].version = None
                          \/ IsRegistryFlowUpToDate(cr.spec, comp[cr.name].version)
EventuallyApplied == <>[]VersionApplied

\* A resource being deleted goes away, unless its creation is left open.
DeletionCompletes == cr.deleting ~> (~cr.exists \/ CreateIncomplete(cr))

\* The processors of the flow end up in the desired run status.
RunStateApplied == cr.exists /\ ~cr.deleting /\ ~CreateIncomplete(cr)
                     => /\ cr.name \in live
                        /\ ~StartDue(cr.spec, comp[cr.name].counts)
                        /\ ~StopDue(cr.spec, comp[cr.name].counts)
EventuallyRuns == <>[]RunStateApplied
=============================================================================

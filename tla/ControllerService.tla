-------------------------- MODULE ControllerService --------------------------
(***************************************************************************)
(* The ControllerService controller: the client it gives the reconcile     *)
(* loop, one action per call to NiFi, and the states of a controller       *)
(* service, which NiFi enables and disables in its own time and changes    *)
(* only while it is disabled.                                              *)
(***************************************************************************)
EXTENDS NiFiClient

CONSTANTS
  Checked,            \* name and properties: what drift detection reads
  Unchecked,          \* comments: what it never reads
  DesiredStates       \* the values of spec.desiredState in use

States == {"ENABLED", "ENABLING", "DISABLED", "DISABLING"}
ServiceSteps == {"refresh", "put", "enable", "updated", "deleteRefresh", "delete"}

ControllerServiceParameters ==
  [checked : Checked, unchecked : Unchecked, desired : DesiredStates]

ASSUME ServiceAssumption ==
  /\ Specs = ControllerServiceParameters
  /\ DesiredStates \subseteq {"", "ENABLED", "DISABLED"}
  /\ ClientSteps = ServiceSteps
  /\ Components = [checked : Checked, unchecked : Unchecked, state : States]
  /\ Observations = States

Init == ClientInit /\ \A id \in live : comp[id].state \in {"ENABLED", "DISABLED"}

-----------------------------------------------------------------------------
(* The pure parts of the client *)

DesiredState(spec) == IF spec.desired = "" THEN "DISABLED" ELSE spec.desired

IsControllerServiceUpToDate(spec, c) ==
  /\ c.checked = spec.checked
  /\ c.state = DesiredState(spec)

\* What buildControllerServiceEntity sends, over what NiFi holds.
Configured(c, spec) == [c EXCEPT !.checked = spec.checked, !.unchecked = spec.unchecked]

-----------------------------------------------------------------------------
(* Observe and Create *)

ObserveService(w) ==
  ObserveAs(w, IsControllerServiceUpToDate(mem[w].spec, Named(w)), Named(w).state)

AfterCreate(spec) == IF spec.desired = "ENABLED" THEN "created" ELSE "recordSuccess"

CreateService(w) ==
  CreateAs(w, [checked |-> mem[w].spec.checked, unchecked |-> mem[w].spec.unchecked,
               state |-> "DISABLED"], AfterCreate(mem[w].spec))

\* Create enables what it made; when NiFi refuses, Create fails, but the name
\* of the component is in the copy already.
Enabled(c) == {[c EXCEPT !.state = s] : s \in {"ENABLING", "ENABLED"}}

EnableCreated(w) ==
  /\ pc[w] = "created"
  /\ \/ /\ Named(w).state = "DISABLED"
        /\ \E c \in Enabled(Named(w)) : Apply(w, c, "recordSuccess", FALSE)
     \/ /\ ~(AcceptsVersion(w) /\ Named(w).state = "DISABLED")
        /\ Goto(w, "recordFailure")
        /\ UNCHANGED <<cr, cache, cacheFresh, mem, fresh, seen, live, used, abandoned,
                       disturbances, comp, status>>

-----------------------------------------------------------------------------
(* Update: disable what was observed enabled, put, enable again *)

\* (mutant of SawEnabled: the component is never disabled first)
SawNothing(w) == FALSE

SawEnabled(w) == status[w].observed = "ENABLED"

\* Disabling takes NiFi a while; a service that is disabled stays so.
DisableThen(w, step) ==
  \E s \in IF Named(w).state \in {"ENABLED", "ENABLING"} THEN {"DISABLING", "DISABLED"}
                                                        ELSE {Named(w).state} :
    Call(w, TRUE, [Named(w) EXCEPT !.state = s], step, FALSE)

Disable(w) == UpdateDue(w) /\ SawEnabled(w) /\ DisableThen(w, "refresh")

Refresh(w) == pc[w] = "refresh" /\ RefreshThen(w, "put")

\* (mutant of AfterPut: the service stays disabled)
NeverEnableAgain(spec) == "updated"

AfterPut(spec) == IF DesiredState(spec) = "ENABLED" THEN "enable" ELSE "updated"

PutDue(w) == (UpdateDue(w) /\ ~SawEnabled(w)) \/ pc[w] = "put"

Put(w) ==
  /\ PutDue(w)
  /\ Call(w, Named(w).state = "DISABLED", Configured(Named(w), mem[w].spec),
          AfterPut(mem[w].spec), TRUE)

Enable(w) ==
  /\ pc[w] = "enable"
  /\ \E c \in Enabled(Named(w)) : Call(w, Named(w).state = "DISABLED", c, "updated", FALSE)

UpdateReturns(w) == pc[w] = "updated" /\ Leave(w)

-----------------------------------------------------------------------------
(* Delete: disable first what was observed enabled *)

DeleteDisable(w) == DeleteDue(w) /\ SawEnabled(w) /\ DisableThen(w, "deleteRefresh")

DeleteRefresh(w) == pc[w] = "deleteRefresh" /\ RefreshThen(w, "delete")

DeleteCallDue(w) == (DeleteDue(w) /\ ~SawEnabled(w)) \/ pc[w] = "delete"

DeleteCall(w) == DeleteCallDue(w) /\ DeleteAs(w, Named(w).state = "DISABLED")

-----------------------------------------------------------------------------
(* NiFi on its own, and its other users *)

\* NiFi is done with enabling or disabling the service.
Complete(id) ==
  /\ id \in live
  /\ \/ comp[id].state = "ENABLING" /\ Settle(id, [comp[id] EXCEPT !.state = "ENABLED"])
     \/ comp[id].state = "DISABLING" /\ Settle(id, [comp[id] EXCEPT !.state = "DISABLED"])

\* Somebody else configures a disabled service, or enables or disables one.
ForeignEdit(id) ==
  /\ id \in live
  /\ \E c \in Components :
       /\ \/ comp[id].state = "DISABLED" /\ c.state \in {"DISABLED", "ENABLING"}
          \/ comp[id].state # "DISABLED" /\ c = [comp[id] EXCEPT !.state = "DISABLING"]
       /\ ForeignEditTo(id, c)

Step(w) ==
  \/ LoopStep(w)
  \/ ObserveService(w) \/ CreateService(w) \/ EnableCreated(w)
  \/ Disable(w) \/ Refresh(w) \/ Put(w) \/ Enable(w) \/ UpdateReturns(w)
  \/ DeleteDisable(w) \/ DeleteRefresh(w) \/ DeleteCall(w)

Next ==
  \/ \E w \in Replicas : Step(w)
  \/ \E id \in Ids : Complete(id) \/ ForeignEdit(id)
  \/ Around

Spec == Init /\ [][Next]_nvars

\* The worker and the informer of a process keep going, and NiFi finishes what
\* it was asked to enable or disable.
FairSpec == /\ Spec
            /\ \A w \in Replicas : WF_nvars(Step(w)) /\ WF_nvars(SyncStep(w))
            /\ \A id \in Ids : WF_nvars(Complete(id))

-----------------------------------------------------------------------------

\* Every call of a Create, Update or Delete carries the component's revision,
\* unless somebody else moved it since the component was made or observed.
RevisionsCurrent ==
  \A w \in Replicas :
    status[w].clean /\ pc[w] \in {"created", "put", "enable", "delete"} => status[w].current

\* A service observed enabled is disabled, or on its way, when the Update or
\* Delete that observed it sends its put or delete.
DisabledForChange ==
  \A w \in Replicas :
    /\ status[w].clean /\ status[w].observed = "ENABLED"
    /\ PutDue(w) \/ DeleteCallDue(w)
    => Named(w).state \in {"DISABLING", "DISABLED"}

\* An Update that nobody interfered with leaves the service configured as the
\* spec says and in the desired state, or on its way to it.
UpdateEstablishesSpec ==
  \A w \in Replicas : status[w].clean /\ pc[w] = "updated" =>
    Named(w) \in {Configured([Named(w) EXCEPT !.state = s], mem[w].spec) :
                   s \in IF DesiredState(mem[w].spec) = "ENABLED" THEN {"ENABLING", "ENABLED"}
                                                                  ELSE {"DISABLED"}}

\* After the last edit, crash and outside change the service becomes what drift
\* detection takes for the spec, and stays so; a failed enabling after creation
\* is made up for.
Applied == cr.exists /\ ~cr.deleting /\ ~CreateIncomplete(cr)
             => cr.name \in live /\ IsControllerServiceUpToDate(cr.spec, comp[cr.name])
EventuallyApplied == <>[]Applied

\* A resource being deleted goes away, unless its creation is left open.
DeletionCompletes == cr.deleting ~> (~cr.exists \/ CreateIncomplete(cr))
=============================================================================

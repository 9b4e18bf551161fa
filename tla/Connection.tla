----------------------------- MODULE Connection -----------------------------
(***************************************************************************)
(* The Connection controller: the client it gives the reconcile loop, one  *)
(* action per call to NiFi.  A connection is never started or stopped, but *)
(* it has a queue, and two ends that others run: NiFi removes it only with *)
(* its queue empty and both ends at rest, and Delete brings about neither. *)
(*                                                                         *)
(* NiFi refuses to move an end that runs, in its own time: that is a Crash *)
(* of the reconcile.                                                       *)
(***************************************************************************)
EXTENDS NiFiClient

CONSTANTS
  Fields,             \* name, expiration and thresholds: what drift detection reads
  Values,             \* the values of a field
  Unset,              \* a field the spec leaves out: its zero is not sent
  Default,            \* what NiFi gives a field that no creation sends
  Unchecked           \* the other fields, the ends among them: what it never reads

VARIABLE ends         \* whether the source and the destination run

cvars == <<nvars, ends>>

ConnectionSteps == {"updated"}

Ends == [source : BOOLEAN, destination : BOOLEAN]
ConnectionParameters == [fields : [Fields -> Values \cup {Unset}], unchecked : Unchecked]
ConnectionDtos == [fields : [Fields -> Values], unchecked : Unchecked, queued : BOOLEAN]

ASSUME ConnectionAssumption ==
  /\ Unset \notin Values
  /\ Default \in Values
  /\ Specs \subseteq ConnectionParameters
  /\ Components = ConnectionDtos
  /\ ClientSteps = ConnectionSteps
  /\ Observations = {}

Init == ClientInit /\ ends \in Ends

-----------------------------------------------------------------------------
(* The pure parts of the client *)

\* (mutant of Agrees: a field that is left out is compared as well)
Equal(asked, held) == held = asked

\* A field is compared where the spec gives one.
Agrees(asked, held) == asked = Unset \/ held = asked

IsConnectionUpToDate(spec, c) == \A f \in Fields : Agrees(spec.fields[f], c.fields[f])

\* (mutant of Sent: the fields keep what NiFi holds)
SentNothing(spec, held) == held

\* The fields that buildConnectionEntity sends, over those of held.
Sent(spec, held) ==
  [f \in Fields |-> IF spec.fields[f] = Unset THEN held[f] ELSE spec.fields[f]]

\* What NiFi holds after a put.
Configured(c, spec) == [c EXCEPT !.fields = Sent(spec, @), !.unchecked = spec.unchecked]

New(spec) == [fields |-> Sent(spec, [f \in Fields |-> Default]),
              unchecked |-> spec.unchecked, queued |-> FALSE]

-----------------------------------------------------------------------------
(* The calls *)

ObserveConnection(w) ==
  ObserveAs(w, IsConnectionUpToDate(mem[w].spec, Named(w)), NoObservation)

CreateConnection(w) == CreateAs(w, New(mem[w].spec), "recordSuccess")

Put(w) == UpdateDue(w) /\ Call(w, TRUE, Configured(Named(w), mem[w].spec), "updated", TRUE)

UpdateReturns(w) == pc[w] = "updated" /\ Leave(w)

Removable(c) == ~c.queued /\ ~ends.source /\ ~ends.destination

\* (mutant of DeleteCall: it carries the version of a new entity, which is old)
DeleteCallFromZero(w) == DeleteDue(w) /\ Leave(w)

DeleteCall(w) == DeleteDue(w) /\ DeleteAs(w, Removable(Named(w)))

-----------------------------------------------------------------------------
(* The flow that goes through the connection *)

Arrive(id) == /\ id \in live
              /\ ends.source
              /\ ~comp[id].queued
              /\ Settle(id, [comp[id] EXCEPT !.queued = TRUE])

Drain(id) == /\ id \in live
             /\ ends.destination
             /\ comp[id].queued
             /\ Settle(id, [comp[id] EXCEPT !.queued = FALSE])

Flow(id) == Arrive(id) \/ Drain(id)

\* Somebody else starts or stops the ends.
EndsChange == /\ ends' \in Ends \ {ends}
              /\ UNCHANGED nvars

\* Somebody else configures the connection; its queue is not theirs to fill.
ForeignEdit(id) ==
  id \in live /\ \E c \in Components : c.queued = comp[id].queued /\ ForeignEditTo(id, c)

Step(w) ==
  \/ LoopStep(w)
  \/ ObserveConnection(w) \/ CreateConnection(w)
  \/ Put(w) \/ UpdateReturns(w)
  \/ DeleteCall(w)

Next ==
  \/ (\E w \in Replicas : Step(w)) /\ UNCHANGED ends
  \/ (\E id \in Ids : Flow(id) \/ ForeignEdit(id)) /\ UNCHANGED ends
  \/ Around /\ UNCHANGED ends
  \/ EndsChange

Spec == Init /\ [][Next]_cvars

\* The worker and the informer of a process keep going, and a destination that
\* runs takes what is queued.
FairSpec ==
  /\ Spec
  /\ \A w \in Replicas : /\ WF_cvars(Step(w) /\ UNCHANGED ends)
                         /\ WF_cvars(SyncStep(w) /\ UNCHANGED ends)
  /\ \A id \in Ids : WF_cvars(Drain(id) /\ UNCHANGED ends)

-----------------------------------------------------------------------------

\* An Update that nobody interfered with leaves what the next Observe takes for
\* the spec, with every other field the spec gives in place too.
UpdateEstablishesSpec ==
  \A w \in Replicas : status[w].clean /\ pc[w] = "updated" =>
    /\ IsConnectionUpToDate(mem[w].spec, Named(w))
    /\ Named(w).unchecked = mem[w].spec.unchecked

\* After the last edit, crash and outside change the connection becomes what
\* drift detection takes for the spec, and stays so, whatever flows through it.
Applied == cr.exists /\ ~cr.deleting /\ ~CreateIncomplete(cr)
             => cr.name \in live /\ IsConnectionUpToDate(cr.spec, comp[cr.name])
EventuallyApplied == <>[]Applied

\* A connection being deleted goes away, unless it is in use again and again:
\* Delete waits for whoever stops its ends and empties its queue.
InUse == cr.name \in live /\ ~Removable(comp[cr.name])
DeletionCompletes == []<>(~cr.deleting \/ CreateIncomplete(cr) \/ InUse)
=============================================================================

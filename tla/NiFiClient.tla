----------------------------- MODULE NiFiClient -----------------------------
(***************************************************************************)
(* The calls of clients/nifi.go that the clients of every kind are made    *)
(* of, and the part of NiFi they depend on: the components it holds, and   *)
(* the revision that every accepted change of one moves on and that every  *)
(* change must carry.                                                      *)
(*                                                                         *)
(* A revision is only compared with the current one, so status[w].current  *)
(* keeps whether the version replica w carries is the component's.  A call *)
(* whose reply is lost is the call followed by Crash.                      *)
(***************************************************************************)
EXTENDS ManagedReconciler

CONSTANTS
  Components,         \* what NiFi may hold of a component
  NoComponent,        \* what it holds of an id that is not a component's
  Observations,       \* what Observe keeps of a component for later calls
  NoObservation       \* what a copy holds before Observe

ASSUME ComponentsAssumption == NoComponent \notin Components

VARIABLES
  comp,               \* what NiFi holds of each id
  status              \* status.atProvider of each reconcile's copy

nvars == <<rvars, comp, status>>

\* clean is not in the code: nobody else touched the component since Observe.
Statuses == [observed : Observations \cup {NoObservation}, current : BOOLEAN, clean : BOOLEAN]
NoStatus == [observed |-> NoObservation, current |-> FALSE, clean |-> FALSE]

\* Every variable has its type, and NiFi holds just the components that live.
ClientTypeOK ==
  /\ comp \in [Ids -> Components \cup {NoComponent}]
  /\ \A id \in Ids : comp[id] = NoComponent <=> id \notin live
  /\ status \in [Replicas -> Statuses]

ClientInit ==
  /\ ReconcilerInit
  /\ comp \in [Ids -> Components \cup {NoComponent}]
  /\ \A id \in Ids : comp[id] = NoComponent <=> id \notin live
  /\ status = [w \in Replicas |-> NoStatus]

-----------------------------------------------------------------------------

Named(w) == comp[mem[w].name]

\* The component is there and the version sent is its revision.
AcceptsVersion(w) == mem[w].name \in live /\ status[w].current

\* A component changes: the version another replica carries is old from then on.
Touched(id) == [r \in Replicas |->
  IF mem[r].name = id THEN [status[r] EXCEPT !.current = FALSE, !.clean = FALSE]
                      ELSE status[r]]

\* Replica w's call is accepted: the component becomes c, and w goes to step
\* with a version that is the component's, or the one from before the call.
Apply(w, c, step, current) ==
  /\ AcceptsVersion(w)
  /\ comp' = [comp EXCEPT ![mem[w].name] = c]
  /\ status' = [Touched(mem[w].name) EXCEPT ![w] = [status[w] EXCEPT !.current = current]]
  /\ Goto(w, step)
  /\ UNCHANGED <<cr, cache, cacheFresh, mem, fresh, seen, live, used, abandoned, disturbances>>

\* Replica w's client returns, with an error or done; NiFi keeps what it has.
Leave(w) ==
  /\ Return(w)
  /\ status' = [status EXCEPT ![w] = NoStatus]
  /\ UNCHANGED <<cr, cache, cacheFresh, live, used, abandoned, disturbances, comp>>

\* A call that NiFi accepts when the component allows it; the Update or Delete
\* ends otherwise.
Call(w, allowed, c, step, current) ==
  \/ allowed /\ Apply(w, c, step, current)
  \/ ~(AcceptsVersion(w) /\ allowed) /\ Leave(w)

\* Everything in the component's group is started or stopped.  The call carries
\* no revision and moves none; what other replicas observed is past.
Schedule(w, c, step) ==
  /\ mem[w].name \in live
  /\ comp' = [comp EXCEPT ![mem[w].name] = c]
  /\ status' = [r \in Replicas |-> IF r # w /\ mem[r].name = mem[w].name
                                    THEN [status[r] EXCEPT !.clean = FALSE] ELSE status[r]]
  /\ Goto(w, step)
  /\ UNCHANGED <<cr, cache, cacheFresh, mem, fresh, seen, live, used, abandoned, disturbances>>

\* The loop moves, with no call to NiFi.
Quiet(w) ==
  /\ status' = [status EXCEPT ![w] = IF pc'[w] = "idle" THEN NoStatus ELSE @]
  /\ UNCHANGED comp

-----------------------------------------------------------------------------

\* The GET fails before NiFi answers, and a "404" in the text of the error -- its
\* status, or the host, the port, the path or the id that it quotes -- is taken
\* for the answer that there is no such component.
MisreadAsNotFound(w) == mem[w].name \in live /\ Disturb

\* (mutant of ObserveAs: a component that is not there passes for one that differs)
ObserveMissingAs(w, upToDate, observation) ==
  /\ pc[w] = "observe"
  /\ Goto(w, "decide")
  /\ IF mem[w].name \in live
     THEN /\ seen' = [seen EXCEPT ![w] = IF upToDate THEN "upToDate" ELSE "different"]
          /\ status' = [status EXCEPT ![w] =
               [observed |-> observation, current |-> TRUE, clean |-> TRUE]]
     ELSE /\ seen' = [seen EXCEPT ![w] = IF mem[w].name = NoName THEN "absent" ELSE "different"]
          /\ UNCHANGED status
  /\ UNCHANGED <<cr, cache, cacheFresh, mem, fresh, live, used, abandoned, comp, disturbances>>

\* Observe gets the component and keeps its revision and an observation; the
\* component is up to date or not.
ObserveAs(w, upToDate, observation) ==
  /\ pc[w] = "observe"
  /\ Goto(w, "decide")
  /\ \/ /\ mem[w].name \in live
        /\ seen' = [seen EXCEPT ![w] = IF upToDate THEN "upToDate" ELSE "different"]
        /\ status' = [status EXCEPT ![w] =
             [observed |-> observation, current |-> TRUE, clean |-> TRUE]]
        /\ UNCHANGED disturbances
     \/ /\ mem[w].name \notin live
        /\ seen' = [seen EXCEPT ![w] = "absent"]
        /\ UNCHANGED <<status, disturbances>>
     \/ /\ MisreadAsNotFound(w)
        /\ seen' = [seen EXCEPT ![w] = "misread"]
        /\ UNCHANGED status
  /\ UNCHANGED <<cr, cache, cacheFresh, mem, fresh, live, used, abandoned, comp>>

\* NiFi makes c of a create call, and the reply arrives, with the id and the
\* first revision, or is lost; or it refuses.
CreateAs(w, c, step) ==
  \/ \E id \in Ids :
       /\ CreateAnswered(w, id)
       /\ pc'[w] = step
       /\ comp' = [comp EXCEPT ![id] = c]
       /\ status' = [status EXCEPT ![w].current = TRUE, ![w].clean = TRUE]
  \/ \E id \in Ids :
       /\ CreateReplyLost(w, id)
       /\ comp' = [comp EXCEPT ![id] = c]
       /\ UNCHANGED status
  \/ CreateRefused(w) /\ Quiet(w)

\* (mutant of RefreshThen: the version from before is kept)
KeepVersionThen(w, step) ==
  \/ /\ mem[w].name \in live
     /\ Goto(w, step)
     /\ UNCHANGED <<cr, cache, cacheFresh, mem, fresh, seen, live, used, abandoned,
                    disturbances, comp, status>>
  \/ mem[w].name \notin live /\ Leave(w)

\* The component is read for its revision; an error ends the Update or Delete.
RefreshThen(w, step) ==
  \/ /\ mem[w].name \in live
     /\ Goto(w, step)
     /\ status' = [status EXCEPT ![w].current = TRUE]
     /\ UNCHANGED <<cr, cache, cacheFresh, mem, fresh, seen, live, used, abandoned,
                    disturbances, comp>>
  \/ mem[w].name \notin live /\ Leave(w)

\* NiFi removes the component, if it may be removed; the Delete ends either way.
DeleteAs(w, removable) ==
  \/ /\ AcceptsVersion(w)
     /\ removable
     /\ RemoveComponent(w)
     /\ comp' = [comp EXCEPT ![mem[w].name] = NoComponent]
     /\ status' = [Touched(mem[w].name) EXCEPT ![w] = NoStatus]
  \/ ~(AcceptsVersion(w) /\ removable) /\ Leave(w)

-----------------------------------------------------------------------------

\* The component changes into c by itself, at the same revision.
Settle(id, c) == /\ comp' = [comp EXCEPT ![id] = c]
                 /\ UNCHANGED <<rvars, status>>

\* Somebody else changes the component into c.
ForeignEditTo(id, c) ==
  /\ c # comp[id]
  /\ ForeignChange
  /\ comp' = [comp EXCEPT ![id] = c]
  /\ status' = Touched(id)

ForeignRemoval(id) ==
  /\ ForeignDelete(id)
  /\ comp' = [comp EXCEPT ![id] = NoComponent]
  /\ status' = Touched(id)

\* The moves of the loop that call nothing of the client.
LoopStep(w) ==
  /\ \/ Begin(w) \/ AddFinalizer(w) \/ MarkPending(w) \/ RemoveFinalizer(w)
     \/ Conflict(w) \/ Rest(w) \/ Record(w)
  /\ Quiet(w)

SyncStep(w) == Sync(w) /\ Quiet(w)

\* What may happen to a replica or to the resource at any time.
Around ==
  \/ \E w \in Replicas : SyncStep(w) \/ (Crash(w) /\ Quiet(w))
  \/ (UserDelete \/ \E s \in Specs : UserEdit(s)) /\ UNCHANGED <<comp, status>>
  \/ \E id \in Ids : ForeignRemoval(id)

-----------------------------------------------------------------------------

\* The client keeps to the loop's contract: it takes a component for absent that
\* is there only for an error it misreads, makes one only when asked, has its id
\* when it goes on, and removes the one it was asked about.
ImplementsReconciler == ReconcilerSpec
=============================================================================

--------------------------- MODULE ParameterContext ---------------------------
(***************************************************************************)
(* The ParameterContext controller: the client it gives the reconcile      *)
(* loop, one action per call to NiFi, and the comparison of two lists of   *)
(* parameters that decides whether NiFi's is written again.                *)
(*                                                                         *)
(* A context has no state to run: Update is one put and Delete one call,   *)
(* both with the version Observe kept.  NiFi refuses to change a context   *)
(* whose users run, or to remove it: that is a Crash of the reconcile.     *)
(***************************************************************************)
EXTENDS NiFiClient, FiniteSets

CONSTANTS
  Checked,            \* name, and description if given: what drift detection reads
  Unchecked,          \* the inherited contexts: what it never reads
  ParameterNames,
  Values,             \* the values of a parameter
  Descriptions,       \* its descriptions,
  Blank,              \* among them the empty one, which a spec need not give
  Unset               \* a value or a description that is not there

ContextSteps == {"updated"}

Parameters == [name : ParameterNames, value : Values \cup {Unset},
               description : Descriptions \cup {Unset}, sensitive : BOOLEAN]
Contexts == [checked : Checked, unchecked : Unchecked, parameters : SUBSET Parameters]

\* NiFi holds one parameter of a name, and a spec is taken to ask for one.
Distinct(parameters) == \A p, q \in parameters : p.name = q.name => p = q

-----------------------------------------------------------------------------
(* The pure parts of the client *)

\* A GET says nothing of the value of a sensitive parameter.
Reported(parameter) ==
  IF parameter.sensitive THEN [parameter EXCEPT !.value = Unset] ELSE parameter

\* (mutant of Agrees: a value that was not reported counts as another value)
SameValue(desired, actual) == actual.value = desired.value

\* Values are compared where both sides give one, and so are descriptions.
Agrees(desired, actual) ==
  /\ Unset \in {desired.value, actual.value} \/ actual.value = desired.value
  /\ desired.description = Blank \/ actual.description \in {Unset, desired.description}

\* (mutant of SameLength: NiFi may hold more)
AtLeastAsLong(spec, c) == Cardinality(spec.parameters) <= Cardinality(c.parameters)

SameLength(spec, c) == Cardinality(spec.parameters) = Cardinality(c.parameters)

IsParameterContextUpToDate(spec, c) ==
  /\ c.checked = spec.checked
  /\ SameLength(spec, c)
  /\ \A desired \in spec.parameters : \E actual \in c.parameters :
       actual.name = desired.name /\ Agrees(desired, Reported(actual))

\* (mutant of Built: a parameter without a value is left out of the entity)
BuiltValued(spec) == { p \in spec.parameters : p.value # Unset }

\* The parameters that buildParameterContextEntity sends.
Built(spec) == spec.parameters

NamesOf(parameters) == { p.name : p \in parameters }

\* What NiFi holds and the spec does not name: no call sends its removal.
Extra(spec, c) == { p \in c.parameters : p.name \notin NamesOf(spec.parameters) }

\* A description is always sent; a value that is not stays as it is.
Merged(c, desired) ==
  LET held == { p \in c.parameters : p.name = desired.name /\ desired.value = Unset }
  IN  IF held = {} THEN desired
                   ELSE [desired EXCEPT !.value = (CHOOSE p \in held : TRUE).value]

\* What NiFi holds after a put; a parameter that is not sent stays as it is.
Configured(c, spec) ==
  [checked |-> spec.checked, unchecked |-> spec.unchecked,
   parameters |-> { p \in c.parameters : p.name \notin NamesOf(Built(spec)) }
                    \cup { Merged(c, p) : p \in Built(spec) }]

New(spec) == [checked |-> spec.checked, unchecked |-> spec.unchecked,
              parameters |-> Built(spec)]

\* A context is as a spec asks or as it was changed by hand, with a list of
\* parameters; a put turns any of them into another one.
ASSUME ContextAssumption ==
  /\ Unset \notin Values \cup Descriptions
  /\ Blank \in Descriptions
  /\ \A spec \in Specs : \A p \in spec.parameters : p.description # Unset
  /\ Specs \subseteq Contexts
  /\ Components \subseteq Contexts
  /\ \A c \in Specs \cup Components : Distinct(c.parameters) /\ IsFiniteSet(c.parameters)
  /\ \A spec \in Specs :
       New(spec) \in Components /\ \A c \in Components : Configured(c, spec) \in Components
  /\ ClientSteps = ContextSteps
  /\ Observations = {}

-----------------------------------------------------------------------------
(* The calls *)

ObserveContext(w) ==
  ObserveAs(w, IsParameterContextUpToDate(mem[w].spec, Named(w)), NoObservation)

CreateContext(w) == CreateAs(w, New(mem[w].spec), "recordSuccess")

Put(w) == UpdateDue(w) /\ Call(w, TRUE, Configured(Named(w), mem[w].spec), "updated", TRUE)

UpdateReturns(w) == pc[w] = "updated" /\ Leave(w)

DeleteCall(w) == DeleteDue(w) /\ DeleteAs(w, TRUE)

-----------------------------------------------------------------------------

\* Somebody else adds, changes or removes parameters.
ForeignEdit(id) == id \in live /\ \E c \in Components : ForeignEditTo(id, c)

Step(w) ==
  \/ LoopStep(w)
  \/ ObserveContext(w) \/ CreateContext(w)
  \/ Put(w) \/ UpdateReturns(w)
  \/ DeleteCall(w)

Next ==
  \/ \E w \in Replicas : Step(w)
  \/ \E id \in Ids : ForeignEdit(id)
  \/ Around

Spec == ClientInit /\ [][Next]_nvars

\* The worker and the informer of a process keep going.
FairSpec == /\ Spec
            /\ \A w \in Replicas : WF_nvars(Step(w)) /\ WF_nvars(SyncStep(w))

-----------------------------------------------------------------------------

\* A context found up to date holds just the parameters the spec names, though
\* only the length of the two lists and one direction are compared; none of
\* them has a description other than one the spec gives, or a value other than
\* the spec's that NiFi would show.
UpToDateMeansMatching ==
  \A w \in Replicas : pc[w] = "decide" /\ seen[w] = "upToDate" /\ status[w].clean =>
    LET asked == mem[w].spec.parameters
        held == Named(w).parameters
    IN  /\ NamesOf(asked) = NamesOf(held)
        /\ \A p \in asked, q \in held :
             p.name = q.name =>
               /\ p.value # Unset /\ q.value # Unset /\ ~q.sensitive => q.value = p.value
               /\ p.description # Blank => q.description \in {Unset, p.description}

\* What Updates can reach: the context is what drift detection takes for the
\* spec, unless it has a parameter that the spec does not name.
Settled(spec, c) == Extra(spec, c) = {} => IsParameterContextUpToDate(spec, c)

\* An Update that nobody interfered with leaves what the next Observe takes
\* for the spec: the context is not written again at every poll.
UpdateEstablishesSpec ==
  \A w \in Replicas : status[w].clean /\ pc[w] = "updated" =>
    Settled(mem[w].spec, Named(w))

\* After the last edit, crash and outside change the context becomes what
\* drift detection takes for the spec, and stays so; or somebody gave it a
\* parameter, or the user took one out of the spec, and it is there for good.
Applied == cr.exists /\ ~cr.deleting /\ ~CreateIncomplete(cr)
             => cr.name \in live /\ Settled(cr.spec, comp[cr.name])
EventuallyApplied == <>[]Applied
=============================================================================

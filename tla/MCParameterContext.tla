-------------------------- MODULE MCParameterContext --------------------------
(* A small instance of the ParameterContext controller. *)
EXTENDS ParameterContext

CONSTANTS r1, i1, i2, k1, u1, p1, p2, v1, v2, d1, d2

OneReplica == {r1}
TwoIds == {i1, i2}
NoObservations == {}
OneChecked == {k1}
OneUnchecked == {u1}
TwoNames == {p1, p2}
TwoValues == {v1, v2}

ThreeDescriptions == {d1, d2, Blank}

Parameter(n, v, d, secret) ==
  [name |-> n, value |-> v, description |-> d, sensitive |-> secret]
Context(parameters) == [checked |-> k1, unchecked |-> u1, parameters |-> parameters]

\* No parameter, one, two of which one has no value, two of which one is secret.
FourSpecs == { Context(ps) : ps \in
  { {}, {Parameter(p1, v1, d1, FALSE)},
    {Parameter(p1, v2, Blank, FALSE), Parameter(p2, Unset, d1, FALSE)},
    {Parameter(p1, v1, d2, TRUE), Parameter(p2, v1, Blank, FALSE)} } }

\* Each parameter held or not, with what a spec may give it, what a put makes of
\* that, and another description given by hand, or none.
SomeContexts == { Context(ps \cup qs) :
  ps \in { {}, {Parameter(p1, v1, d1, FALSE)}, {Parameter(p1, v2, Blank, FALSE)},
           {Parameter(p1, v1, d2, TRUE)}, {Parameter(p1, v1, d1, TRUE)} },
  qs \in { {}, {Parameter(p2, Unset, d1, FALSE)}, {Parameter(p2, v1, Unset, FALSE)},
           {Parameter(p2, v1, Blank, FALSE)}, {Parameter(p2, v1, d1, FALSE)} } }

Nothing == [checked |-> "", unchecked |-> "", parameters |-> {}]
=============================================================================

----------------------------- MODULE MCProcessor -----------------------------
(* Small instances of the Processor controller. *)
EXTENDS Processor

CONSTANTS r1, i1, i2, k1, k2, u1

OneReplica == {r1}
OneId == {i1}
TwoIds == {i1, i2}
OneChecked == {k1}
TwoChecked == {k1, k2}
OneUnchecked == {u1}
BothSpellings == {"upper", "mixed"}
MixedOnly == {"mixed"}
StopOrRun == {"STOPPED", "RUNNING"}
Steps == ProcessorSteps

Desires(states, checked) == [checked : checked, unchecked : OneUnchecked, desired : states]
RunSpecs == Desires(StopOrRun, TwoChecked)
StateSpecs == Desires(StopOrRun, OneChecked)

Processors(checked) == [checked : checked, unchecked : OneUnchecked, run : RunStates]
OneCheckedComponents == Processors(OneChecked)
TwoCheckedComponents == Processors(TwoChecked)
Nothing == [checked |-> "", unchecked |-> "", run |-> ""]
=============================================================================

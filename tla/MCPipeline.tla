----------------------------- MODULE MCPipeline -----------------------------
(* A small instance of a processor and the connection that leads to it. *)
EXTENDS Pipeline

CONSTANTS r1, i1, k1, u1, f1, v1

OneReplica == {r1}
OneId == {i1}
OneChecked == {k1}
OneUnchecked == {u1}
ToRun == {"RUNNING"}
BothSpellings == {"upper", "mixed"}
OneSpec == [checked : OneChecked, unchecked : OneUnchecked, desired : ToRun]
Processors == [checked : OneChecked, unchecked : OneUnchecked, run : {"RUNNING", "STOPPING", "STOPPED", "DISABLED"}]
NoProcessor == [checked |-> "", unchecked |-> "", run |-> ""]
RunStatuses == {"RUNNING", "STOPPED", "DISABLED", "Running", "Stopped", "Disabled"}
ProcessorSteps == {"refresh", "put", "start", "updated", "deleteRefresh", "delete"}

OneField == {f1}
OneValue == {v1}
OneConnection == {[fields |-> [f \in OneField |-> v1], unchecked |-> u1]}
Connections == [fields : [OneField -> OneValue], unchecked : OneUnchecked, queued : BOOLEAN]
NoConnection == [fields |-> <<>>, unchecked |-> "", queued |-> FALSE]
ConnectionSteps == {"updated"}
=============================================================================

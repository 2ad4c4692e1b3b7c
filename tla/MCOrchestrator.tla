--------------------------- MODULE MCOrchestrator ---------------------------
(* Constants of the model-checking runs of Orchestrator.                   *)
EXTENDS Orchestrator, TLC

CONSTANTS t1, t2, k1, v1, v2, w1, w2, d1, d2

MCJobs1 == {1}
MCJobs2 == 1 .. 2

MCOnePartition == [j \in JobIds |-> 1]

(* Payloads over one key: nothing, or one of two values.                   *)
Empty == [k \in {k1} |-> NoValue]
Of(v) == [k \in {k1} |-> v]

MCNoInput  == {Empty}
MCInputs   == {Empty, Of(v2)}

Row(v, cap) == [payload |-> Of(v), max_attempts |-> cap]

MCRow1  == {Row(v1, 1)}
MCRows  == {Row(v1, 1), Row(v2, 1)}

MCConfig1 == [t \in JobTypes |-> Row(v1, 1)]

(* The second type has no row: its cap is the default's.                   *)
MCConfigDefault == [t \in JobTypes |-> IF t = t2 THEN NoRow ELSE Row(v1, 1)]

MCSymmetry == Permutations(Workers) \cup Permutations(Dispatchers)

=============================================================================

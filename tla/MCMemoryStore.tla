--------------------------- MODULE MCMemoryStore ---------------------------
(* Constants of the model-checking runs of MemoryStore.                    *)
EXTENDS MemoryStore, TLC

CONSTANTS k1, v1, v2

Of(v) == [k \in {k1} |-> v]

MCInputs == {Of(NoValue), Of(v2)}
MCRows   == {[payload |-> Of(v1), max_attempts |-> 0],
             [payload |-> Of(v1), max_attempts |-> 1]}

MCSymmetry == Permutations(Threads)

=============================================================================

--------------------------- MODULE MCTransactions ---------------------------
(* Constants of Transactions' run: one type with a row, an empty input,     *)
(* one requeue.                                                            *)
EXTENDS Transactions, TLC

MCInputs     == {EmptyPayload}
MCConfigRows == {[payload |-> [k \in Keys |-> CHOOSE v \in Values : TRUE], max_attempts |-> 1]}
MCInitConfig == [t \in JobTypes |-> CHOOSE row \in MCConfigRows : TRUE]
MCSymmetry   == Permutations(Sessions)

=============================================================================

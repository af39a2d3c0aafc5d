----------------------------- MODULE MCOccStorm -----------------------------
(***************************************************************************)
(* OccStorm for TLC: the values a balance can take in a run, and the       *)
(* symmetry of the workers.                                                *)
(***************************************************************************)
EXTENDS OccStorm

\* Every commit adds one: no balance is above the initial one by more than
\* the number of transactions attempted.
MCVals == InitialBalance..(InitialBalance + Cardinality(Workers) * Rounds)

WorkerSymmetry == Permutations(Workers)

=============================================================================

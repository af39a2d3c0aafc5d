------------------------------ MODULE MCCounter ------------------------------
(***************************************************************************)
(* Counter for TLC: the values the counter can take in a run.              *)
(***************************************************************************)
EXTENDS Counter

MCVals == 0..(Cardinality(Workers) * Rounds)

=============================================================================

----------------------------- MODULE MCTransfer -----------------------------
(***************************************************************************)
(* Transfer for TLC: the values a balance can take in a run.               *)
(***************************************************************************)
EXTENDS Transfer

\* No account gains or loses more than every transfer attempted moves.
MCReach == Cardinality(Workers) * Rounds * Max(Amounts)
MCVals  == (InitialBalance - MCReach)..(InitialBalance + MCReach)

=============================================================================

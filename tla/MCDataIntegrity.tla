--------------------------- MODULE MCDataIntegrity ---------------------------
(***************************************************************************)
(* DataIntegrity for TLC: payloads as inserted (0) and as updated (1).     *)
(***************************************************************************)
EXTENDS DataIntegrity

MCVals == {0, 1}

=============================================================================

----------------------------- MODULE MCFraming -----------------------------
(***************************************************************************)
(* Framing for TLC, scaled down: bytes of two bits and a prefix of two     *)
(* bytes, so that a length read off the frame boundary (6 to 15) asks for  *)
(* no more bytes than a few responses have.  The two texts are a success   *)
(* and a refused commit.                                                   *)
(***************************************************************************)
EXTENDS Framing, TLC

MCJson ==
    (<<2>> :> [ok |-> TRUE, data |-> <<>>])
        @@ (<<3, 3>> :> [ok |-> FALSE, error |-> "TransactionConflict"])

=============================================================================

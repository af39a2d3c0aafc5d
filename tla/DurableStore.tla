----------------------------- MODULE DurableStore -----------------------------
(***************************************************************************)
(* What a database promises a client about a crash (testable property 5 of *)
(* the design specification): a set of items that only grows, and an       *)
(* acknowledgement that is given only for an item that is in it.  A crash  *)
(* and a restart are no steps of this specification: they change nothing   *)
(* a client may rely on.                                                   *)
(***************************************************************************)
CONSTANT Items

VARIABLES
    stored,     \* the items that are durable
    acked       \* the items whose write was confirmed to a client

Init ==
    /\ stored = {}
    /\ acked = {}

Store(i) ==
    /\ i \notin stored
    /\ stored' = stored \cup {i}
    /\ UNCHANGED acked

Ack(i) ==
    /\ i \in stored \ acked
    /\ acked' = acked \cup {i}
    /\ UNCHANGED stored

Next == \E i \in Items : Store(i) \/ Ack(i)

Spec == Init /\ [][Next]_<<stored, acked>>

=============================================================================

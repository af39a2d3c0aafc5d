---------------------------- MODULE FrameChannel ----------------------------
(***************************************************************************)
(* What a connection promises its OxiDbClient, in whole frames: the calls  *)
(* of the client as OxiDbClient has them, a server that answers every      *)
(* request with one response, in order, and may end the stream.  This is   *)
(* the connection the workloads are checked on.  One step is added that    *)
(* they do not have: a socket timeout that strikes after a part of a       *)
(* response was read tears the connection, and of a torn connection        *)
(* nothing is promised.  Framing shows that the bytes of python/oxidb.py   *)
(* implement this.                                                         *)
(***************************************************************************)
EXTENDS OxiDbClient

CONSTANTS
    Request,    \* the payload of a call (the channel does not look at it)
    Responses   \* what the server answers with

VARIABLE
    torn        \* torn[c]: a timeout has dropped a part of a response of c

chanVars == <<wireVars, clientVars, torn>>

Init ==
    /\ conn = [c \in Conns |-> "open"]
    /\ inbox = [c \in Conns |-> <<>>]
    /\ outbox = [c \in Conns |-> <<>>]
    /\ ret = [c \in Conns |-> Idle]
    /\ exc = [c \in Conns |-> "none"]
    /\ timeouts = 0
    /\ torn = [c \in Conns |-> FALSE]

\* The server handles the oldest request of c and its response reaches c.
Answer(c) ==
    /\ conn[c] = "open"
    /\ inbox[c] # <<>>
    /\ inbox' = [inbox EXCEPT ![c] = Tail(@)]
    /\ \E resp \in Responses : outbox' = [outbox EXCEPT ![c] = Append(@, resp)]
    /\ UNCHANGED <<conn, clientVars>>

\* The server ends the stream: what it had not handled is dropped, and of
\* the response it was writing c gets no whole frame.
Hangup(c) ==
    /\ conn[c] = "open"
    /\ conn' = [conn EXCEPT ![c] = "reset"]
    /\ inbox' = [inbox EXCEPT ![c] = <<>>]
    /\ \E k \in {Len(outbox[c]) - 1, Len(outbox[c])} \cap Nat :
        outbox' = [outbox EXCEPT ![c] = SubSeq(@, 1, k)]
    /\ UNCHANGED clientVars

\* The steps of a connection that is whole.
Whole(c) ==
    /\ ~torn[c]
    /\ \/ Call(c, Request)
       \/ Return(c)
       \/ TimedOut(c)
       \/ ConnectionLost(c)
       \/ Answer(c)
       \/ Hangup(c)
    /\ UNCHANGED torn

\* recv raises socket.timeout inside _recv_exact when a part of a response
\* has been read: buf is a local of the call and goes with it, and the
\* rest of the response stays in the stream.
Tear(c) ==
    /\ ~torn[c]
    /\ ret[c] = Pending
    /\ outbox[c] # <<>>
    /\ timeouts < MaxTimeouts
    /\ timeouts' = timeouts + 1
    /\ ret' = [ret EXCEPT ![c] = Raised("timeout")]
    /\ outbox' = [outbox EXCEPT ![c] = <<>>]
    /\ torn' = [torn EXCEPT ![c] = TRUE]
    /\ UNCHANGED <<conn, inbox, exc>>

\* A torn connection: _recv_raw takes for a length the four bytes the
\* stream happens to stand at.  What its calls return is not said here.
Lost(c) ==
    /\ torn[c] /\ torn'[c]
    /\ \A d \in Conns \ {c} :
        /\ <<conn[d], inbox[d], outbox[d]>>' = <<conn[d], inbox[d], outbox[d]>>
        /\ <<ret[d], torn[d]>>' = <<ret[d], torn[d]>>
    /\ UNCHANGED exc

Next == \E c \in Conns : Whole(c) \/ Tear(c) \/ Lost(c)

Spec == Init /\ [][Next]_chanVars

=============================================================================

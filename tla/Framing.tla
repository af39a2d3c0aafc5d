------------------------------ MODULE Framing ------------------------------
(***************************************************************************)
(* The bytes under one OxiDbClient (python/oxidb.py, "Low-level            *)
(* protocol"): a response is a length prefix of Width bytes, little end    *)
(* first, and a JSON text.  _recv_raw reads the prefix with _recv_exact,   *)
(* then as many bytes as the prefix says; _recv_exact calls recv until it  *)
(* has them all, and recv gives what has arrived, blocks while nothing     *)
(* has, and raises socket.timeout when nothing comes.                      *)
(*                                                                         *)
(* The server writes a response in one piece and the network brings it in  *)
(* pieces.  A response enters the model when its first byte arrives, which *)
(* is the first the client can know of it; the rest is in flight.          *)
(***************************************************************************)
EXTENDS Integers, Sequences, FiniteSetsExt

CONSTANTS
    Base,           \* a byte is one of 0..Base-1 (256)
    Width,          \* the bytes of the length prefix (4, "<I")
    Json,           \* Json[text]: what json.loads makes of a JSON text
    MaxCalls,       \* bound: the calls of the client
    MaxTimeouts     \* bound: socket timeouts on a connection that is whole

Payloads == DOMAIN Json
Bytes    == 0..(Base - 1)

ASSUME /\ Base \in Nat \ {0, 1} /\ Width \in Nat \ {0}
       /\ \A p \in Payloads : p \in Seq(Bytes) /\ 0 < Len(p) /\ Len(p) < Base ^ Width
       /\ MaxCalls \in Nat /\ MaxTimeouts \in Nat

VARIABLES
    stream,     \* the bytes that have arrived and recv has not given out
    flight,     \* the rest of the response that is arriving
    eof,        \* the server has ended the stream
    owed,       \* requests the server has not answered
    pc,         \* where _recv_raw is: "idle", "header", "body"
    n,          \* the n of the _recv_exact under way
    buf,        \* its buf
    ret,        \* what the last call returned or raised
    calls,      \* the calls made
    timeouts,   \* socket timeouts so far, on the connection while whole
    sent,       \* history: the payloads the server wrote
    rcvd,       \* history: the payloads json.loads was given and accepted
    torn        \* history: a timeout has dropped a part of a response

vars == <<stream, flight, eof, owed, pc, n, buf, ret, calls, timeouts,
          sent, rcvd, torn>>

-----------------------------------------------------------------------------
(* The length prefix *)

\* struct.pack("<I", len).
pack(len) == [i \in 1..Width |-> (len \div Base ^ (i - 1)) % Base]

\* struct.unpack("<I", bytes)[0].
unpack(bytes) == MapThenSumSet(LAMBDA i : bytes[i] * Base ^ (i - 1), 1..Width)

Frame(data) == pack(Len(data)) \o data

\* The whole frames a run of bytes starts with.
RECURSIVE Decode(_)
Decode(bytes) ==
    LET end == Width + unpack(bytes)
    IN  IF Len(bytes) < Width \/ Len(bytes) < end THEN <<>>
        ELSE <<SubSeq(bytes, Width + 1, end)>>
                 \o Decode(SubSeq(bytes, end + 1, Len(bytes)))

\* What _recv_raw has read of the frame it is reading.
Read == (IF pc = "body" THEN pack(n) ELSE <<>>) \o buf

-----------------------------------------------------------------------------
(* The connection in whole frames *)

Client == "client"

Chan == INSTANCE FrameChannel WITH
    Conns <- {Client}, Colls <- {}, Keys <- {}, Vals <- {}, MaxDocs <- 0,
    Request <- [cmd |-> "ping"], Responses <- {Json[p] : p \in Payloads},
    conn <- [c \in {Client} |-> IF eof THEN "reset" ELSE "open"],
    inbox <- [c \in {Client} |-> [i \in 1..owed |-> [cmd |-> "ping"]]],
    outbox <- [c \in {Client} |->
                  IF torn THEN <<>>
                  ELSE LET frames == Decode(Read \o stream \o flight)
                       IN  [i \in DOMAIN frames |-> Json[frames[i]]]],
    ret <- [c \in {Client} |-> ret],
    exc <- [c \in {Client} |-> "none"],
    torn <- [c \in {Client} |-> torn]

-----------------------------------------------------------------------------
(* The client *)

\* _request up to the first recv: the request is sent (to nobody once the
\* server is gone) and _recv_raw asks _recv_exact for the prefix.
_request ==
    /\ pc = "idle"
    /\ calls < MaxCalls
    /\ calls' = calls + 1
    /\ owed' = IF eof THEN owed ELSE owed + 1
    /\ ret' = Chan!Pending
    /\ pc' = "header" /\ n' = Width /\ buf' = <<>>
    /\ UNCHANGED <<stream, flight, eof, timeouts, sent, rcvd, torn>>

\* Faulty variant: the text is not parsed, and whatever came is returned.
loadsAnything(text) ==
    /\ ret' = Chan!Returned(text)
    /\ rcvd' = Append(rcvd, text)

\* json.loads(resp_bytes), and what _checked makes of the response.
loads(text) ==
    \/ /\ text \in Payloads
       /\ ret' = Chan!_checked(Json[text])
       /\ rcvd' = Append(rcvd, text)
    \/ /\ text \notin Payloads
       /\ ret' = Chan!Raised("ValueError")
       /\ UNCHANGED rcvd

\* _recv_raw has its frame and _request returns.
Returns(text) ==
    /\ loads(text)
    /\ pc' = "idle" /\ n' = 0 /\ buf' = <<>>

\* _recv_exact has the prefix: _recv_raw unpacks it and asks for as many
\* bytes.
Expects(len) ==
    pc' = "body" /\ n' = len /\ buf' = <<>> /\ UNCHANGED <<ret, rcvd>>

\* Faulty variant: while len(buf) <= n.
HasOneMore(bytes) ==
    Len(bytes) <= n /\ buf' = bytes /\ UNCHANGED <<pc, n, ret, rcvd>>

\* _recv_exact with what it has after a recv.
Has(bytes) ==
    \/ Len(bytes) < n /\ buf' = bytes /\ UNCHANGED <<pc, n, ret, rcvd>>
    \/ Len(bytes) = n /\ pc = "header" /\ Expects(unpack(bytes))
    \/ Len(bytes) = n /\ pc = "body" /\ Returns(bytes)

\* Faulty variant: _recv_exact returns what the first recv gave.
recvOnce ==
    /\ pc # "idle"
    /\ stream # <<>>
    /\ LET k == Min({n, Len(stream)})
           chunk == SubSeq(stream, 1, k)
       IN  /\ stream' = SubSeq(stream, k + 1, Len(stream))
           /\ \/ pc = "header" /\ Len(chunk) = n /\ Expects(unpack(chunk))
              \/ pc = "header" /\ Len(chunk) < n /\ Returns(chunk)
              \/ pc = "body" /\ Returns(chunk)
    /\ UNCHANGED <<flight, eof, owed, calls, timeouts, sent, torn>>

\* recv(n - len(buf)) gives what has arrived, up to as many bytes.
recv ==
    /\ pc # "idle"
    /\ stream # <<>>
    /\ LET k == Min({n - Len(buf), Len(stream)})
       IN  /\ stream' = SubSeq(stream, k + 1, Len(stream))
           /\ Has(buf \o SubSeq(stream, 1, k))
    /\ UNCHANGED <<flight, eof, owed, calls, timeouts, sent, torn>>

\* The exception leaves _recv_exact, _recv_raw and _request.
Raises(e) ==
    /\ ret' = Chan!Raised(e)
    /\ pc' = "idle" /\ n' = 0 /\ buf' = <<>>

\* recv raises socket.timeout: nothing has arrived for as long as the
\* timeout of the socket.  What _recv_exact had read goes with its buf.
\* On a torn connection the bound does not count: a length that was never
\* sent can ask for more than will ever come.
Timeout ==
    /\ pc # "idle"
    /\ stream = <<>> /\ ~eof
    /\ torn \/ timeouts < MaxTimeouts
    /\ timeouts' = IF torn THEN timeouts ELSE timeouts + 1
    /\ torn' = (torn \/ Read # <<>>)
    /\ Raises("timeout")
    /\ UNCHANGED <<stream, flight, eof, owed, calls, sent, rcvd>>

\* recv gives no bytes, the stream has ended: ConnectionError.
Closed ==
    /\ pc # "idle"
    /\ stream = <<>> /\ eof
    /\ Raises("ConnectionError")
    /\ UNCHANGED <<stream, flight, eof, owed, calls, timeouts, sent, rcvd, torn>>

\* The program is through with its calls.
Finished == pc = "idle" /\ calls = MaxCalls /\ UNCHANGED vars

-----------------------------------------------------------------------------
(* The server and the network *)

\* The server answers a request, and the first bytes of the response
\* arrive, once the response before it has arrived whole.
Respond ==
    /\ owed > 0 /\ ~eof
    /\ flight = <<>>
    /\ \E data \in Payloads, k \in 1..(Width + 1) :
        /\ stream' = stream \o SubSeq(Frame(data), 1, k)
        /\ flight' = SubSeq(Frame(data), k + 1, Len(Frame(data)))
        /\ sent' = Append(sent, data)
    /\ owed' = owed - 1
    /\ UNCHANGED <<eof, pc, n, buf, ret, calls, timeouts, rcvd, torn>>

\* More of the response arrives.
Arrive ==
    /\ flight # <<>>
    /\ \E k \in 1..Len(flight) :
        /\ stream' = stream \o SubSeq(flight, 1, k)
        /\ flight' = SubSeq(flight, k + 1, Len(flight))
    /\ UNCHANGED <<eof, owed, pc, n, buf, ret, calls, timeouts, sent, rcvd, torn>>

\* The server ends the stream, or is killed: the rest of the response it
\* was writing arrives or does not.
Hangup ==
    /\ ~eof
    /\ eof' = TRUE
    /\ owed' = 0
    /\ flight' = <<>>
    /\ stream' \in {stream, stream \o flight}
    /\ UNCHANGED <<pc, n, buf, ret, calls, timeouts, sent, rcvd, torn>>

-----------------------------------------------------------------------------

Init ==
    /\ stream = <<>> /\ flight = <<>> /\ eof = FALSE /\ owed = 0
    /\ pc = "idle" /\ n = 0 /\ buf = <<>> /\ ret = Chan!Idle
    /\ calls = 0 /\ timeouts = 0
    /\ sent = <<>> /\ rcvd = <<>> /\ torn = FALSE

Next ==
    \/ _request \/ recv \/ Timeout \/ Closed \/ Finished
    \/ Respond \/ Arrive \/ Hangup

Spec == Init /\ [][Next]_vars

-----------------------------------------------------------------------------

TypeOK ==
    /\ stream \in Seq(Bytes) /\ flight \in Seq(Bytes) /\ buf \in Seq(Bytes)
    /\ eof \in BOOLEAN /\ torn \in BOOLEAN
    /\ owed \in 0..MaxCalls /\ calls \in 0..MaxCalls
    /\ timeouts \in 0..MaxTimeouts
    /\ pc \in {"idle", "header", "body"}
    /\ n \in 0..(Base ^ Width - 1)
    /\ pc = "header" => n = Width
    /\ pc # "idle" => Len(buf) < n
    /\ Chan!ClientTypeOK
    /\ sent \in Seq(Payloads) /\ rcvd \in Seq(Seq(Bytes))
    /\ Len(sent) + owed <= calls

\* While no timeout has struck inside a response, the bytes are a
\* connection of whole frames: however the network cuts the responses,
\* _request returns them one by one in the order the server wrote them
\* (the loop of _recv_exact, lines 80 to 85, and the two reads of
\* _recv_raw), a timeout between two responses leaves the stream where it
\* was, and ConnectionError comes after the last whole response.  The one
\* step that ends this is a timeout with a part of a response read.
ImplementsFrameChannel == Chan!Spec

\* A torn connection does not hand out what was never sent: whatever
\* _request returns after a timeout inside a response (line 81) is a
\* response of the server, each at most once and in the order they were
\* written; the bytes _recv_raw gathers under a length that was not one
\* end in the ValueError of json.loads (line 91).
ReturnsAreSent ==
    \E at \in [DOMAIN rcvd -> DOMAIN sent] :
        /\ \A i \in DOMAIN rcvd : rcvd[i] = sent[at[i]]
        /\ \A i, j \in DOMAIN rcvd : i < j => at[i] < at[j]

=============================================================================

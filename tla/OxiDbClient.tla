----------------------------- MODULE OxiDbClient -----------------------------
(***************************************************************************)
(* The Python client library (python/oxidb.py): one OxiDbClient object per *)
(* connection c.  A method builds a JSON payload and calls _checked, which *)
(* sends it (_request, _send_raw), blocks in _recv_raw until the next      *)
(* frame of the stream arrives or the socket times out, and turns an error *)
(* response into an exception.  A call is two steps here, so that the      *)
(* server and the other clients run between the send and the receive:      *)
(*                                                                         *)
(*   method(c, ...)   _send_raw; ret[c] becomes Pending                    *)
(*   Return(c)        _recv_raw and the classification of _checked         *)
(*   TimedOut(c)      socket.timeout out of _recv_exact                    *)
(*                                                                         *)
(* ret[c] is what the last call of c returned or raised; the caller reads  *)
(* it in its next step.                                                    *)
(***************************************************************************)
EXTENDS Wire

CONSTANTS
    MaxTimeouts     \* bound: socket timeouts in one run

VARIABLES
    ret,        \* ret[c]: the state and outcome of c's last call
    exc,        \* exc[c]: the exception transaction() holds during its rollback
    timeouts    \* socket timeouts so far

clientVars == <<ret, exc, timeouts>>

Idle           == [st |-> "idle"]
Pending        == [st |-> "pending"]
Returned(data) == [st |-> "returned", data |-> data]
Raised(e)      == [st |-> "raised", exc |-> e]
\* An exception with the text str() gives of it: the server's error.
RaisedSaying(e, msg) == [st |-> "raised", exc |-> e, msg |-> msg]

\* OxiDbError and its subclass TransactionConflictError; the other
\* exceptions a call raises are socket.timeout, the ConnectionError of a
\* stream the server has ended (standing for every OSError of the socket),
\* and what the caller's own code raises: on a value of the wrong shape
\* (KeyError, TypeError), on a failed assert, or inside a with block.
OxiDbErrors == {"OxiDbError", "TransactionConflictError"}
Exceptions  == OxiDbErrors \cup {"timeout", "KeyError", "ConnectionError",
                                 "AttributeError", "AssertionError", "ValueError"}

\* The methods class OxiDbClient defines.
Methods == {"close", "ping", "create_collection", "list_collections",
            "drop_collection", "insert", "insert_many", "find", "find_one",
            "update", "update_one", "delete", "delete_one", "count",
            "create_index", "create_unique_index", "create_composite_index",
            "aggregate", "compact", "begin_tx", "commit_tx", "rollback_tx",
            "transaction", "create_bucket", "list_buckets", "delete_bucket",
            "put_object", "get_object", "head_object", "delete_object",
            "list_objects", "search"}

-----------------------------------------------------------------------------
(* Low-level protocol *)

Connect(c) ==
    /\ conn[c] = "none"
    /\ conn' = [conn EXCEPT ![c] = "open"]
    /\ UNCHANGED <<inbox, outbox, clientVars>>

\* Faulty variant: the socket is shut down for reading only and never
\* closed; the server sees no end of stream.
closeLeaking(c) ==
    /\ conn[c] \in {"open", "reset"}
    /\ ret[c] # Pending
    /\ outbox' = [outbox EXCEPT ![c] = <<>>]
    /\ ret'    = [ret EXCEPT ![c] = Idle]
    /\ UNCHANGED <<conn, inbox, exc, timeouts>>

\* shutdown (its OSError on a dead connection is passed over) and close:
\* what the server sent and c has not read is dropped; what c sent stays on
\* the server's side of the stream.
close(c) ==
    /\ conn[c] \in {"open", "reset"}
    /\ ret[c] # Pending
    /\ conn'   = [conn EXCEPT ![c] = "closed"]
    /\ outbox' = [outbox EXCEPT ![c] = <<>>]
    /\ ret'    = [ret EXCEPT ![c] = Idle]
    /\ UNCHANGED <<inbox, exc, timeouts>>

\* `with OxiDbClient(...) as db`: __enter__ gives the client itself, and
\* __exit__ closes it however the body ends.
__enter__(c) == c
__exit__(c)  == close(c)

\* sendall; what is sent on a connection whose server is gone reaches nobody.
_send_raw(c, data) ==
    inbox' = [inbox EXCEPT ![c] = IF conn[c] = "open" THEN Append(@, data) ELSE @]

\* The next frame of the stream, whichever request it answers.
_recv_raw(c) ==
    /\ outbox[c] # <<>>
    /\ outbox' = [outbox EXCEPT ![c] = Tail(@)]

\* The errors whose lower-cased text contains "conflict".
MentionsConflict == {e \in Errors : "conflict" \in Phrases[e]}

\* Faulty variant: the "ok" field is not looked at, and an error response
\* is returned like data.
_checkedIgnoringOk(resp) ==
    Returned(IF resp.ok THEN resp.data ELSE [error |-> resp.error])

_checked(resp) ==
    IF resp.ok THEN Returned(resp.data)
    ELSE RaisedSaying(IF resp.error \in MentionsConflict
                      THEN "TransactionConflictError" ELSE "OxiDbError",
                      resp.error)

\* The first half of _request: the payload is sent and c blocks.
_request(c, payload) ==
    /\ conn[c] \in {"open", "reset"}
    /\ ret[c] # Pending
    /\ _send_raw(c, payload)
    /\ ret' = [ret EXCEPT ![c] = Pending]
    /\ UNCHANGED <<conn, outbox>>

\* The second half: _recv_raw returns a frame and _checked classifies it.
Return(c) ==
    /\ ret[c] = Pending
    /\ _recv_raw(c)
    /\ ret' = [ret EXCEPT ![c] = _checked(Head(outbox[c]))]
    /\ UNCHANGED <<conn, inbox, exc, timeouts>>

\* recv raises socket.timeout before any byte of the response has come;
\* the request stays with the server and its response will still be sent.
TimedOut(c) ==
    /\ ret[c] = Pending
    /\ outbox[c] = <<>>
    /\ timeouts < MaxTimeouts
    /\ timeouts' = timeouts + 1
    /\ ret' = [ret EXCEPT ![c] = Raised("timeout")]
    /\ UNCHANGED <<wireVars, exc>>

\* recv returns no bytes: the server has ended the stream, and _recv_exact
\* raises once what it had sent before is read.
ConnectionLost(c) ==
    /\ ret[c] = Pending
    /\ conn[c] = "reset"
    /\ outbox[c] = <<>>
    /\ ret' = [ret EXCEPT ![c] = Raised("ConnectionError")]
    /\ UNCHANGED <<wireVars, exc, timeouts>>

Call(c, payload) == _request(c, payload) /\ UNCHANGED <<exc, timeouts>>

\* result[f] for every f of fields, on what _checked returned: a KeyError
\* (or the TypeError of a list or null) when the response has another shape.
Subscript(r, fields) ==
    IF r.st = "returned" /\ ~(fields \subseteq DOMAIN r.data)
    THEN Raised("KeyError")
    ELSE r

-----------------------------------------------------------------------------
(* The methods: payloads *)

ping(c) == Call(c, [cmd |-> "ping"])

create_collection(c, name) ==
    Call(c, [cmd |-> "create_collection", collection |-> name])

list_collections(c) == Call(c, [cmd |-> "list_collections"])

drop_collection(c, name) ==
    Call(c, [cmd |-> "drop_collection", collection |-> name])

insert(c, collection, doc) ==
    Call(c, [cmd |-> "insert", collection |-> collection, doc |-> doc])

insert_many(c, collection, docs) ==
    Call(c, [cmd |-> "insert_many", collection |-> collection, docs |-> docs])

\* given: the record of the keyword arguments sort, skip and limit that are
\* not None; each becomes a field of the payload.
find_with(c, collection, query, given) ==
    Call(c, [cmd |-> "find", collection |-> collection, query |-> query] @@ given)

find(c, collection, query) == find_with(c, collection, query, <<>>)

find_one(c, collection, query) ==
    Call(c, [cmd |-> "find_one", collection |-> collection, query |-> query])

update(c, collection, query, upd) ==
    Call(c, [cmd |-> "update", collection |-> collection,
             query |-> query, update |-> upd])

update_one(c, collection, query, upd) ==
    Call(c, [cmd |-> "update_one", collection |-> collection,
             query |-> query, update |-> upd])

delete(c, collection, query) ==
    Call(c, [cmd |-> "delete", collection |-> collection, query |-> query])

delete_one(c, collection, query) ==
    Call(c, [cmd |-> "delete_one", collection |-> collection, query |-> query])

\* count() is _checked followed by result["count"].
count(c, collection, query) ==
    Call(c, [cmd |-> "count", collection |-> collection, query |-> query])

create_index(c, collection, field) ==
    Call(c, [cmd |-> "create_index", collection |-> collection, field |-> field])

\* Faulty variant: the index is created as a plain one.
create_unique_indexPlain(c, collection, field) ==
    create_index(c, collection, field)

create_unique_index(c, collection, field) ==
    Call(c, [cmd |-> "create_unique_index", collection |-> collection,
             field |-> field])

create_composite_index(c, collection, fields) ==
    Call(c, [cmd |-> "create_composite_index", collection |-> collection,
             fields |-> fields])

aggregate(c, collection, pipeline) ==
    Call(c, [cmd |-> "aggregate", collection |-> collection, pipeline |-> pipeline])

compact(c, collection) == Call(c, [cmd |-> "compact", collection |-> collection])

begin_tx(c)    == Call(c, [cmd |-> "begin_tx"])
commit_tx(c)   == Call(c, [cmd |-> "commit_tx"])

\* Faulty variant: the rollback section commits.
rollback_txCommitting(c) == commit_tx(c)

rollback_tx(c) == Call(c, [cmd |-> "rollback_tx"])

-----------------------------------------------------------------------------
(* Blob storage and full-text search *)

create_bucket(c, bucket) == Call(c, [cmd |-> "create_bucket", bucket |-> bucket])
list_buckets(c)          == Call(c, [cmd |-> "list_buckets"])
delete_bucket(c, bucket) == Call(c, [cmd |-> "delete_bucket", bucket |-> bucket])

\* metadata becomes a field of the payload when it is not empty.
put_object(c, bucket, key, data, content_type, metadata) ==
    Call(c, [cmd |-> "put_object", bucket |-> bucket, key |-> key,
             data |-> b64encode(data), content_type |-> content_type]
            @@ (IF metadata = <<>> THEN <<>> ELSE [metadata |-> metadata]))

get_object(c, bucket, key) ==
    Call(c, [cmd |-> "get_object", bucket |-> bucket, key |-> key])

\* Faulty variant: the content is returned as it came, not decoded.
get_object_resultEncoded(r) ==
    LET got == Subscript(r, {"content", "metadata"})
    IN  IF got.st = "returned"
        THEN Returned([data |-> got.data.content, meta |-> got.data.metadata])
        ELSE got

\* What get_object makes of the response: (bytes, metadata).
get_object_result(r) ==
    LET got == Subscript(r, {"content", "metadata"})
    IN  IF got.st = "returned"
        THEN Returned([data |-> b64decode(got.data.content), meta |-> got.data.metadata])
        ELSE got

head_object(c, bucket, key) ==
    Call(c, [cmd |-> "head_object", bucket |-> bucket, key |-> key])

delete_object(c, bucket, key) ==
    Call(c, [cmd |-> "delete_object", bucket |-> bucket, key |-> key])

\* given: the keyword arguments prefix and limit that are not None.
list_objects(c, bucket, given) ==
    Call(c, [cmd |-> "list_objects", bucket |-> bucket] @@ given)

\* given: the keyword argument bucket when it is not None; limit is 10.
search(c, query, given) ==
    Call(c, [cmd |-> "search", query |-> query, limit |-> 10] @@ given)

-----------------------------------------------------------------------------
(* transaction(): the context manager, as the steps its caller takes *)

\* Entering the with statement: begin_tx, outside the try.
tx_enter(c) == begin_tx(c)

\* The body ended without an exception: commit_tx, inside the try.
tx_exit(c) == commit_tx(c)

\* Faulty variant: rollback_tx is awaited and was never sent.
tx_exceptUnsent(c, e) ==
    /\ ret[c] # Pending
    /\ ret' = [ret EXCEPT ![c] = Pending]
    /\ exc' = [exc EXCEPT ![c] = e]
    /\ UNCHANGED <<wireVars, timeouts>>

\* The body or commit_tx raised e: rollback_tx, with e kept to be re-raised.
tx_except(c, e) ==
    /\ _request(c, [cmd |-> "rollback_tx"])
    /\ exc' = [exc EXCEPT ![c] = e]
    /\ UNCHANGED timeouts

\* Faulty variant: no `except OxiDbError: pass` around rollback_tx.
tx_raiseRollbackError(c) ==
    IF ret[c].st = "raised" THEN ret[c].exc ELSE exc[c]

\* What leaves the with statement once rollback_tx is over: the exception
\* kept, unless rollback_tx raised one that is not an OxiDbError.
tx_raise(c) ==
    IF ret[c].st = "raised" /\ ret[c].exc \notin OxiDbErrors
    THEN ret[c].exc
    ELSE exc[c]

-----------------------------------------------------------------------------

ClientInit ==
    /\ conn     = [c \in Conns |-> "none"]
    /\ inbox    = [c \in Conns |-> <<>>]
    /\ outbox   = [c \in Conns |-> <<>>]
    /\ ret      = [c \in Conns |-> Idle]
    /\ exc      = [c \in Conns |-> "none"]
    /\ timeouts = 0

ClientTypeOK ==
    /\ conn \in [Conns -> {"none", "open", "reset", "closed"}]
    /\ \A c \in Conns :
        /\ \A i \in DOMAIN inbox[c] : inbox[c][i].cmd \in STRING
        /\ \A i \in DOMAIN outbox[c] : outbox[c][i].ok \in BOOLEAN
        /\ ret[c].st \in {"idle", "pending", "returned", "raised"}
        /\ ret[c].st = "raised" => ret[c].exc \in Exceptions
        /\ exc[c] \in Exceptions \cup {"none"}
    /\ timeouts \in 0..MaxTimeouts

=============================================================================

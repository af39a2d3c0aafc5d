-------------------------------- MODULE Wire --------------------------------
(***************************************************************************)
(* The wire between an OxiDbClient and the server: one TCP connection per  *)
(* client, carrying length-prefixed JSON frames in each direction.  A      *)
(* frame is a whole message here; the byte layout is left out.  The two    *)
(* directions are FIFO streams, and nothing in a frame says which request  *)
(* a response answers: the n-th response on a connection answers the n-th  *)
(* request sent on it.                                                     *)
(***************************************************************************)
EXTENDS Integers, Sequences, FiniteSets, TLC

CONSTANTS
    Conns,      \* connections (one OxiDbClient object each)
    Colls,      \* collection names
    Keys,       \* values of the field the workloads query on
    Vals,       \* values of the field the workloads update (a set of integers)
    MaxDocs     \* bound: documents ever inserted in one run

ASSUME /\ IsFiniteSet(Conns) /\ IsFiniteSet(Colls) /\ IsFiniteSet(Keys)
       /\ Vals \subseteq Int
       /\ MaxDocs \in Nat

VARIABLES
    conn,       \* conn[c]: "none" before connect, "open", "reset" once the
                \* server's end is gone, "closed" after close()
    inbox,      \* inbox[c]: requests the client sent, the server has not handled
    outbox      \* outbox[c]: responses the server wrote, the client has not read

wireVars == <<conn, inbox, outbox>>

Ids == 1..MaxDocs

\* A document as a client writes it, and as the server stores and returns it
\* (with the injected _id and _version).  One field is queried (key), one is
\* updated (val); a workload that numbers the documents of a key has seq.
Seqs   == 0..(MaxDocs - 1)
Doc    == [key : Keys, val : Vals] \cup [key : Keys, seq : Seqs, val : Vals]
Stored == [id : Ids, version : Nat \ {0}, key : Keys, val : Vals]
            \cup [id : Ids, version : Nat \ {0}, key : Keys, seq : Seqs, val : Vals]

\* A query document is a function from field names to the values they must
\* equal; {} (here <<>>) matches every document.
\* {field: {"$gte": v}} is the one comparison the model evaluates.
MatchAll  == <<>>
Gte(f, v) == [op |-> "$gte", field |-> f, val |-> v]
Matches(d, q) ==
    IF "op" \in DOMAIN q THEN q.op = "$gte" /\ d[q.field] >= q.val
    ELSE \A f \in DOMAIN q : d[f] = q[f]
Matching(docs, q) == {d \in docs : Matches(d, q)}

\* A query or pipeline the model does not evaluate: one with the other
\* operators ($or, $in, $group).  It selects some of the documents.
SomeOf == [op |-> "some"]

\* A sort document {field: direction}, direction 1 or -1.
SortBy(f, dir) == [by |-> f, dir |-> dir]

\* An update document: {"$set": {field: v}} or {"$inc": {field: n}}, and an
\* operator on a field the model leaves out ($push, $pull, $unset, $rename).
Set(v)     == [op |-> "$set", val |-> v]
Inc(n)     == [op |-> "$inc", val |-> n]
OnRest(op) == [op |-> op, val |-> 0]

\* base64: the text that stands for bytes in a JSON value, and back.
b64encode(bytes) == [b64 |-> bytes]
b64decode(text)  == text.b64

\* Responses.  The data of a response is a record whose fields are the shape
\* of the JSON value: a list of documents is [docs |-> <<...>>].
\* JSON null has no fields; a JSON string is [text |-> s].
None       == <<>>
Text(s)    == [text |-> s]
Ok(data)   == [ok |-> TRUE, data |-> data]
Err(error) == [ok |-> FALSE, error |-> error]

Errors == {"CollectionNotFound", "CollectionExists", "TransactionAlreadyActive",
           "NoActiveTransaction", "TransactionConflict", "DuplicateKey",
           "IndexNotFound", "BucketNotFound", "BucketNotEmpty", "ObjectNotFound"}

\* What a client looks for in the lower-cased text of an error: the words
\* of its name.
Phrases == [TransactionConflict      |-> {"conflict"},
            TransactionAlreadyActive |-> {"already active"},
            NoActiveTransaction      |-> {"no active transaction"}]
             @@ [e \in Errors |-> {}]

=============================================================================

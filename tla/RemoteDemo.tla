----------------------------- MODULE RemoteDemo -----------------------------
(***************************************************************************)
(* examples/python/remote_demo.py: one client that runs every operation of *)
(* the server once, in a fixed order, over one connection.                 *)
(*                                                                         *)
(* pc = <<n, i>> is the statement of main at line n, in its i-th           *)
(* iteration, whose call is under way.  A step of main takes the outcome   *)
(* of that call and makes the next one.  The demo prints what it is        *)
(* answered and reads it in four places only: the listings it loops over,  *)
(* count, get_object and the insert that must be refused.  The lists of    *)
(* the script are cut to two entries each, and its documents to the fields *)
(* the script queries (a content is the bytes of c.encode()):              *)
(*                                                                         *)
(*   users      key: email (and name)                                      *)
(*   articles   key: category   seq: title   val: views                    *)
(*   logs       key: level                                                 *)
(***************************************************************************)
EXTENDS OxiDbClient, BlobStore

CONSTANTS
    db,         \* the connection of the demo
    Clients,    \* the classes db may be an instance of: the methods each has
    RustGuide,  \* the content of rust-guide.txt
    PythonTips, \* the content of python-tips.txt
    Stale,      \* the content of an object an earlier run left
    Garbage     \* the documents inserted before compaction (20 in the script)

VARIABLES
    pc,         \* the statement under way
    objs,       \* what is left of the listing a for loop iterates over
    raised,     \* the exception main ended with
    cls         \* the class of db

demoVars == <<pc, objs, raised, cls>>
vars == <<wireVars, clientVars, serverVars, blobs, demoVars>>

cols     == <<"articles", "users", "logs">>
bucket   == "documents"
users    == <<[key |-> "alice", val |-> 0], [key |-> "bob", val |-> 0]>>
articles == <<[key |-> "programming", seq |-> 0, val |-> 0],
              [key |-> "databases", seq |-> 1, val |-> 0]>>
logs     == <<[key |-> "error", val |-> 0], [key |-> "info", val |-> 0]>>
texts    == <<[key |-> "rust-guide.txt", content |-> RustGuide],
              [key |-> "python-tips.txt", content |-> PythonTips]>>
queries  == <<<<>>, [bucket |-> bucket]>>
words    == <<"Rust", "Go API">>
inTx     == <<[key |-> "test", seq |-> 2, val |-> 0], [key |-> "test", seq |-> 3, val |-> 0]>>
ghost    == [key |-> "void", seq |-> 4, val |-> 0]
temp     == [key |-> "temp", seq |-> 5, val |-> 0]

Entered == <<54, 1>>
Died    == <<0, 0>>
Done    == pc = <<384, 1>>
Running == pc \notin {Entered, Died} /\ ~Done /\ ret[db] # Pending

-----------------------------------------------------------------------------
(* The methods main calls that class OxiDbClient does not define, with the *)
(* payloads of the commands of section 6.                                  *)

Expects == [n \in {100, 102} |-> "list_indexes"] @@ (101 :> "drop_index")
             @@ (354 :> "create_text_index") @@ (358 :> "text_search")

list_indexes(c, k)      == Call(c, [cmd |-> "list_indexes", collection |-> k])
drop_index(c, k, field) == Call(c, [cmd |-> "drop_index", collection |-> k, field |-> field])
create_text_index(c, k, fields) ==
    Call(c, [cmd |-> "create_text_index", collection |-> k, fields |-> fields])
text_search(c, k, query) ==
    Call(c, [cmd |-> "text_search", collection |-> k, query |-> query, limit |-> 5])

-----------------------------------------------------------------------------
(* Control *)

\* The lines of main that call a method of db.  270 is the end of the with
\* block, where transaction() commits.
Lines == {65, 71, 76, 77, 78, 87, 88, 89, 91, 93, 94, 95, 96, 97, 100, 101, 102,
          117, 131, 134, 141, 156, 159, 162, 165, 168, 171, 174, 175, 178, 181,
          182, 183, 190, 191, 193, 194, 196, 197, 199, 201, 203, 204, 207, 208,
          216, 222, 228, 235, 240, 248, 254, 267, 268, 269, 270, 274, 278, 279,
          280, 285, 292, 293, 295, 296, 297, 304, 305, 314, 318, 319, 322, 327,
          346, 354, 358, 369, 370, 371, 379, 380, 381, 382, 384}

\* Faulty variant: the last collection is left out of the loops over them.
TimesShort == (71 :> 2) @@ (117 :> Len(users)) @@ (314 :> Len(texts)) @@ (346 :> Len(queries))
                @@ (358 :> Len(words)) @@ (369 :> Garbage) @@ (379 :> 2)

\* The for loops: how often a line runs, and the body of a loop over a listing.
Times == (71 :> 3) @@ (117 :> Len(users)) @@ (314 :> Len(texts)) @@ (346 :> Len(queries))
           @@ (358 :> Len(words)) @@ (369 :> Garbage) @@ (379 :> 3)
Body  == (76 :> 77) @@ (77 :> 77) @@ (380 :> 381) @@ (381 :> 381)

\* Faulty variant: the delete_bucket of the final cleanup is guarded like
\* the one of line 78.
PassedAlsoLast == {71, 141, 382}

\* try ... except Exception: the lines after which main goes on as if
\* nothing was raised, and where the other guarded lines go on.  The with
\* block is left through the rollback of transaction(), <<267, 2>>.
Passed == {71, 141}
Except == [n \in {76, 77, 78} |-> <<87, 1>>] @@ [n \in {268, 269, 270} |-> <<267, 2>>]

\* What the statement under way comes to: the outcome of its call, after
\* what the method and the statement read of the result.
Needs == [n \in {181, 182, 183, 274, 293, 297} |-> {"count"}]
           @@ [n \in {76, 380} |-> {"objects"}]
Outcome ==
    IF pc[1] = 322 THEN get_object_result(ret[db])
    ELSE Subscript(ret[db], IF pc[1] \in DOMAIN Needs THEN Needs[pc[1]] ELSE {})

\* The listing a for loop still has to go through.
Iter == IF pc[1] \in {76, 380} THEN Outcome.data.objects ELSE objs

\* Faulty variant: the loop over a listing runs its body once.
NormalOnce(p) ==
    IF p[1] \in {76, 380} /\ Iter # <<>> THEN <<Body[p[1]], 1>>
    ELSE <<Min({n \in Lines \ Range(Body) : n > p[1]}), 1>>

\* The statement after p when p raised nothing.
Normal(p) ==
    IF p[1] \in DOMAIN Body /\ Iter # <<>> THEN <<Body[p[1]], 1>>
    ELSE IF p[1] \in DOMAIN Times /\ p[2] < Times[p[1]] THEN <<p[1], p[2] + 1>>
    ELSE <<Min({n \in Lines \ Range(Body) : n > p[1]}), 1>>

\* The statement after the one under way; the rollback of transaction()
\* is followed by its raise.
Then ==
    IF pc = <<267, 2>> THEN Died
    ELSE IF Outcome.st # "raised" \/ pc[1] \in Passed THEN Normal(pc)
    ELSE IF pc[1] \in DOMAIN Except THEN Except[pc[1]]
    ELSE Died

-----------------------------------------------------------------------------
(* The statements, by the sections of main: the call of line n in its     *)
(* i-th iteration.                                                         *)

\* Cleanup from previous runs, and the final cleanup.
Cleanup(n, i) ==
    \/ n = 71 /\ drop_collection(db, cols[i])
    \/ n = 76 /\ list_objects(db, bucket, <<>>)
    \/ n = 77 /\ delete_object(db, bucket, Head(Iter).key)
    \/ n = 78 /\ delete_bucket(db, bucket)

FinalCleanup(n, i) ==
    \/ n = 379 /\ drop_collection(db, cols[i])
    \/ n = 380 /\ list_objects(db, bucket, <<>>)
    \/ n = 381 /\ delete_object(db, bucket, Head(Iter).key)
    \/ n = 382 /\ delete_bucket(db, bucket)
    \/ n = 384 /\ close(db)

\* 1. Collections and indexes.
SchemaSetup(n) ==
    \/ n \in 87..89 /\ create_collection(db, cols[n - 86])
    \/ n = 91 /\ list_collections(db)
    \/ n = 93 /\ create_index(db, "articles", "key")
    \/ n = 94 /\ create_index(db, "articles", "author")
    \/ n = 95 /\ create_unique_index(db, "users", "key")
    \/ n = 96 /\ create_composite_index(db, "articles", {"key", "rating"})
    \/ n = 97 /\ create_index(db, "logs", "key")
    \/ n \in {100, 102} /\ list_indexes(db, "articles")
    \/ n = 101 /\ drop_index(db, "articles", "author")

\* 2. Users one by one, articles and logs in one call each, and a second
\* user with alice's email.
DataInsert(n, i) ==
    \/ n = 117 /\ insert(db, "users", users[i])
    \/ n = 131 /\ insert_many(db, "articles", articles)
    \/ n = 134 /\ insert_many(db, "logs", logs)
    \/ n = 141 /\ insert(db, "users", users[1])

\* 3. Queries: by equality, with operators (any subset matches), sorted and
\* paged.
who     == [n \in {190, 191, 201} |-> "alice"] @@ [n \in {178, 203, 204, 207, 208} |-> "bob"]
counted == [n \in {181, 274, 293, 297} |-> "articles"] @@ (182 :> "users") @@ (183 :> "logs")

Queries(n) ==
    \/ n = 156 /\ find(db, "users", MatchAll)
    \/ n = 159 /\ find(db, "articles", [key |-> "programming"])
    \/ n \in {162, 165, 168} /\ find(db, "articles", SomeOf)
    \/ n = 171 /\ find_with(db, "articles", MatchAll, [sort |-> SortBy("val", -1), limit |-> 5])
    \/ n \in {174, 175} /\ find_with(db, "articles", MatchAll,
                                     [sort |-> SortBy("rating", -1), skip |-> 3 * (n - 174), limit |-> 3])
    \/ n = 178 /\ find_one(db, "users", [key |-> who[n]])
    \/ n \in 181..183 /\ count(db, counted[n], MatchAll)

\* 4. Updates, each read back.
op == (190 :> "$set") @@ (196 :> "$push") @@ (199 :> "$pull") @@ (201 :> "$unset")
        @@ (203 :> "$rename") @@ (207 :> "$set")

Updates(n) ==
    \/ n \in {190, 201, 203} /\ update(db, "users", [key |-> who[n]], OnRest(op[n]))
    \/ n = 193 /\ update(db, "articles", [seq |-> 0], Inc(1))
    \/ n \in {196, 199} /\ update(db, "articles", [seq |-> 0], OnRest(op[n]))
    \/ n = 207 /\ update_one(db, "users", [key |-> who[n]], OnRest(op[n]))
    \/ n \in {191, 204, 208} /\ find_one(db, "users", [key |-> who[n]])
    \/ n \in {194, 197} /\ find_one(db, "articles", [seq |-> 0])

\* 5. Seven pipelines.
Aggregation(n) ==
    \/ n \in {216, 222, 228, 235, 240, 248} /\ aggregate(db, "articles", SomeOf)
    \/ n = 254 /\ aggregate(db, "logs", SomeOf)

\* 6. with db.transaction(): two inserts; then begin_tx, insert, rollback_tx
\* and the look for what was inserted.
Transactions(n, i) ==
    \/ n = 267 /\ i = 1 /\ tx_enter(db)
    \/ n \in {268, 269} /\ insert(db, "articles", inTx[n - 267])
    \/ n = 270 /\ tx_exit(db)
    \/ n = 267 /\ i = 2 /\ tx_except(db, Outcome.exc)
    \/ n = 274 /\ count(db, counted[n], MatchAll)
    \/ n = 278 /\ begin_tx(db)
    \/ n = 279 /\ insert(db, "articles", ghost)
    \/ n = 280 /\ rollback_tx(db)
    \/ n = 285 /\ find_one(db, "articles", [seq |-> ghost.seq])

\* 7. Delete and delete one.
Deletes(n) ==
    \/ n = 292 /\ delete(db, "articles", [key |-> "test"])
    \/ n \in {293, 297} /\ count(db, counted[n], MatchAll)
    \/ n = 295 /\ insert(db, "articles", temp)
    \/ n = 296 /\ delete_one(db, "articles", [key |-> temp.key])

\* 8. Blob storage.
BlobStorage(n, i) ==
    \/ n = 304 /\ create_bucket(db, bucket)
    \/ n = 305 /\ list_buckets(db)
    \/ n = 314 /\ put_object(db, bucket, texts[i].key, texts[i].content, "text/plain",
                              [source |-> "demo"])
    \/ n = 318 /\ list_objects(db, bucket, <<>>)
    \/ n = 319 /\ list_objects(db, bucket, [prefix |-> "python"])
    \/ n = 322 /\ get_object(db, bucket, texts[1].key)
    \/ n = 327 /\ head_object(db, bucket, texts[2].key)

\* 9 and 10. Full-text search over the blobs and over the articles.
FullTextSearch(n, i) ==
    \/ n = 346 /\ search(db, "words", queries[i])
    \/ n = 354 /\ create_text_index(db, "articles", {"seq", "author", "key"})
    \/ n = 358 /\ text_search(db, "articles", words[i])

\* 11. Documents inserted and deleted again, and the log compacted.
Compaction(n) ==
    \/ n = 369 /\ insert(db, "logs", [key |-> "debug", val |-> 0])
    \/ n = 370 /\ delete(db, "logs", [key |-> "debug"])
    \/ n = 371 /\ compact(db, "logs")

Statement(n, i) ==
    \/ Cleanup(n, i) \/ SchemaSetup(n) \/ DataInsert(n, i) \/ Queries(n)
    \/ Updates(n) \/ Aggregation(n) \/ Transactions(n, i) \/ Deletes(n)
    \/ BlobStorage(n, i) \/ FullTextSearch(n, i) \/ Compaction(n) \/ FinalCleanup(n, i)

-----------------------------------------------------------------------------
(* main *)

Has(n) == n \in DOMAIN Expects => Expects[n] \in cls

Start ==
    /\ pc = Entered
    /\ Connect(db)
    /\ pc' = <<65, 1>>
    /\ UNCHANGED <<serverVars, blobs, objs, raised, cls>>

\* The statement under way is over, and the next one makes its call.
Proceed ==
    /\ Running /\ Then # Died /\ Has(Then[1])
    /\ pc' = Then
    /\ Statement(Then[1], Then[2])
    /\ objs' = IF Then[1] \in Range(Body) THEN Tail(Iter) ELSE objs
    /\ UNCHANGED <<serverVars, blobs, raised, cls>>

\* e leaves main: the interpreter exits, and the socket is closed with it.
Exit(e) ==
    /\ pc' = Died
    /\ raised' = e
    /\ close(db)
    /\ UNCHANGED <<serverVars, blobs, objs, cls>>

\* A call outside every try raised, or transaction() raises after its
\* rollback.
Raise ==
    /\ Running /\ Then = Died
    /\ Exit(IF pc = <<267, 2>> THEN tx_raise(db) ELSE Outcome.exc)

\* The next statement names a method db does not have.
AttributeError ==
    /\ Running /\ Then # Died /\ ~Has(Then[1])
    /\ Exit("AttributeError")

main == Start \/ Proceed \/ Raise \/ AttributeError

Receive ==
    /\ Return(db) \/ TimedOut(db)
    /\ UNCHANGED <<serverVars, blobs, demoVars>>

Serve ==
    /\ (Handle(db) /\ UNCHANGED blobs) \/ HandleBlob(db)
    /\ UNCHANGED <<clientVars, demoVars>>

\* What an earlier run that ended early left on the server: some of the
\* collections, users with alice under its unique index.
Left(left) ==
    LET alice   == [id |-> 1, version |-> 1] @@ users[1]
        held(k) == IF k = "users" /\ k \in left THEN {alice} ELSE {}
    IN  /\ colls  = left
        /\ didx   = [k \in Colls |-> held(k)]
        /\ sidx   = [k \in Colls |-> {[kind |-> "Unique", on |-> {"key"}] : d \in held(k)}]
        /\ log    = [k \in Colls |-> IF held(k) = {} THEN <<>>
                                    ELSE <<{[type |-> "Insert", doc |-> alice]}>>]
        /\ nextId = 2
        /\ tx     = [c \in Conns |-> NoTx]

Init ==
    /\ ClientInit
    /\ pc = Entered /\ objs = <<>> /\ raised = "none"
    /\ cls \in Clients
    /\ \E left \in SUBSET Range(cols) : Left(left)
    /\ BlobInit(bucket, {texts[1].key}, Stale)

\* The script has ended: with its summary, or with an exception.
Exits == (Done \/ pc = Died) /\ UNCHANGED vars

Next == main \/ Receive \/ Serve \/ Exits

Spec == Init /\ [][Next]_vars

-----------------------------------------------------------------------------

TypeOK ==
    /\ ClientTypeOK /\ ServerTypeOK /\ BlobTypeOK
    /\ pc \in {Entered, Died} \cup (Lines \X (1..3))
    /\ objs \in Seq([bucket : Buckets, key : ObjKeys])
    /\ raised \in Exceptions \cup {"none"}
    /\ cls \in Clients
    /\ raised = "none" <=> pc # Died

\* The docstring of the script (lines 2 to 5): it connects, creates
\* collections and indexes, inserts, searches and logs every operation.
\* main runs to its summary (line 391) when no call times out.
RunsToSummary == timeouts = 0 => pc # Died

\* With a client that has the methods main calls, main runs to its summary
\* when no call times out, whatever an earlier run left on the server: the
\* cleanup of lines 69 to 80 removes what the schema setup and the inserts
\* would collide with, and the bucket is empty when line 382 deletes it.
DemoCompletes == timeouts = 0 /\ Range(Expects) \subseteq cls => pc # Died

\* Line 143, "ERROR: should have thrown!", is not reached: the insert of a
\* second user with alice's email (line 141) is refused under the unique
\* index of line 95, also when alice is what an earlier run left.
DuplicateRejected ==
    pc = <<141, 1>> /\ timeouts = 0 => ret[db].st # "returned"

\* Line 285, "verify rollback (should be None)": find_one does not find the
\* document inserted between begin_tx and rollback_tx.
RollbackLeavesNothing ==
    pc = <<285, 1>> /\ timeouts = 0 /\ ret[db].st = "returned" => ret[db].data = None

\* Line 322: get_object returns the bytes and the metadata that line 314
\* put under the key, not what an earlier run left there: the content is
\* encoded by put_object, decoded and encoded again by the server, and
\* decoded by get_object.
GetReturnsWhatWasPut ==
    pc = <<322, 1>> /\ timeouts = 0 /\ ret[db].st = "returned" =>
        get_object_result(ret[db]) =
            Returned([data |-> texts[1].content, meta |-> [source |-> "demo"]])

\* The cleanup of lines 378 to 382 leaves nothing of the demo on the
\* server: no collection, no bucket (every listed object is deleted before
\* the bucket is), no open transaction.
LeavesNothingBehind ==
    Done /\ timeouts = 0 => colls = {} /\ blobs = <<>> /\ ~tx[db].open

\* A socket timeout never lets main reach its summary.  Outside a try it
\* ends main at once.  Inside one (lines 70 to 80 and 139 to 146) except
\* Exception swallows it, the response of the call that timed out is still
\* to come, and every later call of db returns the response of the call
\* before it: line 141 can then take the answer of line 134 for an insert
\* that was not refused.  main goes on like this until a method subscripts
\* what it was answered: count (line 181) finds no "count" in the response
\* of find_one, and the KeyError is outside every try.
TimeoutEndsMain == timeouts > 0 => ~Done

=============================================================================

------------------------------ MODULE AcidSuite ------------------------------
(***************************************************************************)
(* python/test_acid.py: main runs the tests of TESTS one after the other   *)
(* against one server started on an empty data directory.  A test opens    *)
(* and closes its own clients, two of them at a time where it sets one     *)
(* transaction against another, and run_test turns every exception that    *)
(* leaves a test into a failure.                                           *)
(*                                                                         *)
(* pc = <<t, j>>: the j-th step of the t-th test is under way (j = 0: the  *)
(* test is about to start).  A step is one statement of the test that      *)
(* opens, uses or closes a client; the i-th step of a line is the i-th     *)
(* iteration of its loop, and for a `with` the entry (1) and the exit (2). *)
(* The asserts that follow a call are evaluated when the step is left.     *)
(* Documents are cut to the fields the tests query:                        *)
(*                                                                         *)
(*   key   name, owner, item, dept, category, or the one field there is    *)
(*   seq   idx, i                                                          *)
(*   val   age, balance, v, salary                                         *)
(***************************************************************************)
EXTENDS OxiDbClient, BlobStore

CONSTANTS
    CompactDocs,    \* bound: the documents test_compact inserts (10), half deleted
    StressCount,    \* bound: STRESS_COUNT (100 000)
    BatchSize,      \* bound: BATCH_SIZE (1000)
    FindLimit,      \* bound: the limit of the find of line 483 (100)
    SlowTests,      \* bound: the tests in which a response may come too late
    Hello, Fox      \* the contents of greeting.txt and doc1.txt

ASSUME /\ Conns \subseteq Nat \ {0}
       /\ {CompactDocs, StressCount, BatchSize, FindLimit} \subseteq Nat \ {0}
       /\ FindLimit <= StressCount \div 2

VARIABLES
    pc,         \* the step under way
    obj,        \* obj[v]: the client the variable v of the test names
    users,      \* the list line 164 keeps while line 165 asks for another
    errors,     \* errors[name]: the exception the test `name` failed with
    unwinding   \* transaction() is in its except clause, rolling back

suiteVars == <<pc, obj, users, errors, unwinding>>
vars == <<wireVars, clientVars, serverVars, blobs, suiteVars>>

TESTS == <<"ping", "crud_no_tx", "find_with_sort_skip_limit", "indexes",
           "collection_management", "compact", "aggregate", "atomicity_commit",
           "atomicity_rollback", "atomicity_disconnect_auto_rollback",
           "consistency_version_conflict", "isolation_uncommitted_not_visible",
           "isolation_concurrent_tx_no_conflict", "tx_insert_update_delete_commit",
           "transaction_context_manager", "transaction_context_manager_rollback",
           "double_begin_rejected", "commit_without_begin_rejected", "blob_storage",
           "full_text_search", "stress_100k_insert", "stress_100k_insert_many",
           "stress_100k_find">>

ASSUME SlowTests \subseteq Range(TESTS)

\* Faulty variant: the three stress tests work on one collection.
StressColsShared == [t \in {TESTS[x] : x \in 21..23} |-> <<"t_stress">>]

StressCols ==
    [stress_100k_insert |-> <<"t_stress">>, stress_100k_insert_many |-> <<"t_stress_batch">>,
     stress_100k_find |-> <<"t_stress_read">>]

\* The collections of each test: what its cleanup drops.
Cols ==
    StressCols @@
    [crud_no_tx |-> <<"t_crud">>, find_with_sort_skip_limit |-> <<"t_opts">>,
     indexes |-> <<"t_idx">>, collection_management |-> <<"t_col_mgmt">>,
     compact |-> <<"t_compact">>, aggregate |-> <<"t_agg">>,
     atomicity_commit |-> <<"t_atom_users", "t_atom_orders">>,
     atomicity_rollback |-> <<"t_rb_users", "t_rb_orders">>,
     atomicity_disconnect_auto_rollback |-> <<"t_disc_users">>,
     consistency_version_conflict |-> <<"t_occ_accounts">>,
     isolation_uncommitted_not_visible |-> <<"t_iso_items">>,
     isolation_concurrent_tx_no_conflict |-> <<"t_conc_a", "t_conc_b">>,
     tx_insert_update_delete_commit |-> <<"t_multi">>,
     transaction_context_manager |-> <<"t_ctx">>,
     transaction_context_manager_rollback |-> <<"t_ctx_rb">>]
    @@ [t \in Range(TESTS) |-> <<>>]

-----------------------------------------------------------------------------
(* The steps of each test, by line *)

Rep(n, times)  == [x \in 1..times |-> n]
Span(a, b)     == [x \in 1..(b - a + 1) |-> a + x - 1]
\* with client() as c, at line n: entry, body, exit.
In(n, body)    == <<n>> \o body \o <<n>>
\* Faulty variant: cleanup drops the first collection it is given.
CleanupFirst(n, t) == Rep(n, 3)
\* cleanup(...) at line n: client(), one drop_collection each, exit.
Cleanup(n, t)  == Rep(n, Len(Cols[t]) + 2)
Batches        == StressCount \div BatchSize

Body ==
    [ping |-> In(152, <<153>>),
     crud_no_tx |-> In(314, <<315, 317, 318, 319, 320, 322, 323, 324, 325, 326>>),
     find_with_sort_skip_limit |-> In(332, Rep(334, 5) \o <<335, 337>>),
     indexes |-> In(344, Span(345, 349)),
     collection_management |-> In(355, Span(356, 359)),
     compact |-> In(364, Rep(366, CompactDocs) \o <<367, 368>>),
     aggregate |-> In(375, <<376, 381>>),
     atomicity_commit |-> In(158, Span(159, 162)) \o In(163, <<164, 165>>),
     atomicity_rollback |-> In(173, Span(174, 177)) \o In(178, <<179, 180>>),
     atomicity_disconnect_auto_rollback |-> Span(186, 189) \o In(191, <<192>>),
     consistency_version_conflict |->
         In(198, <<199>>) \o Span(200, 202) \o In(203, <<204>>) \o <<205, 207, 212>>,
     isolation_uncommitted_not_visible |->
         Span(218, 220) \o In(221, <<222>>) \o <<223, 224>> \o In(225, <<226>>),
     isolation_concurrent_tx_no_conflict |->
         <<233, 233>> \o Span(234, 241) \o In(242, <<243, 244>>),
     tx_insert_update_delete_commit |->
         In(250, <<251, 252>>) \o In(253, Span(254, 258)) \o In(259, <<260>>),
     transaction_context_manager |-> In(270, In(271, <<272, 273>>)) \o In(274, <<275>>),
     transaction_context_manager_rollback |-> In(281, <<283, 284, 285>>) \o In(288, <<289>>),
     double_begin_rejected |-> In(294, <<295, 297>>),
     commit_without_begin_rejected |-> In(304, <<306>>),
     blob_storage |-> In(387, <<388, 389, 391, 393, 395, 396, 398, 399, 400, 401>>),
     full_text_search |-> In(405, <<406, 407, 411, 413, 414>>),
     stress_100k_insert |-> In(428, Rep(431, StressCount) \o <<437>>),
     stress_100k_insert_many |-> In(445, Rep(452, Batches) \o <<457>>),
     stress_100k_find |-> In(465, Rep(472, Batches) \o <<476, 483, 491>>)]

\* The lines of the cleanup before and after the body, where there is one.
Around ==
    [crud_no_tx |-> <<313, 327>>, find_with_sort_skip_limit |-> <<331, 339>>,
     indexes |-> <<343, 350>>, collection_management |-> <<354>>,
     compact |-> <<363, 370>>, aggregate |-> <<374, 383>>,
     atomicity_commit |-> <<157, 168>>, atomicity_rollback |-> <<172, 181>>,
     atomicity_disconnect_auto_rollback |-> <<185, 193>>,
     consistency_version_conflict |-> <<197, 213>>,
     isolation_uncommitted_not_visible |-> <<217, 228>>,
     isolation_concurrent_tx_no_conflict |-> <<232, 245>>,
     tx_insert_update_delete_commit |-> <<249, 265>>,
     transaction_context_manager |-> <<269, 276>>,
     transaction_context_manager_rollback |-> <<280, 290>>,
     stress_100k_insert |-> <<427, 439>>, stress_100k_insert_many |-> <<444, 459>>,
     stress_100k_find |-> <<464, 496>>]
    @@ [t \in Range(TESTS) |-> <<>>]

Cleanups == UNION {Range(Around[t]) : t \in Range(TESTS)}

Steps(t) ==
    LET a == Around[t]
    IN  (IF Len(a) > 0 THEN Cleanup(a[1], t) ELSE <<>>) \o Body[t]
            \o (IF Len(a) > 1 THEN Cleanup(a[2], t) ELSE <<>>)

\* Faulty variant: the tests are numbered from 0.
TestOffByOne(p) == TESTS[p[1] + 1]
\* for name, fn in TESTS: the test that is run p[1]-th.
Test(p)  == TESTS[p[1]]
Line(p)  == IF p[2] = 0 THEN 0 ELSE Steps(Test(p))[p[2]]
Times(p) == Cardinality({x \in 1..Len(Steps(Test(p))) : Steps(Test(p))[x] = Line(p)})
Iter(p)  == Cardinality({x \in 1..p[2] : Steps(Test(p))[x] = Line(p)})

\* The lines `with client() as v:` and `v = client()`, and v.close().
Withs  == {152, 158, 163, 173, 178, 191, 198, 203, 221, 225, 242, 250, 253, 259,
           270, 274, 281, 288, 294, 304, 314, 332, 344, 355, 364, 375, 387, 405,
           428, 445, 465}
Plain  == {186, 200, 218, 233}
Closes == {189, 212, 224, 240, 241}

\* The variable a line works with: c where no other is named.
Named == [c1 |-> {186, 187, 188, 189, 200, 201, 202, 205, 207, 212, 218, 219, 220,
                  223, 224, 234, 236, 238, 240},
          c2 |-> {191, 192, 203, 204, 221, 222, 235, 237, 239, 241},
          c3 |-> {225, 226}, r |-> {242, 243, 244}]
VarOf(n, i) ==
    IF n = 233 THEN <<"c1", "c2">>[i]
    ELSE IF \E v \in DOMAIN Named : n \in Named[v]
         THEN CHOOSE v \in DOMAIN Named : n \in Named[v]
         ELSE "c"
Var(p) == VarOf(Line(p), Iter(p))

Opens(p) == Line(p) \in Withs \cup Cleanups \cup Plain /\ (Iter(p) = 1 \/ Line(p) = 233)
Exits(p) == \/ Line(p) \in Withs \cup Cleanups /\ Iter(p) = Times(p)
            \/ Line(p) \in Closes

-----------------------------------------------------------------------------
(* The statements: the call of the step p, on the client c, in the test   *)
(* whose collections are k.                                                *)

Free == {c \in Conns : conn[c] \in {"none", "closed"} /\ inbox[c] = <<>> /\ ~tx[c].open}

\* client(): a new OxiDbClient, named v.  The connections are a pool: the
\* new one takes the place of one the server has finished with.
client(v) ==
    /\ Free # {}
    /\ conn' = [conn EXCEPT ![Min(Free)] = "open"]
    /\ obj'  = [obj EXCEPT ![v] = __enter__(Min(Free))]
    /\ UNCHANGED <<inbox, outbox, clientVars>>

Person(name, n)  == [key |-> name, val |-> n]
Numbered(name, i) == [key |-> name, seq |-> i, val |-> 0]
Parity(i) == IF i % 2 = 0 THEN "even" ELSE "odd"
\* The batch of insert_many that starts at document `from`.
BatchFrom(from, name) ==
    [x \in 1..Min({BatchSize, StressCount - from}) |-> Numbered(name[from + x - 1], from + x - 1)]

Plumbing(n, i, c, k) ==
    \/ n = 153 /\ ping(c)
    \/ n \in Cleanups /\ drop_collection(c, k[i - 1])
    \/ n = 356 /\ create_collection(c, k[1])
    \/ n \in {357, 359} /\ list_collections(c)
    \/ n = 358 /\ drop_collection(c, k[1])

Crud(n, i, c, k) ==
    \/ n = 315 /\ insert(c, k[1], Person("Alice", 30))
    \/ n = 317 /\ insert_many(c, k[1], <<Person("Bob", 25), Person("Charlie", 35)>>)
    \/ n = 318 /\ find(c, k[1], MatchAll)
    \/ n = 319 /\ find(c, k[1], [key |-> "Alice"])
    \/ n = 320 /\ find_one(c, k[1], [key |-> "Bob"])
    \/ n \in {322, 326} /\ count(c, k[1], MatchAll)
    \/ n = 323 /\ update(c, k[1], [key |-> "Alice"], Set(31))
    \/ n = 324 /\ find_one(c, k[1], [key |-> "Alice"])
    \/ n = 325 /\ delete(c, k[1], [key |-> "Charlie"])
    \/ n = 334 /\ insert(c, k[1], Numbered("item", i - 1))
    \/ n = 335 /\ find_with(c, k[1], MatchAll, [sort |-> SortBy("seq", -1), limit |-> 3])
    \/ n = 337 /\ find_with(c, k[1], MatchAll,
                             [sort |-> SortBy("seq", 1), skip |-> 2, limit |-> 2])
    \/ n = 345 /\ insert(c, k[1], Person("Alice", 30))
    \/ n = 346 /\ create_index(c, k[1], "key")
    \/ n = 347 /\ create_unique_index(c, k[1], "val")
    \/ n = 348 /\ create_composite_index(c, k[1], {"key", "city"})
    \/ n = 349 /\ find(c, k[1], [key |-> "Alice"])
    \/ n = 366 /\ insert(c, k[1], Numbered("i", i - 1))
    \/ n = 367 /\ delete(c, k[1], Gte("seq", CompactDocs \div 2))
    \/ n = 368 /\ compact(c, k[1])
    \/ n = 376 /\ insert_many(c, k[1], <<Person("eng", 100), Person("eng", 120),
                                          Person("sales", 80)>>)
    \/ n = 381 /\ aggregate(c, k[1], [match |-> [key |-> "eng"]])

Atomicity(n, c, k) ==
    \/ n \in {159, 174, 187, 201, 219, 234, 235, 254, 295, 297} /\ begin_tx(c)
    \/ n \in {162, 207, 223, 238, 239, 258, 306} /\ commit_tx(c)
    \/ n = 177 /\ rollback_tx(c)
    \/ n = 160 /\ insert(c, k[1], Person("Alice", 0))
    \/ n = 161 /\ insert(c, k[2], Person("Widget", 0))
    \/ n = 175 /\ insert(c, k[1], Person("Bob", 0))
    \/ n = 176 /\ insert(c, k[2], Person("Gadget", 0))
    \/ n = 188 /\ insert(c, k[1], Person("Ghost", 0))
    \/ n = 199 /\ insert(c, k[1], Person("Alice", 100))
    \/ n = 202 /\ find(c, k[1], [key |-> "Alice"])
    \/ n = 204 /\ update(c, k[1], [key |-> "Alice"], Set(200))
    \/ n = 205 /\ update(c, k[1], [key |-> "Alice"], Set(150))
    \/ n = 220 /\ insert(c, k[1], Person("Secret", 0))
    \/ n = 236 /\ insert(c, k[1], Person("x", 1))
    \/ n = 237 /\ insert(c, k[2], Person("y", 2))
    \/ n \in {164, 179, 192, 222, 226, 243, 260, 275, 289} /\ find(c, k[1], MatchAll)
    \/ n \in {165, 180, 244} /\ find(c, k[2], MatchAll)
    \/ n = 251 /\ insert(c, k[1], Person("Alpha", 1))
    \/ n = 252 /\ insert(c, k[1], Person("Beta", 1))
    \/ n = 255 /\ insert(c, k[1], Person("Gamma", 1))
    \/ n = 256 /\ update(c, k[1], [key |-> "Alpha"], Set(2))
    \/ n = 257 /\ delete(c, k[1], [key |-> "Beta"])

\* with c.transaction(): entry and exit are steps of the line of the with.
Managed(n, i, c, k) ==
    \/ n \in {271, 283} /\ i = 1 /\ tx_enter(c)
    \/ n = 271 /\ i = 2 /\ tx_exit(c)
    \/ n = 272 /\ insert(c, k[1], Person("a", 1))
    \/ n = 273 /\ insert(c, k[1], Person("b", 2))
    \/ n = 284 /\ insert(c, k[1], Person("a", 1))
    \/ n = 285 /\ UNCHANGED <<wireVars, clientVars>>

Blobs(n, c) ==
    \/ n = 388 /\ create_bucket(c, "test-bucket")
    \/ n \in {389, 401} /\ list_buckets(c)
    \/ n = 391 /\ put_object(c, "test-bucket", "greeting.txt", Hello, "text/plain",
                              [author |-> "test"])
    \/ n = 393 /\ get_object(c, "test-bucket", "greeting.txt")
    \/ n = 395 /\ head_object(c, "test-bucket", "greeting.txt")
    \/ n = 396 /\ list_objects(c, "test-bucket", <<>>)
    \/ n = 398 /\ list_objects(c, "test-bucket", [prefix |-> "greet"])
    \/ n = 399 /\ delete_object(c, "test-bucket", "greeting.txt")
    \/ n = 400 /\ delete_bucket(c, "test-bucket")
    \/ n = 406 /\ create_bucket(c, "fts-bucket")
    \/ n = 407 /\ put_object(c, "fts-bucket", "doc1.txt", Fox, "text/plain", <<>>)
    \/ n = 411 /\ search(c, "quick brown fox", [bucket |-> "fts-bucket"])
    \/ n = 413 /\ delete_object(c, "fts-bucket", "doc1.txt")
    \/ n = 414 /\ delete_bucket(c, "fts-bucket")

Stress(n, i, c, k) ==
    \/ n = 431 /\ insert(c, k[1], Numbered("user", i - 1))
    \/ n = 452 /\ insert_many(c, k[1], BatchFrom((i - 1) * BatchSize,
                                      [x \in 0..(StressCount - 1) |-> "user"]))
    \/ n = 472 /\ insert_many(c, k[1], BatchFrom((i - 1) * BatchSize,
                                      [x \in 0..(StressCount - 1) |-> Parity(x)]))
    \/ n \in {437, 457, 476} /\ count(c, k[1], MatchAll)
    \/ n = 483 /\ find_with(c, k[1], [key |-> "even"], [limit |-> FindLimit])
    \/ n = 491 /\ find_one(c, k[1], [seq |-> StressCount \div 2])

Statement(p) ==
    LET n == Line(p)
        i == Iter(p)
        c == obj[Var(p)]
        k == Cols[Test(p)]
    IN  \/ Opens(p) /\ client(Var(p))
        \/ /\ ~Opens(p)
           /\ UNCHANGED obj
           /\ \/ Exits(p) /\ __exit__(c)
              \/ /\ ~Exits(p)
                 /\ \/ Plumbing(n, i, c, k) \/ Crud(n, i, c, k) \/ Atomicity(n, c, k)
                    \/ Managed(n, i, c, k) \/ Blobs(n, c) \/ Stress(n, i, c, k)

-----------------------------------------------------------------------------
(* What the step under way comes to *)

Conn(p) == obj[Var(p)]

\* What its call returned or raised, after what the method reads of it.
Result ==
    IF Line(pc) = 393 THEN get_object_result(ret[Conn(pc)])
    ELSE Subscript(ret[Conn(pc)],
                   IF Line(pc) \in {322, 326, 437, 457, 476} THEN {"count"} ELSE {})

\* The asserts on D, what the call of line n returned.
Asserted(n, D) ==
    /\ n = 153 => D = Text("pong")
    /\ n = 165 => /\ Len(users) = 1 /\ users[1].key = "Alice"
                  /\ Len(D.docs) = 1 /\ D.docs[1].key = "Widget"
    /\ n \in {179, 180, 192, 222, 289} => Len(D.docs) = 0
    /\ n \in {243, 244, 349} => Len(D.docs) = 1
    /\ n = 226 => Len(D.docs) = 1 /\ D.docs[1].key = "Secret"
    /\ n = 260 => /\ {d.key : d \in Range(D.docs)} = {"Alpha", "Gamma"}
                  /\ \A d \in Range(D.docs) : d.key = "Alpha" => d.val = 2
    /\ n = 275 => Len(D.docs) = 2
    /\ n = 315 => "id" \in DOMAIN D
    /\ n = 318 => Len(D.docs) = 3
    /\ n = 319 => D.docs # <<>> /\ D.docs[1].val = 30
    /\ n = 320 => D # None /\ D.val = 25
    /\ n = 322 => D.count = 3
    /\ n = 323 => D.modified = 1
    /\ n = 324 => D # None /\ D.val = 31
    /\ n = 325 => D.deleted = 1
    /\ n = 326 => D.count = 2
    /\ n = 335 => Len(D.docs) = 3 /\ D.docs[1].seq = 4 /\ D.docs[3].seq = 2
    /\ n = 337 => Len(D.docs) = 2 /\ D.docs[1].seq = 2 /\ D.docs[2].seq = 3
    /\ n = 357 => "t_col_mgmt" \in D.names
    /\ n = 359 => "t_col_mgmt" \notin D.names
    /\ n = 368 => D.docs_kept = CompactDocs \div 2
    /\ n = 381 => Len(D.rows) = 2
    /\ n = 389 => "test-bucket" \in D.buckets
    /\ n = 393 => D.data = Hello
    /\ n = 395 => D # None
    /\ n = 396 => "greeting.txt" \in {o.key : o \in Range(D.objects)}
    /\ n = 398 => Len(D.objects) >= 1
    /\ n = 401 => "test-bucket" \notin D.buckets
    /\ n = 411 => D.hits # <<>> /\ D.hits[1].key = "doc1.txt"
    /\ n \in {437, 457, 476} => D.count = StressCount
    /\ n = 483 => Len(D.docs) = FindLimit /\ \A d \in Range(D.docs) : d.key = "even"
    /\ n = 491 => D # None /\ D.seq = StressCount \div 2

\* try ... except: the exceptions a line is left with as if nothing was
\* raised; the calls that must raise (assert False follows them); and the
\* words lines 300 and 309 look for in the text of what was raised.
Swallowed(n) ==
    IF n \in Cleanups \cup {297, 306} THEN OxiDbErrors
    ELSE IF n = 207 THEN {"TransactionConflictError"}
    ELSE {}
MustRaise == {207, 297, 306}
Says      == (297 :> "already active") @@ (306 :> "no active transaction")

\* The exception that leaves the statement under way, "none" if none does.
Raises ==
    LET n == Line(pc)
        r == Result
    IN  IF pc[2] = 0 \/ Opens(pc) \/ Exits(pc) THEN "none"
        ELSE IF n = 285 THEN "ValueError"
        ELSE IF r.st = "raised" /\ r.exc \notin Swallowed(n) THEN r.exc
        ELSE IF r.st = "raised"
             THEN IF n \in DOMAIN Says /\ Says[n] \notin Phrases[r.msg]
                  THEN "AssertionError" ELSE "none"
        ELSE IF n \in MustRaise \/ ~Asserted(n, r.data) THEN "AssertionError"
        ELSE "none"

\* The statements inside the try of transaction(): the body of the with,
\* and the commit of its exit.
InTransaction(p) ==
    Line(p) \in {272, 273, 284, 285} \/ (Line(p) = 271 /\ Iter(p) = 2)

\* The exception that leaves the step: after the rollback of transaction()
\* what it re-raises, which line 286 catches when it is the ValueError.
Leaving ==
    IF ~unwinding THEN Raises
    ELSE IF tx_raise(Conn(pc)) = "ValueError" /\ Line(pc) \in 283..285 THEN "none"
    ELSE tx_raise(Conn(pc))

\* The variables whose client is closed when an exception leaves step p:
\* that of the with block p is in, and c1 in the finally of line 211.
Unwound(p) ==
    LET steps == Steps(Test(p))
        held  == {x \in 1..p[2] : /\ steps[x] \in Withs \cup Cleanups
                                  /\ \E y \in (p[2] + 1)..Len(steps) : steps[y] = steps[x]}
    IN  {VarOf(steps[x], 1) : x \in held} \cup {"c1" : n \in {Line(p)} \cap {207}}

-----------------------------------------------------------------------------
(* main and run_test *)

Vars    == DOMAIN Named \cup {"c"}
NoObj   == [v \in Vars |-> 0]
Done    == pc[1] > Len(TESTS)
Running == ~Done /\ \A c \in Conns : ret[c] # Pending

\* The statement under way is over, and the next one of the test is made.
Step ==
    LET next == <<pc[1], pc[2] + 1>>
    IN  /\ Running /\ Leaving = "none"
        /\ pc[2] < Len(Steps(Test(pc)))
        /\ pc' = next
        /\ Statement(next)
        /\ users' = IF Line(pc) = 164 THEN Result.data.docs ELSE users
        /\ unwinding' = FALSE
        /\ UNCHANGED <<serverVars, blobs, errors>>

\* The body or the commit of transaction() raised: rollback_tx.
Rollback ==
    /\ Running /\ ~unwinding
    /\ Raises # "none" /\ InTransaction(pc)
    /\ tx_except(Conn(pc), Raises)
    /\ unwinding' = TRUE
    /\ UNCHANGED <<serverVars, blobs, pc, obj, users, errors>>

\* run_test: fn() returned.
Pass ==
    /\ Running /\ Leaving = "none"
    /\ pc[2] = Len(Steps(Test(pc)))
    /\ pc' = <<pc[1] + 1, 0>>
    /\ obj' = NoObj /\ users' = <<>>
    /\ UNCHANGED <<wireVars, clientVars, serverVars, blobs, errors, unwinding>>

\* run_test: an exception left fn(), through the __exit__ of the with
\* block it was raised in.  The clients of the other variables stay open:
\* errors keeps the traceback, and the traceback the frame.
Fail ==
    /\ Running /\ Leaving # "none"
    /\ unwinding \/ ~InTransaction(pc)
    /\ errors' = errors @@ (Test(pc) :> Leaving)
    /\ pc' = <<pc[1] + 1, 0>>
    /\ obj' = NoObj /\ users' = <<>> /\ unwinding' = FALSE
    /\ \/ Unwound(pc) = {} /\ UNCHANGED <<wireVars, clientVars>>
       \/ \E v \in Unwound(pc) : __exit__(obj[v])
    /\ UNCHANGED <<serverVars, blobs>>

\* main: every test was run; the results are printed and the server is
\* stopped.
Results == Done /\ UNCHANGED vars

main == Step \/ Rollback \/ Pass \/ Fail \/ Results

\* recv returns the response, or gives up after the timeout of the socket.
Receive ==
    /\ \E c \in Conns : Return(c) \/ (~Done /\ Test(pc) \in SlowTests /\ TimedOut(c))
    /\ UNCHANGED <<serverVars, blobs, suiteVars>>

Serve ==
    /\ \E c \in Conns : (Handle(c) /\ UNCHANGED blobs) \/ HandleBlob(c)
    /\ UNCHANGED <<clientVars, suiteVars>>

\* start_server: a server on a data directory made for this run.
Init ==
    /\ ClientInit /\ ServerInit /\ blobs = <<>>
    /\ pc = <<1, 0>> /\ obj = NoObj /\ users = <<>>
    /\ errors = <<>> /\ unwinding = FALSE

Next == main \/ Receive \/ Serve

Spec == Init /\ [][Next]_vars

-----------------------------------------------------------------------------

MaxSteps == 20 + CompactDocs + StressCount

TypeOK ==
    /\ ClientTypeOK /\ ServerTypeOK /\ BlobTypeOK
    /\ pc \in (1..(Len(TESTS) + 1)) \X (0..MaxSteps)
    /\ obj \in [Vars -> Conns \cup {0}]
    /\ users \in Seq(Stored)
    /\ DOMAIN errors \subseteq {TESTS[x] : x \in 1..(pc[1] - 1)}
    /\ \A t \in DOMAIN errors : errors[t] \in Exceptions
    /\ unwinding \in BOOLEAN

Flaky  == {"full_text_search"}
Passed == {TESTS[x] : x \in 1..(pc[1] - 1)} \ DOMAIN errors
Failed == DOMAIN errors \ Flaky
BucketOf == [blob_storage |-> "test-bucket", full_text_search |-> "fts-bucket"]

\* The suite passes against the server of the design specification: with
\* no socket timeout, no assert of a test fails and no call raises what
\* its test does not expect (run_test, lines 126 to 132, counts no
\* failure), but for test_full_text_search, whose sleep of line 410 may
\* be over before the object is indexed.
SuitePasses == timeouts = 0 => Failed = {}

\* A socket timeout fails the test it happens in and no other: what the
\* test left behind (its collections, a request the server handles when
\* a later test is under way, a client that was never closed and its open
\* transaction) changes nothing a later test asserts, because every test
\* works on collections of its own and drops them before it starts
\* (cleanup, lines 138 to 144).
FailuresStayLocal ==
    timeouts > 0 => Cardinality(Failed) <= timeouts

\* A test that passed has left nothing on the server: its collections are
\* dropped, those that only a rolled-back or abandoned transaction
\* inserted into included, and its bucket is deleted (the cleanup of its
\* last line, and lines 400 and 414).
SuiteCleansUp ==
    \A t \in Passed :
        /\ Range(Cols[t]) \cap colls = {}
        /\ t \in DOMAIN BucketOf => BucketOf[t] \notin DOMAIN blobs

=============================================================================

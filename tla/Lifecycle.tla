------------------------------ MODULE Lifecycle ------------------------------
(***************************************************************************)
(* examples/python/test_collection_lifecycle.py: main probes the server    *)
(* and runs four tests one after the other.  A test seeds its collections  *)
(* over a connection of its own, starts its threads, sets the event `stop` *)
(* after a while, joins the threads and cleans up.  The threads insert     *)
(* into, read, drop and create the collections of the test in loops that   *)
(* end when they see `stop`.                                               *)
(*                                                                         *)
(* stmt = <<t, j>>: the j-th statement of main in test t is under way      *)
(* (t = 0: the probe; j = 0: the test is about to start).  pc[w] is where  *)
(* thread w is: before its connect, at the head of its loop, in the j-th   *)
(* statement of the loop's body, or done.  Statements are named by their   *)
(* line.  Of the counters each test keeps, the model has the ones its      *)
(* verdict reads.  Documents are cut to two fields: key is the worker (the *)
(* kind of document where there is none), val is seq or j.                 *)
(***************************************************************************)
EXTENDS OxiDbClient, Server

CONSTANTS
    Role,           \* Role[w]: the test that starts thread w, its target, its worker_id
    Rounds,         \* bound: the iterations of a while loop
    SeedDocs,       \* bound: SEED_DOCS (200) and STABLE_DOCS (200)
    Reseed,         \* bound: the documents of a re-seed (20)
    ChurnDocs,      \* bound: DOCS_PER_THREAD (30)
    VolatileDocs,   \* bound: the inserts of a round of volatile_worker (10)
    SlowTests,      \* bound: the tests in which a socket may time out (0: the probe)
    JoinMayExpire   \* whether t.join(timeout=10) may return with t running

Threads == DOMAIN Role
Targets == {"writer", "dropper", "reader", "dropper_reseeder", "churn_worker",
            "volatile_worker", "stable_reader"}

ASSUME /\ Role \in [Threads -> [test : 1..4, target : Targets, id : Nat]]
       /\ Conns \subseteq Nat \ {0}
       /\ Threads \cup {"seed", "reseed", "stable"} \subseteq Keys
       /\ {Rounds, SeedDocs, Reseed, ChurnDocs, VolatileDocs} \subseteq Nat \ {0}
       /\ SlowTests \subseteq 0..4
       /\ JoinMayExpire \in BOOLEAN

VARIABLES
    stmt,       \* the statement of main under way
    db,         \* the client main works with (setup, cleanup, final, probe)
    final_docs, \* what the find of line 543 returned
    results,    \* what the tests returned, in order
    died,       \* an exception has ended main
    pc,         \* pc[w]: where thread w is
    client,     \* client[w]: the client of thread w
    round,      \* round[w]: the iterations w has made
    seq,        \* seq[w]: the seq of a writer
    stats       \* stats[t]: the counters of test t

mainVars   == <<stmt, db, final_docs, results, died>>
threadVars == <<pc, client, round, seq>>
vars == <<wireVars, clientVars, serverVars, mainVars, threadVars, stats>>

Got(c)    == ret[c].st = "returned"
Failed(c) == ret[c].st = "raised"
At(a, j)  == [at |-> a, j |-> j]

-----------------------------------------------------------------------------
(* The statements, by line *)

Times(n, k) == [x \in 1..k |-> n]

\* main: the probe, and the four tests.
Lines ==
    (0 :> <<617, 618, 619>>) @@
    << <<79, 81, 84, 85, 144, 147, 150, 155, 157, 160>>,
       <<200, 202, 205>> \o Times(207, SeedDocs)
           \o <<208, 274, 277, 280, 284, 286, 289>>,
       <<393, 395>>,
       <<440, 443, 446, 443, 446>> \o Times(453, SeedDocs)
           \o <<455, 531, 534, 537, 542, 543, 554, 554, 557>> >>

\* The body of each thread's loop; churn_worker runs its body once.
Body ==
    [writer |-> <<96>>, dropper |-> <<116, 122>>, reader |-> <<219>>,
     dropper_reseeder |-> <<245, 251>> \o Times(254, Reseed),
     churn_worker |-> <<338, 341>> \o Times(348, ChurnDocs) \o <<352, 372>>,
     volatile_worker |-> Times(473, VolatileDocs) \o <<479, 480>>,
     stable_reader |-> <<497>>]

StartLine == <<144, 274, 393, 531>>
StopLine  == <<147, 277, 0, 534>>
JoinLine  == <<150, 280, 395, 537>>

\* The calls in a try of their own that passes over OxiDbError.
Tried == {81, 116, 157, 202, 245, 286, 338, 443, 554}

\* The collections of each test, and the one a thread works on.
Cols ==
    << <<"lifecycle_write">>, <<"lifecycle_read">>, <<"churn_0", "churn_1">>,
       <<"isolation_stable", "isolation_volatile">> >>

\* Faulty variant: every churn_worker takes the same name.
ColOfShared(w) == Cols[Role[w].test][1]

ColOf(w) ==
    CASE Role[w].target = "churn_worker"    -> Cols[3][Role[w].id + 1]
      [] Role[w].target = "volatile_worker" -> Cols[4][2]
      [] OTHER                              -> Cols[Role[w].test][1]

Occurrence(lines, j) == Cardinality({x \in 1..j : lines[x] = lines[j]})

\* Faulty variant: the seq of the seeded documents starts at 1.
SeedFromOne(kind, i) == [key |-> kind, val |-> i]

\* The i-th document main seeds a collection with: seq is i - 1.
Seed(kind, i) == [key |-> kind, val |-> i - 1]

\* The call main makes at line n, for the i-th time.
MainCall(n, i, c) ==
    \/ n = 618 /\ ping(c)
    \/ n \in {81, 157} /\ drop_collection(c, Cols[1][1])
    \/ n = 84 /\ create_collection(c, Cols[1][1])
    \/ n \in {202, 286} /\ drop_collection(c, Cols[2][1])
    \/ n = 205 /\ create_collection(c, Cols[2][1])
    \/ n = 207 /\ insert(c, Cols[2][1], Seed("seed", i))
    \/ n \in {443, 554} /\ drop_collection(c, Cols[4][i])
    \/ n = 446 /\ create_collection(c, Cols[4][i])
    \/ n = 453 /\ insert(c, Cols[4][1], Seed("stable", i))
    \/ n = 543 /\ find(c, Cols[4][1], MatchAll)

MainCalls == {81, 84, 157, 202, 205, 207, 286, 443, 446, 453, 543, 554, 618}

\* The call thread w makes at line n, for the i-th time.
ThreadCall(w, n, i, c) ==
    \/ n = 96 /\ insert(c, ColOf(w), [key |-> w, val |-> seq[w]])
    \/ n \in {116, 245, 338, 372, 479} /\ drop_collection(c, ColOf(w))
    \/ n \in {122, 251, 341, 480} /\ create_collection(c, ColOf(w))
    \/ n \in {219, 352, 497} /\ find(c, ColOf(w), MatchAll)
    \/ n = 254 /\ insert(c, ColOf(w), [key |-> "reseed", val |-> i - 1])
    \/ n \in {348, 473} /\ insert(c, ColOf(w), [key |-> w, val |-> i - 1])

\* connect(): a new OxiDbClient.  The connections are a pool: the new one
\* takes the place of one the server has finished with.
Free == {c \in Conns : conn[c] \in {"none", "closed"} /\ inbox[c] = <<>>}

connect(c) ==
    /\ c = Min(Free)
    /\ conn' = [conn EXCEPT ![c] = "open"]
    /\ UNCHANGED <<inbox, outbox, clientVars>>

-----------------------------------------------------------------------------
(* The threads *)

Target(w) == Role[w].target
Loops(w)  == Target(w) # "churn_worker"
LineOf(w) == Body[Target(w)][pc[w].j]

\* Whether main has reached line n of test t.
Reached(t, n) ==
    \/ stmt[1] > t
    \/ stmt[1] = t /\ \E j \in 1..stmt[2] : Lines[t][j] = n

Started(w) == Reached(Role[w].test, StartLine[Role[w].test])
Stopped(w) == Reached(Role[w].test, StopLine[Role[w].test])
Over(w)    == pc[w].at = "done"
Exited     == died \/ stmt[1] = 5

NoStats ==
    << [panics |-> 0, drops |-> 0], [panics |-> 0, corrupt |-> 0],
       [ok |-> 0, data_mismatch |-> 0],
       [panics |-> 0, stable_wrong_count |-> 0, stable_corrupt |-> 0] >>

Tally(t, name) == stats' = [stats EXCEPT ![t][name] = @ + 1]

\* The function of thread w returns or is left by an exception: its client
\* is closed, and its locals are no more.
Ends(w) ==
    /\ close(client[w])
    /\ pc' = [pc EXCEPT ![w] = At("done", 0)]
    /\ client' = [client EXCEPT ![w] = 0]
    /\ round' = [round EXCEPT ![w] = 0]
    /\ seq' = [seq EXCEPT ![w] = 0]

\* checksum_doc(d) is the checksum d was inserted with: d is a document
\* of a churn_worker or of the stable collection, as it was inserted.
\* In the stable collection it is the checksum kept for its seq as well.
Checksummed(d) == d.key = "stable" \/ (d.key \in Threads /\ ~Loops(d.key))
Seeded(d)      == d.key = "stable"

\* What a thread counts of an answer, of the counters a verdict reads: the
\* drops of dropper, a document the reader finds without its fields, a
\* list of churn_worker of another length or with a checksum that fails,
\* its success, and the lists of stable_reader of another length, or with
\* a document that is not the seeded one.
Counts(w, n, r) ==
    LET docs == Range(r.data.docs)
        len  == Len(r.data.docs)
    IN  CASE n = 116 -> "drops"
          [] n = 219 /\ \E d \in docs : ~({"key", "val"} \subseteq DOMAIN d) -> "corrupt"
          [] n = 352 /\ (len # ChurnDocs \/ \E d \in docs : ~Checksummed(d))
                -> "data_mismatch"
          [] n = 372 -> "ok"
          [] n = 497 /\ len # SeedDocs -> "stable_wrong_count"
          [] n = 497 /\ len = SeedDocs /\ \E d \in docs : ~Seeded(d) -> "stable_corrupt"
          [] OTHER -> "none"

\* The thread makes its client.
Begins(w) ==
    /\ pc[w] = At("start", 0) /\ Started(w)
    /\ \E c \in Free : connect(c) /\ client' = [client EXCEPT ![w] = c]
    /\ pc' = [pc EXCEPT ![w] = At("head", 0)]
    /\ UNCHANGED <<serverVars, mainVars, round, seq, stats>>

\* The head of the loop: the thread sees `stop` and closes its client, or
\* makes the first call of the body.
Loop(w) ==
    LET leaves == IF Loops(w) THEN Stopped(w) ELSE round[w] = 1
    IN  /\ pc[w] = At("head", 0)
        /\ \/ leaves /\ Ends(w)
           \/ /\ ~leaves /\ round[w] < Rounds
              /\ ThreadCall(w, Body[Target(w)][1], 1, client[w])
              /\ pc' = [pc EXCEPT ![w] = At("body", 1)]
              /\ UNCHANGED <<client, round, seq>>
        /\ UNCHANGED <<serverVars, mainVars, stats>>

\* The call returned, or raised an OxiDbError its try passes over: the
\* thread counts, and makes the next call of the body or is back at the
\* head.  After its inserts volatile_worker drops and creates if
\* random.random() < 0.3.
GoesOn(w) ==
    LET n    == LineOf(w)
        c    == client[w]
        last == pc[w].j = Len(Body[Target(w)])
        what == IF Got(c) THEN Counts(w, n, ret[c]) ELSE "none"
    IN  /\ pc[w].at = "body"
        /\ Got(c) \/ (Failed(c) /\ n \in Tried /\ ret[c].exc \in OxiDbErrors)
        /\ IF what = "none" THEN UNCHANGED stats ELSE Tally(Role[w].test, what)
        /\ seq' = [seq EXCEPT ![w] = IF n = 96 THEN @ + 1 ELSE @]
        /\ \/ /\ ~last
              /\ ThreadCall(w, Body[Target(w)][pc[w].j + 1],
                            Occurrence(Body[Target(w)], pc[w].j + 1), c)
              /\ pc' = [pc EXCEPT ![w] = At("body", pc[w].j + 1)]
              /\ UNCHANGED round
           \/ /\ last \/ (n = 473 /\ Body[Target(w)][pc[w].j + 1] = 479)
              /\ pc' = [pc EXCEPT ![w] = At("head", 0)]
              /\ round' = [round EXCEPT ![w] = @ + 1]
              /\ UNCHANGED <<wireVars, clientVars>>
        /\ UNCHANGED <<serverVars, mainVars, client>>

\* `except OxiDbError` of the loop: the error is counted (in a counter no
\* verdict reads) and the thread is back at the head; a churn_worker
\* closes its client and ends.
Excepts(w) ==
    LET c == client[w]
    IN  /\ pc[w].at = "body"
        /\ Failed(c) /\ LineOf(w) \notin Tried /\ ret[c].exc \in OxiDbErrors
        /\ \/ /\ Loops(w)
              /\ pc' = [pc EXCEPT ![w] = At("head", 0)]
              /\ round' = [round EXCEPT ![w] = @ + 1]
              /\ UNCHANGED <<wireVars, clientVars, client, seq>>
           \/ ~Loops(w) /\ Ends(w)
        /\ UNCHANGED <<serverVars, mainVars, stats>>

\* Any other exception: `except Exception` counts a panic, the loop is
\* left and the client closed (a churn_worker counts an error, which no
\* verdict reads).  dropper and dropper_reseeder have no such clause: the
\* exception ends the thread uncounted, and the socket of its client is
\* closed when the client is freed.
Panics(w) ==
    /\ pc[w].at = "body"
    /\ Failed(client[w]) /\ ret[client[w]].exc \notin OxiDbErrors
    /\ Ends(w)
    /\ IF Target(w) \in {"writer", "reader", "volatile_worker", "stable_reader"}
       THEN Tally(Role[w].test, "panics")
       ELSE UNCHANGED stats
    /\ UNCHANGED <<serverVars, mainVars>>

-----------------------------------------------------------------------------
(* main *)

Line(s) == Lines[s[1]][s[2]]

\* The line of the statement under way (0: none yet).
Prev == IF stmt[2] = 0 THEN 0 ELSE Line(stmt)

Settled == Prev \in MainCalls => ret[db] # Pending

\* An exception leaves the statement: none of the tests catches one, and
\* the try of the probe ends in sys.exit(1).
Raises ==
    /\ Prev \in MainCalls /\ Failed(db)
    /\ ~(Prev \in Tried /\ ret[db].exc \in OxiDbErrors)

\* Faulty variant: the threads are not waited for.
JoinedAtOnce(t) == TRUE

\* t.join(timeout) returns, for every thread of test t.
Joined(t) == JoinMayExpire \/ \A w \in Threads : Role[w].test = t => Over(w)

\* The statement of line n, for the i-th time.
Does(n, i) ==
    \/ /\ n \in {79, 155, 200, 284, 440, 542, 617}
       /\ \E c \in Free : connect(c) /\ db' = c
    \/ /\ n \in {85, 160, 208, 289, 455, 557, 619}
       /\ close(db) /\ UNCHANGED db
    \/ /\ n \in Range(StartLine) \cup Range(StopLine)
       /\ UNCHANGED <<wireVars, clientVars, db>>
    \/ /\ n \in Range(JoinLine) /\ Joined(stmt[1])
       /\ UNCHANGED <<wireVars, clientVars, db>>
    \/ /\ n \in MainCalls
       /\ MainCall(n, i, db) /\ UNCHANGED db

\* The verdict of test t.
Verdict(t) ==
    LET s == stats[t]
    IN  \/ t = 1 /\ s.panics = 0 /\ s.drops # 0
        \/ t = 2 /\ s.panics = 0 /\ s.corrupt = 0
        \/ t = 3 /\ s.ok = Cardinality({w \in Threads : Role[w].test = 3})
                 /\ s.data_mismatch = 0
        \/ t = 4 /\ s.panics = 0 /\ s.stable_wrong_count = 0 /\ s.stable_corrupt = 0
                 /\ Len(final_docs) = SeedDocs
                 /\ \A d \in Range(final_docs) : Seeded(d)

Returning == stmt[2] = Len(Lines[stmt[1]])

\* The statement under way is over, and the next one of the test is made.
Step ==
    LET next == <<stmt[1], stmt[2] + 1>>
    IN  /\ ~Exited /\ ~Returning
        /\ Settled /\ ~Raises
        /\ stmt' = next
        /\ final_docs' = IF Prev = 543 THEN ret[db].data.docs ELSE final_docs
        /\ Does(Line(next), Occurrence(Lines[next[1]], next[2]))
        /\ UNCHANGED <<serverVars, threadVars, results, died, stats>>

\* The probe is over, or a test returns ok to main; its locals are no more.
Returns ==
    /\ ~Exited /\ Returning
    /\ results' = IF stmt[1] = 0 THEN results ELSE Append(results, Verdict(stmt[1]))
    /\ stmt' = <<stmt[1] + 1, 0>>
    /\ stats' = [t \in 1..4 |-> IF t = stmt[1] THEN NoStats[t] ELSE stats[t]]
    /\ db' = 0 /\ final_docs' = <<>>
    /\ UNCHANGED <<wireVars, clientVars, serverVars, threadVars, died>>

\* The exception ends main, and with it the threads, which are daemons.
Dies ==
    /\ ~Exited
    /\ Settled /\ Raises
    /\ died' = TRUE
    /\ UNCHANGED <<wireVars, clientVars, serverVars, threadVars, stats,
                   stmt, db, final_docs, results>>

\* sys.exit: the run is over.
Exits == Exited /\ UNCHANGED vars

main == Step \/ Returns \/ Dies \/ Exits

Thread(w) ==
    /\ ~Exited
    /\ Begins(w) \/ Loop(w) \/ GoesOn(w) \/ Excepts(w) \/ Panics(w)

\* recv returns the response, or gives up after the timeout of the socket.
Receive(c) ==
    /\ Return(c) \/ (~died /\ stmt[1] \in SlowTests /\ TimedOut(c))
    /\ UNCHANGED <<serverVars, mainVars, threadVars, stats>>

Serve(c) ==
    /\ Handle(c)
    /\ UNCHANGED <<clientVars, mainVars, threadVars, stats>>

\* A server that has none of the collections, as every run that reaches
\* its end leaves it.
Init ==
    /\ ClientInit /\ ServerInit
    /\ stmt = <<0, 0>> /\ db = 0 /\ final_docs = <<>>
    /\ results = <<>> /\ died = FALSE
    /\ pc = [w \in Threads |-> At("start", 0)]
    /\ client = [w \in Threads |-> 0]
    /\ round = [w \in Threads |-> 0]
    /\ seq = [w \in Threads |-> 0]
    /\ stats = NoStats

Next ==
    \/ main
    \/ \E w \in Threads : Thread(w)
    \/ \E c \in Conns : Receive(c) \/ Serve(c)

Spec == Init /\ [][Next]_vars

-----------------------------------------------------------------------------

TypeOK ==
    /\ ClientTypeOK /\ ServerTypeOK
    /\ stmt \in (0..5) \X (0..(14 + SeedDocs))
    /\ db \in Conns \cup {0}
    /\ final_docs \in Seq(Stored)
    /\ results \in Seq(BOOLEAN) /\ Len(results) <= 4
    /\ died \in BOOLEAN
    /\ \A w \in Threads :
        /\ pc[w].at \in {"start", "head", "body", "done"}
        /\ pc[w].j \in 0..Len(Body[Target(w)])
        /\ client[w] \in Conns \cup {0}
        /\ round[w] \in 0..Rounds /\ seq[w] \in 0..round[w]
    /\ \A t \in 1..4 : \A f \in DOMAIN stats[t] : stats[t][f] \in 0..(Rounds * Cardinality(Threads))

\* Collection Churn passes (line 420) when no socket timed out: the
\* collections f"churn_{worker_id}" are each worker's own, so a worker
\* reads back exactly what it inserted between its create and its drop,
\* whatever the other workers do meanwhile.
ChurnSucceeds == timeouts = 0 /\ Len(results) >= 3 => results[3]

\* What stable_reader and the final check of lines 543 to 548 count is
\* zero: every find on the stable collection returns the seeded documents
\* and no other, while volatile_worker inserts into, drops and re-creates
\* the volatile collection.
StableUntouched ==
    /\ stats[4].stable_wrong_count = 0 /\ stats[4].stable_corrupt = 0
    /\ stmt[1] = 4 /\ Reached(4, 554) =>
        Len(final_docs) = SeedDocs /\ \A d \in Range(final_docs) : Seeded(d)

\* The tests clean up after themselves when no socket timed out: once a
\* test has returned none of its collections exists.  The threads are
\* joined before the cleanup of lines 155 to 160, 284 to 289 and 552 to
\* 557 drops, so no insert or create of theirs comes after the drop.
LeavesNothing ==
    timeouts = 0 =>
        \A t \in DOMAIN results : Range(Cols[t]) \cap colls = {}

=============================================================================

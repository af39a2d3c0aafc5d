---------------------------- MODULE CrashRecovery ----------------------------
(***************************************************************************)
(* main of examples/python/test_crash_recovery.py: the three tests, one    *)
(* after the other, on one data directory.  test_committed_data_survives   *)
(* and test_uncommitted_lost are single-threaded scripts that start the    *)
(* server, write, kill it, start it again and read; what they leave in the *)
(* logs is what test_crash_during_writes (module CrashWrites) starts on.   *)
(*                                                                         *)
(* stmt = <<t, j>>: the j-th statement of test t is under way (j = 0: the  *)
(* test is about to start).  A statement is a line that starts or ends the *)
(* server or that makes, uses or closes a client; the i-th statement of a  *)
(* line is the i-th iteration of its loop.  Documents are cut to what the  *)
(* checks read: val is seq, key is status ("payload" where there is none). *)
(***************************************************************************)
EXTENDS CrashWrites

CONSTANTS
    client,         \* client[n]: the OxiDbClient made at line n
    NumDocs,        \* bound: NUM_DOCS (500)
    NumCommitted,   \* bound: NUM_COMMITTED (100)
    NumUncommitted  \* bound: NUM_UNCOMMITTED (100)

ASSUME /\ client \in [{147, 186, 262, 296} -> Conns \ (Workers \cup {Setup, Check})]
       /\ IsInjective(client)
       /\ {NumDocs, NumCommitted, NumUncommitted} \subseteq 1..Rounds
       /\ {"payload", "committed", "uncommitted"} \subseteq Keys

VARIABLES
    stmt,       \* the statement under way
    read,       \* read[n]: what the call of line n returned
    results     \* what the tests returned, in order

scriptVars == <<stmt, read, results>>
mainVars   == <<allVars, scriptVars>>

-----------------------------------------------------------------------------
(* The statements of each test, by line *)

Times(n, k) == [x \in 1..k |-> n]

Lines ==
    << <<143, 147, 149, 152>> \o Times(164, NumDocs)
           \o <<168, 172, 177, 182, 186, 187, 188, 189, 190>>,
       <<258, 262, 265, 268, 265, 268>> \o Times(272, NumCommitted) \o <<276>>
           \o Times(278, NumUncommitted)
           \o <<281, 287, 292, 296, 297, 300, 304, 305>>,
       <<344>> >>

Line(s) == Lines[s[1]][s[2]]
Iter(s) == Cardinality({x \in 1..s[2] : Lines[s[1]][x] = Line(s)})

\* The client the variable of line n names: the last one made.
Of(n) == client[Max({m \in DOMAIN client : m <= n})]

\* The lines that call the server, the ones of them in a try that passes
\* over OxiDbError, and the ones whose value is kept.
Calls == {149, 152, 164, 168, 187, 188, 265, 268, 272, 276, 278, 281, 297, 300}
Tried == {149, 265, 300}
Reads == {168, 187, 188, 281, 297, 300}

\* The statement of line n, for the i-th time.
Statement(n, i) ==
    LET c   == Of(n)
        col == <<"crash_committed", "crash_uncommitted">>
    IN  \/ /\ n \in {143, 182, 258, 292, 344} /\ start
           /\ UNCHANGED <<wireVars, clientVars>>
        \/ n \in {177, 287} /\ kill /\ UNCHANGED clientVars
        \/ n \in {190, 305} /\ stop_graceful /\ UNCHANGED clientVars
        \/ /\ \/ n \in DOMAIN client /\ connect(client[n])
              \/ n \in {172, 189, 304} /\ close(c)
              \/ n = 149 /\ drop_collection(c, "crash_test_1")
              \/ n = 152 /\ create_collection(c, "crash_test_1")
              \/ n = 164 /\ insert(c, "crash_test_1", [key |-> "payload", val |-> i - 1])
              \/ n \in {168, 187} /\ count(c, "crash_test_1", MatchAll)
              \/ n = 188 /\ find(c, "crash_test_1", MatchAll)
              \/ n = 265 /\ drop_collection(c, col[i])
              \/ n = 268 /\ create_collection(c, col[i])
              \/ n = 272 /\ insert(c, col[1], [key |-> "committed", val |-> i - 1])
              \/ n = 276 /\ begin_tx(c)
              \/ n = 278 /\ insert(c, col[2], [key |-> "uncommitted", val |-> i - 1])
              \/ n = 297 /\ count(c, col[1], MatchAll)
              \/ n \in {281, 300} /\ count(c, col[2], MatchAll)
           /\ UNCHANGED <<serverVars, proc>>

-----------------------------------------------------------------------------
(* main *)

\* The line of the statement under way (0: none yet).
Prev == IF stmt[2] = 0 THEN 0 ELSE Line(stmt)

Settled == Prev \in Calls => ret[Of(Prev)] # Pending

\* An exception leaves the statement: one the call raised and no except
\* clause names, or the AssertionError of line 170.
Raises ==
    /\ Prev \in Calls
    /\ \/ Failed(Of(Prev)) /\ ~(Prev \in Tried /\ ret[Of(Prev)].exc \in OxiDbErrors)
       \/ Prev = 168 /\ Got(Of(Prev)) /\ ret[Of(Prev)].data.count # NumDocs

\* What the statement gives: the count, the list, or the 0 of line 302.
Value ==
    LET r == ret[Of(Prev)]
    IN  IF r.st = "raised" THEN 0
        ELSE IF Prev = 188 THEN r.data.docs ELSE r.data.count

\* The checks of lines 192 to 238 and of line 313: the count, no document
\* other than the ones inserted (corrupt), every one of them (missing_seqs).
Sound(t) ==
    \/ /\ t = 1
       /\ read[187] = NumDocs
       /\ Keyed(Range(read[188])) = {"payload"} \X (0..(NumDocs - 1))
    \/ /\ t = 2
       /\ read[297] = NumCommitted

InTest(t)  == pcMain = At("start", 0) /\ stmt[1] = t
Returning  == stmt[2] = Len(Lines[stmt[1]])

\* The statement under way is over, and the next one of the test is made.
Step ==
    LET next == <<stmt[1], stmt[2] + 1>>
    IN  /\ \E t \in 1..3 : InTest(t)
        /\ ~Returning /\ Settled /\ ~Raises
        /\ stmt' = next
        /\ read' = IF Prev \in Reads THEN (Prev :> Value) @@ read ELSE read
        /\ Statement(Line(next), Iter(next))
        /\ UNCHANGED <<testVars, crash_event, confirmed, results>>

\* A test returns ok to main.
Returns ==
    /\ InTest(1) \/ InTest(2)
    /\ Returning
    /\ results' = Append(results, Sound(stmt[1]))
    /\ stmt' = <<stmt[1] + 1, 0>>
    /\ UNCHANGED <<allVars, read>>

\* The exception leaves the test and, nothing catching it, main; the
\* server the test started is left running.
Dies ==
    /\ InTest(1) \/ InTest(2)
    /\ Settled /\ Raises
    /\ pcMain' = At("died", 0)
    /\ UNCHANGED <<wireVars, clientVars, serverVars, pc, round, local, stats, found,
                   crashVars, scriptVars>>

\* test_crash_during_writes and its threads, once its server is started.
Heavy    == stmt = <<3, 1>> /\ test_crash_during_writes /\ UNCHANGED scriptVars
Wrote(w) == stmt = <<3, 1>> /\ heavy_writer(w) /\ UNCHANGED scriptVars

main == Step \/ Returns \/ Dies \/ Heavy

\* recv returns; it may give up after the timeout of the socket in the
\* first two tests (in the third a writer goes on with the client after a
\* timeout, with every answer late by one: see OccDesync.cfg).
Recv(c) ==
    /\ Return(c) \/ ConnectionLost(c) \/ (c \in Range(client) /\ TimedOut(c))
    /\ UNCHANGED <<serverVars, testVars, crashVars, scriptVars>>

Served(c) == ServeAny(c) /\ UNCHANGED scriptVars

\* A data directory made for this run (tempfile.TemporaryDirectory), and no
\* server yet.
MainInit ==
    /\ TestInit({"confirmed", "errors"}, <<>>)
    /\ ServerInit
    /\ proc = "none"
    /\ crash_event = FALSE
    /\ confirmed = {}
    /\ stmt = <<1, 0>> /\ read = <<>> /\ results = <<>>

MainNext ==
    \/ main
    \/ \E w \in Workers : Wrote(w)
    \/ \E c \in Conns : Recv(c) \/ Served(c)

\* Threads are scheduled, a running server handles what it has received,
\* and a blocked recv returns once there is a response or the stream ended.
MainFairness ==
    /\ WF_mainVars(main)
    /\ \A w \in Workers : WF_mainVars(Wrote(w))
    /\ \A c \in Conns : WF_mainVars(Recv(c)) /\ WF_mainVars(Served(c))

MainSpec == MainInit /\ [][MainNext]_mainVars /\ MainFairness

-----------------------------------------------------------------------------

MainTypeOK ==
    /\ TypeOK
    /\ stmt \in (1..3) \X (0..(14 + 2 * Rounds))
    /\ DOMAIN read \subseteq Reads
    /\ \A n \in DOMAIN read \ {188} : read[n] \in 0..MaxDocs
    /\ results \in Seq(BOOLEAN) /\ Len(results) <= 2

\* Tests 1 and 2 return ok (lines 222 to 238, and 313): after SIGKILL and a
\* restart the server counts and returns every document whose insert had
\* returned before the kill, with the contents it was inserted with, and
\* nothing else.
CommittedSurvive == \A t \in DOMAIN results : results[t]

\* What lines 281 and 300 read: the transaction that was open at the kill
\* had seen its own inserts, and the restarted server has none of them
\* (the case line 319 reports as rolled back, never the WARN of line 322).
UncommittedLost ==
    300 \in DOMAIN read => read[281] = NumUncommitted /\ read[300] = 0

=============================================================================

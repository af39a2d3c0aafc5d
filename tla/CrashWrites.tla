----------------------------- MODULE CrashWrites -----------------------------
(***************************************************************************)
(* test_crash_during_writes of examples/python/test_crash_recovery.py:     *)
(* heavy_writer threads insert documents and record every insert that the  *)
(* server confirmed; the main thread kills the server while they write,    *)
(* starts it again and looks for every confirmed document.                 *)
(*                                                                         *)
(* A document is {worker, seq, ...}: key is the worker and val the seq.    *)
(***************************************************************************)
EXTENDS ServerProcess

ASSUME Workers \subseteq Keys /\ Vals = 0..(Rounds - 1)

VARIABLES
    crash_event,    \* the threading.Event the main thread sets before the kill
    confirmed       \* the keys (worker, seq) of the inserts that returned

crashVars == <<proc, crash_event, confirmed>>
allVars   == <<vars, crashVars>>

-----------------------------------------------------------------------------
(* The main thread *)

CrashSeed(n) ==
    \/ n = 1 /\ drop_collection(Setup, Col)
    \/ n = 2 /\ create_collection(Setup, Col)
    \/ n = 3 /\ create_index(Setup, Col, "key")
    \/ n = 4 /\ create_index(Setup, Col, "val")

\* time.sleep(CRASH_DELAY) is over, however far the writers are.
SetCrashEvent ==
    /\ Main(At("storm", 0), At("storm", 1))
    /\ crash_event' = TRUE
    /\ UNCHANGED <<wireVars, clientVars, found, proc, confirmed>>

KillServer ==
    /\ pcMain = At("storm", 1)
    /\ pcMain' = At("storm", 2)
    /\ kill
    /\ UNCHANGED <<clientVars, pc, round, local, stats, found, crash_event, confirmed>>

\* t.join(timeout=5) for every thread.
JoinWriters ==
    /\ Main(At("storm", 2), At("storm", 3))
    /\ JoinMayExpire \/ \A w \in Workers : pc[w] = "done"
    /\ UNCHANGED <<wireVars, clientVars, found, crashVars>>

Restart ==
    /\ pcMain = At("storm", 3)
    /\ pcMain' = At("storm", 4)
    /\ start
    /\ UNCHANGED <<wireVars, clientVars, pc, round, local, stats, found,
                   crash_event, confirmed>>

VerifyConnected ==
    /\ Main(At("storm", 4), At("verify", 0))
    /\ connect(Check)
    /\ UNCHANGED <<found, crashVars>>

VerifyCount ==
    /\ Main(At("verify", 0), At("verify", 1))
    /\ count(Check, Col, MatchAll)
    /\ UNCHANGED <<found, crashVars>>

VerifyFindAll ==
    /\ Main(At("verify", 1), At("verify", 2))
    /\ Got(Check)
    /\ find(Check, Col, MatchAll)
    /\ UNCHANGED <<found, crashVars>>

VerifyClosed ==
    /\ Main(At("verify", 2), At("verify", 3))
    /\ Got(Check)
    /\ found' = ret[Check].data.docs
    /\ close(Check)
    /\ UNCHANGED crashVars

StopServer ==
    /\ pcMain = At("verify", 3)
    /\ pcMain' = At("verdict", 0)
    /\ stop_graceful
    /\ UNCHANGED <<clientVars, pc, round, local, stats, found, crash_event, confirmed>>

test_crash_during_writes ==
    \/ /\ \/ SetupConnect
          \/ \E n \in 1..4 : SetupCall(n, CrashSeed(n))
          \/ SetupClose(4)
          \/ MainRaised
       /\ UNCHANGED crashVars
    \/ SetCrashEvent \/ KillServer \/ JoinWriters \/ Restart
    \/ VerifyConnected \/ VerifyCount \/ VerifyFindAll \/ VerifyClosed \/ StopServer

-----------------------------------------------------------------------------
(* heavy_writer *)

WriterConnect(w) ==
    /\ pcMain.phase \in {"storm", "verify", "verdict"}
    /\ Goto(w, {"start"}, "loop")
    /\ connect(w)
    /\ UNCHANGED <<serverVars, pcMain, round, local, stats, found, crashVars>>

\* connect raised: the thread returns.
WriterRefused(w) ==
    /\ pcMain.phase \in {"storm", "verify", "verdict"}
    /\ Goto(w, {"start"}, "done")
    /\ Refused(w)
    /\ UNCHANGED <<wireVars, clientVars, serverVars, pcMain, round, local, stats,
                   found, crashVars>>

\* Faulty variant: one document more than DOCS_PER_WORKER.
WriterInsertOffByOne(w) ==
    /\ Goto(w, {"loop"}, "insert")
    /\ round[w] <= Rounds
    /\ ~crash_event
    /\ insert(w, Col, [key |-> w, val |-> round[w]])
    /\ UNCHANGED <<serverVars, pcMain, round, local, stats, found, crashVars>>

WriterInsert(w) ==
    /\ Goto(w, {"loop"}, "insert")
    /\ round[w] < Rounds
    /\ ~crash_event
    /\ insert(w, Col, [key |-> w, val |-> round[w]])
    /\ UNCHANGED <<serverVars, pcMain, round, local, stats, found, crashVars>>

\* Faulty variant: the insert is recorded whether it returned or raised.
WriterConfirmedAnyway(w) ==
    /\ Goto(w, {"insert"}, "loop")
    /\ Got(w) \/ Failed(w)
    /\ confirmed' = confirmed \cup {<<w, round[w]>>}
    /\ Tally({"confirmed"})
    /\ NextRound(w)
    /\ UNCHANGED <<wireVars, clientVars, serverVars, pcMain, local, found,
                   proc, crash_event>>

WriterConfirmed(w) ==
    /\ Goto(w, {"insert"}, "loop")
    /\ Got(w)
    /\ confirmed' = confirmed \cup {<<w, round[w]>>}
    /\ Tally({"confirmed"})
    /\ NextRound(w)
    /\ UNCHANGED <<wireVars, clientVars, serverVars, pcMain, local, found,
                   proc, crash_event>>

\* insert raised: an error is counted, and the loop goes on unless the
\* event is set.
WriterFailed(w) ==
    /\ pc[w] = "insert"
    /\ Failed(w)
    /\ Tally({"errors"})
    /\ \/ ~crash_event /\ Goto(w, {"insert"}, "loop") /\ NextRound(w)
       \/ crash_event /\ Goto(w, {"insert"}, "break") /\ UNCHANGED round
    /\ UNCHANGED <<wireVars, clientVars, serverVars, pcMain, local, found, crashVars>>

\* The loop is left, at its end or by a break: c.close() in a try.
WriterClose(w) ==
    /\ \/ Goto(w, {"break"}, "done")
       \/ Goto(w, {"loop"}, "done") /\ (crash_event \/ round[w] = Rounds)
    /\ close(w)
    /\ UNCHANGED <<serverVars, pcMain, round, local, stats, found, crashVars>>

heavy_writer(w) ==
    \/ WriterConnect(w) \/ WriterRefused(w)
    \/ WriterInsert(w) \/ WriterConfirmed(w) \/ WriterFailed(w)
    \/ WriterClose(w)

-----------------------------------------------------------------------------

\* A fresh data directory (tempfile.TemporaryDirectory) and the server
\* started on it.
Init ==
    /\ TestInit({"confirmed", "errors"}, <<>>)
    /\ ServerInit
    /\ proc = "running"
    /\ crash_event = FALSE
    /\ confirmed = {}

ReceiveAny(c) == Receive(c) /\ UNCHANGED crashVars
ServeAny(c)   == ServeRunning(c) /\ UNCHANGED <<crash_event, confirmed>>

Next ==
    \/ test_crash_during_writes
    \/ \E w \in Workers : heavy_writer(w)
    \/ \E c \in Conns : ReceiveAny(c) \/ ServeAny(c)

\* Threads are scheduled, a running server handles what it has received,
\* and a blocked recv returns once there is a response or the stream ended.
Fairness ==
    /\ WF_allVars(test_crash_during_writes)
    /\ \A w \in Workers : WF_allVars(heavy_writer(w))
    /\ \A c \in Conns : WF_allVars(ReceiveAny(c)) /\ WF_allVars(ServeAny(c))

Spec == Init /\ [][Next]_allVars /\ Fairness

-----------------------------------------------------------------------------

TypeOK ==
    /\ TestTypeOK({"insert", "break"}, 4)
    /\ ProcTypeOK
    /\ DOMAIN stats = {"confirmed", "errors"}
    /\ crash_event \in BOOLEAN
    /\ confirmed \subseteq Workers \X (0..(Rounds - 1))

Keyed(docs) == {<<d.key, d.val>> : d \in docs}

\* The check of line 462: every insert that returned before the kill is
\* among the documents the restarted server returns (lost == 0).
NoConfirmedLost ==
    Verdict => confirmed \subseteq Keyed(Range(found))

\* What is durable: the index of a running server, and what recovery will
\* rebuild while none runs.
Durable == Keyed(IF Running THEN didx[Col] ELSE Replay(log[Col]))

DS == INSTANCE DurableStore WITH
        Items <- Workers \X (0..(Rounds - 1)),
        stored <- Durable,
        acked <- confirmed

\* The server, its log and its recovery implement a durable store for the
\* writers: a document enters it once, an insert is confirmed only when its
\* document is in it, and no step, kill and start included, takes one out.
ImplementsDurableStore == DS!Spec

\* The test comes to its verdict: every writer notices the kill (its recv
\* returns on the ended stream), so every join returns.
Termination == <>(pcMain.phase \in {"verdict", "died"})

=============================================================================

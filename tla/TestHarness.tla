----------------------------- MODULE TestHarness -----------------------------
(***************************************************************************)
(* What the tests of examples/python/test_occ_and_integrity.py share: a    *)
(* main thread that seeds a collection over the connection `setup`, starts *)
(* one thread per worker, joins them and reads the collection back over    *)
(* the connection `check`; workers that connect, run ROUNDS rounds and     *)
(* close; counters in a dictionary under a lock.                           *)
(*                                                                         *)
(* A worker is its connection.  pc[w] names the call whose outcome w waits *)
(* for; pcMain is the phase of the main thread and the calls made in it.   *)
(***************************************************************************)
EXTENDS OxiDbClient, Server

CONSTANTS
    Workers,        \* the connections of the worker threads
    Setup, Check,   \* the two connections of the main thread
    Col,            \* the collection of the test
    Rounds,         \* ROUNDS
    JoinMayExpire   \* whether t.join(timeout=120) may return with t running

ASSUME /\ Workers \cup {Setup, Check} \subseteq Conns
       /\ Setup \notin Workers /\ Check \notin Workers /\ Setup # Check
       /\ Col \in Colls
       /\ Rounds \in Nat
       /\ JoinMayExpire \in BOOLEAN

VARIABLES
    pcMain,     \* where the main thread is
    pc,         \* pc[w]: where worker w is
    round,      \* round[w]: the loop variable
    local,      \* local[w]: what w keeps of a round (what it read, what it chose)
    stats,      \* the shared counters, by name
    found       \* the documents the main thread's last find returned

testVars == <<pcMain, pc, round, local, stats, found>>
vars == <<wireVars, clientVars, serverVars, testVars>>

Got(c)     == ret[c].st = "returned"
Failed(c)  == ret[c].st = "raised"
GotDocs(c) == Got(c) /\ "docs" \in DOMAIN ret[c].data

-----------------------------------------------------------------------------
(* The main thread *)

At(phase, n) == [phase |-> phase, n |-> n]

Main(from, to) ==
    /\ pcMain = from
    /\ pcMain' = to
    /\ UNCHANGED <<serverVars, pc, round, local, stats>>

SetupConnect ==
    /\ Main(At("start", 0), At("setup", 0))
    /\ Connect(Setup)
    /\ UNCHANGED found

\* The n-th call on setup, `call`.  The first is drop_collection, in a try
\* that swallows OxiDbError; any other exception, and any exception of a
\* later call, ends the test (MainRaised).
SetupCall(n, call) ==
    /\ Main(At("setup", n - 1), At("setup", n))
    /\ \/ n = 1
       \/ Got(Setup)
       \/ n = 2 /\ Failed(Setup) /\ ret[Setup].exc \in OxiDbErrors
    /\ call
    /\ UNCHANGED found

\* setup.close() after n calls, and the threads are started.
SetupClose(n) ==
    /\ Main(At("setup", n), At("storm", 0))
    /\ Got(Setup)
    /\ close(Setup)
    /\ UNCHANGED found

\* Faulty variant: the threads are started and never joined.
VerifyConnectUnjoined ==
    /\ Main(At("storm", 0), At("verify", 0))
    /\ Connect(Check)
    /\ UNCHANGED found

\* Every thread is joined, or a join has run into its timeout (is_alive is
\* not looked at); then check = connect(host, port).
VerifyConnect ==
    /\ Main(At("storm", 0), At("verify", 0))
    /\ JoinMayExpire \/ \A w \in Workers : pc[w] = "done"
    /\ Connect(Check)
    /\ UNCHANGED found

VerifyFind(query) ==
    /\ Main(At("verify", 0), At("verify", 1))
    /\ find(Check, Col, query)
    /\ UNCHANGED found

VerifyDrop ==
    /\ Main(At("verify", 1), At("verify", 2))
    /\ Got(Check)
    /\ found' = ret[Check].data.docs
    /\ drop_collection(Check, Col)

VerifyClose ==
    /\ Main(At("verify", 2), At("verdict", 0))
    /\ Got(Check)
    /\ close(Check)
    /\ UNCHANGED found

\* A call of the main thread raises what nothing catches: the test dies.
MainRaised ==
    /\ pcMain.phase \in {"setup", "verify"}
    /\ \E c \in {Setup, Check} :
        /\ Failed(c)
        /\ pcMain = At("setup", 1) => ret[c].exc \notin OxiDbErrors
    /\ pcMain' = At("died", 0)
    /\ UNCHANGED <<wireVars, clientVars, serverVars, pc, round, local, stats, found>>

Verdict == pcMain.phase = "verdict"

\* The setup is through: the collection holds what this run put there, and
\* nothing of what an earlier run left.
Seeded ==
    \/ pcMain.phase \in {"storm", "verify", "verdict"}
    \/ \E w \in Workers : pc[w] # "start"

-----------------------------------------------------------------------------
(* The workers *)

Goto(w, from, to) == pc[w] \in from /\ pc' = [pc EXCEPT ![w] = to]

\* `with lock: stats[name] += 1` for every name in names.
Tally(names) ==
    stats' = [f \in DOMAIN stats |-> stats[f] + (IF f \in names THEN 1 ELSE 0)]

NextRound(w) == round' = [round EXCEPT ![w] = @ + 1]

\* The worker's thread has been started: client = connect(host, port).
WorkerConnect(w) ==
    /\ pcMain.phase \in {"storm", "verify", "verdict"}
    /\ Goto(w, {"start"}, "loop")
    /\ Connect(w)
    /\ UNCHANGED <<serverVars, pcMain, round, local, stats, found>>

\* The loop is over: client.close().
WorkerClose(w) ==
    /\ Goto(w, {"loop"}, "done")
    /\ round[w] = Rounds
    /\ close(w)
    /\ UNCHANGED <<serverVars, pcMain, round, local, stats, found>>

-----------------------------------------------------------------------------
(* A round that is `with client.transaction():` in a try whose except      *)
(* clauses count TransactionConflictError as a conflict and every other    *)
(* exception as an error.                                                  *)

Caught(w, e) ==
    /\ Tally({IF e = "TransactionConflictError" THEN "conflicts" ELSE "errors"})
    /\ NextRound(w)

\* begin_tx raised, outside the try of transaction(): nothing is rolled back.
TxBeginFailed(w) ==
    /\ Goto(w, {"begin"}, "loop")
    /\ Failed(w)
    /\ Caught(w, ret[w].exc)
    /\ UNCHANGED <<wireVars, clientVars, serverVars, pcMain, local, found>>

\* The last call of the body returned: the with statement is left.
TxCommit(w, last) ==
    /\ Goto(w, last, "commit")
    /\ Got(w)
    /\ tx_exit(w)
    /\ UNCHANGED <<serverVars, pcMain, round, local, stats, found>>

\* commit_tx returned: the commit is counted, unless `continue` left the body.
TxCommitted(w) ==
    /\ Goto(w, {"commit", "commit_empty"}, "loop")
    /\ Got(w)
    /\ Tally(IF pc[w] = "commit" THEN {"commits"} ELSE {})
    /\ NextRound(w)
    /\ UNCHANGED <<wireVars, clientVars, serverVars, pcMain, local, found>>

TxCommitFailed(w) ==
    /\ Goto(w, {"commit", "commit_empty"}, "rollback")
    /\ Failed(w)
    /\ tx_except(w, ret[w].exc)
    /\ UNCHANGED <<serverVars, pcMain, round, local, stats, found>>

\* rollback_tx is over: transaction() re-raises and the worker counts.
TxRolledBack(w) ==
    /\ Goto(w, {"rollback"}, "loop")
    /\ Got(w) \/ Failed(w)
    /\ Caught(w, tx_raise(w))
    /\ UNCHANGED <<wireVars, clientVars, serverVars, pcMain, local, found>>

-----------------------------------------------------------------------------
(* The steps that are not the test's own *)

\* A blocked call of the client library returns or times out.
Receive(c) ==
    /\ Return(c) \/ TimedOut(c) \/ ConnectionLost(c)
    /\ UNCHANGED <<serverVars, testVars>>

Serve(c) ==
    /\ Handle(c)
    /\ UNCHANGED <<clientVars, testVars>>

\* The threads before the test runs, with the counters `names`, every
\* worker's locals as local0, and the server as it starts.
TestInit(names, local0) ==
    /\ ClientInit
    /\ pcMain = At("start", 0)
    /\ pc     = [w \in Workers |-> "start"]
    /\ round  = [w \in Workers |-> 0]
    /\ local  = [w \in Workers |-> local0]
    /\ stats  = [f \in names |-> 0]
    /\ found  = <<>>

\* Threads are scheduled, the server handles what it has received, and a
\* blocked recv returns once the response is there.
ServiceFairness ==
    \A c \in Conns : WF_vars(Receive(c)) /\ WF_vars(Serve(c))

TestTypeOK(phases, calls) ==
    /\ ClientTypeOK
    /\ ServerTypeOK
    /\ pcMain \in [phase : {"start", "setup", "storm", "verify", "verdict", "died"},
                   n : 0..calls]
    /\ pc \in [Workers -> {"start", "loop", "done"} \cup phases]
    /\ round \in [Workers -> 0..Rounds]
    /\ \A f \in DOMAIN stats : stats[f] \in Nat
    /\ \A i \in DOMAIN found : found[i] \in Stored

=============================================================================

------------------------------ MODULE OccStorm ------------------------------
(***************************************************************************)
(* test_occ_conflict_storm of examples/python/test_occ_and_integrity.py,   *)
(* run against the server: the main thread seeds one account document,     *)
(* starts the workers and, when they are done, reads the balance back;     *)
(* every worker runs ROUNDS read-modify-write transactions on the account  *)
(* over its own connection and counts how each one ended.  local[w] is the *)
(* balance w read.                                                         *)
(***************************************************************************)
EXTENDS TestHarness

CONSTANTS
    Shared,         \* the account "shared"
    InitialBalance  \* 1000 in the test

ASSUME Shared \in Keys /\ InitialBalance \in Vals

account == [key |-> Shared]

\* The calls of the setup connection, in order.
StormSeed(n) ==
    \/ n = 1 /\ drop_collection(Setup, Col)
    \/ n = 2 /\ create_collection(Setup, Col)
    \/ n = 3 /\ create_index(Setup, Col, "key")
    \/ n = 4 /\ insert(Setup, Col, [key |-> Shared, val |-> InitialBalance])

test_occ_conflict_storm ==
    \/ SetupConnect
    \/ \E n \in 1..4 : SetupCall(n, StormSeed(n))
    \/ SetupClose(4)
    \/ VerifyConnect \/ VerifyFind(account) \/ VerifyDrop \/ VerifyClose
    \/ MainRaised

-----------------------------------------------------------------------------
(* occ_worker *)

\* Faulty variant: one round too many.
OccRoundOffByOne(w) ==
    /\ Goto(w, {"loop"}, "begin")
    /\ round[w] <= Rounds
    /\ tx_enter(w)
    /\ UNCHANGED <<serverVars, pcMain, round, local, stats, found>>

OccRound(w) ==
    /\ Goto(w, {"loop"}, "begin")
    /\ round[w] < Rounds
    /\ tx_enter(w)
    /\ UNCHANGED <<serverVars, pcMain, round, local, stats, found>>

OccFind(w) ==
    /\ Goto(w, {"begin"}, "find")
    /\ Got(w)
    /\ find(w, Col, account)
    /\ UNCHANGED <<serverVars, pcMain, round, local, stats, found>>

\* docs is a list: `continue` on an empty one (the with statement is left
\* without an exception, so the transaction is committed), else the update.
OccUpdate(w) ==
    /\ GotDocs(w)
    /\ \/ /\ ret[w].data.docs = <<>>
          /\ Goto(w, {"find"}, "commit_empty")
          /\ Tally({"errors"})
          /\ tx_exit(w)
          /\ UNCHANGED local
       \/ /\ ret[w].data.docs # <<>>
          /\ Goto(w, {"find"}, "update")
          /\ local' = [local EXCEPT ![w] = ret[w].data.docs[1].val]
          /\ update(w, Col, account, Set(ret[w].data.docs[1].val + 1))
          /\ UNCHANGED stats
    /\ UNCHANGED <<serverVars, pcMain, round, found>>

\* The body raised: a call did, or docs[0]["balance"] on what is no list.
OccBodyRaised(w) ==
    /\ Goto(w, {"find", "update"}, "rollback")
    /\ \/ Failed(w) /\ tx_except(w, ret[w].exc)
       \/ pc[w] = "find" /\ Got(w) /\ ~GotDocs(w) /\ tx_except(w, "KeyError")
    /\ UNCHANGED <<serverVars, pcMain, round, local, stats, found>>

occ_worker(w) ==
    \/ WorkerConnect(w) \/ OccRound(w) \/ TxBeginFailed(w) \/ OccFind(w)
    \/ OccUpdate(w) \/ OccBodyRaised(w) \/ TxCommit(w, {"update"}) \/ TxCommitted(w)
    \/ TxCommitFailed(w) \/ TxRolledBack(w) \/ WorkerClose(w)

-----------------------------------------------------------------------------

\* The server is fresh, or holds the collection a run that died left
\* behind, with the balance at whatever it had reached.
Init ==
    /\ TestInit({"commits", "conflicts", "errors"}, InitialBalance)
    /\ \/ ServerInit
       \/ \E v \in Vals : ServerHolding(Col, [key |-> Shared, val |-> v])

Next ==
    \/ test_occ_conflict_storm
    \/ \E w \in Workers : occ_worker(w)
    \/ \E c \in Conns : Receive(c)
    \/ \E c \in Conns : Serve(c)

Fairness ==
    /\ WF_vars(test_occ_conflict_storm)
    /\ \A w \in Workers : WF_vars(occ_worker(w))
    /\ ServiceFairness

Spec == Init /\ [][Next]_vars /\ Fairness

-----------------------------------------------------------------------------

TypeOK ==
    /\ TestTypeOK({"begin", "find", "update", "commit", "commit_empty", "rollback"}, 4)
    /\ local \in [Workers -> Vals]
    /\ DOMAIN stats = {"commits", "conflicts", "errors"}

-----------------------------------------------------------------------------
(* What the test asserts of a run that got to its verdict *)

\* The check of line 173, in a run without a socket timeout: the balance
\* the main thread read back is the initial balance plus the commits the
\* workers counted.  It relates what the server installed to what
\* transaction() reported to its callers.
BalanceIsCommits ==
    Verdict /\ timeouts = 0 =>
        /\ found # <<>>
        /\ found[1].val = InitialBalance + stats.commits

\* The check of line 184: no worker counted an error, unless a call timed
\* out.  A conflict must leave transaction() as TransactionConflictError,
\* also when the rollback_tx that follows it fails with NoActiveTransaction.
NoUnexpectedErrors ==
    timeouts = 0 => stats.errors = 0

-----------------------------------------------------------------------------
(* What holds of the server whatever its clients do *)

\* No lost update: while the account of this run exists, its balance is
\* the initial one plus one for every batch committed after the insert.
\* Each worker writes the balance it read plus one, so two commits that
\* read the same balance would break this; commit validation must refuse
\* the second.
EveryCommitAddsOne ==
    Seeded => \A d \in didx[Col] : d.val = InitialBalance + Len(log[Col]) - 1

\* A transaction does not outlive its connection: once a worker has called
\* close(), the server aborts what that connection left open (a begin_tx
\* whose response timed out, and that the worker counted as an error).
AbortedAfterClose ==
    \A w \in Workers : (pc[w] = "done") ~> ~tx[w].open

\* The test ends: every call returns or raises, every worker leaves its
\* loop and the main thread reaches its verdict or dies of an exception.
Termination ==
    <>(pcMain.phase \in {"verdict", "died"})

\* find() returns a list of documents, as its docstring says.
FindReturnsList ==
    \A w \in Workers :
        pc[w] = "find" /\ Got(w) => GotDocs(w)

=============================================================================

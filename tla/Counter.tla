------------------------------- MODULE Counter -------------------------------
(***************************************************************************)
(* test_counter_integrity of examples/python/test_occ_and_integrity.py:    *)
(* every worker increments one counter document ROUNDS times with          *)
(* update_one and $inc, outside a transaction, and counts the calls that   *)
(* raised; the main thread reads the counter back.                         *)
(***************************************************************************)
EXTENDS TestHarness

CONSTANTS Name      \* the document "counter"

ASSUME Name \in Keys /\ 0 \in Vals

counter == [key |-> Name]

\* The calls of the setup connection, in order.
CounterSeed(n) ==
    \/ n = 1 /\ drop_collection(Setup, Col)
    \/ n = 2 /\ create_collection(Setup, Col)
    \/ n = 3 /\ insert(Setup, Col, [key |-> Name, val |-> 0])

test_counter_integrity ==
    \/ SetupConnect
    \/ \E n \in 1..3 : SetupCall(n, CounterSeed(n))
    \/ SetupClose(3)
    \/ VerifyConnect \/ VerifyFind(counter) \/ VerifyDrop \/ VerifyClose
    \/ MainRaised

-----------------------------------------------------------------------------
(* inc_worker *)

\* Faulty variant: one increment too many.
IncCallOffByOne(w) ==
    /\ Goto(w, {"loop"}, "inc")
    /\ round[w] <= Rounds
    /\ update_one(w, Col, counter, Inc(1))
    /\ UNCHANGED <<serverVars, pcMain, round, local, stats, found>>

IncCall(w) ==
    /\ Goto(w, {"loop"}, "inc")
    /\ round[w] < Rounds
    /\ update_one(w, Col, counter, Inc(1))
    /\ UNCHANGED <<serverVars, pcMain, round, local, stats, found>>

\* Faulty variant: a call that raised is made again.
IncDoneRetrying(w) ==
    /\ Goto(w, {"inc"}, "loop")
    /\ \/ Got(w) /\ NextRound(w)
       \/ Failed(w) /\ UNCHANGED round
    /\ UNCHANGED <<wireVars, clientVars, serverVars, pcMain, local, stats, found>>

\* The call returned, or raised and is counted; either way the round is over.
IncDone(w) ==
    /\ Goto(w, {"inc"}, "loop")
    /\ \/ Got(w) /\ UNCHANGED stats
       \/ Failed(w) /\ Tally({"errors"})
    /\ NextRound(w)
    /\ UNCHANGED <<wireVars, clientVars, serverVars, pcMain, local, found>>

inc_worker(w) ==
    WorkerConnect(w) \/ IncCall(w) \/ IncDone(w) \/ WorkerClose(w)

-----------------------------------------------------------------------------

\* The server is fresh, or holds the collection a run that died left
\* behind, with the counter at whatever it had reached.
Init ==
    /\ TestInit({"errors"}, <<>>)
    /\ \/ ServerInit
       \/ \E v \in Vals : ServerHolding(Col, [key |-> Name, val |-> v])

Next ==
    \/ test_counter_integrity
    \/ \E w \in Workers : inc_worker(w)
    \/ \E c \in Conns : Receive(c)
    \/ \E c \in Conns : Serve(c)

Fairness ==
    /\ WF_vars(test_counter_integrity)
    /\ \A w \in Workers : WF_vars(inc_worker(w))
    /\ ServiceFairness

Spec == Init /\ [][Next]_vars /\ Fairness

-----------------------------------------------------------------------------

TypeOK ==
    /\ TestTypeOK({"inc"}, 3)
    /\ DOMAIN stats = {"errors"}

\* The two checks of the test's end (lines 640 and 647), in a run without
\* a socket timeout: the counter the main thread read back is the number of
\* update_one calls the workers made, and none of them raised.  Increments
\* of different connections are read-modify-writes of the same document
\* inside the server.
CounterIsExact ==
    Verdict /\ timeouts = 0 =>
               /\ found # <<>>
               /\ found[1].val = Cardinality(Workers) * Rounds
               /\ stats.errors = 0

\* The update_one calls w has made so far.
Sent(w) == round[w] + (IF pc[w] = "inc" THEN 1 ELSE 0)

\* Every increment counts once: while the counter of this run exists (the
\* one the setup inserted at line 593, whatever an earlier run left), its
\* value is the number of calls made less those the server has not yet
\* handled, also for a call that timed out and was counted as an error by
\* inc_worker.
IncrementsConserved ==
    Seeded =>
        \A d \in didx[Col] :
            d.val = SumFunction([w \in Workers |-> Sent(w) - Len(inbox[w])])

=============================================================================

------------------------------ MODULE Transfer ------------------------------
(***************************************************************************)
(* test_transfer_integrity of examples/python/test_occ_and_integrity.py:   *)
(* every worker runs ROUNDS transactions that read two accounts and write  *)
(* both, moving an amount from one to the other; the main thread reads all *)
(* accounts back and sums them.  local[w] holds the accounts and amount w  *)
(* chose, and what it read of them.                                        *)
(***************************************************************************)
EXTENDS TestHarness

CONSTANTS
    NumAccounts,    \* NUM_ACCOUNTS; the accounts are 0..NUM_ACCOUNTS-1
    InitialBalance, \* INITIAL_BALANCE
    Amounts         \* bound: the amounts a worker draws (1..100 in the test)

Accounts == 0..(NumAccounts - 1)
TOTAL    == NumAccounts * InitialBalance

ASSUME /\ NumAccounts \in Nat /\ Accounts = Keys
       /\ InitialBalance \in Vals
       /\ Amounts \subseteq 1..100

acct(i) == [key |-> i]

\* The calls of the setup connection, in order.
TransferSeed(n) ==
    \/ n = 1 /\ drop_collection(Setup, Col)
    \/ n = 2 /\ create_collection(Setup, Col)
    \/ n = 3 /\ create_index(Setup, Col, "key")
    \/ n > 3 /\ insert(Setup, Col, [key |-> n - 4, val |-> InitialBalance])

SeedCalls == 3 + NumAccounts

test_transfer_integrity ==
    \/ SetupConnect
    \/ \E n \in 1..SeedCalls : SetupCall(n, TransferSeed(n))
    \/ SetupClose(SeedCalls)
    \/ VerifyConnect \/ VerifyFind(MatchAll) \/ VerifyDrop \/ VerifyClose
    \/ MainRaised

-----------------------------------------------------------------------------
(* transfer_worker *)

Idle0 == [src |-> 0, dst |-> 0, amount |-> 0, src_docs |-> [docs |-> <<>>], dst_bal |-> 0]

\* `not docs` of Python: an empty list; a dictionary with a key is true.
Empty(data) == "docs" \in DOMAIN data /\ data.docs = <<>>
IsList(data) == "docs" \in DOMAIN data

\* Faulty variant: dst is drawn from all accounts before it is moved past src.
TransferRoundDstRange(w) ==
    /\ Goto(w, {"loop"}, "begin")
    /\ round[w] < Rounds
    /\ \E s \in Accounts, d \in Accounts, a \in Amounts :
        local' = [local EXCEPT ![w] = [Idle0 EXCEPT !.src = s, !.amount = a,
                                                    !.dst = IF d >= s THEN d + 1 ELSE d]]
    /\ tx_enter(w)
    /\ UNCHANGED <<serverVars, pcMain, round, stats, found>>

\* src, dst and amount are drawn (dst from one account less, and moved past
\* src), and the with statement is entered.
TransferRound(w) ==
    /\ Goto(w, {"loop"}, "begin")
    /\ round[w] < Rounds
    /\ \E s \in Accounts, d \in 0..(NumAccounts - 2), a \in Amounts :
        local' = [local EXCEPT ![w] = [Idle0 EXCEPT !.src = s, !.amount = a,
                                                    !.dst = IF d >= s THEN d + 1 ELSE d]]
    /\ tx_enter(w)
    /\ UNCHANGED <<serverVars, pcMain, round, stats, found>>

FindSrc(w) ==
    /\ Goto(w, {"begin"}, "find_src")
    /\ Got(w)
    /\ find(w, Col, acct(local[w].src))
    /\ UNCHANGED <<serverVars, pcMain, round, local, stats, found>>

FindDst(w) ==
    /\ Goto(w, {"find_src"}, "find_dst")
    /\ Got(w)
    /\ local' = [local EXCEPT ![w].src_docs = ret[w].data]
    /\ find(w, Col, acct(local[w].dst))
    /\ UNCHANGED <<serverVars, pcMain, round, stats, found>>

\* Both reads are in: `continue` when one is empty (the with statement is
\* left without an exception, so the transaction is committed), else the
\* balances are taken and the source is written.
UpdateSrc(w) ==
    LET src_docs == local[w].src_docs
        dst_docs == ret[w].data
    IN  /\ Got(w)
        /\ \/ /\ Empty(src_docs) \/ Empty(dst_docs)
              /\ Goto(w, {"find_dst"}, "commit_empty")
              /\ Tally({"errors"})
              /\ tx_exit(w)
              /\ UNCHANGED local
           \/ /\ ~Empty(src_docs) /\ IsList(src_docs)
              /\ ~Empty(dst_docs) /\ IsList(dst_docs)
              /\ Goto(w, {"find_dst"}, "update_src")
              /\ local' = [local EXCEPT ![w].dst_bal = dst_docs.docs[1].val]
              /\ update(w, Col, acct(local[w].src),
                        Set(src_docs.docs[1].val - local[w].amount))
              /\ UNCHANGED stats
        /\ UNCHANGED <<serverVars, pcMain, round, found>>

\* Faulty variant: the second update names the source account again.
UpdateDstOnSrc(w) ==
    /\ Goto(w, {"update_src"}, "update_dst")
    /\ Got(w)
    /\ update(w, Col, acct(local[w].src), Set(local[w].dst_bal + local[w].amount))
    /\ UNCHANGED <<serverVars, pcMain, round, local, stats, found>>

UpdateDst(w) ==
    /\ Goto(w, {"update_src"}, "update_dst")
    /\ Got(w)
    /\ update(w, Col, acct(local[w].dst), Set(local[w].dst_bal + local[w].amount))
    /\ UNCHANGED <<serverVars, pcMain, round, local, stats, found>>

\* The body raised: a call did, or docs[0]["balance"] on what is no list.
TransferBodyRaised(w) ==
    /\ Goto(w, {"find_src", "find_dst", "update_src", "update_dst"}, "rollback")
    /\ \/ Failed(w) /\ tx_except(w, ret[w].exc)
       \/ /\ pc[w] = "find_dst" /\ Got(w)
          /\ ~Empty(local[w].src_docs) /\ ~Empty(ret[w].data)
          /\ ~IsList(local[w].src_docs) \/ ~IsList(ret[w].data)
          /\ tx_except(w, "KeyError")
    /\ UNCHANGED <<serverVars, pcMain, round, local, stats, found>>

transfer_worker(w) ==
    \/ WorkerConnect(w) \/ TransferRound(w) \/ TxBeginFailed(w)
    \/ FindSrc(w) \/ FindDst(w) \/ UpdateSrc(w) \/ UpdateDst(w)
    \/ TransferBodyRaised(w) \/ TxCommit(w, {"update_dst"}) \/ TxCommitted(w)
    \/ TxCommitFailed(w) \/ TxRolledBack(w) \/ WorkerClose(w)

-----------------------------------------------------------------------------

Init ==
    /\ TestInit({"commits", "conflicts", "errors"}, Idle0)
    /\ ServerInit

Next ==
    \/ test_transfer_integrity
    \/ \E w \in Workers : transfer_worker(w)
    \/ \E c \in Conns : Receive(c)
    \/ \E c \in Conns : Serve(c)

Fairness ==
    /\ WF_vars(test_transfer_integrity)
    /\ \A w \in Workers : WF_vars(transfer_worker(w))
    /\ ServiceFairness

Spec == Init /\ [][Next]_vars /\ Fairness

-----------------------------------------------------------------------------

TypeOK ==
    /\ TestTypeOK({"begin", "find_src", "find_dst", "update_src", "update_dst",
                   "commit", "commit_empty", "rollback"}, SeedCalls)
    /\ DOMAIN stats = {"commits", "conflicts", "errors"}
    /\ \A w \in Workers :
        /\ local[w].src \in Accounts /\ local[w].dst \in Accounts
        /\ local[w].amount \in Amounts \cup {0}
        /\ local[w].dst_bal \in Vals \cup {0}

Sum(docs) == MapThenSumSet(LAMBDA d : d.val, docs)

\* The check of line 307, conservation of money: the balances the main
\* thread read back sum to TOTAL, however the transfers of the workers
\* interleaved and whichever of them were refused.
TotalPreserved ==
    Verdict => Sum(Range(found)) = TOTAL

\* No state of the collection, and no snapshot a transaction reads, shows
\* half a transfer: from the start of the workers until the collection is
\* dropped every account is there and the balances sum to TOTAL, also
\* while a worker whose call timed out goes on with responses that answer
\* earlier requests.
NoPartialTransfer ==
    pcMain.phase \in {"storm", "verify", "verdict"} =>
        \A docs \in {didx[Col]} \cup {tx[c].snap[Col] : c \in Conns} :
            docs # {} => Cardinality(docs) = NumAccounts /\ Sum(docs) = TOTAL

=============================================================================

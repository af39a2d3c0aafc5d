---------------------------- MODULE DataIntegrity ----------------------------
(***************************************************************************)
(* test_data_integrity of examples/python/test_occ_and_integrity.py: every *)
(* worker inserts DOCS_PER_WORKER documents of its own, updates some and   *)
(* deletes some, all outside a transaction, and keeps in local_docs what   *)
(* it expects the collection to hold of them.  The main thread then reads  *)
(* each worker's documents back and compares.                              *)
(*                                                                         *)
(* A document is [key |-> worker_id, seq |-> seq, val |-> n]: val stands   *)
(* for payload, score and the checksum computed from them, 0 as inserted   *)
(* and 1 once updated.  local_docs maps seq to the val expected.           *)
(***************************************************************************)
EXTENDS TestHarness

CONSTANTS
    UPDATES_PER_WORKER,
    DELETES_PER_WORKER

DOCS_PER_WORKER == Rounds

\* The run is one whose joins wait: worker_state is complete when read.
ASSUME /\ Keys = Workers /\ {0, 1} \subseteq Vals
       /\ UPDATES_PER_WORKER \in Nat /\ DELETES_PER_WORKER \in Nat
       /\ ~JoinMayExpire

VARIABLES
    details,        \* the workers that stats["details"] names
    worker_id,      \* the loop variable of the verification
    actual,         \* actual[w]: actual_docs as read for worker w
    actual_total    \* what count(col) returned

checkVars == <<worker_id, actual, actual_total>>
allVars == <<vars, details, checkVars>>

own(w, seq) == [key |-> w, seq |-> seq]

\* worker_state[worker_id] = local_docs is the last thing a worker does
\* before it closes.
worker_state == [w \in {v \in Workers : pc[v] = "done"} |-> local[w].docs]

-----------------------------------------------------------------------------
(* The main thread *)

IntegritySeed(n) ==
    \/ n = 1 /\ drop_collection(Setup, Col)
    \/ n = 2 /\ create_collection(Setup, Col)
    \/ n = 3 /\ create_index(Setup, Col, "key")
    \/ n = 4 /\ create_index(Setup, Col, "seq")
    \/ n = 5 /\ create_composite_index(Setup, Col, {"key", "seq"})

\* The next worker of worker_state: its documents are asked for.
VerifyWorker ==
    /\ Main(At("verify", 0), At("verify", 3))
    /\ \E w \in DOMAIN worker_state \ DOMAIN actual :
        /\ worker_id' = w
        /\ find(Check, Col, [key |-> w])
    /\ UNCHANGED <<found, details, actual, actual_total>>

VerifyWorkerRead ==
    /\ Main(At("verify", 3), At("verify", 0))
    /\ Got(Check)
    /\ actual' = actual @@ (worker_id :> ret[Check].data.docs)
    /\ UNCHANGED <<wireVars, clientVars, found, details, worker_id, actual_total>>

\* The loop over worker_state is over.
VerifyCount ==
    /\ Main(At("verify", 0), At("verify", 1))
    /\ DOMAIN actual = DOMAIN worker_state
    /\ count(Check, Col, MatchAll)
    /\ UNCHANGED <<found, details, checkVars>>

VerifyCounted ==
    /\ Main(At("verify", 1), At("verify", 2))
    /\ Got(Check)
    /\ actual_total' = ret[Check].data.count
    /\ drop_collection(Check, Col)
    /\ UNCHANGED <<found, details, worker_id, actual>>

test_data_integrity ==
    \/ /\ \/ SetupConnect
          \/ \E n \in 1..5 : SetupCall(n, IntegritySeed(n))
          \/ SetupClose(5)
          \/ VerifyConnect \/ VerifyClose
          \/ MainRaised
       /\ UNCHANGED <<details, checkVars>>
    \/ VerifyWorker \/ VerifyWorkerRead \/ VerifyCount \/ VerifyCounted

\* actual_by_seq: of two documents with one seq the later one stays.
actual_by_seq(w) ==
    LET docs == actual[w]
    IN  [s \in {docs[i].seq : i \in DOMAIN docs} |->
            docs[Max({i \in DOMAIN docs : docs[i].seq = s})]]

Missing(w) == DOMAIN worker_state[w] \ DOMAIN actual_by_seq(w)
ExtraDocs(w) == DOMAIN actual_by_seq(w) \ DOMAIN worker_state[w]
Corrupt(w) ==
    {s \in DOMAIN worker_state[w] \cap DOMAIN actual_by_seq(w) :
        actual_by_seq(w)[s].val # worker_state[w][s]}

expected_total ==
    SumFunction([w \in DOMAIN worker_state |-> Cardinality(DOMAIN worker_state[w])])

\* What the test returns.
all_ok ==
    /\ \A w \in DOMAIN actual : Missing(w) \cup ExtraDocs(w) \cup Corrupt(w) = {}
    /\ actual_total = expected_total
    /\ stats.errors = 0

-----------------------------------------------------------------------------
(* integrity_worker *)

Worker(w, from, to) ==
    /\ Goto(w, {from}, to)
    /\ UNCHANGED <<serverVars, pcMain, found, checkVars>>

\* random.sample(range(DOCS_PER_WORKER), min(n, DOCS_PER_WORKER))
Sample(n) == kSubset(Min({n, DOCS_PER_WORKER}), 0..(DOCS_PER_WORKER - 1))

\* The except clause of every call: the error is counted and written down.
Report(w) == Tally({"errors"}) /\ details' = details \cup {w}

\* Faulty variant: one document too many.
InsertCallOffByOne(w) ==
    /\ Worker(w, "loop", "insert")
    /\ round[w] <= DOCS_PER_WORKER
    /\ insert(w, Col, own(w, round[w]) @@ [val |-> 0])
    /\ UNCHANGED <<round, local, stats, details>>

\* Phase 1
InsertCall(w) ==
    /\ Worker(w, "loop", "insert")
    /\ round[w] < DOCS_PER_WORKER
    /\ insert(w, Col, own(w, round[w]) @@ [val |-> 0])
    /\ UNCHANGED <<round, local, stats, details>>

\* result["id"] of a response that has none is a KeyError, counted like
\* every other exception; the document is expected only when insert returned.
InsertDone(w) ==
    /\ Worker(w, "insert", "loop")
    /\ \/ /\ Got(w) /\ "id" \in DOMAIN ret[w].data
          /\ local' = [local EXCEPT ![w].docs = @ @@ (round[w] :> 0)]
          /\ Tally({"inserts"})
          /\ UNCHANGED details
       \/ /\ Failed(w) \/ (Got(w) /\ "id" \notin DOMAIN ret[w].data)
          /\ Report(w)
          /\ UNCHANGED local
    /\ NextRound(w)
    /\ UNCHANGED <<wireVars, clientVars>>

\* The loop of a phase is over and the seqs of the next one are drawn.
Draw(w, from, to, n) ==
    /\ Worker(w, from, to)
    /\ from = "loop" => round[w] = DOCS_PER_WORKER
    /\ local[w].todo = {}
    /\ \E seqs \in Sample(n) : local' = [local EXCEPT ![w].todo = seqs]
    /\ UNCHANGED <<wireVars, clientVars, round, stats, details>>

\* `if seq not in local_docs: continue`
Skip(w, phase) ==
    /\ Worker(w, phase, phase)
    /\ \E seq \in local[w].todo \ DOMAIN local[w].docs :
        local' = [local EXCEPT ![w].todo = @ \ {seq}]
    /\ UNCHANGED <<wireVars, clientVars, round, stats, details>>

\* Faulty variant: the expectation is left as it was.
UpdateCallForgetting(w) ==
    /\ Worker(w, "updates", "update")
    /\ \E seq \in local[w].todo \cap DOMAIN local[w].docs :
        /\ local' = [local EXCEPT ![w].todo = @ \ {seq}, ![w].seq = seq]
        /\ update_one(w, Col, own(w, seq), Set(1))
    /\ UNCHANGED <<round, stats, details>>

\* Phase 2: the expectation is changed first, then update_one is called.
UpdateCall(w) ==
    /\ Worker(w, "updates", "update")
    /\ \E seq \in local[w].todo \cap DOMAIN local[w].docs :
        /\ local' = [local EXCEPT ![w].todo = @ \ {seq}, ![w].seq = seq,
                                  ![w].docs[seq] = 1]
        /\ update_one(w, Col, own(w, seq), Set(1))
    /\ UNCHANGED <<round, stats, details>>

UpdateDone(w) ==
    /\ Worker(w, "update", "updates")
    /\ \/ Got(w) /\ Tally({"updates"}) /\ UNCHANGED details
       \/ Failed(w) /\ Report(w)
    /\ UNCHANGED <<wireVars, clientVars, round, local>>

\* Faulty variant: the query names the seq only.
DeleteCallBySeq(w) ==
    /\ Worker(w, "deletes", "delete")
    /\ \E seq \in local[w].todo \cap DOMAIN local[w].docs :
        /\ local' = [local EXCEPT ![w].todo = @ \ {seq}, ![w].seq = seq]
        /\ delete_one(w, Col, [seq |-> seq])
    /\ UNCHANGED <<round, stats, details>>

\* Phase 3
DeleteCall(w) ==
    /\ Worker(w, "deletes", "delete")
    /\ \E seq \in local[w].todo \cap DOMAIN local[w].docs :
        /\ local' = [local EXCEPT ![w].todo = @ \ {seq}, ![w].seq = seq]
        /\ delete_one(w, Col, own(w, seq))
    /\ UNCHANGED <<round, stats, details>>

\* `del local_docs[seq]` once delete_one has returned.
DeleteDone(w) ==
    /\ Worker(w, "delete", "deletes")
    /\ \/ /\ Got(w)
          /\ local' = [local EXCEPT ![w].docs =
                          Restrict(@, DOMAIN @ \ {local[w].seq})]
          /\ Tally({"deletes"})
          /\ UNCHANGED details
       \/ /\ Failed(w)
          /\ Report(w)
          /\ UNCHANGED local
    /\ UNCHANGED <<wireVars, clientVars, round>>

\* local_docs is published and the connection closed.
Publish(w) ==
    /\ Worker(w, "deletes", "done")
    /\ local[w].todo = {}
    /\ close(w)
    /\ UNCHANGED <<round, local, stats, details>>

integrity_worker(w) ==
    \/ WorkerConnect(w) /\ UNCHANGED <<details, checkVars>>
    \/ InsertCall(w) \/ InsertDone(w)
    \/ Draw(w, "loop", "updates", UPDATES_PER_WORKER)
    \/ Skip(w, "updates") \/ UpdateCall(w) \/ UpdateDone(w)
    \/ Draw(w, "updates", "deletes", DELETES_PER_WORKER)
    \/ Skip(w, "deletes") \/ DeleteCall(w) \/ DeleteDone(w)
    \/ Publish(w)

-----------------------------------------------------------------------------

Init ==
    /\ TestInit({"inserts", "updates", "deletes", "errors"},
                [docs |-> <<>>, todo |-> {}, seq |-> 0])
    /\ ServerInit
    /\ details = {}
    /\ worker_id = CHOOSE w \in Workers : TRUE
    /\ actual = <<>>
    /\ actual_total = 0

ReceiveAny == \E c \in Conns : Receive(c) /\ UNCHANGED <<details, checkVars>>
ServeAny   == \E c \in Conns : Serve(c) /\ UNCHANGED <<details, checkVars>>

\* main has returned or died of an exception: the threads were not yet
\* started or are joined.
Exits == pcMain.phase \in {"verdict", "died"} /\ UNCHANGED allVars

Next ==
    \/ test_data_integrity
    \/ \E w \in Workers : integrity_worker(w)
    \/ ReceiveAny
    \/ ServeAny
    \/ Exits

Spec == Init /\ [][Next]_allVars

-----------------------------------------------------------------------------

TypeOK ==
    /\ TestTypeOK({"insert", "updates", "update", "deletes", "delete"}, 5)
    /\ DOMAIN stats = {"inserts", "updates", "deletes", "errors"}
    /\ \A w \in Workers :
        /\ local[w].docs \in [DOMAIN local[w].docs -> {0, 1}]
        /\ DOMAIN local[w].docs \subseteq 0..(DOCS_PER_WORKER - 1)
        /\ local[w].todo \subseteq 0..(DOCS_PER_WORKER - 1)
    /\ details \subseteq Workers
    /\ worker_id \in Workers
    /\ DOMAIN actual \subseteq Workers
    /\ actual_total \in 0..MaxDocs

\* What the verification finds wrong of worker w's documents.
Wrong(w) == Missing(w) \cup ExtraDocs(w) \cup Corrupt(w)

\* The test passes (line 567 returns True) when no call timed out: no
\* document is missing, extra or corrupt, count(col) is the number of
\* documents expected, and no call of a worker raised.  When a call of a
\* worker timed out, that worker reads the responses of its earlier calls
\* from then on and its last request is handled after it has closed; the
\* documents of every worker that reported no error still verify.  The
\* workers' insert, update_one and delete_one calls interleave freely
\* inside the server, and each touches one document of its own worker only.
TestPasses ==
    Verdict => /\ \A w \in DOMAIN actual \ details : Wrong(w) = {}
               /\ timeouts = 0 => all_ok

\* What the collection holds of worker w, as local_docs would say it.
InStore(w) ==
    LET docs == Matching(didx[Col], [key |-> w])
    IN  [s \in {d.seq : d \in docs} |-> (CHOOSE d \in docs : d.seq = s).val]

\* The seq of the call w waits for, if any.
InFlight(w) ==
    CASE pc[w] = "insert" -> {round[w]}
      [] pc[w] \in {"update", "delete"} -> {local[w].seq}
      [] OTHER -> {}

\* While the workers run, the local_docs of a worker that has reported no
\* error and the collection differ at most in the one document whose call
\* is under way (lines 384-386, 403-411 and 425-426 change the two at
\* different moments).  Whatever the other workers do in between, one whose
\* responses are late by one included, its expectation is never behind or
\* ahead by more.
LocalTracksStore ==
    \A w \in Workers \ details :
        LET there == InStore(w)
            here  == local[w].docs
            calm  == (0..(DOCS_PER_WORKER - 1)) \ InFlight(w)
        IN  pcMain.phase = "storm" =>
                /\ DOMAIN there \cap calm = DOMAIN here \cap calm
                /\ \A s \in DOMAIN here \cap calm : there[s] = here[s]

\* Once the threads are joined, nothing but the verification's own drop
\* changes what the collection holds of a worker that reported no error:
\* every request of that worker was handled before it read the response
\* and closed, so what find (line 476) returns of it is final.  A worker
\* whose call timed out closes with a request the server has yet to
\* handle, and handles while the verification reads; it changes that
\* worker's documents and no other's.
StoreSettled ==
    [][pcMain.phase = "verify" /\ pcMain.n # 2
          => \A w \in Workers \ details : InStore(w)' = InStore(w)]_allVars

=============================================================================

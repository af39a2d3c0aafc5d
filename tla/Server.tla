------------------------------- MODULE Server -------------------------------
(***************************************************************************)
(* The oxidb-server as a client sees it on the wire: the collection map,   *)
(* the document index (DIDX) and append-only log (LOG) of each collection, *)
(* and the transaction manager (TXM) with snapshot reads and optimistic    *)
(* commit validation.  The server's source is not part of this repository: *)
(* every definition here is taken from the design specification (sections  *)
(* 3, 4.1, 4.2, 4.4, 4.7, 5, 6 and 7).                                     *)
(*                                                                         *)
(* A request is handled in one step: section 4.4 holds the commit lock     *)
(* from validation to the release after the log append, the fsync and the  *)
(* index update, and non-transactional writes run under the same           *)
(* discipline, so no other commit of the collection falls in between.      *)
(***************************************************************************)
EXTENDS Wire, SequencesExt, TLC

VARIABLES
    colls,      \* the collections that exist
    didx,       \* didx[k]: the live documents of collection k
    sidx,       \* sidx[k]: the definitions of k's secondary indexes
    log,        \* log[k]: the commit batches appended to k's log, in order
    nextId,     \* the next _id to assign (ids are never reused)
    tx          \* tx[c]: the transaction of connection c

serverVars == <<colls, didx, sidx, log, nextId, tx>>

\* An index definition (section 3) by the command that creates it; Range
\* and Vector indexes are left out.
IndexKind == [create_index |-> "Equality", create_unique_index |-> "Unique",
              create_composite_index |-> "Composite", create_text_index |-> "Text"]
IndexDef  == [kind : Range(IndexKind), on : SUBSET STRING]

\* An entry of a write set: the staged document, what is done to it, and the
\* version the transaction read of it (0: none, the document is new).
Entry == [coll : Colls, doc : Stored, kind : {"Insert", "Update", "Delete"},
          readVersion : Nat]

LogRecord == [type : {"Insert", "Update", "Delete"}, doc : Stored]

NoTx == [open |-> FALSE, snap |-> [k \in Colls |-> {}], writes |-> <<>>]

-----------------------------------------------------------------------------
(* Reading *)

\* The documents of k that a write set W leaves of, and adds to, docs.
Overlay(docs, W, k) ==
    {d \in docs : d.id \notin DOMAIN W}
        \cup {W[i].doc : i \in {j \in DOMAIN W : W[j].coll = k /\ W[j].kind # "Delete"}}

\* Faulty variant: a transaction reads the committed state, not its snapshot.
ViewCommitted(c, k) == didx[k]

\* What connection c reads of collection k: its snapshot overlaid by its own
\* writes inside a transaction, the committed state outside.
View(c, k) ==
    IF tx[c].open THEN Overlay(tx[c].snap[k], tx[c].writes, k) ELSE didx[k]

\* c may read k: it exists, or c's transaction has inserted into it.
Known(c, k) ==
    k \in colls \/ \E i \in DOMAIN tx[c].writes : tx[c].writes[i].coll = k

\* A result list: the documents in _id order.
AsList(docs) == SetToSortSeq(docs, LAMBDA a, b : a.id < b.id)

\* Section 4.5: the matches are sorted (stably, from _id order), and skip
\* and limit are applied after the sort.
Ordered(docs, req) ==
    IF "sort" \notin DOMAIN req THEN AsList(docs)
    ELSE LET by == req.sort.by
             up == req.sort.dir
         IN  SetToSortSeq(docs, LAMBDA a, b :
                 \/ up * a[by] < up * b[by]
                 \/ a[by] = b[by] /\ a.id < b.id)

Paged(list, req) ==
    LET skip == IF "skip" \in DOMAIN req THEN req.skip ELSE 0
        last == IF "limit" \in DOMAIN req THEN Min({Len(list), skip + req.limit})
                                          ELSE Len(list)
    IN  SubSeq(list, skip + 1, last)

\* The lists a find may answer with: the one section 4.5 gives; any of docs
\* for a query the model does not evaluate or a sort on a field it leaves
\* out of the documents.
Select(docs, req) ==
    IF \/ req.query = SomeOf
       \/ "sort" \in DOMAIN req /\ \E d \in docs : req.sort.by \notin DOMAIN d
    THEN {AsList(some) : some \in SUBSET docs}
    ELSE {Paged(Ordered(Matching(docs, req.query), req), req)}

\* What update_one and delete_one act on: the first match, if any.
FirstOf(docs) == {d \in docs : \A e \in docs : d.id <= e.id}

-----------------------------------------------------------------------------
(* Staging and committing *)

ApplyUpdate(d, u) ==
    [d EXCEPT !.val = CASE u.op = "$set" -> u.val
                        [] u.op = "$inc" -> @ + u.val
                        [] OTHER         -> @]

\* Section 4.3: under a Unique index of k, a document of docs has the key of
\* another one of docs or of live.
Duplicate(k, docs, live) ==
    \E ix \in sidx[k] :
        /\ ix.kind = "Unique"
        /\ \E d \in docs, e \in live \cup docs :
              d.id # e.id /\ \A f \in ix.on : d[f] = e[f]

\* The write set W after `kind` is staged in collection k for docs, which
\* hold the new contents.  A document W already holds keeps the version
\* that was read first, and stays an Insert if the transaction created it;
\* a delete of what the transaction created takes it out of W.
Staged(W, k, docs, kind) ==
    LET ids  == {d.id : d \in docs}
        mine == {i \in ids \cap DOMAIN W : W[i].kind = "Insert"}
    IN  [i \in (DOMAIN W \cup ids) \ (IF kind = "Delete" THEN mine ELSE {}) |->
            IF i \in ids
            THEN [coll |-> k, doc |-> CHOOSE d \in docs : d.id = i,
                  kind |-> IF i \in mine THEN "Insert" ELSE kind,
                  readVersion |-> IF i \in DOMAIN W THEN W[i].readVersion
                                  ELSE IF kind = "Insert" THEN 0
                                  ELSE (CHOOSE d \in docs : d.id = i).version]
            ELSE W[i]]

\* Faulty variant: commit without validation (last writer wins).
NeverConflicts(W) == FALSE

\* Commit step 2: some document of W was read at a version that is no
\* longer the current one, or is gone.
Conflicts(W) ==
    \E i \in DOMAIN W :
        /\ W[i].readVersion # 0
        /\ ~\E d \in didx[W[i].coll] : d.id = i /\ d.version = W[i].readVersion

\* Commit step 4: 1 for an insert, the current version + 1 for the others.
NewVersion(w) ==
    IF w.kind = "Insert" THEN 1
    ELSE (CHOOSE d \in didx[w.coll] : d.id = w.doc.id).version + 1

\* Commit step 5: the records of W for collection k, one batch.
Batch(W, k) ==
    {[type |-> W[i].kind, doc |-> [W[i].doc EXCEPT !.version = NewVersion(W[i])]] :
        i \in {j \in DOMAIN W : W[j].coll = k}}

\* Commit step 6 and recovery: docs with one batch applied.
ApplyBatch(docs, batch) ==
    {d \in docs : d.id \notin {r.doc.id : r \in batch}}
        \cup {r.doc : r \in {s \in batch : s.type # "Delete"}}

\* Recovery (section 4.7): the documents a log rebuilds, from offset 0.
Replay(batches) == FoldLeft(ApplyBatch, {}, batches)

\* Faulty variant: the index is updated and the log is not appended to.
InstallUnlogged(W) ==
    LET touched == {W[i].coll : i \in DOMAIN W}
    IN  /\ colls' = colls \cup touched
        /\ didx'  = [k \in Colls |->
                        IF k \in touched THEN ApplyBatch(didx[k], Batch(W, k)) ELSE didx[k]]
        /\ UNCHANGED log

\* Commit steps 4 to 6 for a validated write set W; a collection that
\* receives its first insert is created.
Install(W) ==
    LET touched == {W[i].coll : i \in DOMAIN W}
    IN  /\ colls' = colls \cup touched
        /\ log'   = [k \in Colls |->
                        IF k \in touched THEN Append(log[k], Batch(W, k)) ELSE log[k]]
        /\ didx'  = [k \in Colls |->
                        IF k \in touched THEN ApplyBatch(didx[k], Batch(W, k)) ELSE didx[k]]

-----------------------------------------------------------------------------
(* The connection handler: one request of c is taken off the wire, handled  *)
(* and answered.  A response to a connection the client has closed is lost. *)

Req(c) == Head(inbox[c])

\* The next request of c is one of cmds.
Takes(c, cmds) == inbox[c] # <<>> /\ Req(c).cmd \in cmds

Reply(c, r) ==
    /\ inbox'  = [inbox EXCEPT ![c] = Tail(@)]
    /\ outbox' = [outbox EXCEPT ![c] = IF conn[c] = "open" THEN Append(@, r) ELSE @]
    /\ UNCHANGED conn

\* Faulty variant: a write inside a transaction is committed at once.
WriteThrough(c, W, made, done) ==
    /\ Install(W)
    /\ Reply(c, Ok(done))
    /\ UNCHANGED tx

\* A write of c: staged in its open transaction, or committed at once as an
\* implicit single-statement transaction whose answer is `done`.  `made` are
\* the collections the request itself creates.
Write(c, W, made, done) ==
    \/ /\ tx[c].open
       /\ tx' = [tx EXCEPT ![c].writes = W]
       /\ colls' = colls \cup made
       /\ Reply(c, Ok([buffered |-> TRUE]))
       /\ UNCHANGED <<didx, log>>
    \/ /\ ~tx[c].open
       /\ Install(W)
       /\ Reply(c, Ok(done))
       /\ UNCHANGED tx

Ping(c) ==
    /\ Takes(c, {"ping"})
    /\ Reply(c, Ok(Text("pong")))
    /\ UNCHANGED serverVars

CreateCollection(c) ==
    /\ Takes(c, {"create_collection"})
    /\ \/ /\ Req(c).collection \in colls
          /\ Reply(c, Err("CollectionExists"))
          /\ UNCHANGED colls
       \/ /\ Req(c).collection \notin colls
          /\ colls' = colls \cup {Req(c).collection}
          /\ Reply(c, Ok([created |-> TRUE]))
    /\ UNCHANGED <<didx, sidx, log, nextId, tx>>

\* Faulty variant: the drop clears the documents of every collection.
DropCollectionAll(c) ==
    LET k == Req(c).collection
    IN  /\ Takes(c, {"drop_collection"})
        /\ \/ /\ k \notin colls
              /\ Reply(c, Err("CollectionNotFound"))
              /\ UNCHANGED <<colls, didx, sidx, log>>
           \/ /\ k \in colls
              /\ colls' = colls \ {k}
              /\ didx'  = [j \in Colls |-> {}]
              /\ sidx'  = [sidx EXCEPT ![k] = {}]
              /\ log'   = [log EXCEPT ![k] = <<>>]
              /\ Reply(c, Ok([dropped |-> TRUE]))
        /\ UNCHANGED <<nextId, tx>>

\* Drop truncates the log and clears the indexes of the collection.
DropCollection(c) ==
    LET k == Req(c).collection
    IN  /\ Takes(c, {"drop_collection"})
        /\ \/ /\ k \notin colls
              /\ Reply(c, Err("CollectionNotFound"))
              /\ UNCHANGED <<colls, didx, sidx, log>>
           \/ /\ k \in colls
              /\ colls' = colls \ {k}
              /\ didx'  = [didx EXCEPT ![k] = {}]
              /\ sidx'  = [sidx EXCEPT ![k] = {}]
              /\ log'   = [log EXCEPT ![k] = <<>>]
              /\ Reply(c, Ok([dropped |-> TRUE]))
        /\ UNCHANGED <<nextId, tx>>

ListCollections(c) ==
    /\ Takes(c, {"list_collections"})
    /\ Reply(c, Ok([names |-> colls]))
    /\ UNCHANGED serverVars

CreateIndex(c) ==
    LET k  == Req(c).collection
        on == IF "field" \in DOMAIN Req(c) THEN {Req(c).field} ELSE Req(c).fields
    IN  /\ Takes(c, DOMAIN IndexKind)
        /\ \/ /\ k \notin colls
              /\ Reply(c, Err("CollectionNotFound"))
              /\ UNCHANGED sidx
           \/ /\ k \in colls
              /\ sidx' = [sidx EXCEPT ![k] = @ \cup {[kind |-> IndexKind[Req(c).cmd], on |-> on]}]
              /\ Reply(c, Ok([created |-> TRUE]))
        /\ UNCHANGED <<colls, didx, log, nextId, tx>>

ListIndexes(c) ==
    LET k == Req(c).collection
    IN  /\ Takes(c, {"list_indexes"})
        /\ Reply(c, IF k \in colls THEN Ok([indexes |-> sidx[k]])
                                    ELSE Err("CollectionNotFound"))
        /\ UNCHANGED serverVars

DropIndex(c) ==
    LET k    == Req(c).collection
        gone == {ix \in sidx[k] : ix.on = {Req(c).field}}
    IN  /\ Takes(c, {"drop_index"})
        /\ \/ /\ gone = {}
              /\ Reply(c, Err(IF k \in colls THEN "IndexNotFound" ELSE "CollectionNotFound"))
              /\ UNCHANGED sidx
           \/ /\ gone # {}
              /\ sidx' = [sidx EXCEPT ![k] = @ \ gone]
              /\ Reply(c, Ok([dropped |-> TRUE]))
        /\ UNCHANGED <<colls, didx, log, nextId, tx>>

\* Faulty variant: a collection is created when its first insert commits.
CreatesOnCommit(c, k) == IF tx[c].open THEN {} ELSE {k}

\* Section 3, lifecycle: a collection is created implicitly on the first
\* insert, the insert a transaction only stages included.
Creates(c, k) == {k}

\* insert and insert_many: the new documents take the next ids, and are
\* refused together when one of them breaks a unique index.
Insert(c) ==
    LET k    == Req(c).collection
        docs == IF Req(c).cmd = "insert" THEN <<Req(c).doc>> ELSE Req(c).docs
        ids  == [i \in DOMAIN docs |-> nextId + i - 1]
        new  == {[id |-> ids[i], version |-> 1] @@ docs[i] : i \in DOMAIN docs}
    IN  /\ Takes(c, {"insert", "insert_many"})
        /\ nextId + Len(docs) - 1 <= MaxDocs
        /\ \/ /\ Duplicate(k, new, View(c, k))
              /\ Reply(c, Err("DuplicateKey"))
              /\ UNCHANGED <<colls, didx, log, nextId, tx>>
           \/ /\ ~Duplicate(k, new, View(c, k))
              /\ nextId' = nextId + Len(docs)
              /\ Write(c, Staged(tx[c].writes, k, new, "Insert"), Creates(c, k),
                       IF Req(c).cmd = "insert" THEN [id |-> nextId] ELSE [ids |-> ids])
        /\ UNCHANGED sidx

\* find answers a list, find_one the first match or null.
Found(cmd, list) ==
    IF cmd = "find" THEN [docs |-> list]
    ELSE IF list = <<>> THEN None
    ELSE Head(list)

Find(c) ==
    LET k == Req(c).collection
    IN  /\ Takes(c, {"find", "find_one"})
        /\ \/ /\ ~Known(c, k)
              /\ Reply(c, Err("CollectionNotFound"))
           \/ /\ Known(c, k)
              /\ \E list \in Select(View(c, k), Req(c)) :
                    Reply(c, Ok(Found(Req(c).cmd, list)))
        /\ UNCHANGED serverVars

\* aggregate and text_search answer a list of rows: the matches of a
\* pipeline that is one $match stage; the other results are left out.
Evaluate(c) ==
    LET k    == Req(c).collection
        rows == IF "pipeline" \in DOMAIN Req(c) /\ "match" \in DOMAIN Req(c).pipeline
                THEN AsList(Matching(View(c, k), Req(c).pipeline.match))
                ELSE "evaluated"
    IN  /\ Takes(c, {"aggregate", "text_search"})
        /\ Reply(c, IF Known(c, k) THEN Ok([rows |-> rows]) ELSE Err("CollectionNotFound"))
        /\ UNCHANGED serverVars

Count(c) ==
    LET k == Req(c).collection
    IN  /\ Takes(c, {"count"})
        /\ \/ /\ ~Known(c, k)
              /\ Reply(c, Err("CollectionNotFound"))
           \/ /\ Known(c, k)
              /\ Reply(c, Ok([count |-> Cardinality(Matching(View(c, k), Req(c).query))]))
        /\ UNCHANGED serverVars

\* update changes every match, update_one the first one.
Update(c) ==
    LET k    == Req(c).collection
        all  == Matching(View(c, k), Req(c).query)
        hit  == IF Req(c).cmd = "update" THEN all ELSE FirstOf(all)
        docs == {ApplyUpdate(d, Req(c).update) : d \in hit}
    IN  /\ Takes(c, {"update", "update_one"})
        /\ \/ /\ ~Known(c, k)
              /\ Reply(c, Err("CollectionNotFound"))
              /\ UNCHANGED <<colls, didx, log, tx>>
           \/ /\ Known(c, k)
              /\ Write(c, Staged(tx[c].writes, k, docs, "Update"), {},
                       [modified |-> Cardinality(hit)])
        /\ UNCHANGED <<sidx, nextId>>

\* delete removes every match, delete_one the first one.
Delete(c) ==
    LET k   == Req(c).collection
        all == Matching(View(c, k), Req(c).query)
        hit == IF Req(c).cmd = "delete" THEN all ELSE FirstOf(all)
    IN  /\ Takes(c, {"delete", "delete_one"})
        /\ \/ /\ ~Known(c, k)
              /\ Reply(c, Err("CollectionNotFound"))
              /\ UNCHANGED <<colls, didx, log, tx>>
           \/ /\ Known(c, k)
              /\ Write(c, Staged(tx[c].writes, k, hit, "Delete"), {},
                       [deleted |-> Cardinality(hit)])
        /\ UNCHANGED <<sidx, nextId>>

\* Section 4.1: the log is rewritten with the live records only.
Compact(c) ==
    LET k    == Req(c).collection
        live == {[type |-> "Insert", doc |-> d] : d \in didx[k]}
    IN  /\ Takes(c, {"compact"})
        /\ \/ /\ k \notin colls
              /\ Reply(c, Err("CollectionNotFound"))
              /\ UNCHANGED log
           \/ /\ k \in colls
              /\ log' = [log EXCEPT ![k] = IF live = {} THEN <<>> ELSE <<live>>]
              /\ Reply(c, Ok([docs_kept |-> Cardinality(live)]))
        /\ UNCHANGED <<colls, didx, sidx, nextId, tx>>

BeginTx(c) ==
    /\ Takes(c, {"begin_tx"})
    /\ \/ /\ tx[c].open
          /\ Reply(c, Err("TransactionAlreadyActive"))
          /\ UNCHANGED tx
       \/ /\ ~tx[c].open
          /\ tx' = [tx EXCEPT ![c] = [open |-> TRUE, snap |-> didx, writes |-> <<>>]]
          /\ Reply(c, Ok([tx_id |-> c]))
    /\ UNCHANGED <<colls, didx, sidx, log, nextId>>

\* Commit steps 1 to 7.  A failed validation ends the transaction.
CommitTx(c) ==
    /\ Takes(c, {"commit_tx"})
    /\ \/ /\ ~tx[c].open
          /\ Reply(c, Err("NoActiveTransaction"))
          /\ UNCHANGED <<colls, didx, log, tx>>
       \/ /\ tx[c].open
          /\ Conflicts(tx[c].writes)
          /\ tx' = [tx EXCEPT ![c] = NoTx]
          /\ Reply(c, Err("TransactionConflict"))
          /\ UNCHANGED <<colls, didx, log>>
       \/ /\ tx[c].open
          /\ ~Conflicts(tx[c].writes)
          /\ Install(tx[c].writes)
          /\ tx' = [tx EXCEPT ![c] = NoTx]
          /\ Reply(c, Ok([committed |-> TRUE]))
    /\ UNCHANGED <<sidx, nextId>>

RollbackTx(c) ==
    /\ Takes(c, {"rollback_tx"})
    /\ \/ /\ ~tx[c].open
          /\ Reply(c, Err("NoActiveTransaction"))
          /\ UNCHANGED tx
       \/ /\ tx[c].open
          /\ tx' = [tx EXCEPT ![c] = NoTx]
          /\ Reply(c, Ok([rolled_back |-> TRUE]))
    /\ UNCHANGED <<colls, didx, sidx, log, nextId>>

\* The server reads end-of-stream on a connection the client closed: an
\* open transaction is aborted (section 5).
Disconnect(c) ==
    /\ conn[c] = "closed"
    /\ inbox[c] = <<>>
    /\ tx[c].open
    /\ tx' = [tx EXCEPT ![c] = NoTx]
    /\ UNCHANGED <<colls, didx, sidx, log, nextId, wireVars>>

Handle(c) ==
    \/ Ping(c)
    \/ CreateCollection(c) \/ ListCollections(c) \/ DropCollection(c)
    \/ CreateIndex(c) \/ ListIndexes(c) \/ DropIndex(c)
    \/ Insert(c) \/ Find(c) \/ Count(c) \/ Update(c) \/ Delete(c)
    \/ Evaluate(c) \/ Compact(c)
    \/ BeginTx(c) \/ CommitTx(c) \/ RollbackTx(c)
    \/ Disconnect(c)

ServerInit ==
    /\ colls  = {}
    /\ didx   = [k \in Colls |-> {}]
    /\ sidx   = [k \in Colls |-> {}]
    /\ log    = [k \in Colls |-> <<>>]
    /\ nextId = 1
    /\ tx     = [c \in Conns |-> NoTx]

\* A server whose only collection k holds one document, inserted as doc.
ServerHolding(k, doc) ==
    LET d == [id |-> 1, version |-> 1, key |-> doc.key, val |-> doc.val]
    IN  /\ colls  = {k}
        /\ didx   = [j \in Colls |-> IF j = k THEN {d} ELSE {}]
        /\ sidx   = [j \in Colls |-> {}]
        /\ log    = [j \in Colls |-> IF j = k THEN <<{[type |-> "Insert", doc |-> d]}>> ELSE <<>>]
        /\ nextId = 2
        /\ tx     = [c \in Conns |-> NoTx]

ServerTypeOK ==
    /\ colls \subseteq Colls
    /\ didx \in [Colls -> SUBSET Stored]
    /\ sidx \in [Colls -> SUBSET IndexDef]
    /\ \A k \in Colls : \A i \in DOMAIN log[k] : log[k][i] \subseteq LogRecord
    /\ nextId \in 1..(MaxDocs + 1)
    /\ \A c \in Conns :
        /\ tx[c].open \in BOOLEAN
        /\ tx[c].snap \in [Colls -> SUBSET Stored]
        /\ DOMAIN tx[c].writes \subseteq Ids
        /\ \A i \in DOMAIN tx[c].writes :
            tx[c].writes[i] \in Entry /\ tx[c].writes[i].doc.id = i

=============================================================================

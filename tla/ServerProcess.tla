---------------------------- MODULE ServerProcess ----------------------------
(***************************************************************************)
(* The server as an operating-system process that a test starts, kills and *)
(* starts again on the same data directory: class ServerProcess and        *)
(* connect of examples/python/test_crash_recovery.py.                      *)
(*                                                                         *)
(* What the process holds in memory (the document index, the transactions, *)
(* the id counter, the connections) ends with it; the log files, the       *)
(* collections they belong to and the index definitions stay.  Start-up    *)
(* runs recovery (REC, section 4.7 of the design specification) before     *)
(* the first connection is accepted.                                       *)
(***************************************************************************)
EXTENDS TestHarness

VARIABLE proc   \* ServerProcess.proc: "running", or "none"

Running == proc = "running"

\* The _id values that occur in the logs.
LoggedIds == {r.doc.id : r \in UNION {UNION Range(log[k]) : k \in Colls}}

\* Faulty variant: recovery takes the last batch of a log for a torn tail.
RecoverWithoutTail ==
    /\ didx'   = [k \in Colls |-> IF log[k] = <<>> THEN {} ELSE Replay(Front(log[k]))]
    /\ nextId' = Max(LoggedIds \cup {0}) + 1
    /\ UNCHANGED <<colls, sidx, log, tx>>

\* REC: every log is replayed from offset 0.
Recover ==
    /\ didx'   = [k \in Colls |-> Replay(log[k])]
    /\ nextId' = Max(LoggedIds \cup {0}) + 1
    /\ UNCHANGED <<colls, sidx, log, tx>>

\* start(): Popen, and _wait_ready returns once a ping is answered.
start ==
    /\ ~Running
    /\ proc' = "running"
    /\ Recover

\* Faulty variant: the process is stopped, not ended; its sockets stay open
\* and nothing answers on them.
Suspended ==
    /\ proc' = "none"
    /\ UNCHANGED <<wireVars, serverVars>>

\* The process ends.  Requests it had not handled are gone, every
\* connection is ended, and a response written but not yet read may or may
\* not still reach its client.
Ended ==
    /\ proc'   = "none"
    /\ didx'   = [k \in Colls |-> {}]
    /\ tx'     = [c \in Conns |-> NoTx]
    /\ nextId' = 1
    /\ conn'   = [c \in Conns |-> IF conn[c] = "open" THEN "reset" ELSE conn[c]]
    /\ inbox'  = [c \in Conns |-> <<>>]
    /\ \E lost \in SUBSET {c \in Conns : outbox[c] # <<>>} :
        outbox' = [c \in Conns |-> IF c \in lost THEN <<>> ELSE outbox[c]]
    /\ UNCHANGED <<colls, sidx, log>>

\* kill() is SIGKILL, stop_graceful() SIGTERM and a wait; a process that is
\* not running is left alone.  A model of the log that is whole after every
\* request does not tell the two apart.
kill ==
    \/ Running /\ Ended
    \/ ~Running /\ UNCHANGED <<proc, wireVars, serverVars>>

stop_graceful == kill

\* connect(): the constructor of OxiDbClient connects, or raises when
\* nothing listens.
connect(c) ==
    /\ Running
    /\ Connect(c)

Refused(c) ==
    /\ ~Running
    /\ conn[c] = "none"

\* The connection handlers run while the process does.
ServeRunning(c) ==
    /\ Running
    /\ Serve(c)
    /\ UNCHANGED proc

ProcTypeOK == proc \in {"running", "none"}

=============================================================================

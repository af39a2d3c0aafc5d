---------------------------- MODULE MCRemoteDemo ----------------------------
(***************************************************************************)
(* RemoteDemo for TLC: the names and values of the script, and the two     *)
(* clients it is run with.                                                 *)
(***************************************************************************)
EXTENDS RemoteDemo

MCColls   == Range(cols)
MCKeys    == {"alice", "bob", "programming", "databases", "test", "void", "temp",
              "error", "info", "debug"}
MCVals    == 0..1
MCBuckets == {bucket}
MCObjKeys == {t.key : t \in Range(texts)}
MCPrefixes == [k \in MCObjKeys |-> IF k = texts[2].key THEN {"python"} ELSE {}]

\* The client of python/oxidb.py, and one that also has the four methods
\* main expects.
ThisClient  == {Methods}
BothClients == {Methods, Methods \cup Range(Expects)}

=============================================================================

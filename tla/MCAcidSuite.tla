----------------------------- MODULE MCAcidSuite -----------------------------
(***************************************************************************)
(* AcidSuite for TLC: the names and values of the tests, and a pool of     *)
(* connections.                                                            *)
(***************************************************************************)
EXTENDS AcidSuite

MCConns   == 1..5
MCColls   == {"t_stress", "t_stress_batch", "t_stress_read", "t_crud", "t_opts",
              "t_idx", "t_col_mgmt", "t_compact", "t_agg", "t_atom_users",
              "t_atom_orders", "t_rb_users", "t_rb_orders", "t_disc_users",
              "t_occ_accounts", "t_iso_items", "t_conc_a", "t_conc_b", "t_multi",
              "t_ctx", "t_ctx_rb"}
ASSUME UNION {Range(Cols[t]) : t \in Range(TESTS)} \subseteq MCColls
MCKeys    == {"Alice", "Bob", "Charlie", "item", "i", "eng", "sales", "Widget",
              "Gadget", "Ghost", "Secret", "x", "y", "Alpha", "Beta", "Gamma",
              "a", "b", "user", "even", "odd"}
MCVals    == {0, 1, 2, 25, 30, 31, 35, 80, 100, 120, 150, 200}
MCBuckets == {"test-bucket", "fts-bucket"}
MCObjKeys == {"greeting.txt", "doc1.txt"}
\* A test that leaves a client and its transaction open when it fails, and
\* the tests that fill a collection and count it.
MCSlowTests == {"atomicity_disconnect_auto_rollback",
                "stress_100k_insert", "stress_100k_insert_many", "stress_100k_find"}
MCPrefixes == [k \in MCObjKeys |-> IF k = "greeting.txt" THEN {"greet"} ELSE {}]

=============================================================================

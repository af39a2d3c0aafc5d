---------------------------- MODULE MCLifecycle ----------------------------
(* Lifecycle with one or two threads of each kind. *)
EXTENDS Lifecycle

Thread_(t, target, id) == [test |-> t, target |-> target, id |-> id]

MCRole ==
    [w \in {"writer-0"} |-> Thread_(1, "writer", 0)] @@
    [w \in {"dropper-1"} |-> Thread_(1, "dropper", 0)] @@
    [w \in {"reader-0"} |-> Thread_(2, "reader", 0)] @@
    [w \in {"dropper-2"} |-> Thread_(2, "dropper_reseeder", 0)] @@
    [w \in {"churn-0", "churn-1"} |->
        Thread_(3, "churn_worker", IF w = "churn-0" THEN 0 ELSE 1)] @@
    [w \in {"volatile-0"} |-> Thread_(4, "volatile_worker", 0)] @@
    [w \in {"stable-0"} |-> Thread_(4, "stable_reader", 0)]

MCConns == 1..4
MCColls == {"lifecycle_write", "lifecycle_read", "churn_0", "churn_1",
            "isolation_stable", "isolation_volatile"}
MCKeys  == {"writer-0", "writer-1", "dropper-1", "reader-0", "dropper-2", "churn-0",
            "churn-1", "volatile-0", "volatile-1", "stable-0", "seed", "reseed",
            "stable"}
MCVals  == 0..1
=============================================================================

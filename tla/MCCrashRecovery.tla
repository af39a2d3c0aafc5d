--------------------------- MODULE MCCrashRecovery ---------------------------
EXTENDS CrashRecovery

MCVals   == 0..(Rounds - 1)
MCclient == (147 :> "c147") @@ (186 :> "c186") @@ (262 :> "c262") @@ (296 :> "c296")

=============================================================================

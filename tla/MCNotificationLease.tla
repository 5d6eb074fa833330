------------------------ MODULE MCNotificationLease ------------------------
(***************************************************************************)
(* Small instances of NotificationLease for TLC: one tick is ten seconds   *)
(* of the lease, the second worker's clock may run one tick ahead.         *)
(***************************************************************************)
EXTENDS NotificationLease, TLC

CONSTANTS w1, w2, u1, u2

OneJob == {1}
TwoJobs == {1, 2}
OneWorker == {w1}
TwoWorkers == {w1, w2}
TwoUsers == {u1, u2}
OneFounder == {u1}
InStep == (w1 :> 0)
Ahead == (w1 :> 0) @@ (w2 :> 1)
Delays == <<1, 2>>
=============================================================================

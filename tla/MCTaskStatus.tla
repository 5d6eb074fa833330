---------------------------- MODULE MCTaskStatus ----------------------------
(***************************************************************************)
(* Small instances of TaskStatus for TLC.                                  *)
(***************************************************************************)
EXTENDS TaskStatus

CONSTANTS t1, a, b, c

OneTask == {t1}
TwoRequests == {a, b}
ThreeRequests == {a, b, c}
=============================================================================

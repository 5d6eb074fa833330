----------------------- MODULE MCProcessorScheduling -----------------------
(***************************************************************************)
(* Small instances of ProcessorScheduling for TLC.                         *)
(***************************************************************************)
EXTENDS ProcessorScheduling

CONSTANTS a, b, r1, r2

OneInstance == {a}
TwoInstances == {a, b}
OneRun == {r1}
OneJob == {1}
TwoJobs == {1, 2}
TwoRuns == {r1, r2}
=============================================================================

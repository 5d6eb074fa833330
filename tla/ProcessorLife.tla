---------------------------- MODULE ProcessorLife ----------------------------
(***************************************************************************)
(* What a process may rely on about its notification processor, from the   *)
(* moment it is up until Prisma has disconnected: one loop runs or none;   *)
(* only a processor that is open starts one, or forgets the one it has;    *)
(* once the signal has come the loop can only end, and as long as it has   *)
(* not, the pool is released only if the processor had forgotten it.       *)
(*                                                                         *)
(* ServiceProcess is built of these steps.  ProcessorScheduling, with its  *)
(* callbacks, timers and fields, implements them in every instance.        *)
(***************************************************************************)
VARIABLES
    phase,          \* "off", "up", "destroying" while onModuleDestroy waits, then "released"
    loop            \* "none", "awaited" or "forgotten" by onModuleDestroy

vars == <<phase, loop>>

Init ==
    /\ phase \in {"off", "up"}
    /\ loop = "none"

LoopStarts ==
    /\ phase = "up"
    /\ loop = "none"
    /\ loop' = "awaited"
    /\ UNCHANGED phase

\* Its promise is lost: nobody will wait for it.
LoopForgotten ==
    /\ phase = "up"
    /\ loop = "awaited"
    /\ loop' = "forgotten"
    /\ UNCHANGED phase

LoopEnds ==
    /\ loop # "none"
    /\ loop' = "none"
    /\ UNCHANGED phase

Signal ==
    /\ phase = "up"
    /\ phase' = "destroying"
    /\ UNCHANGED loop

ReleasePool ==
    /\ phase = "destroying"
    /\ loop # "awaited"
    /\ phase' = "released"
    /\ UNCHANGED loop

\* A process ends, in order or not, and another one comes up.
Begin ==
    /\ phase' \in {"off", "up"}
    /\ loop' = "none"

Next == LoopStarts \/ LoopForgotten \/ LoopEnds \/ Signal \/ ReleasePool \/ Begin

\* What the steps of the rest need for their part: every loop ends.
EveryLoopEnds == loop # "none" ~> loop = "none"

Spec == Init /\ [][Next]_vars /\ WF_vars(LoopEnds) /\ WF_vars(ReleasePool)
=============================================================================

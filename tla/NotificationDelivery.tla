------------------------ MODULE NotificationDelivery ------------------------
(***************************************************************************)
(* What the notification processor promises about one job of the outbox,   *)
(* with no clock, lease, token or worker: a job is queued together with    *)
(* the members its project has at that moment (its audience), it is        *)
(* attempted, every attempt counts, and it ends either delivered, when the *)
(* whole audience has a notification, or abandoned, after MaxAttempts      *)
(* attempts.  A notification, once written, stays, and a user has at most  *)
(* one per job (notified is a set).  Writing notifications is allowed at   *)
(* any time after the job exists, after its end too: the write carries no  *)
(* fence, so a slow attempt may still add some.                            *)
(*                                                                         *)
(* NotificationLease implements this specification.                        *)
(***************************************************************************)
EXTENDS Naturals

CONSTANTS
    Jobs,           \* the notification jobs
    Users,          \* the users that can be members of the project
    MaxAttempts     \* attempts before a job may be abandoned

VARIABLES
    phase,          \* where each job is in its life
    attempts,       \* how many attempts were started on it
    audience,       \* the project's members when the job was queued
    notified        \* the users that have its notification

vars == <<phase, attempts, audience, notified>>

Init ==
    /\ phase = [j \in Jobs |-> "none"]
    /\ attempts = [j \in Jobs |-> 0]
    /\ audience = [j \in Jobs |-> {}]
    /\ notified = [j \in Jobs |-> {}]

Enqueue(j) ==
    /\ phase[j] = "none"
    /\ phase' = [phase EXCEPT ![j] = "queued"]
    /\ \E members \in SUBSET Users : audience' = [audience EXCEPT ![j] = members]
    /\ UNCHANGED <<attempts, notified>>

\* A new attempt: on a queued job, or on one whose attempt is given up for dead.
Begin(j) ==
    /\ phase[j] \in {"queued", "attempting"}
    /\ phase' = [phase EXCEPT ![j] = "attempting"]
    /\ attempts' = [attempts EXCEPT ![j] = @ + 1]
    /\ UNCHANGED <<audience, notified>>

Notify(j) ==
    /\ phase[j] # "none"
    /\ \E to \in SUBSET Users : notified' = [notified EXCEPT ![j] = @ \cup to]
    /\ UNCHANGED <<phase, attempts, audience>>

Deliver(j) ==
    /\ phase[j] = "attempting"
    /\ audience[j] \subseteq notified[j]
    /\ phase' = [phase EXCEPT ![j] = "delivered"]
    /\ UNCHANGED <<attempts, audience, notified>>

Requeue(j) ==
    /\ phase[j] = "attempting"
    /\ phase' = [phase EXCEPT ![j] = "queued"]
    /\ UNCHANGED <<attempts, audience, notified>>

Abandon(j) ==
    /\ phase[j] = "attempting"
    /\ attempts[j] >= MaxAttempts
    /\ phase' = [phase EXCEPT ![j] = "abandoned"]
    /\ UNCHANGED <<attempts, audience, notified>>

Next ==
    \E j \in Jobs :
        Enqueue(j) \/ Begin(j) \/ Notify(j) \/ Deliver(j) \/ Requeue(j) \/ Abandon(j)

Spec == Init /\ [][Next]_vars
=============================================================================

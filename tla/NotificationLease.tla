-------------------------- MODULE NotificationLease --------------------------
(***************************************************************************)
(* The database protocol of src/notifications/notification.processor.ts:   *)
(* instances of the service claim the jobs of one outbox table, hold them  *)
(* under a lease with a random token, renew the lease from a heartbeat and *)
(* once before writing, write the notifications, and settle the job with   *)
(* an update fenced by the token and the lease.                            *)
(*                                                                         *)
(* One worker is one instance's processing loop (its processing flag lets  *)
(* it run one at a time) plus the renewal its heartbeat has in flight.     *)
(* When the loop is started is the business of ProcessorScheduling: here   *)
(* an idle worker may look for a job at any time.                          *)
(*                                                                         *)
(* Time.  Every query carries the instance's own new Date(), read when the *)
(* query is issued; the database executes it later.  clock is real time,   *)
(* Skew[w] is how far the clock of w runs ahead of it, and a query is      *)
(* executed with an issue time anywhere between the worker's previous step *)
(* and now, which covers a slow event loop as well as a slow database.     *)
(*                                                                         *)
(* A query can fail before it has an effect (QueryFails) or take effect    *)
(* and lose its reply: then the code sees an error although the row        *)
(* changed.  reply says which.  A worker can crash at any point; it comes  *)
(* back idle.                                                              *)
(***************************************************************************)
EXTENDS Integers, Sequences

CONSTANTS
    Jobs,           \* job ids, numbered in the order of their createdAt
    Workers,        \* instances of the service
    Users,          \* users that can be members of the project
    Founders,       \* the project's members at the start
    Skew,           \* by how much each worker's clock runs ahead
    LeaseDuration,  \* LEASE_DURATION_MS
    RenewInterval,  \* LEASE_RENEW_INTERVAL_MS
    RetryDelays,    \* RETRY_DELAYS_MS
    MaxAttempts,    \* MAX_ATTEMPTS
    MaxClock        \* bound of the model: the clock stops here

ASSUME ConstantsAssumption ==
    /\ Jobs \subseteq Nat \ {0}
    /\ Founders \subseteq Users
    /\ Skew \in [Workers -> Nat]
    /\ LeaseDuration \in Nat \ {0}
    /\ RenewInterval \in Nat \ {0}
    /\ RetryDelays \in Seq(Nat) /\ RetryDelays # <<>>
    /\ MaxAttempts \in Nat \ {0}
    /\ MaxClock \in Nat

VARIABLES
    clock,          \* real time
    members,        \* the project_members rows of the project
    status,         \* notification_jobs.status, "absent" before the insert
    attempts,       \* notification_jobs.attempts
    leaseToken,     \* notification_jobs.lease_token, 0 for NULL
    leaseUntil,     \* notification_jobs.lease_until, 0 for NULL
    availableAt,    \* notification_jobs.available_at
    notified,       \* per job, the users with a notifications row for its event
    audience,       \* history: the members when the job was inserted
    issued,         \* how many lease tokens were ever installed
    pc,             \* the query each worker's loop waits for
    mem,            \* the job object the loop holds in memory
    lastReply,      \* when the worker last ran: its next query is issued later
    beatDue,        \* when its heartbeat timer fires next
    renewal         \* issue time of the heartbeat's renewal in flight

rows == <<status, attempts, leaseToken, leaseUntil, availableAt>>
loop == <<pc, mem, lastReply>>
beat == <<beatDue, renewal>>
vars == <<clock, members, rows, notified, audience, issued, loop, beat>>

NoToken == 0
NoTime == 0
NoTimer == 0
NoRenewal == -1

\* The job object of a loop: now is kept between the two statements of a claim, to holds the
\* recipients once they are read.
Copy(j, token, n, now) == [job |-> j, token |-> token, attempts |-> n, now |-> now, to |-> {}]

\* Nothing in memory: between two jobs, and after a crash.
NoJob == Copy(0, NoToken, 0, NoTime)

\* The awaits of processJob's try and catch blocks.
Working == {"read", "renew", "write", "complete", "fail"}

\* The awaits whose query carries a new Date(); lastReply is kept for these only.
Dated == {"idle", "renew", "complete", "fail"}

Local(w, t) == t + Skew[w]

IssueTimes(w) == {Local(w, t) : t \in lastReply[w] .. clock}

\* Variant: failed jobs are scanned like pending ones.
ClaimableOrFailed(j, now) ==
    \/ status[j] \in {"pending", "failed"} /\ availableAt[j] <= now
    \/ status[j] = "processing" /\ leaseUntil[j] <= now

\* Variant: a lease is taken over as soon as its holder is late with a renewal.
ClaimableBeforeExpiry(j, now) ==
    \/ status[j] = "pending" /\ availableAt[j] <= now
    \/ status[j] = "processing" /\ leaseUntil[j] <= now + RenewInterval

\* The OR condition of findFirst and of the claiming updateMany.
Claimable(j, now) ==
    \/ status[j] = "pending" /\ availableAt[j] <= now
    \/ status[j] = "processing" /\ leaseUntil[j] <= now

\* Variant: the fence forgets the token.
FencedByStatus(j, token, now) ==
    /\ status[j] = "processing"
    /\ leaseUntil[j] > now

\* The condition of every update of a held job: the fence.
Fenced(j, token, now) ==
    /\ status[j] = "processing"
    /\ leaseToken[j] = token
    /\ leaseUntil[j] > now

RetryDelay(n) == IF n \in DOMAIN RetryDelays THEN RetryDelays[n]
                                             ELSE RetryDelays[Len(RetryDelays)]

\* Variant: off by one.
ExhaustedEarly(n) == n >= MaxAttempts - 1

Exhausted(n) == n >= MaxAttempts

Init ==
    /\ clock = 0
    /\ members = Founders
    /\ status = [j \in Jobs |-> "absent"]
    /\ attempts = [j \in Jobs |-> 0]
    /\ leaseToken = [j \in Jobs |-> NoToken]
    /\ leaseUntil = [j \in Jobs |-> NoTime]
    /\ availableAt = [j \in Jobs |-> 0]
    /\ notified = [j \in Jobs |-> {}]
    /\ audience = [j \in Jobs |-> {}]
    /\ issued = 0
    /\ pc = [w \in Workers |-> "idle"]
    /\ mem = [w \in Workers |-> NoJob]
    /\ lastReply = [w \in Workers |-> 0]
    /\ beatDue = [w \in Workers |-> 0]
    /\ renewal = [w \in Workers |-> NoRenewal]

-----------------------------------------------------------------------------
(* The environment: time, the projects service and the tasks service.      *)

Tick ==
    /\ clock < MaxClock
    /\ clock' = clock + 1
    /\ UNCHANGED <<members, rows, notified, audience, issued, loop, beat>>

\* POST /projects/:id/members commits a row; nothing in the service removes one.
AddMember(u) ==
    /\ u \notin members
    /\ members' = members \cup {u}
    /\ UNCHANGED <<clock, rows, notified, audience, issued, loop, beat>>

\* The transaction of a status update commits the job, with now() of the instance that ran it.
InsertJob(j, w) ==
    /\ status[j] = "absent"
    /\ status' = [status EXCEPT ![j] = "pending"]
    /\ availableAt' = [availableAt EXCEPT ![j] = Local(w, clock)]
    /\ audience' = [audience EXCEPT ![j] = members]
    /\ UNCHANGED <<clock, members, attempts, leaseToken, leaseUntil, notified, issued, loop, beat>>

-----------------------------------------------------------------------------
(* The loop of a worker: one action per query it awaits.                   *)

Goto(w, next) ==
    /\ pc' = [pc EXCEPT ![w] = next]
    /\ lastReply' = [lastReply EXCEPT ![w] = IF next \in Dated THEN clock ELSE NoTime]

GoIdle(w) ==
    /\ Goto(w, "idle")
    /\ mem' = [mem EXCEPT ![w] = NoJob]
    /\ beatDue' = [beatDue EXCEPT ![w] = NoTimer]
    /\ renewal' = [renewal EXCEPT ![w] = NoRenewal]

\* The catch block, with the error of the awaited query.
Catch(w) ==
    /\ Goto(w, "fail")
    /\ UNCHANGED <<mem, beat>>

\* The finally block starts: the heartbeat timer is cleared.
Finally(w) ==
    /\ Goto(w, "settle")
    /\ beatDue' = [beatDue EXCEPT ![w] = NoTimer]
    /\ UNCHANGED <<mem, renewal>>

\* The next await of the try block, or the catch block when the reply is lost.
Advance(w, next, reply) ==
    \/ reply /\ Goto(w, next) /\ UNCHANGED <<mem, beat>>
    \/ ~reply /\ Catch(w)

\* claimNextJob's findFirst: the oldest claimable job, copied into memory with the now used.
FindCandidate(w) ==
    /\ pc[w] = "idle"
    /\ \E now \in IssueTimes(w), j \in Jobs :
         /\ Claimable(j, now)
         /\ \A k \in Jobs : Claimable(k, now) => j <= k
         /\ mem' = [mem EXCEPT ![w] = Copy(j, NoToken, attempts[j], now)]
    /\ Goto(w, "claim")
    /\ UNCHANGED <<clock, members, rows, notified, audience, issued, beat>>

\* Variant: a takeover keeps the token it finds.
KeptToken(j) == IF leaseToken[j] = NoToken THEN issued + 1 ELSE leaseToken[j]

\* randomUUID: a token no claim installed before.  One drawn by a claim that loses is never seen.
FreshToken(j) == issued + 1

\* Variant: only the claim of a pending job counts as an attempt.
CountPendingAttempt(j) ==
    attempts' = [attempts EXCEPT ![j] = IF status[j] = "pending" THEN @ + 1 ELSE @]

CountAttempt(j) == attempts' = [attempts EXCEPT ![j] = @ + 1]

\* claimNextJob's updateMany, with the same now: wins the job under a fresh token.
Claim(w, reply) ==
    LET j == mem[w].job
        token == FreshToken(j)
    IN  /\ pc[w] = "claim"
        /\ Claimable(j, mem[w].now)
        /\ status' = [status EXCEPT ![j] = "processing"]
        /\ CountAttempt(j)
        /\ leaseToken' = [leaseToken EXCEPT ![j] = token]
        /\ leaseUntil' = [leaseUntil EXCEPT ![j] = mem[w].now + LeaseDuration]
        /\ issued' = issued + 1
        /\ \/ /\ reply
              /\ Goto(w, "read")
              /\ mem' = [mem EXCEPT ![w] = Copy(j, token, mem[w].attempts + 1, NoTime)]
              /\ beatDue' = [beatDue EXCEPT ![w] = clock + RenewInterval]
              /\ UNCHANGED renewal
           \/ /\ ~reply
              /\ GoIdle(w)
        /\ UNCHANGED <<clock, members, availableAt, notified, audience>>

\* The update matched no row: another instance was faster, and the loop ends.
LoseRace(w) ==
    /\ pc[w] = "claim"
    /\ ~ Claimable(mem[w].job, mem[w].now)
    /\ GoIdle(w)
    /\ UNCHANGED <<clock, members, rows, notified, audience, issued>>

\* Variant: the recipients come from a list read at start-up.
ReadCachedRecipients(w) ==
    /\ pc[w] = "read"
    /\ Goto(w, "renew")
    /\ mem' = [mem EXCEPT ![w].to = Founders]
    /\ UNCHANGED <<clock, members, rows, notified, audience, issued, beat>>

\* processJob reads the event, then the project's members of that moment.
ReadRecipients(w) ==
    /\ pc[w] = "read"
    /\ Goto(w, "renew")
    /\ mem' = [mem EXCEPT ![w].to = members]
    /\ UNCHANGED <<clock, members, rows, notified, audience, issued, beat>>

Renewed(j, now) == leaseUntil' = [leaseUntil EXCEPT ![j] = now + LeaseDuration]

\* renewLease before the write: without the lease the attempt is an error.
RenewBeforeWrite(w, reply) ==
    /\ pc[w] = "renew"
    /\ \E now \in IssueTimes(w) :
         \/ /\ Fenced(mem[w].job, mem[w].token, now)
            /\ Renewed(mem[w].job, now)
            /\ Advance(w, "write", reply)
         \/ /\ ~ Fenced(mem[w].job, mem[w].token, now)
            /\ Catch(w)
            /\ UNCHANGED leaseUntil
    /\ UNCHANGED <<clock, members, status, attempts, leaseToken, availableAt, notified, audience,
                   issued>>

\* createMany with skipDuplicates: no fence, only the unique (user, event) index.
WriteNotifications(w, reply) ==
    /\ pc[w] = "write"
    /\ notified' = [notified EXCEPT ![mem[w].job] = @ \cup mem[w].to]
    /\ Advance(w, "complete", reply)
    /\ UNCHANGED <<clock, members, rows, audience, issued>>

\* Variant: a misspelt terminal status.
SettledMisspelt(j, outcome) ==
    /\ status' = [status EXCEPT ![j] = IF outcome = "completed" THEN "complete" ELSE outcome]
    /\ leaseToken' = [leaseToken EXCEPT ![j] = NoToken]
    /\ leaseUntil' = [leaseUntil EXCEPT ![j] = NoTime]

\* A fenced update that settles the job and releases the lease.
Settled(j, outcome) ==
    /\ status' = [status EXCEPT ![j] = outcome]
    /\ leaseToken' = [leaseToken EXCEPT ![j] = NoToken]
    /\ leaseUntil' = [leaseUntil EXCEPT ![j] = NoTime]

\* The completing update; matching no row is lease_lost and not an error.
Complete(w, reply) ==
    /\ pc[w] = "complete"
    /\ \E now \in IssueTimes(w) :
         \/ Fenced(mem[w].job, mem[w].token, now) /\ Settled(mem[w].job, "completed")
         \/ ~ Fenced(mem[w].job, mem[w].token, now) /\ UNCHANGED <<status, leaseToken, leaseUntil>>
    /\ IF reply THEN Finally(w) ELSE Catch(w)
    /\ UNCHANGED <<clock, members, attempts, availableAt, notified, audience, issued>>

\* recordFailure: the attempts copy in memory decides between a retry and the end.
RecordFailure(w) ==
    LET j == mem[w].job
        n == mem[w].attempts
    IN  /\ pc[w] = "fail"
        /\ \E now \in IssueTimes(w) :
             \/ /\ Fenced(j, mem[w].token, now)
                /\ Settled(j, IF Exhausted(n) THEN "failed" ELSE "pending")
                /\ availableAt' = [availableAt EXCEPT ![j] = now + RetryDelay(n)]
             \/ /\ ~ Fenced(j, mem[w].token, now)
                /\ UNCHANGED <<status, leaseToken, leaseUntil, availableAt>>
        /\ Finally(w)
        /\ UNCHANGED <<clock, members, attempts, notified, audience, issued>>

\* A query of the loop fails without effect: the claim ends the loop, the try block goes to
\* the catch block, and recordFailure gives up with the row as it is.
QueryFails(w) ==
    /\ \/ pc[w] = "claim" /\ GoIdle(w)
       \/ pc[w] \in Working \ {"fail"} /\ Catch(w)
       \/ pc[w] = "fail" /\ Finally(w)
    /\ UNCHANGED <<clock, members, rows, notified, audience, issued>>

\* The end of the finally block: the renewal in flight was awaited.
Settle(w) ==
    /\ pc[w] = "settle"
    /\ renewal[w] = NoRenewal
    /\ GoIdle(w)
    /\ UNCHANGED <<clock, members, rows, notified, audience, issued>>

-----------------------------------------------------------------------------
(* The heartbeat and the process.                                          *)

\* setInterval's callback: a renewal already in flight makes it skip this period.
HeartbeatFires(w) ==
    /\ beatDue[w] # NoTimer
    /\ clock >= beatDue[w]
    /\ beatDue' = [beatDue EXCEPT ![w] = clock + RenewInterval]
    /\ renewal' = [renewal EXCEPT ![w] = IF @ = NoRenewal THEN Local(w, clock) ELSE @]
    /\ UNCHANGED <<clock, members, rows, notified, audience, issued, loop>>

\* The heartbeat's renewLease reaches the database, or fails: either way only logged.
HeartbeatRenews(w) ==
    /\ renewal[w] # NoRenewal
    /\ renewal' = [renewal EXCEPT ![w] = NoRenewal]
    /\ \/ Fenced(mem[w].job, mem[w].token, renewal[w]) /\ Renewed(mem[w].job, renewal[w])
       \/ UNCHANGED leaseUntil
    /\ UNCHANGED <<clock, members, status, attempts, leaseToken, availableAt, notified, audience,
                   issued, loop, beatDue>>

\* The process dies and is restarted; what it was doing stays in the table.
Crash(w) ==
    /\ pc[w] # "idle"
    /\ GoIdle(w)
    /\ UNCHANGED <<clock, members, rows, notified, audience, issued>>

Next ==
    \/ Tick
    \/ \E u \in Users : AddMember(u)
    \/ \E j \in Jobs, w \in Workers : InsertJob(j, w)
    \/ \E w \in Workers :
         \/ FindCandidate(w)
         \/ LoseRace(w)
         \/ ReadRecipients(w)
         \/ \E reply \in BOOLEAN :
              \/ Claim(w, reply)
              \/ RenewBeforeWrite(w, reply)
              \/ WriteNotifications(w, reply)
              \/ Complete(w, reply)
         \/ RecordFailure(w)
         \/ QueryFails(w)
         \/ Settle(w)
         \/ HeartbeatFires(w)
         \/ HeartbeatRenews(w)
         \/ Crash(w)

Spec == Init /\ [][Next]_vars

-----------------------------------------------------------------------------
(* Correctness.                                                            *)

RowTypes ==
    /\ status \in [Jobs -> {"absent", "pending", "processing", "completed", "failed"}]
    /\ attempts \in [Jobs -> Nat]
    /\ leaseToken \in [Jobs -> Nat]
    /\ leaseUntil \in [Jobs -> Nat]
    /\ availableAt \in [Jobs -> Nat]

LoopTypes ==
    /\ pc \in [Workers -> {"idle", "claim", "settle"} \cup Working]
    /\ mem \in [Workers -> [job : Jobs \cup {0}, token : Nat, attempts : Nat, now : Nat,
                            to : SUBSET Users]]
    /\ lastReply \in [Workers -> Nat]
    /\ beatDue \in [Workers -> Nat]
    /\ renewal \in [Workers -> Nat \cup {NoRenewal}]

\* Every variable has its type: the statuses are those the code writes, NULL is zero.
TypeOK ==
    /\ clock \in Nat
    /\ members \in SUBSET Users
    /\ RowTypes
    /\ notified \in [Jobs -> SUBSET Users]
    /\ audience \in [Jobs -> SUBSET Users]
    /\ issued \in Nat
    /\ LoopTypes

\* The worker's token is the one in the job's row.
Holds(w, j) ==
    /\ leaseToken[j] # NoToken
    /\ mem[w].token = leaseToken[j]

\* A job is processing exactly while its row has a token, and at most one worker, working on
\* that job, has that token: whatever takeovers, crashes and lost replies came before, two
\* attempts never both pass the fence of processor.ts:270-275.
OneHolder ==
    \A j \in Jobs :
        /\ status[j] = "processing" <=> leaseToken[j] # NoToken
        /\ \A v, w \in Workers : Holds(v, j) /\ Holds(w, j) => v = w
        /\ \A w \in Workers : Holds(w, j) => mem[w].job = j

\* A completed job has reached every user that was a member of the project when the status
\* update committed, although the write of the notifications and the completing update are
\* separate statements (processor.ts:252-282) that different attempts may have executed.
CompletedReachedAudience ==
    \A j \in Jobs : status[j] = "completed" => audience[j] \subseteq notified[j]

\* A job is given up only after MAX_ATTEMPTS attempts were counted in its row, although
\* recordFailure decides from the copy claimNextJob made before its update (processor.ts:198, 333).
NoEarlyGiveUp ==
    \A j \in Jobs : status[j] = "failed" => attempts[j] >= MaxAttempts

\* A lease ends without a takeover only by the settling update of the worker that holds it:
\* a late completion or failure of an earlier attempt changes nothing (processor.ts:337).
ReleasedByHolder ==
    [][\A j \in Jobs :
        leaseToken[j] # NoToken /\ leaseToken'[j] = NoToken =>
            \E w \in Workers : Holds(w, j) /\ pc[w] \in {"complete", "fail"} /\ pc'[w] # pc[w]]_vars

\* Nothing takes a completed or failed job up again: no claim, late failure or lost reply.
TerminalIsFinal ==
    [][\A j \in Jobs : status[j] \in {"completed", "failed"} =>
        /\ status'[j] = status[j]
        /\ leaseToken'[j] = NoToken
        /\ attempts'[j] = attempts[j]]_vars

\* A lease that has not run out by any instance's clock is not taken over and costs no attempt,
\* even by a claim whose now was read long before (task-notifications spec, "活跃租约不会被抢占").
LiveLeaseNotStolen ==
    [][\A j \in Jobs :
        /\ status[j] = "processing"
        /\ \A w \in Workers : leaseUntil[j] > Local(w, clock)
        => attempts'[j] = attempts[j] /\ leaseToken'[j] \in {leaseToken[j], NoToken}]_vars

-----------------------------------------------------------------------------
(* What the documents say and the code does not do.                        *)

\* task-notifications/spec.md:36 forbids unlimited retries and :41 allows at most three: the
\* attempts of a job would never exceed MAX_ATTEMPTS.  A claim of an expired lease counts one
\* more without looking (processor.ts:182-196).
AttemptsBounded == \A j \in Jobs : attempts[j] <= MaxAttempts

-----------------------------------------------------------------------------
(* The abstract specification this module implements.                      *)

Phase == [j \in Jobs |->
    CASE status[j] = "absent" -> "none"
      [] status[j] = "pending" -> "queued"
      [] status[j] = "processing" -> "attempting"
      [] status[j] = "completed" -> "delivered"
      [] OTHER -> "abandoned"]

Delivery == INSTANCE NotificationDelivery WITH phase <- Phase

\* The protocol keeps the promises of NotificationDelivery: each of its steps is one step of
\* that specification or changes nothing it sees.
ImplementsDelivery == Delivery!Spec
=============================================================================

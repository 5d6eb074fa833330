------------------------ MODULE ProcessorScheduling ------------------------
(***************************************************************************)
(* When the instances of the service run their processing loops: the       *)
(* event-loop side of src/notifications/notification.processor.ts.         *)
(*                                                                         *)
(* schedule() queues a setImmediate callback; the callback starts          *)
(* processPending(), whose loop counts the backlog, then claims and        *)
(* processes jobs up to a batch; a failed job, a failed loop and a full    *)
(* batch bring schedule() back, at once or through a timer.  Closing the   *)
(* provider waits for the run in activeRun; then Prisma disconnects.       *)
(* Instances share nothing but the table, where their claims compete.      *)
(*                                                                         *)
(* A step of JavaScript between two awaits is atomic; a database statement *)
(* and the code that receives its reply are two steps where something can  *)
(* happen in between that matters, one step elsewhere.  The lease protocol *)
(* is NotificationLease's: here a job is available or not, and its lease   *)
(* or back-off runs out some time.  isDraining() is folded into closed:    *)
(* in Nest the destroy hooks run before it becomes true (ServiceProcess).  *)
(***************************************************************************)
EXTENDS Naturals, FiniteSets

CONSTANTS
    Instances,      \* the processes
    Jobs,           \* jobs, numbered in the order of their createdAt
    Runs,           \* names for calls of processPending that get past its guard
    BatchSize,      \* MAX_JOBS_PER_RUN
    MaxAttempts,    \* MAX_ATTEMPTS
    NoRun, NoTimer, \* activeRun and retryTimer when undefined
    Nobody,         \* an instance that is none
    MaxFaults,      \* bound of the model: database failures
    MaxRestarts     \* bound of the model: crashes and restarts

ASSUME SchedulingAssumption ==
    /\ Nobody \notin Instances
    /\ Jobs \subseteq Nat \ {0}
    /\ Runs # {} /\ NoRun \notin Runs
    /\ NoTimer \notin Nat
    /\ BatchSize \in Nat \ {0}
    /\ MaxAttempts \in Nat \ {0}
    /\ MaxFaults \in Nat
    /\ MaxRestarts \in Nat

NoJob == 0
ErrorRetry == 0     \* names the timer scheduleProcessorRetry sets; a job's timer has its name

VARIABLES
    job,            \* each job as the table shows it
    tries,          \* its attempts, up to MaxAttempts
    setBackBy,      \* the instance whose newest timer for the job is due after its back-off
    owed,           \* per instance: jobs whose request has committed but not yet called schedule()
    immediates,     \* per instance: queued setImmediate callbacks
    timers,         \* per instance: pending timers, of a failed job or of a failed loop
    retryTimer,     \* the field of each instance: the timer it refers to
    processing,     \* the field
    activeRun,      \* the field: the run whose promise it holds
    closed,         \* the field
    run,            \* per instance: where every run is
    awaited,        \* per instance: the run onModuleDestroy waits for
    disconnected,   \* per instance: PrismaService.onModuleDestroy has run
    lateClaims,     \* history, per instance: jobs claimed after closing
    faults, restarts

table == <<job, tries, setBackBy>>
control == <<processing, activeRun, closed>>
fields == <<control, retryTimer>>
shutdown == <<awaited, disconnected>>
bounds == <<faults, restarts>>
vars == <<table, owed, immediates, timers, fields, run, shutdown, lateClaims, bounds>>

Timers == Jobs \cup {ErrorRetry}

Off == [at |-> "off", job |-> NoJob, done |-> 0]

Claimable(j) == job[j] \in {"ready", "expired"}

Oldest(S) == CHOOSE j \in S : \A k \in S : j <= k

Held(j) == \E i \in Instances, r \in Runs : run[i][r].at = "work" /\ run[i][r].job = j

Init ==
    /\ job = [j \in Jobs |-> "none"]
    /\ tries = [j \in Jobs |-> 0]
    /\ setBackBy = [j \in Jobs |-> Nobody]
    /\ owed = [i \in Instances |-> {}]
    /\ immediates = [i \in Instances |-> 1]    \* onModuleInit schedules a scan
    /\ timers = [i \in Instances |-> [k \in Timers |-> 0]]
    /\ retryTimer = [i \in Instances |-> NoTimer]
    /\ processing = [i \in Instances |-> FALSE]
    /\ activeRun = [i \in Instances |-> NoRun]
    /\ closed = [i \in Instances |-> FALSE]
    /\ run = [i \in Instances |-> [r \in Runs |-> Off]]
    /\ awaited = [i \in Instances |-> NoRun]
    /\ disconnected = [i \in Instances |-> FALSE]
    /\ lateClaims = [i \in Instances |-> 0]
    /\ faults = 0
    /\ restarts = 0

-----------------------------------------------------------------------------
(* The table on its own: time and the requests that fill it.               *)

\* A status update commits: the job is in the table before the request calls schedule().
Commit(i, j) ==
    /\ job[j] = "none"
    /\ job' = [job EXCEPT ![j] = "ready"]
    /\ owed' = [owed EXCEPT ![i] = @ \cup {j}]
    /\ UNCHANGED <<tries, setBackBy, immediates, timers, fields, run, shutdown, lateClaims, bounds>>

BackoffElapses(j) ==
    /\ job[j] = "delayed"
    /\ job' = [job EXCEPT ![j] = "ready"]
    /\ setBackBy' = [setBackBy EXCEPT ![j] = Nobody]
    /\ UNCHANGED <<tries, owed, immediates, timers, fields, run, shutdown, lateClaims, bounds>>

\* Nobody renews the lease of a job no run works on.
LeaseRunsOut(j) ==
    /\ job[j] = "leased"
    /\ ~ Held(j)
    /\ job' = [job EXCEPT ![j] = "expired"]
    /\ UNCHANGED <<tries, setBackBy, owed, immediates, timers, fields, run, shutdown, lateClaims, bounds>>

Fault == faults < MaxFaults /\ faults' = faults + 1 /\ UNCHANGED restarts

\* A lease can also run out under its worker, when its renewals fail.
RenewalsFail(j) ==
    /\ job[j] = "leased"
    /\ Held(j)
    /\ job' = [job EXCEPT ![j] = "expired"]
    /\ Fault
    /\ UNCHANGED <<tries, setBackBy, owed, immediates, timers, fields, run, shutdown, lateClaims>>

-----------------------------------------------------------------------------
(* schedule() and who calls it.                                            *)

\* schedule(), with the values processing has at that moment.
Schedule(i, busy) ==
    immediates' = IF closed[i] \/ busy THEN immediates ELSE [immediates EXCEPT ![i] = @ + 1]

\* The request, back from its transaction.
Wake(i, j) ==
    /\ j \in owed[i]
    /\ owed' = [owed EXCEPT ![i] = @ \ {j}]
    /\ Schedule(i, processing[i])
    /\ UNCHANGED <<table, timers, fields, run, shutdown, lateClaims, bounds>>

\* The last timer an instance has set for a job is due after the job's back-off.
Due(i, k) ==
    /\ timers[i][k] > 0
    /\ k \in Jobs /\ setBackBy[k] = i => timers[i][k] > 1

\* Variant: the callback leaves the field set.
TimerFiresKeepingField(i, k) ==
    /\ Due(i, k)
    /\ timers' = [timers EXCEPT ![i][k] = @ - 1]
    /\ Schedule(i, processing[i])
    /\ UNCHANGED <<table, owed, fields, run, shutdown, lateClaims, bounds>>

\* A timer of either kind.
TimerFires(i, k) ==
    /\ Due(i, k)
    /\ timers' = [timers EXCEPT ![i][k] = @ - 1]
    /\ retryTimer' = [retryTimer EXCEPT ![i] = NoTimer]
    /\ Schedule(i, processing[i])
    /\ UNCHANGED <<table, owed, control, run, shutdown, lateClaims, bounds>>

\* Which of the free names a run gets does not matter.
StartRun(i) ==
    LET r == CHOOSE free \in Runs : run[i][free] = Off
    IN  /\ run' = [run EXCEPT ![i][r] = [Off EXCEPT !.at = "count"]]
        /\ processing' = [processing EXCEPT ![i] = TRUE]
        /\ activeRun' = [activeRun EXCEPT ![i] = r]

\* Variant: processPending trusts the check schedule() made.
RunImmediateUnchecked(i) ==
    /\ immediates[i] > 0
    /\ immediates' = [immediates EXCEPT ![i] = @ - 1]
    /\ \/ closed[i] /\ UNCHANGED <<control, run>>
       \/ ~ closed[i] /\ StartRun(i) /\ UNCHANGED closed
    /\ UNCHANGED <<table, owed, timers, retryTimer, shutdown, lateClaims, bounds>>

\* Variant: closed is looked at by schedule() only, when the callback is queued.
RunImmediateUnlessBusy(i) ==
    /\ immediates[i] > 0
    /\ immediates' = [immediates EXCEPT ![i] = @ - 1]
    /\ \/ ~ processing[i] /\ StartRun(i) /\ UNCHANGED closed
       \/ /\ processing[i]
          /\ activeRun' = [activeRun EXCEPT ![i] = NoRun]
          /\ UNCHANGED <<processing, closed, run>>
    /\ UNCHANGED <<table, owed, timers, retryTimer, shutdown, lateClaims, bounds>>

\* The setImmediate callback.  Past the guard of processPending a run starts; at the guard the
\* call returns a promise of its own, which takes the place of the active run's in activeRun
\* and empties the field when it settles, before the event loop goes on.
RunImmediate(i) ==
    /\ immediates[i] > 0
    /\ immediates' = [immediates EXCEPT ![i] = @ - 1]
    /\ \/ closed[i] /\ UNCHANGED <<control, run>>
       \/ ~ closed[i] /\ ~ processing[i] /\ StartRun(i) /\ UNCHANGED closed
       \/ /\ ~ closed[i] /\ processing[i]
          /\ activeRun' = [activeRun EXCEPT ![i] = NoRun]
          /\ UNCHANGED <<processing, closed, run>>
    /\ UNCHANGED <<table, owed, timers, retryTimer, shutdown, lateClaims, bounds>>

-----------------------------------------------------------------------------
(* A run of processPending.                                                *)

\* Variant: a new timer takes the place of the one in the field.
SetOnlyTimer(i, k) ==
    /\ timers' = [timers EXCEPT ![i] = [t \in Timers |-> IF t = k THEN 1 ELSE IF t = retryTimer[i] THEN 0 ELSE @[t]]]
    /\ retryTimer' = [retryTimer EXCEPT ![i] = k]

\* setTimeout; the timer the field referred to keeps running.
SetTimer(i, k) ==
    /\ timers' = [timers EXCEPT ![i][k] = @ + 1]
    /\ retryTimer' = [retryTimer EXCEPT ![i] = k]

\* The finally block of processPending and the one of its promise in schedule().
Leave(i, r, runs) ==
    /\ run' = [runs EXCEPT ![i][r] = Off]
    /\ processing' = [processing EXCEPT ![i] = FALSE]
    /\ activeRun' = [activeRun EXCEPT ![i] = IF @ = r THEN NoRun ELSE @]
    /\ UNCHANGED closed

\* The run ends normally; after a full batch it asks for another one.
Finish(i, r, again) ==
    /\ Leave(i, r, run)
    /\ IF again THEN Schedule(i, FALSE) ELSE UNCHANGED immediates

\* The run's promise is rejected: scheduleProcessorRetry.
Reject(i, r, runs) ==
    /\ Leave(i, r, runs)
    /\ IF closed[i] \/ retryTimer[i] # NoTimer THEN UNCHANGED <<timers, retryTimer>>
                                              ELSE SetTimer(i, ErrorRetry)
    /\ UNCHANGED immediates

AskForJob(i, r, done) ==
    /\ run' = [run EXCEPT ![i][r] = [at |-> "find", job |-> NoJob, done |-> done]]
    /\ UNCHANGED <<immediates, control>>

\* Variant: after a full batch nothing asks for the next one.
NextJobWithoutContinuation(i, r, done) ==
    IF closed[i] \/ done = BatchSize THEN Finish(i, r, FALSE) ELSE AskForJob(i, r, done)

\* Variant: the loop looks at closed only between batches.
NextJobOfBatch(i, r, done) ==
    IF done = BatchSize THEN Finish(i, r, ~ closed[i]) ELSE AskForJob(i, r, done)

\* Variant: the batch limit is compared after the claim.
NextJobBeyondBatch(i, r, done) ==
    IF closed[i] \/ done > BatchSize THEN Finish(i, r, ~ closed[i]) ELSE AskForJob(i, r, done)

\* The head of the while loop, after `done` jobs.
NextJob(i, r, done) ==
    IF closed[i] \/ done = BatchSize
    THEN Finish(i, r, ~ closed[i] /\ done = BatchSize)
    ELSE AskForJob(i, r, done)

\* The backlog count; its failure is swallowed.
CountBacklog(i, r) ==
    /\ run[i][r].at = "count"
    /\ NextJob(i, r, 0)
    /\ UNCHANGED <<table, owed, timers, retryTimer, shutdown, lateClaims, bounds>>

\* findFirst is executed: its snapshot is what the loop goes by when the reply arrives.
FindInTable(i, r) ==
    LET S == {j \in Jobs : Claimable(j)}
    IN  /\ run[i][r].at = "find"
        /\ run' = [run EXCEPT ![i][r] =
                     [at |-> "found", job |-> IF S = {} THEN NoJob ELSE Oldest(S), done |-> @.done]]
        /\ UNCHANGED <<table, owed, immediates, timers, fields, shutdown, lateClaims, bounds>>

\* Variant: an empty reply or a lost race makes the loop look again.
FoundNothingYet(i, r) ==
    /\ run[i][r].at = "beaten" \/ (run[i][r].at = "found" /\ run[i][r].job = NoJob)
    /\ NextJob(i, r, run[i][r].done)
    /\ UNCHANGED <<table, owed, timers, retryTimer, shutdown, lateClaims, bounds>>

\* The reply of findFirst is empty, or the claiming updateMany matches nothing because another
\* instance has claimed the job since: in both cases the queue is taken to be empty and the run ends.
FoundNothing(i, r) ==
    /\ run[i][r].at = "beaten" \/ (run[i][r].at = "found" /\ run[i][r].job = NoJob)
    /\ Finish(i, r, FALSE)
    /\ UNCHANGED <<table, owed, timers, retryTimer, shutdown, lateClaims, bounds>>

\* A claim goes by the time its findFirst was sent, and every write of an attempt by its token:
\* once a claim has taken effect, the row is out of reach of the runs that have found it or worked
\* on it before, whatever becomes of the job.
Overtaken(j) ==
    LET now(x) == IF x.job # j THEN x.at
                  ELSE CASE x.at = "found" -> "beaten" [] x.at = "work" -> "lost" [] OTHER -> x.at
    IN  [i \in Instances |-> [r \in Runs |-> [run[i][r] EXCEPT !.at = now(run[i][r])]]]

TakeLease(j) ==
    /\ job' = [job EXCEPT ![j] = "leased"]
    /\ tries' = [tries EXCEPT ![j] = IF @ < MaxAttempts THEN @ + 1 ELSE @]
    /\ UNCHANGED setBackBy

\* The claiming updateMany matches: it does not look at closed again.
Claim(i, r) ==
    LET j == run[i][r].job
    IN  /\ run[i][r].at = "found"
        /\ j # NoJob
        /\ TakeLease(j)
        /\ run' = [Overtaken(j) EXCEPT ![i][r].at = "work"]
        /\ lateClaims' = IF closed[i] THEN [lateClaims EXCEPT ![i] = @ + 1] ELSE lateClaims
        /\ UNCHANGED <<owed, immediates, timers, fields, shutdown, bounds>>

\* A statement of the loop itself fails, the claim possibly after taking effect.
LoopFails(i, r) ==
    LET j == run[i][r].job
    IN  /\ \/ /\ run[i][r].at \in {"find", "found", "beaten"}
              /\ Reject(i, r, run)
              /\ UNCHANGED table
           \/ /\ run[i][r].at = "found" /\ j # NoJob
              /\ TakeLease(j)
              /\ Reject(i, r, Overtaken(j))
        /\ Fault
        /\ UNCHANGED <<owed, shutdown, lateClaims>>

HasLease(i, r) == run[i][r].at = "work" /\ job[run[i][r].job] = "leased"

\* processJob completes the job or fails it for good, or finds that its lease is lost.
Settle(i, r) ==
    LET j == run[i][r].job
    IN  /\ run[i][r].at \in {"work", "lost"}
        /\ job' = [job EXCEPT ![j] = IF HasLease(i, r) THEN "done" ELSE @]
        /\ NextJob(i, r, run[i][r].done + 1)
        /\ UNCHANGED <<tries, setBackBy, owed, timers, retryTimer, shutdown, lateClaims, bounds>>

\* processJob fails and recordFailure sets the job back: its timer replaces the one in the
\* field, which keeps running.
SetBack(i, r) ==
    LET j == run[i][r].job
    IN  /\ HasLease(i, r)
        /\ tries[j] < MaxAttempts
        /\ job' = [job EXCEPT ![j] = "delayed"]
        /\ IF closed[i] THEN UNCHANGED <<timers, retryTimer, setBackBy>>
                        ELSE SetTimer(i, j) /\ setBackBy' = [setBackBy EXCEPT ![j] = i]
        /\ NextJob(i, r, run[i][r].done + 1)
        /\ UNCHANGED <<tries, owed, shutdown, lateClaims, bounds>>

\* recordFailure fails itself, possibly after setting the job back or failing it for good: no timer
\* for the job, and the run is rejected.  The job may also be done because the completion before it
\* took effect and only its reply was lost.
WorkFails(i, r) ==
    LET j == run[i][r].job
    IN  /\ run[i][r].at \in {"work", "lost"}
        /\ \/ UNCHANGED job
           \/ HasLease(i, r) /\ tries[j] < MaxAttempts /\ job' = [job EXCEPT ![j] = "delayed"]
           \/ HasLease(i, r) /\ job' = [job EXCEPT ![j] = "done"]
        /\ Reject(i, r, run)
        /\ Fault
        /\ UNCHANGED <<tries, setBackBy, owed, shutdown, lateClaims>>

-----------------------------------------------------------------------------
(* Closing and restarting.                                                 *)

\* onModuleDestroy up to its await: the field's timer is cleared, others keep running.
Close(i) ==
    /\ ~ closed[i]
    /\ closed' = [closed EXCEPT ![i] = TRUE]
    /\ timers' = IF retryTimer[i] = NoTimer THEN timers ELSE [timers EXCEPT ![i][retryTimer[i]] = @ - 1]
    /\ awaited' = [awaited EXCEPT ![i] = activeRun[i]]
    /\ UNCHANGED <<table, owed, immediates, retryTimer, processing, activeRun, run, disconnected,
                   lateClaims, bounds>>

\* The awaited run has ended, and PrismaService is the next provider to be destroyed.
Disconnect(i) ==
    /\ closed[i]
    /\ ~ disconnected[i]
    /\ awaited[i] # NoRun => run[i][awaited[i]] = Off
    /\ disconnected' = [disconnected EXCEPT ![i] = TRUE]
    /\ UNCHANGED <<table, owed, immediates, timers, fields, run, awaited, lateClaims, bounds>>

\* A process ends, in order or not, and starts again with the table as it is.
Restart(i) ==
    /\ restarts < MaxRestarts
    /\ restarts' = restarts + 1
    /\ setBackBy' = [j \in Jobs |-> IF setBackBy[j] = i THEN Nobody ELSE setBackBy[j]]
    /\ owed' = [owed EXCEPT ![i] = {}]
    /\ immediates' = [immediates EXCEPT ![i] = 1]
    /\ timers' = [timers EXCEPT ![i] = [k \in Timers |-> 0]]
    /\ retryTimer' = [retryTimer EXCEPT ![i] = NoTimer]
    /\ processing' = [processing EXCEPT ![i] = FALSE]
    /\ activeRun' = [activeRun EXCEPT ![i] = NoRun]
    /\ closed' = [closed EXCEPT ![i] = FALSE]
    /\ run' = [run EXCEPT ![i] = [r \in Runs |-> Off]]
    /\ awaited' = [awaited EXCEPT ![i] = NoRun]
    /\ disconnected' = [disconnected EXCEPT ![i] = FALSE]
    /\ lateClaims' = [lateClaims EXCEPT ![i] = 0]
    /\ UNCHANGED <<job, tries, faults>>

RunStep(i, r) ==
    \/ CountBacklog(i, r)
    \/ FindInTable(i, r)
    \/ FoundNothing(i, r)
    \/ Claim(i, r)
    \/ LoopFails(i, r)
    \/ Settle(i, r)
    \/ SetBack(i, r)
    \/ WorkFails(i, r)

Step(i) ==
    \/ \E j \in Jobs : Commit(i, j) \/ Wake(i, j)
    \/ \E k \in Timers : TimerFires(i, k)
    \/ RunImmediate(i)
    \/ \E r \in Runs : RunStep(i, r)
    \/ Close(i)
    \/ Disconnect(i)
    \/ Restart(i)

Next ==
    \/ \E j \in Jobs : BackoffElapses(j) \/ LeaseRunsOut(j) \/ RenewalsFail(j)
    \/ \E i \in Instances : Step(i)

\* The event loops run what is queued and due, statements are answered, and time passes.
\* Nothing obliges anyone to send requests, to fail, to close or to restart the service.
Fairness ==
    /\ \A j \in Jobs : WF_vars(BackoffElapses(j)) /\ WF_vars(LeaseRunsOut(j))
    /\ \A i \in Instances :
         /\ WF_vars(RunImmediate(i)) /\ WF_vars(Disconnect(i))
         /\ \A j \in Jobs : WF_vars(Wake(i, j))
         /\ \A k \in Timers : WF_vars(TimerFires(i, k))
         /\ \A r \in Runs : WF_vars(RunStep(i, r))

Spec == Init /\ [][Next]_vars /\ Fairness

-----------------------------------------------------------------------------
(* Correctness.                                                            *)

\* Every variable has its type.
TypeOK ==
    /\ job \in [Jobs -> {"none", "ready", "delayed", "leased", "expired", "done"}]
    /\ tries \in [Jobs -> 0 .. MaxAttempts]
    /\ setBackBy \in [Jobs -> Instances \cup {Nobody}]
    /\ owed \in [Instances -> SUBSET Jobs]
    /\ immediates \in [Instances -> Nat]
    /\ timers \in [Instances -> [Timers -> Nat]]
    /\ retryTimer \in [Instances -> Timers \cup {NoTimer}]
    /\ processing \in [Instances -> BOOLEAN]
    /\ activeRun \in [Instances -> Runs \cup {NoRun}]
    /\ closed \in [Instances -> BOOLEAN]
    /\ run \in [Instances -> [Runs ->
                 [at : {"off", "count", "find", "found", "beaten", "work", "lost"},
                  job : Jobs \cup {NoJob}, done : 0 .. BatchSize - 1]]]
    /\ awaited \in [Instances -> Runs \cup {NoRun}]
    /\ disconnected \in [Instances -> BOOLEAN]
    /\ lateClaims \in [Instances -> Nat]

Active(i) == {r \in Runs : run[i][r] # Off}

\* However many callbacks were queued before the first of them ran, one instance runs one loop
\* at a time, and processing says whether it does (processor.ts:61, 87, 91, 126).
OneLoop ==
    \A i \in Instances :
        /\ processing[i] <=> Active(i) # {}
        /\ \A r, s \in Active(i) : r = s

\* retryTimer never refers to a timer that is gone: scheduleProcessorRetry, which sets no timer
\* while the field is set (processor.ts:152), can rely on another one to bring the loop back.
RetryTimerIsPending ==
    \A i \in Instances : retryTimer[i] # NoTimer /\ ~ closed[i] => timers[i][retryTimer[i]] > 0

\* A job that is not due yet has a timer in the instance that has set it back and got the reply, as
\* long as that one is open, whatever others do, fail or overwrite: overwriting retryTimer loses no
\* wake-up (processor.ts:358).  Where no process was restarted and every reply came, every job that
\* was set back has one.  A set-back whose reply is lost gives none (WorkFails, processor.ts:336).
SetBackHasTimer ==
    /\ \A i \in Instances, j \in Jobs :
         job[j] = "delayed" /\ setBackBy[j] = i /\ ~ closed[i] => timers[i][j] > 0
    /\ restarts + faults = 0 /\ (\A i \in Instances : ~ closed[i]) =>
         \A j \in Jobs : job[j] = "delayed" => \E i \in Instances : timers[i][j] > 0

\* Closing lets the loop take at most one more job, the one whose findFirst was under way
\* (processor.ts:106-111).
AtMostOneLateClaim == \A i \in Instances : lateClaims[i] <= 1

SomeClosed == \E i \in Instances : closed[i]

\* A scan that is queued in an instance while no loop is running there reaches every job that can
\* be claimed then, whatever batches, older jobs, set-backs, failed statements and lost races come
\* between (processor.ts:86-161): the instance that loses a claim ends its loop with jobs left
\* (processor.ts:112), the one that won goes on with them, unless it is being closed.
ScanReachesJob ==
    \A i \in Instances, j \in Jobs :
        Claimable(j) /\ immediates[i] > 0 /\ ~ processing[i] ~> ~ Claimable(j) \/ SomeClosed

-----------------------------------------------------------------------------
(* What the rest of the process sees of the processor.                     *)

\* Where the process of an instance is in its life.
Phase(i) ==
    IF ~ closed[i] THEN "up" ELSE IF disconnected[i] THEN "released" ELSE "destroying"

\* The run whose promise onModuleDestroy waits for, or would wait for if it were called now.
Known(i) == IF closed[i] THEN awaited[i] ELSE activeRun[i]

Loop(i) ==
    IF Active(i) = {} THEN "none" ELSE IF Known(i) \in Active(i) THEN "awaited" ELSE "forgotten"

Life(i) == INSTANCE ProcessorLife WITH phase <- Phase(i), loop <- Loop(i)

\* In every instance, callbacks, timers, claims, failures and closings come to what ServiceProcess
\* takes the processor to be: after the signal nothing starts a loop, or makes the provider lose the
\* promise of the one that runs, and Prisma disconnects under no loop whose promise the provider
\* had (processor.ts:45-83, 87).
ProcessorLives ==
    /\ \A i \in Instances : Life(i)!Init
    /\ [][\A i \in Instances : [Life(i)!Next]_(Life(i)!vars)]_vars

\* Every loop ends: the batch is finite, a claim that is lost or finds nothing ends it, and so does
\* the closing.  The shutdown waits for it, without a limit of its own (processor.ts:52, 106-119).
EveryLoopEnds == \A i \in Instances : Life(i)!EveryLoopEnds

-----------------------------------------------------------------------------
(* What the documents say and the code does not do.                        *)

\* task-notifications/spec.md:22: the processor consumes the pending jobs.  With one instance,
\* no failure and no shutdown, a job that commits after the loop's findFirst was executed, and
\* whose schedule() finds processing still set, is not looked at again.
JobIsConsumed == \A j \in Jobs : job[j] = "ready" ~> job[j] # "ready" \/ SomeClosed

\* task-notifications/spec.md:85: a job does not stay in processing for good.  The scan of a
\* process that restarts before the lease of its predecessor ends skips the job, and nothing
\* schedules another one when the lease ends.
NotStuckInProcessing ==
    \A j \in Jobs : job[j] \in {"leased", "expired"} ~> job[j] \notin {"leased", "expired"} \/ SomeClosed

\* production-runtime/spec.md:32: Prisma disconnects after the active database work.  A second
\* callback queued before the first ran empties activeRun while the run goes on.
NothingActiveAfterDisconnect == \A i \in Instances : disconnected[i] => Active(i) = {}
=============================================================================

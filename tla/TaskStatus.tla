----------------------------- MODULE TaskStatus -----------------------------
(***************************************************************************)
(* PATCH /tasks/:id/status: concurrent requests move tasks through their   *)
(* statuses under optimistic concurrency, and every change commits with    *)
(* the event that records it and the outbox job that announces it          *)
(* (src/tasks/tasks.service.ts, src/tasks/prisma-task.repository.ts).      *)
(*                                                                         *)
(* A request reads the task, checks the transition and the version, and    *)
(* opens a transaction that reads the task again, updates the row under    *)
(* the condition version = expectedVersion, and inserts the event and the  *)
(* job.  One action is one statement and the code up to the next one.      *)
(*                                                                         *)
(* PostgreSQL runs the transaction at READ COMMITTED: a statement sees the *)
(* rows committed before it and its own; an update waits for the row's     *)
(* lock and looks at its condition again when it has it; the unique index  *)
(* over (taskId, version) refuses a second event.  What a transaction has  *)
(* written waits in its draft until it commits.                            *)
(*                                                                         *)
(* Requests here have passed the guards and name tasks of their tenant or  *)
(* tasks that do not exist; nothing deletes a task.  The commit is         *)
(* followed by schedule(), which ProcessorScheduling models as Wake.       *)
(***************************************************************************)
EXTENDS Naturals, FiniteSets

CONSTANTS
    Tasks,          \* ids of tasks
    Requests,       \* names for the requests ever made
    NoRequest,      \* the owner of a row lock nobody has
    MaxExpected     \* bound of the model: the expectedVersions clients send

ASSUME TaskAssumption ==
    /\ Tasks # {}
    /\ NoRequest \notin Requests
    /\ MaxExpected \in Nat

VARIABLES
    task,           \* the tasks rows, version 0 for none
    events,         \* the task_events rows, with the request each comes from
    jobs,           \* the notification_jobs rows: the key of their event
    owner,          \* the request whose transaction has locked a task's row
    at,             \* the await the handler of each request is at
    ask,            \* what the request asks for
    from,           \* the status its transaction has read
    newRow,         \* what the transaction has written and not committed
    newEvents,
    newJobs,
    reply           \* what the request was answered

tables == <<task, events, jobs>>
draft == <<newRow, newEvents, newJobs>>
vars == <<tables, owner, at, ask, from, draft, reply>>

Statuses == {"todo", "in_progress", "done"}

\* allowedTransitions
Allowed == [todo |-> {"in_progress", "done"}, in_progress |-> {"todo", "done"}, done |-> {}]

Row(status, version) == [status |-> status, version |-> version]
NoRow == Row("todo", 0)

Asking(t, to, expected) == [task |-> t, to |-> to, expected |-> expected]

\* The awaits of a request, those of its transaction last.
Transacting == {"update", "event", "job", "commit"}
Waiting == {"look", "read"} \cup Transacting

Init ==
    /\ task = [t \in Tasks |-> NoRow]
    /\ events = {}
    /\ jobs = {}
    /\ owner = [t \in Tasks |-> NoRequest]
    /\ at = [r \in Requests |-> "unsent"]
    /\ ask = [r \in Requests |-> Asking(CHOOSE t \in Tasks : TRUE, "todo", 1)]
    /\ from = [r \in Requests |-> "unread"]
    /\ newRow = [r \in Requests |-> NoRow]
    /\ newEvents = [r \in Requests |-> {}]
    /\ newJobs = [r \in Requests |-> {}]
    /\ reply = [r \in Requests |-> "none"]

-----------------------------------------------------------------------------
(* Before the transaction.                                                 *)

\* POST /tasks: a new task is in todo, at version 1.
CreateTask(t) ==
    /\ task[t] = NoRow
    /\ task' = [task EXCEPT ![t] = Row("todo", 1)]
    /\ UNCHANGED <<events, jobs, owner, at, ask, from, draft, reply>>

\* A valid request arrives: any status, any version from 1.
Send(r) ==
    /\ at[r] = "unsent"
    /\ at' = [at EXCEPT ![r] = "look"]
    /\ \E t \in Tasks, to \in Statuses, n \in 1 .. MaxExpected :
         ask' = [ask EXCEPT ![r] = Asking(t, to, n)]
    /\ UNCHANGED <<tables, owner, from, draft, reply>>

Goto(r, next) ==
    /\ at' = [at EXCEPT ![r] = next]
    /\ UNCHANGED reply

\* The handler returns or throws.
Answer(r, how) ==
    /\ at' = [at EXCEPT ![r] = "answered"]
    /\ reply' = [reply EXCEPT ![r] = how]

\* Variant: the version is left to the repository, which compares it anyway.
CheckTransition(r) ==
    LET row == task[ask[r].task]
    IN  /\ at[r] = "look"
        /\ \/ row = NoRow /\ Answer(r, "not_found")
           \/ row # NoRow /\ ask[r].to \notin Allowed[row.status] /\ Answer(r, "bad_request")
           \/ row # NoRow /\ ask[r].to \in Allowed[row.status] /\ Goto(r, "read")
        /\ UNCHANGED <<tables, owner, ask, from, draft>>

\* TasksService.updateStatus: the read, then the transition check, then the version check.
Look(r) ==
    LET row == task[ask[r].task]
    IN  /\ at[r] = "look"
        /\ \/ row = NoRow /\ Answer(r, "not_found")
           \/ row # NoRow /\ ask[r].to \notin Allowed[row.status] /\ Answer(r, "bad_request")
           \/ /\ row # NoRow
              /\ ask[r].to \in Allowed[row.status]
              /\ row.version # ask[r].expected
              /\ Answer(r, "conflict")
           \/ /\ row # NoRow
              /\ ask[r].to \in Allowed[row.status]
              /\ row.version = ask[r].expected
              /\ Goto(r, "read")
        /\ UNCHANGED <<tables, owner, ask, from, draft>>

-----------------------------------------------------------------------------
(* The transaction.                                                        *)

\* Variant: the status the event starts from is not kept.
ReadVersion(r) ==
    LET row == task[ask[r].task]
    IN  /\ at[r] = "read"
        /\ \/ row.version # ask[r].expected /\ Answer(r, "conflict")
           \/ row.version = ask[r].expected /\ Goto(r, "update")
        /\ UNCHANGED <<tables, owner, ask, from, draft>>

\* findFirst in the transaction takes no lock.
ReadAgain(r) ==
    LET row == task[ask[r].task]
    IN  /\ at[r] = "read"
        /\ \/ /\ row.version # ask[r].expected
              /\ Answer(r, "conflict")
              /\ UNCHANGED from
           \/ /\ row.version = ask[r].expected
              /\ from' = [from EXCEPT ![r] = row.status]
              /\ Goto(r, "update")
        /\ UNCHANGED <<tables, owner, ask, draft>>

\* updateMany: waits for the lock, then changes the row or matches none.
UpdateRow(r) ==
    LET t == ask[r].task
    IN  /\ at[r] = "update"
        /\ owner[t] = NoRequest
        /\ \/ /\ task[t].version = ask[r].expected
              /\ owner' = [owner EXCEPT ![t] = r]
              /\ newRow' = [newRow EXCEPT ![r] = Row(ask[r].to, task[t].version + 1)]
              /\ Goto(r, "event")
           \/ /\ task[t].version # ask[r].expected
              /\ Answer(r, "conflict")
              /\ UNCHANGED <<owner, newRow>>
        /\ UNCHANGED <<tables, ask, from, newEvents, newJobs>>

\* Variant: a transaction that ends leaves the row locked.
KeepLock(r) == UNCHANGED owner

\* The end of a transaction, one way or the other, frees what it has locked.
Release(r) == owner' = [t \in Tasks |-> IF owner[t] = r THEN NoRequest ELSE owner[t]]

\* The transaction's own writes are gone, committed or rolled back.
Forget(r) ==
    /\ newRow' = [newRow EXCEPT ![r] = NoRow]
    /\ newEvents' = [newEvents EXCEPT ![r] = {}]
    /\ newJobs' = [newJobs EXCEPT ![r] = {}]

\* Variant: the error of the transaction is caught and logged.
AbortSwallowed(r) ==
    /\ at[r] \in Waiting
    /\ Forget(r)
    /\ Release(r)
    /\ Answer(r, IF at[r] \in Transacting THEN "ok" ELSE "error")
    /\ UNCHANGED <<tables, ask, from>>

\* A statement fails, the transaction times out or the instance dies: all of it is rolled back.
Abort(r) ==
    /\ at[r] \in Waiting
    /\ Forget(r)
    /\ Release(r)
    /\ Answer(r, "error")
    /\ UNCHANGED <<tables, ask, from>>

EventOf(r) == [task |-> ask[r].task, from |-> from[r], to |-> ask[r].to,
               version |-> ask[r].expected + 1, by |-> r]

\* Another event of the task has the version: the unique index refuses this one.
Taken(e) == \E f \in events : f.task = e.task /\ f.version = e.version

\* Variant: the event is written by the client outside the transaction.
InsertEventAtOnce(r) ==
    /\ at[r] = "event"
    /\ ~ Taken(EventOf(r))
    /\ events' = events \cup {EventOf(r)}
    /\ Goto(r, "job")
    /\ UNCHANGED <<task, jobs, owner, ask, from, draft>>

\* An insert the index refuses is left to Abort.
InsertEvent(r) ==
    /\ at[r] = "event"
    /\ ~ Taken(EventOf(r))
    /\ newEvents' = [newEvents EXCEPT ![r] = {EventOf(r)}]
    /\ Goto(r, "job")
    /\ UNCHANGED <<tables, owner, ask, from, newRow, newJobs>>

JobOf(e) == <<e.task, e.version>>

\* Variant: the job is written by the client outside the transaction.
InsertJobAtOnce(r) ==
    /\ at[r] = "job"
    /\ jobs' = jobs \cup {JobOf(EventOf(r))}
    /\ Goto(r, "commit")
    /\ UNCHANGED <<task, events, owner, ask, from, draft>>

InsertJob(r) ==
    /\ at[r] = "job"
    /\ newJobs' = [newJobs EXCEPT ![r] = {JobOf(EventOf(r))}]
    /\ Goto(r, "commit")
    /\ UNCHANGED <<tables, owner, ask, from, newRow, newEvents>>

\* Variant: every error of the commit is taken for a version conflict.
CommitOrConflict(r, replied) ==
    /\ at[r] = "commit"
    /\ task' = [task EXCEPT ![ask[r].task] = newRow[r]]
    /\ events' = events \cup newEvents[r]
    /\ jobs' = jobs \cup newJobs[r]
    /\ Forget(r)
    /\ Release(r)
    /\ Answer(r, IF replied THEN "ok" ELSE "conflict")
    /\ UNCHANGED <<ask, from>>

\* The task is read once more for the answer, its own change included, and the transaction
\* commits; the answer of the commit may be lost.
Commit(r, replied) ==
    /\ at[r] = "commit"
    /\ task' = [task EXCEPT ![ask[r].task] = newRow[r]]
    /\ events' = events \cup newEvents[r]
    /\ jobs' = jobs \cup newJobs[r]
    /\ Forget(r)
    /\ Release(r)
    /\ Answer(r, IF replied THEN "ok" ELSE "error")
    /\ UNCHANGED <<ask, from>>

Serve(r) ==
    \/ Look(r)
    \/ ReadAgain(r)
    \/ UpdateRow(r)
    \/ InsertEvent(r)
    \/ InsertJob(r)
    \/ \E replied \in BOOLEAN : Commit(r, replied)

Next ==
    \/ \E t \in Tasks : CreateTask(t)
    \/ \E r \in Requests : Send(r)
    \/ \E r \in Requests : Serve(r) \/ Abort(r)

\* Statements are answered, and a row lock that is free is given to one that waits for it.
\* Nobody is obliged to send anything, and no failure or timeout is obliged to end a wait.
Spec == Init /\ [][Next]_vars /\ \A r \in Requests : WF_vars(Serve(r))

-----------------------------------------------------------------------------
(* Correctness.                                                            *)

RowType == [status : Statuses, version : Nat]

AskType == [task : Tasks, to : Statuses, expected : Nat \ {0}]

EventType == [task : Tasks, from : Statuses, to : Statuses, version : Nat, by : Requests]

\* Every variable has its type; the answers are those the service gives.
TypeOK ==
    /\ task \in [Tasks -> RowType]
    /\ events \subseteq EventType
    /\ jobs \subseteq Tasks \X Nat
    /\ owner \in [Tasks -> Requests \cup {NoRequest}]
    /\ at \in [Requests -> {"unsent", "answered"} \cup Waiting]
    /\ ask \in [Requests -> AskType]
    /\ from \in [Requests -> Statuses \cup {"unread"}]
    /\ newRow \in [Requests -> RowType]
    /\ newEvents \in [Requests -> SUBSET EventType]
    /\ newJobs \in [Requests -> SUBSET (Tasks \X Nat)]
    /\ reply \in [Requests -> {"none", "ok", "not_found", "bad_request", "conflict", "error"}]

History(t) == {e \in events : e.task = t}

\* The committed events of a task tell its whole life: one for each version after the first,
\* each starting in the status the one before it ended in, none a step the service forbids, the
\* last ending in the row's status.  No concurrent update is lost or recorded twice
\* (prisma-task.repository.ts:47-93).
HistoryIsChain ==
    \A t \in Tasks :
        /\ {e.version : e \in History(t)} = 2 .. task[t].version
        /\ \A e, f \in History(t) : e.version = f.version => e = f
        /\ \A e \in History(t) :
             /\ e.version = 2 => e.from = "todo"
             /\ e.version = task[t].version => e.to = task[t].status
             /\ e.from # e.to /\ e.from # "done"
             /\ \A f \in History(t) : f.version = e.version + 1 => f.from = e.to

\* Every committed change has its job in the outbox and every job its event, whatever failed in
\* between (prisma-task.repository.ts:72-84).
OutboxMatchesHistory == jobs = {<<e.task, e.version>> : e \in events}

\* A request that was answered 200 made its change, the only one on the version it named; one
\* that was refused changed nothing (tasks.service.ts:52-88).  An error leaves both possible.
RepliesAreTrue ==
    \A r \in Requests :
        /\ reply[r] = "ok" =>
             \E e \in events : /\ e.by = r /\ e.task = ask[r].task
                               /\ e.to = ask[r].to /\ e.version = ask[r].expected + 1
        /\ reply[r] \in {"not_found", "bad_request", "conflict"} => \A e \in events : e.by # r
        /\ \A s \in Requests :
             reply[r] = "ok" /\ reply[s] = "ok" /\ ask[s].task = ask[r].task
             /\ ask[s].expected = ask[r].expected => r = s

\* A task that is done stays as it is.  The transition is checked on a row read before the
\* transaction: only the two version checks make that row the one that is updated
\* (tasks.service.ts:60-68, prisma-task.repository.ts:56-66).
DoneIsFinal == [][\A t \in Tasks : task[t].status = "done" => task'[t] = task[t]]_vars

\* No request waits for a row lock for ever: whichever transactions fail while they hold one, the
\* others are answered, and not only because their own transaction times out.
EveryRequestIsAnswered == \A r \in Requests : at[r] \in Waiting ~> reply[r] # "none"

-----------------------------------------------------------------------------
(* What the documents say and the code does not do.                        *)

\* r is about to commit while s, which asks for a change that the same version of the task
\* allows, has not been looked at.
Rivals(r, s) ==
    /\ at[r] = "commit"
    /\ at[s] = "look"
    /\ ask[s].task = ask[r].task
    /\ ask[s].expected = ask[r].expected
    /\ ask[s].to \in Allowed[from[r]]

\* task-status/spec.md:39-40: of two simultaneous requests with the same expectedVersion one is
\* answered 200 and the other 409.  The transition check comes before the version check: a
\* loser that reads the task after the winner's commit is answered 400.
LoserGetsConflict ==
    \A r, s \in Requests : [](Rivals(r, s) => [](reply[r] = "ok" => reply[s] # "bad_request"))

-----------------------------------------------------------------------------
(* The abstract specification this module implements.                      *)

Asked == [r \in Requests |-> IF at[r] = "unsent" THEN {} ELSE {ask[r]}]

Updates == INSTANCE TaskUpdates WITH
    row <- task, asked <- Asked, answer <- reply,
    Asks <- [task : Tasks, to : Statuses, expected : 1 .. MaxExpected],
    Absent <- NoRow, Created <- Row("todo", 1)

\* Requests are atomic: although a request reads its task twice before it updates it, with other
\* requests in between, and writes three tables, each takes effect and is judged at one moment, by
\* the row of that moment (tasks.service.ts:52-88, prisma-task.repository.ts:47-93).
UpdatesAreAtomic == Updates!Spec
=============================================================================

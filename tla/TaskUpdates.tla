----------------------------- MODULE TaskUpdates -----------------------------
(***************************************************************************)
(* What the task service promises to those who update the status of tasks, *)
(* with no transaction, lock or second read: every request takes effect at *)
(* one moment between its arrival and its answer.  At that moment either   *)
(* the task is at the version the request names and allows the change, and *)
(* the row, the event that records the change and the job that announces   *)
(* it are written together; or the answer names a reason that is true of   *)
(* the task at that moment, and nothing is written.  An error may stand    *)
(* for either, but it too is one change or none.                           *)
(*                                                                         *)
(* TaskStatus implements this specification.                               *)
(***************************************************************************)
EXTENDS Naturals

CONSTANTS
    Tasks,          \* ids of tasks
    Requests,       \* names for the requests ever made
    Asks,           \* what may be asked: a task, a status to change it to, a version expected
    Allowed,        \* the statuses each status may be changed to
    Absent,         \* the row of a task before it exists
    Created         \* the row of a new task

VARIABLES
    row,            \* the status and the version of each task
    events,         \* what was changed, by which request
    jobs,           \* which changes are to be announced
    asked,          \* what each request asks for, nothing before it arrives
    answer          \* what each request was answered

vars == <<row, events, jobs, asked, answer>>

Init ==
    /\ row = [t \in Tasks |-> Absent]
    /\ events = {}
    /\ jobs = {}
    /\ asked = [r \in Requests |-> {}]
    /\ answer = [r \in Requests |-> "none"]

Create(t) ==
    /\ row[t] = Absent
    /\ row' = [row EXCEPT ![t] = Created]
    /\ UNCHANGED <<events, jobs, asked, answer>>

\* A request arrives.  It asks for one change, and is not asked again.
Arrive(r) ==
    /\ asked[r] = {}
    /\ \E ask \in Asks : asked' = [asked EXCEPT ![r] = {ask}]
    /\ UNCHANGED <<row, events, jobs, answer>>

Answer(r, how) ==
    /\ answer[r] = "none"
    /\ answer' = [answer EXCEPT ![r] = how]
    /\ UNCHANGED asked

\* The whole change at once, on the version that was named.
Change(r, ask) ==
    LET old == row[ask.task]
    IN  /\ old.version = ask.expected
        /\ ask.to \in Allowed[old.status]
        /\ row' = [row EXCEPT ![ask.task] = [status |-> ask.to, version |-> old.version + 1]]
        /\ events' = events \cup {[task |-> ask.task, from |-> old.status, to |-> ask.to,
                                   version |-> old.version + 1, by |-> r]}
        /\ jobs' = jobs \cup {<<ask.task, old.version + 1>>}
        /\ Answer(r, "ok") \/ Answer(r, "error")

\* No change, for a reason that holds now.
Refuse(r, ask) ==
    LET old == row[ask.task]
    IN  /\ \/ old = Absent /\ Answer(r, "not_found")
           \/ old # Absent /\ ask.to \notin Allowed[old.status] /\ Answer(r, "bad_request")
           \/ old.version # ask.expected /\ Answer(r, "conflict")
           \/ Answer(r, "error")
        /\ UNCHANGED <<row, events, jobs>>

Next ==
    \/ \E t \in Tasks : Create(t)
    \/ \E r \in Requests : Arrive(r)
    \/ \E r \in Requests : \E ask \in asked[r] : Change(r, ask) \/ Refuse(r, ask)

Spec == Init /\ [][Next]_vars
=============================================================================

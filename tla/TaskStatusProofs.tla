-------------------------- MODULE TaskStatusProofs --------------------------
(***************************************************************************)
(* Theorems of TaskStatus, for every set of tasks and requests.            *)
(***************************************************************************)
EXTENDS TaskStatus, TLAPS

\* The awaits after the conditional update: the row is locked and rewritten.
Writing == {"event", "job", "commit"}

\* A row's lock belongs to a request that is writing it.
LockInv ==
    /\ \A t \in Tasks : owner[t] # NoRequest => at[owner[t]] \in Writing /\ ask[owner[t]].task = t
    /\ \A r \in Requests : at[r] \in Writing => owner[ask[r].task] = r

\* What a request has learnt from its reads still holds, unless the version has moved on; for
\* one that writes it has not, and its transaction has written what it has got to.
Knows(r) ==
    LET row == task[ask[r].task]
    IN  /\ at[r] \in {"read", "update"} => row.version >= ask[r].expected
        /\ at[r] = "read" /\ row.version = ask[r].expected => ask[r].to \in Allowed[row.status]
        /\ at[r] = "update" /\ row.version = ask[r].expected =>
             from[r] = row.status /\ ask[r].to \in Allowed[row.status]
        /\ at[r] \in Writing =>
             /\ row.version = ask[r].expected
             /\ from[r] = row.status
             /\ ask[r].to \in Allowed[row.status]
             /\ newRow[r] = Row(ask[r].to, ask[r].expected + 1)
        /\ at[r] \in {"job", "commit"} => newEvents[r] = {EventOf(r)}
        /\ at[r] = "commit" => newJobs[r] = {JobOf(EventOf(r))}

ReadInv == \A r \in Requests : Knows(r)

\* The events of a task up to its version, each linked to the next one and the last one to the
\* row; a task at its first version is in todo.
Linked(t) ==
    /\ task[t].version <= 1 => task[t].status = "todo"
    /\ \A e \in events : e.task = t =>
         /\ 2 <= e.version /\ e.version <= task[t].version
         /\ e.version = 2 => e.from = "todo"
         /\ e.version = task[t].version => e.to = task[t].status
         /\ e.from # e.to /\ e.from # "done"
    /\ \A n \in Nat : 2 <= n /\ n <= task[t].version =>
         \E e \in events : e.task = t /\ e.version = n
    /\ \A e, f \in events : e.task = t /\ f.task = t =>
         /\ e.version = f.version => e = f
         /\ f.version = e.version + 1 => f.from = e.to

ChainInv == \A t \in Tasks : Linked(t)

\* Events come from requests that committed, and a request that was told so has its event.
AuthorInv ==
    /\ \A e \in events : at[e.by] = "answered" /\ reply[e.by] \in {"ok", "error"}
    /\ \A r \in Requests :
         /\ reply[r] = "none" <=> at[r] # "answered"
         /\ reply[r] = "ok" => EventOf(r) \in events

Inv == LockInv /\ ReadInv /\ ChainInv /\ OutboxMatchesHistory /\ AuthorInv

-----------------------------------------------------------------------------
(* Types.                                                                  *)

\* Updating a column keeps its type, whichever row is named.
LEMMA UpdateType ==
    ASSUME NEW S, NEW T, NEW f \in [S -> T], NEW x, NEW v \in T
    PROVE  [f EXCEPT ![x] = v] \in [S -> T]
  OBVIOUS

\* A row is built from a status and a version.
LEMMA RowTypes ==
    ASSUME NEW status \in Statuses, NEW version \in Nat
    PROVE  Row(status, version) \in RowType
  BY DEF Row, RowType

\* A transition leads to a status.
LEMMA AllowedTypes ==
    ASSUME NEW old \in Statuses
    PROVE  /\ Allowed[old] \subseteq Statuses
           /\ old \notin Allowed[old]
           /\ old = "done" => Allowed[old] = {}
  BY DEF Allowed, Statuses

\* The event of a request that has read its task is an event.
LEMMA EventTypes ==
    ASSUME TypeOK, NEW r \in Requests, from[r] \in Statuses
    PROVE  EventOf(r) \in EventType /\ JobOf(EventOf(r)) \in Tasks \X Nat
  BY DEF TypeOK, EventOf, EventType, AskType, JobOf

\* The initial state is well typed.
LEMMA TypeInit == Init => TypeOK
<1> SUFFICES ASSUME Init PROVE TypeOK
  OBVIOUS
<1>1. NoRow \in RowType
  BY RowTypes DEF NoRow, Statuses
<1>2. (CHOOSE t \in Tasks : TRUE) \in Tasks
  BY TaskAssumption
<1>3. Asking(CHOOSE t \in Tasks : TRUE, "todo", 1) \in AskType
  BY <1>2 DEF Asking, AskType, Statuses
<1> QED
  BY <1>1, <1>3 DEF Init, TypeOK

\* From the conditional update on, the status the transaction has read is known.
HasRead == \A r \in Requests : at[r] \in Transacting => from[r] \in Statuses

\* No step breaks the types.
LEMMA TypeNext == TypeOK /\ HasRead /\ [Next]_vars => TypeOK' /\ HasRead'
<1> SUFFICES ASSUME TypeOK, HasRead, [Next]_vars PROVE TypeOK' /\ HasRead'
  OBVIOUS
<1> USE DEF Transacting, Waiting
<1>0. /\ NoRow \in RowType
      /\ \A t \in Tasks : task[t].status \in Statuses /\ task[t].version \in Nat
      /\ \A r \in Requests : /\ ask[r].task \in Tasks /\ ask[r].to \in Statuses
                             /\ ask[r].expected \in Nat
  BY RowTypes DEF NoRow, Statuses, TypeOK, RowType, AskType
<1>1. ASSUME NEW t \in Tasks, CreateTask(t) PROVE TypeOK' /\ HasRead'
  <2>1. Row("todo", 1) \in RowType
    BY RowTypes DEF Statuses
  <2> QED
    BY <1>1, <2>1, UpdateType DEF CreateTask, draft, TypeOK, HasRead
<1>2. ASSUME NEW r \in Requests, Send(r) PROVE TypeOK' /\ HasRead'
  <2>1. PICK t \in Tasks, to \in Statuses, n \in 1 .. MaxExpected :
          ask' = [ask EXCEPT ![r] = Asking(t, to, n)]
    BY <1>2 DEF Send
  <2>2. Asking(t, to, n) \in AskType
    BY TaskAssumption DEF Asking, AskType
  <2> QED
    BY <1>2, <2>1, <2>2, UpdateType DEF Send, tables, draft, TypeOK, HasRead
<1>3. ASSUME NEW r \in Requests, Look(r) PROVE TypeOK' /\ HasRead'
  BY <1>3 DEF Look, Goto, Answer, tables, draft, TypeOK, HasRead
<1>4. ASSUME NEW r \in Requests, ReadAgain(r) PROVE TypeOK' /\ HasRead'
  <2>1. /\ UNCHANGED <<tables, owner, ask, newRow, newEvents, newJobs>>
        /\ at[r] = "read"
    BY <1>4 DEF ReadAgain, draft
  <2>2. CASE Answer(r, "conflict") /\ UNCHANGED from
    BY <2>1, <2>2 DEF Answer, tables, TypeOK, HasRead
  <2>3. CASE from' = [from EXCEPT ![r] = task[ask[r].task].status] /\ Goto(r, "update")
    <3>1. task[ask[r].task].status \in Statuses
      BY <1>0
    <3>2. from' \in [Requests -> Statuses \cup {"unread"}] /\ from'[r] \in Statuses
      BY <2>3, <3>1 DEF TypeOK
    <3>3. \A k \in Requests \ {r} : from'[k] = from[k]
      BY <2>3 DEF TypeOK
    <3> QED
      BY <2>1, <2>3, <3>2, <3>3 DEF Goto, tables, TypeOK, HasRead
  <2> QED
    BY <1>4, <2>2, <2>3 DEF ReadAgain
<1>5. ASSUME NEW r \in Requests, UpdateRow(r) PROVE TypeOK' /\ HasRead'
  <2>1. Row(ask[r].to, task[ask[r].task].version + 1) \in RowType
    BY <1>0, RowTypes
  <2> QED
    BY <1>5, <2>1 DEF UpdateRow, Goto, Answer, tables, TypeOK, HasRead
<1>6. ASSUME NEW r \in Requests, InsertEvent(r) PROVE TypeOK' /\ HasRead'
  <2>1. EventOf(r) \in EventType
    BY <1>6, EventTypes DEF InsertEvent, HasRead
  <2> QED
    BY <1>6, <2>1 DEF InsertEvent, Goto, tables, TypeOK, HasRead
<1>7. ASSUME NEW r \in Requests, InsertJob(r) PROVE TypeOK' /\ HasRead'
  <2>1. JobOf(EventOf(r)) \in Tasks \X Nat
    BY <1>7, EventTypes DEF InsertJob, HasRead
  <2> QED
    BY <1>7, <2>1 DEF InsertJob, Goto, tables, TypeOK, HasRead
<1>8. ASSUME NEW r \in Requests, NEW replied \in BOOLEAN, Commit(r, replied)
      PROVE TypeOK' /\ HasRead'
  BY <1>0, <1>8 DEF Commit, Forget, Release, Answer, TypeOK, HasRead
<1>9. ASSUME NEW r \in Requests, Abort(r) PROVE TypeOK' /\ HasRead'
  BY <1>0, <1>9 DEF Abort, Forget, Release, Answer, tables, TypeOK, HasRead
<1>10. CASE UNCHANGED vars
  BY <1>10 DEF vars, tables, draft, TypeOK, HasRead
<1> QED
  BY <1>1, <1>2, <1>3, <1>4, <1>5, <1>6, <1>7, <1>8, <1>9, <1>10 DEF Next, Serve

\* In every reachable state the variables have their types.
THEOREM TypeCorrect == Spec => []TypeOK
<1>1. Init => TypeOK /\ HasRead
  BY TypeInit DEF Init, HasRead, Transacting
<1> QED
  BY <1>1, TypeNext, PTL DEF Spec

-----------------------------------------------------------------------------
(* The inductive invariant.                                                *)

\* The initial state satisfies the invariant: nothing was asked and nothing has happened.
LEMMA InvInit == Init => Inv
<1> SUFFICES ASSUME Init PROVE Inv
  OBVIOUS
<1>1. LockInv /\ ReadInv
  BY DEF Init, LockInv, ReadInv, Knows, Writing
<1>2. ChainInv
  BY DEF Init, ChainInv, Linked, NoRow, Row
<1>3. OutboxMatchesHistory /\ AuthorInv
  BY DEF Init, OutboxMatchesHistory, AuthorInv
<1> QED
  BY <1>1, <1>2, <1>3 DEF Inv

\* Locks follow the transactions: one is taken before the first write and freed at the end.
LEMMA LockNext == TypeOK /\ LockInv /\ [Next]_vars => LockInv'
<1> SUFFICES ASSUME TypeOK, LockInv, [Next]_vars PROVE LockInv'
  OBVIOUS
<1> USE TaskAssumption DEF LockInv, Writing
<1>0. /\ \A r \in Requests : ask[r].task \in Tasks
      /\ \A r \in Requests : r # NoRequest
      /\ at \in [Requests -> {"unsent", "answered"} \cup Waiting]
      /\ owner \in [Tasks -> Requests \cup {NoRequest}]
      /\ ask \in [Requests -> AskType]
  BY DEF TypeOK, AskType
<1>1. ASSUME NEW t \in Tasks, CreateTask(t) PROVE LockInv'
  BY <1>1 DEF CreateTask
<1>2. ASSUME NEW r \in Requests, Send(r) PROVE LockInv'
  BY <1>0, <1>2 DEF Send
<1>3. ASSUME NEW r \in Requests, Look(r) PROVE LockInv'
  BY <1>0, <1>3 DEF Look, Goto, Answer
<1>4. ASSUME NEW r \in Requests, ReadAgain(r) PROVE LockInv'
  BY <1>0, <1>4 DEF ReadAgain, Goto, Answer
<1>5. ASSUME NEW r \in Requests, UpdateRow(r) PROVE LockInv'
  BY <1>0, <1>5 DEF UpdateRow, Goto, Answer
<1>6. ASSUME NEW r \in Requests, InsertEvent(r) PROVE LockInv'
  BY <1>0, <1>6 DEF InsertEvent, Goto
<1>7. ASSUME NEW r \in Requests, InsertJob(r) PROVE LockInv'
  BY <1>0, <1>7 DEF InsertJob, Goto
<1>8. ASSUME NEW r \in Requests, NEW replied \in BOOLEAN, Commit(r, replied) PROVE LockInv'
  BY <1>0, <1>8 DEF Commit, Release, Answer
<1>9. ASSUME NEW r \in Requests, Abort(r) PROVE LockInv'
  BY <1>0, <1>9 DEF Abort, Release, Answer
<1>10. CASE UNCHANGED vars
  BY <1>10 DEF vars
<1> QED
  BY <1>1, <1>2, <1>3, <1>4, <1>5, <1>6, <1>7, <1>8, <1>9, <1>10 DEF Next, Serve

\* What a request knows depends on its own row and its own variables only.
LEMMA KnowsKept ==
    ASSUME NEW r, Knows(r),
           at'[r] = at[r], ask'[r] = ask[r], from'[r] = from[r],
           newRow'[r] = newRow[r], newEvents'[r] = newEvents[r], newJobs'[r] = newJobs[r],
           task'[ask[r].task] = task[ask[r].task]
    PROVE  Knows(r)'
  BY DEF Knows, EventOf

\* Reads stay good: only the request that has locked a row changes it, and then the version
\* every other request has read is over.
LEMMA ReadNext == TypeOK /\ LockInv /\ ReadInv /\ [Next]_vars => ReadInv'
<1> SUFFICES ASSUME TypeOK, LockInv, ReadInv, [Next]_vars, NEW s \in Requests PROVE Knows(s)'
  BY DEF ReadInv
<1>0. /\ Knows(s)
      /\ \A r \in Requests : ask[r].task \in Tasks /\ ask[r].expected \in Nat /\ ask[r].expected >= 1
      /\ \A t \in Tasks : task[t].version \in Nat
  BY DEF ReadInv, TypeOK, AskType, RowType
<1>1. ASSUME NEW t \in Tasks, CreateTask(t) PROVE Knows(s)'
  <2>1. CASE ask[s].task # t
    BY <1>0, <1>1, <2>1, KnowsKept DEF CreateTask, draft, TypeOK
  <2>2. CASE ask[s].task = t
    <3>1. task[t].version = 0
      BY <1>1 DEF CreateTask, NoRow, Row
    <3>2. at[s] \notin {"read", "update"} \cup Writing
      BY <1>0, <2>2, <3>1 DEF Knows
    <3> QED
      BY <1>1, <3>2 DEF CreateTask, draft, Knows, Writing
  <2> QED
    BY <2>1, <2>2
<1>2. ASSUME NEW r \in Requests, Send(r) PROVE Knows(s)'
  <2>1. CASE s = r
    BY <1>2, <2>1 DEF Send, Knows, Writing, TypeOK
  <2>2. CASE s # r
    BY <1>0, <1>2, <2>2, KnowsKept DEF Send, tables, draft, TypeOK
  <2> QED
    BY <2>1, <2>2
<1>3. ASSUME NEW r \in Requests, Look(r) PROVE Knows(s)'
  <2>1. CASE s = r
    BY <1>0, <1>3, <2>1 DEF Look, Goto, Answer, tables, draft, Knows, Writing, TypeOK
  <2>2. CASE s # r
    BY <1>0, <1>3, <2>2, KnowsKept DEF Look, Goto, Answer, tables, draft, TypeOK
  <2> QED
    BY <2>1, <2>2
<1>4. ASSUME NEW r \in Requests, ReadAgain(r) PROVE Knows(s)'
  <2>1. CASE s = r
    BY <1>0, <1>4, <2>1 DEF ReadAgain, Goto, Answer, tables, draft, Knows, Writing, TypeOK
  <2>2. CASE s # r
    BY <1>0, <1>4, <2>2, KnowsKept DEF ReadAgain, Goto, Answer, tables, draft, TypeOK
  <2> QED
    BY <2>1, <2>2
<1>5. ASSUME NEW r \in Requests, UpdateRow(r) PROVE Knows(s)'
  <2>1. CASE s = r
    BY <1>0, <1>5, <2>1 DEF UpdateRow, Goto, Answer, tables, Knows, Writing, TypeOK
  <2>2. CASE s # r
    BY <1>0, <1>5, <2>2, KnowsKept DEF UpdateRow, Goto, Answer, tables, TypeOK
  <2> QED
    BY <2>1, <2>2
<1>6. ASSUME NEW r \in Requests, InsertEvent(r) PROVE Knows(s)'
  <2>1. CASE s = r
    BY <1>0, <1>6, <2>1 DEF InsertEvent, Goto, tables, Knows, Writing, TypeOK, EventOf
  <2>2. CASE s # r
    BY <1>0, <1>6, <2>2, KnowsKept DEF InsertEvent, Goto, tables, TypeOK
  <2> QED
    BY <2>1, <2>2
<1>7. ASSUME NEW r \in Requests, InsertJob(r) PROVE Knows(s)'
  <2>1. CASE s = r
    BY <1>0, <1>7, <2>1 DEF InsertJob, Goto, tables, Knows, Writing, TypeOK, EventOf
  <2>2. CASE s # r
    BY <1>0, <1>7, <2>2, KnowsKept DEF InsertJob, Goto, tables, TypeOK
  <2> QED
    BY <2>1, <2>2
<1>8. ASSUME NEW r \in Requests, NEW replied \in BOOLEAN, Commit(r, replied) PROVE Knows(s)'
  <2>0. /\ newRow[r].version = task[ask[r].task].version + 1
        /\ owner[ask[r].task] = r
    <3>1. at[r] = "commit" /\ Knows(r)
      BY <1>8 DEF Commit, ReadInv
    <3>2. task[ask[r].task].version = ask[r].expected /\ newRow[r] = Row(ask[r].to, ask[r].expected + 1)
      BY <3>1 DEF Knows, Writing
    <3>3. owner[ask[r].task] = r
      BY <3>1 DEF LockInv, Writing
    <3> QED
      BY <3>2, <3>3 DEF Row
  <2>1. CASE s = r
    BY <1>8, <2>1 DEF Commit, Answer, Knows, Writing, TypeOK
  <2>2. CASE s # r /\ ask[s].task # ask[r].task
    BY <1>0, <1>8, <2>2, KnowsKept DEF Commit, Forget, Answer, TypeOK
  <2>3. CASE s # r /\ ask[s].task = ask[r].task
    <3>1. at[s] \notin Writing
      BY <2>0, <2>3 DEF LockInv
    <3>2. at'[s] = at[s] /\ ask'[s] = ask[s]
      BY <1>8, <2>3 DEF Commit, Answer, TypeOK
    <3>3. task'[ask[s].task].version = task[ask[s].task].version + 1
      BY <1>0, <1>8, <2>0, <2>3 DEF Commit, TypeOK
    <3> QED
      BY <1>0, <3>1, <3>2, <3>3 DEF Knows, Writing
  <2> QED
    BY <2>1, <2>2, <2>3
<1>9. ASSUME NEW r \in Requests, Abort(r) PROVE Knows(s)'
  <2>1. CASE s = r
    BY <1>9, <2>1 DEF Abort, Answer, Knows, Writing, TypeOK
  <2>2. CASE s # r
    BY <1>0, <1>9, <2>2, KnowsKept DEF Abort, Forget, Answer, tables, TypeOK
  <2> QED
    BY <2>1, <2>2
<1>10. CASE UNCHANGED vars
  BY <1>0, <1>10, KnowsKept DEF vars, tables, draft
<1> QED
  BY <1>1, <1>2, <1>3, <1>4, <1>5, <1>6, <1>7, <1>8, <1>9, <1>10 DEF Next, Serve

\* An event of a step that does not touch the tables was there before.
LEMMA TablesChange == [Next]_vars =>
    \/ UNCHANGED <<task, events, jobs>>
    \/ \E t \in Tasks : CreateTask(t)
    \/ \E r \in Requests, replied \in BOOLEAN : Commit(r, replied)
<1> USE DEF tables
<1>1. ASSUME NEW r \in Requests, Send(r) \/ Look(r) \/ ReadAgain(r) \/ UpdateRow(r) \/ InsertEvent(r)
                                 \/ InsertJob(r) \/ Abort(r)
      PROVE  UNCHANGED <<task, events, jobs>>
  BY <1>1 DEF Send, Look, ReadAgain, UpdateRow, InsertEvent, InsertJob, Abort
<1> QED
  BY <1>1 DEF Next, Serve, vars

\* What a commit adds: the next event of the task, with the row and the job to match.
LEMMA CommitAdds ==
    ASSUME TypeOK, LockInv, ReadInv, NEW r \in Requests, NEW replied \in BOOLEAN, Commit(r, replied)
    PROVE  LET t == ask[r].task
               e == EventOf(r)
           IN  /\ t \in Tasks /\ e.task = t /\ e.by = r
               /\ e.version = task[t].version + 1 /\ task[t].version >= 1
               /\ e.from = task[t].status /\ e.from # e.to /\ e.from # "done"
               /\ events' = events \cup {e}
               /\ jobs' = jobs \cup {<<e.task, e.version>>}
               /\ task' = [task EXCEPT ![t] = Row(e.to, e.version)]
<1>1. at[r] = "commit" /\ Knows(r)
  BY DEF Commit, ReadInv
<1>2. /\ task[ask[r].task].version = ask[r].expected
      /\ from[r] = task[ask[r].task].status
      /\ ask[r].to \in Allowed[from[r]]
      /\ newRow[r] = Row(ask[r].to, ask[r].expected + 1)
      /\ newEvents[r] = {EventOf(r)}
      /\ newJobs[r] = {JobOf(EventOf(r))}
  BY <1>1 DEF Knows, Writing
<1>3. /\ ask[r].task \in Tasks /\ ask[r].expected \in Nat /\ ask[r].expected >= 1
      /\ task[ask[r].task].status \in Statuses
  BY DEF TypeOK, AskType, RowType
<1>4. ask[r].to # from[r] /\ from[r] # "done"
  BY <1>2, <1>3, AllowedTypes
<1>5. /\ task' = [task EXCEPT ![ask[r].task] = newRow[r]]
      /\ events' = events \cup newEvents[r]
      /\ jobs' = jobs \cup newJobs[r]
  BY DEF Commit
<1>6. /\ EventOf(r).task = ask[r].task /\ EventOf(r).by = r /\ EventOf(r).to = ask[r].to
      /\ EventOf(r).from = from[r] /\ EventOf(r).version = ask[r].expected + 1
      /\ JobOf(EventOf(r)) = <<EventOf(r).task, EventOf(r).version>>
  BY DEF EventOf, JobOf
<1> QED
  BY <1>2, <1>3, <1>4, <1>5, <1>6

\* A commit adds the next link to its task's chain and touches no other.
LEMMA ChainNext == TypeOK /\ LockInv /\ ReadInv /\ ChainInv /\ [Next]_vars => ChainInv'
<1> SUFFICES ASSUME TypeOK, LockInv, ReadInv, ChainInv, [Next]_vars PROVE ChainInv'
  OBVIOUS
<1>0. /\ \A t \in Tasks : task[t].version \in Nat
      /\ \A e \in events : e.version \in Nat /\ e.task \in Tasks
      /\ task \in [Tasks -> RowType]
  BY DEF TypeOK, RowType, EventType
<1>1. CASE UNCHANGED <<task, events, jobs>>
  BY <1>1 DEF ChainInv, Linked
<1>2. ASSUME NEW t \in Tasks, CreateTask(t) PROVE ChainInv'
  <2>1. /\ task[t].version = 0
        /\ task' = [task EXCEPT ![t] = Row("todo", 1)]
        /\ events' = events
    BY <1>2 DEF CreateTask, NoRow, Row
  <2>2. \A e \in events : e.task # t
    BY <1>0, <2>1 DEF ChainInv, Linked
  <2>3. \A u \in Tasks : u # t => task'[u] = task[u]
    BY <1>0, <2>1
  <2>4. task'[t].version = 1 /\ task'[t].status = "todo"
    BY <1>0, <2>1 DEF Row
  <2> QED
    BY <2>1, <2>2, <2>3, <2>4 DEF ChainInv, Linked
<1>3. ASSUME NEW r \in Requests, NEW replied \in BOOLEAN, Commit(r, replied), NEW u \in Tasks
      PROVE  Linked(u)'
  <2>1. PICK t, e :
          /\ t \in Tasks /\ e.task = t
          /\ e.version = task[t].version + 1 /\ task[t].version >= 1
          /\ e.from = task[t].status /\ e.from # e.to /\ e.from # "done"
          /\ events' = events \cup {e}
          /\ task' = [task EXCEPT ![t] = Row(e.to, e.version)]
    BY <1>3, CommitAdds
  <2>2. /\ task'[t].version = e.version /\ task'[t].status = e.to
        /\ \A x \in Tasks : x # t => task'[x] = task[x]
    BY <1>0, <2>1 DEF Row
  <2>3. Linked(u)
    BY DEF ChainInv
  <2>4. CASE u # t
    <3>1. \A f \in events' : f.task = u => f \in events
      BY <2>1, <2>4
    <3>2. events \subseteq events'
      BY <2>1
    <3> QED
      BY <2>2, <2>3, <2>4, <3>1, <3>2 DEF Linked
  <2>5. CASE u = t
    <3>1. \A f \in events : f.task = t => f.version < e.version
      BY <1>0, <2>1, <2>3, <2>5 DEF Linked
    <3>2. /\ task'[t].version <= 1 => task'[t].status = "todo"
          /\ \A f \in events' : f.task = t =>
               /\ 2 <= f.version /\ f.version <= task'[t].version
               /\ f.version = 2 => f.from = "todo"
               /\ f.version = task'[t].version => f.to = task'[t].status
               /\ f.from # f.to /\ f.from # "done"
      BY <1>0, <2>1, <2>2, <2>3, <2>5, <3>1 DEF Linked
    <3>3. \A n \in Nat : 2 <= n /\ n <= task'[t].version =>
               \E f \in events' : f.task = t /\ f.version = n
      BY <1>0, <2>1, <2>2, <2>3, <2>5 DEF Linked
    <3>4. \A f, g \in events' : f.task = t /\ g.task = t =>
               /\ f.version = g.version => f = g
               /\ g.version = f.version + 1 => g.from = f.to
      <4>1. ASSUME NEW f \in events, NEW g \in events, f.task = t, g.task = t
            PROVE  /\ f.version = g.version => f = g
                   /\ g.version = f.version + 1 => g.from = f.to
        BY <2>1, <2>3, <2>5, <4>1 DEF Linked
      <4>2. ASSUME NEW f \in events, f.task = t
            PROVE  /\ f.version # e.version /\ f.version # e.version + 1
                   /\ e.version # f.version
                   /\ e.version = f.version + 1 => e.from = f.to
        BY <1>0, <2>1, <2>3, <2>5, <3>1, <4>2 DEF Linked
      <4>3. e.version # e.version + 1
        BY <1>0, <2>1
      <4> QED
        BY <2>1, <4>1, <4>2, <4>3
    <3> QED
      BY <2>5, <3>2, <3>3, <3>4 DEF Linked
  <2> QED
    BY <2>4, <2>5
<1> QED
  BY <1>1, <1>2, <1>3, TablesChange DEF ChainInv

\* The job commits with its event.
LEMMA OutboxNext == TypeOK /\ LockInv /\ ReadInv /\ OutboxMatchesHistory /\ [Next]_vars => OutboxMatchesHistory'
<1> SUFFICES ASSUME TypeOK, LockInv, ReadInv, OutboxMatchesHistory, [Next]_vars PROVE OutboxMatchesHistory'
  OBVIOUS
<1> USE DEF OutboxMatchesHistory
<1>1. CASE UNCHANGED <<task, events, jobs>>
  BY <1>1
<1>2. ASSUME NEW t \in Tasks, CreateTask(t) PROVE OutboxMatchesHistory'
  BY <1>2 DEF CreateTask
<1>3. ASSUME NEW r \in Requests, NEW replied \in BOOLEAN, Commit(r, replied) PROVE OutboxMatchesHistory'
  <2>1. PICK e : /\ events' = events \cup {e}
                 /\ jobs' = jobs \cup {<<e.task, e.version>>}
    BY <1>3, CommitAdds
  <2>2. {<<f.task, f.version>> : f \in events \cup {e}}
          = {<<f.task, f.version>> : f \in events} \cup {<<e.task, e.version>>}
    OBVIOUS
  <2> QED
    BY <2>1, <2>2
<1> QED
  BY <1>1, <1>2, <1>3, TablesChange

\* An answer is given once, and with the commit.
LEMMA AuthorNext == TypeOK /\ LockInv /\ ReadInv /\ AuthorInv /\ [Next]_vars => AuthorInv'
<1> SUFFICES ASSUME TypeOK, LockInv, ReadInv, AuthorInv, [Next]_vars PROVE AuthorInv'
  OBVIOUS
<1>0. /\ at \in [Requests -> {"unsent", "answered"} \cup Waiting]
      /\ reply \in [Requests -> {"none", "ok", "not_found", "bad_request", "conflict", "error"}]
      /\ ask \in [Requests -> AskType]
      /\ from \in [Requests -> Statuses \cup {"unread"}]
      /\ \A e \in events : e.by \in Requests
  BY DEF TypeOK, EventType
<1> USE DEF AuthorInv, EventOf, tables, Waiting, Transacting
<1>1. ASSUME NEW t \in Tasks, CreateTask(t) PROVE AuthorInv'
  BY <1>1 DEF CreateTask
<1>2. ASSUME NEW r \in Requests, Send(r) PROVE AuthorInv'
  BY <1>0, <1>2 DEF Send
<1>3. ASSUME NEW r \in Requests, Look(r) PROVE AuthorInv'
  BY <1>0, <1>3 DEF Look, Goto, Answer
<1>4. ASSUME NEW r \in Requests, ReadAgain(r) PROVE AuthorInv'
  <2>1. /\ at[r] = "read" /\ events' = events /\ ask' = ask
        /\ \A s \in Requests : s # r => /\ at'[s] = at[s] /\ reply'[s] = reply[s]
                                       /\ from'[s] = from[s]
        /\ \/ at'[r] = "answered" /\ reply'[r] = "conflict"
           \/ at'[r] = "update" /\ reply'[r] = reply[r]
    BY <1>0, <1>4 DEF ReadAgain, Goto, Answer
  <2>2. \A e \in events : e.by # r
    BY <2>1
  <2>3. reply[r] = "none"
    BY <2>1
  <2>4. \A s \in Requests : s # r /\ reply[s] = "ok" => EventOf(s)' \in events'
    BY <2>1
  <2> QED
    BY <1>0, <2>1, <2>2, <2>3, <2>4
<1>5. ASSUME NEW r \in Requests, UpdateRow(r) PROVE AuthorInv'
  BY <1>0, <1>5 DEF UpdateRow, Goto, Answer
<1>6. ASSUME NEW r \in Requests, InsertEvent(r) PROVE AuthorInv'
  BY <1>0, <1>6 DEF InsertEvent, Goto
<1>7. ASSUME NEW r \in Requests, InsertJob(r) PROVE AuthorInv'
  BY <1>0, <1>7 DEF InsertJob, Goto
<1>8. ASSUME NEW r \in Requests, NEW replied \in BOOLEAN, Commit(r, replied) PROVE AuthorInv'
  <2>1. events' = events \cup {EventOf(r)} /\ EventOf(r).by = r
    BY <1>8, CommitAdds
  <2>2. /\ at[r] = "commit"
        /\ at' = [at EXCEPT ![r] = "answered"]
        /\ reply' = [reply EXCEPT ![r] = IF replied THEN "ok" ELSE "error"]
        /\ UNCHANGED <<ask, from>>
    BY <1>8 DEF Commit, Answer
  <2>3. \A e \in events' : at'[e.by] = "answered" /\ reply'[e.by] \in {"ok", "error"}
    BY <1>0, <2>1, <2>2
  <2>4. \A s \in Requests : reply'[s] = "none" <=> at'[s] # "answered"
    BY <1>0, <2>2
  <2>5. \A s \in Requests : reply'[s] = "ok" => EventOf(s)' \in events'
    BY <1>0, <2>1, <2>2
  <2> QED
    BY <2>3, <2>4, <2>5
<1>9. ASSUME NEW r \in Requests, Abort(r) PROVE AuthorInv'
  BY <1>0, <1>9 DEF Abort, Answer
<1>10. CASE UNCHANGED vars
  BY <1>10 DEF vars
<1> QED
  BY <1>1, <1>2, <1>3, <1>4, <1>5, <1>6, <1>7, <1>8, <1>9, <1>10 DEF Next, Serve

\* The invariant holds in every reachable state.
LEMMA InvAlways == Spec => [](TypeOK /\ HasRead /\ Inv)
<1>1. Init => TypeOK /\ HasRead /\ Inv
  BY TypeInit, InvInit DEF Init, HasRead, Transacting
<1>2. TypeOK /\ HasRead /\ Inv /\ [Next]_vars => (TypeOK /\ HasRead /\ Inv)'
  BY TypeNext, LockNext, ReadNext, ChainNext, OutboxNext, AuthorNext DEF Inv
<1> QED
  BY <1>1, <1>2, PTL DEF Spec

-----------------------------------------------------------------------------
(* Theorems.                                                               *)

\* The committed events of every task are an unbroken, legal chain from its creation to its
\* present status, however many requests compete and fail.
THEOREM HistoryIsChainAlways == Spec => []HistoryIsChain
<1>1. TypeOK /\ Inv => HistoryIsChain
  <2> SUFFICES ASSUME TypeOK, Inv, NEW t \in Tasks
               PROVE  /\ {e.version : e \in History(t)} = 2 .. task[t].version
                      /\ \A e, f \in History(t) : e.version = f.version => e = f
                      /\ \A e \in History(t) :
                           /\ e.version = 2 => e.from = "todo"
                           /\ e.version = task[t].version => e.to = task[t].status
                           /\ e.from # e.to /\ e.from # "done"
                           /\ \A f \in History(t) : f.version = e.version + 1 => f.from = e.to
    BY DEF HistoryIsChain
  <2>1. Linked(t)
    BY DEF Inv, ChainInv
  <2>2. task[t].version \in Nat /\ \A e \in events : e.version \in Nat
    BY DEF TypeOK, RowType, EventType
  <2>3. ASSUME NEW n \in 2 .. task[t].version PROVE n \in {e.version : e \in History(t)}
    BY <2>1, <2>2 DEF Linked, History
  <2>4. ASSUME NEW e \in History(t) PROVE e.version \in 2 .. task[t].version
    BY <2>1, <2>2 DEF Linked, History
  <2> QED
    BY <2>1, <2>3, <2>4 DEF Linked, History
<1> QED
  BY <1>1, InvAlways, PTL

\* The outbox has a job for every event and no other, whatever fails.
THEOREM OutboxMatchesHistoryAlways == Spec => []OutboxMatchesHistory
<1>1. Inv => OutboxMatchesHistory
  BY DEF Inv
<1> QED
  BY <1>1, InvAlways, PTL

\* A 200 means the change was made, once; a refusal means nothing was.
THEOREM RepliesAreTrueAlways == Spec => []RepliesAreTrue
<1>1. TypeOK /\ Inv => RepliesAreTrue
  <2> SUFFICES ASSUME TypeOK, Inv, NEW r \in Requests
               PROVE  /\ reply[r] = "ok" =>
                           \E e \in events : /\ e.by = r /\ e.task = ask[r].task
                                             /\ e.to = ask[r].to /\ e.version = ask[r].expected + 1
                      /\ reply[r] \in {"not_found", "bad_request", "conflict"} =>
                           \A e \in events : e.by # r
                      /\ \A s \in Requests :
                           reply[r] = "ok" /\ reply[s] = "ok" /\ ask[s].task = ask[r].task
                           /\ ask[s].expected = ask[r].expected => r = s
    BY DEF RepliesAreTrue
  <2>1. reply[r] = "ok" => \E e \in events : /\ e.by = r /\ e.task = ask[r].task
                                             /\ e.to = ask[r].to /\ e.version = ask[r].expected + 1
    BY DEF Inv, AuthorInv, EventOf
  <2>2. reply[r] \in {"not_found", "bad_request", "conflict"} => \A e \in events : e.by # r
    BY DEF Inv, AuthorInv
  <2>3. ASSUME NEW s \in Requests, reply[r] = "ok", reply[s] = "ok",
               ask[s].task = ask[r].task, ask[s].expected = ask[r].expected
        PROVE  r = s
    <3>1. EventOf(r) \in events /\ EventOf(s) \in events
      BY <2>3 DEF Inv, AuthorInv
    <3>2. /\ EventOf(r).task = ask[r].task /\ EventOf(s).task = ask[r].task
          /\ EventOf(r).version = EventOf(s).version
          /\ EventOf(r).by = r /\ EventOf(s).by = s
          /\ ask[r].task \in Tasks
      BY <2>3 DEF EventOf, TypeOK, AskType
    <3>3. EventOf(r) = EventOf(s)
      BY <3>1, <3>2 DEF Inv, ChainInv, Linked
    <3> QED
      BY <3>2, <3>3
  <2> QED
    BY <2>1, <2>2, <2>3
<1> QED
  BY <1>1, InvAlways, PTL

\* No step changes a task that is done.
THEOREM DoneIsFinalAlways == Spec => DoneIsFinal
<1>1. TypeOK /\ Inv /\ [Next]_vars => [\A t \in Tasks : task[t].status = "done" => task'[t] = task[t]]_vars
  <2> SUFFICES ASSUME TypeOK, Inv, [Next]_vars, NEW t \in Tasks, task[t].status = "done"
               PROVE  task'[t] = task[t]
    OBVIOUS
  <2>0. task \in [Tasks -> RowType] /\ LockInv /\ ReadInv
    BY DEF TypeOK, Inv
  <2>1. CASE UNCHANGED <<task, events, jobs>>
    BY <2>1
  <2>2. ASSUME NEW u \in Tasks, CreateTask(u) PROVE task'[t] = task[t]
    BY <2>0, <2>2 DEF CreateTask, NoRow, Row
  <2>3. ASSUME NEW r \in Requests, NEW replied \in BOOLEAN, Commit(r, replied) PROVE task'[t] = task[t]
    BY <2>0, <2>3, CommitAdds
  <2> QED
    BY <2>1, <2>2, <2>3, TablesChange
<1> QED
  BY <1>1, InvAlways, PTL DEF Spec, DoneIsFinal

-----------------------------------------------------------------------------
(* Requests are atomic: the refinement of TaskUpdates.                     *)

\* A request that is not unsent before or after a step asks for the same before and after it.
LEMMA AskedKept ==
    ASSUME TypeOK, NEW r \in Requests, ask' = ask, at[r] # "unsent", at'[r] # "unsent",
           \A s \in Requests \ {r} : at'[s] = at[s]
    PROVE  Asked' = Asked /\ ask[r] \in Asked[r]
  BY DEF Asked

\* The steps of a request that change no table answer it, or go on to its next statement.
LEMMA WithoutEffect ==
    ASSUME TypeOK, AuthorInv, NEW r \in Requests,
           Look(r) \/ ReadAgain(r) \/ UpdateRow(r) \/ InsertEvent(r) \/ InsertJob(r) \/ Abort(r)
    PROVE  (\E x \in Asked[r] : Updates!Refuse(r, x)) \/ UNCHANGED Updates!vars
<1> DEFINE row == task[ask[r].task]
<1>0. at \in [Requests -> {"unsent", "answered"} \cup Waiting]
  BY DEF TypeOK
<1>1. /\ UNCHANGED <<task, events, jobs, ask>>
      /\ at[r] \in Waiting
  BY DEF Look, ReadAgain, UpdateRow, InsertEvent, InsertJob, Abort, tables, Waiting, Transacting
<1>2. \/ \E next \in Waiting : Goto(r, next)
      \/ row = NoRow /\ Answer(r, "not_found")
      \/ row # NoRow /\ ask[r].to \notin Allowed[row.status] /\ Answer(r, "bad_request")
      \/ row.version # ask[r].expected /\ Answer(r, "conflict")
      \/ Answer(r, "error")
  BY DEF Look, ReadAgain, UpdateRow, InsertEvent, InsertJob, Abort, Waiting, Transacting
<1>3. at[r] # "unsent" /\ at'[r] # "unsent" /\ \A s \in Requests \ {r} : at'[s] = at[s]
  BY <1>0, <1>1, <1>2 DEF Goto, Answer, Waiting, Transacting
<1>4. Asked' = Asked /\ ask[r] \in Asked[r]
  BY <1>1, <1>3, AskedKept
<1>5. reply[r] = "none"
  BY <1>0, <1>1 DEF AuthorInv, Waiting, Transacting
<1>6. CASE \E next \in Waiting : Goto(r, next)
  BY <1>1, <1>4, <1>6 DEF Goto, Updates!vars
<1>7. ASSUME NEW how, Answer(r, how)
      PROVE  Updates!Answer(r, how)
  BY <1>4, <1>5, <1>7 DEF Answer, Updates!Answer
<1>8. CASE ~ \E next \in Waiting : Goto(r, next)
  <2>1. Updates!Refuse(r, ask[r])
    BY <1>1, <1>2, <1>7, <1>8 DEF Updates!Refuse
  <2> QED
    BY <1>4, <2>1
<1> QED
  BY <1>6, <1>8

\* A commit is the whole change at once.
LEMMA CommitChanges ==
    ASSUME TypeOK, Inv, NEW r \in Requests, NEW replied \in BOOLEAN, Commit(r, replied)
    PROVE  \E x \in Asked[r] : Updates!Change(r, x)
<1> DEFINE t == ask[r].task
           old == task[t]
<1>0. /\ at \in [Requests -> {"unsent", "answered"} \cup Waiting]
      /\ LockInv /\ ReadInv /\ AuthorInv
  BY DEF TypeOK, Inv
<1>1. /\ at[r] = "commit" /\ ask' = ask
      /\ Answer(r, "ok") \/ Answer(r, "error")
  BY DEF Commit
<1>2. at[r] # "unsent" /\ at'[r] # "unsent" /\ \A s \in Requests \ {r} : at'[s] = at[s]
  BY <1>0, <1>1 DEF Answer
<1>3. Asked' = Asked /\ ask[r] \in Asked[r]
  BY <1>1, <1>2, AskedKept
<1>4. reply[r] = "none"
  BY <1>0, <1>1 DEF AuthorInv
<1>5. Updates!Answer(r, "ok") \/ Updates!Answer(r, "error")
  BY <1>1, <1>3, <1>4 DEF Answer, Updates!Answer
<1>6. /\ old.version = ask[r].expected
      /\ from[r] = old.status
      /\ ask[r].to \in Allowed[old.status]
      /\ EventOf(r) = [task |-> t, from |-> old.status, to |-> ask[r].to,
                       version |-> old.version + 1, by |-> r]
  BY <1>0, <1>1 DEF ReadInv, Knows, Writing, EventOf
<1>7. /\ events' = events \cup {EventOf(r)}
      /\ jobs' = jobs \cup {<<t, old.version + 1>>}
      /\ task' = [task EXCEPT ![t] = [status |-> ask[r].to, version |-> old.version + 1]]
  BY <1>0, <1>6, CommitAdds DEF Row
<1> QED
  BY <1>3, <1>5, <1>6, <1>7 DEF Updates!Change

\* Every step is one of the abstract specification, or none.
LEMMA UpdatesNext == TypeOK /\ Inv /\ [Next]_vars => [Updates!Next]_(Updates!vars)
<1> SUFFICES ASSUME TypeOK, Inv, [Next]_vars
             PROVE  Updates!Next \/ UNCHANGED Updates!vars
  OBVIOUS
<1>0. AuthorInv
  BY DEF Inv
<1>1. ASSUME NEW t \in Tasks, CreateTask(t)
      PROVE  Updates!Next
  <2>1. Asked' = Asked
    BY <1>1 DEF CreateTask, Asked
  <2>2. Updates!Create(t)
    BY <1>1, <2>1 DEF CreateTask, Updates!Create
  <2> QED
    BY <2>2 DEF Updates!Next
<1>2. ASSUME NEW r \in Requests, Send(r)
      PROVE  Updates!Next
  <2>1. PICK t \in Tasks, to \in Statuses, n \in 1 .. MaxExpected :
          ask' = [ask EXCEPT ![r] = Asking(t, to, n)]
    BY <1>2 DEF Send
  <2>2. /\ Asked[r] = {}
        /\ Asked' = [Asked EXCEPT ![r] = {Asking(t, to, n)}]
    BY <1>2, <2>1 DEF Send, Asked, TypeOK
  <2>3. Asking(t, to, n) \in [task : Tasks, to : Statuses, expected : 1 .. MaxExpected]
    BY DEF Asking
  <2>4. UNCHANGED <<task, events, jobs, reply>>
    BY <1>2 DEF Send, tables
  <2>5. Updates!Arrive(r)
    BY <2>2, <2>3, <2>4 DEF Updates!Arrive
  <2> QED
    BY <2>5 DEF Updates!Next
<1>3. ASSUME NEW r \in Requests, Serve(r) \/ Abort(r)
      PROVE  Updates!Next \/ UNCHANGED Updates!vars
  <2>1. ASSUME NEW replied \in BOOLEAN, Commit(r, replied)
        PROVE  Updates!Next
    BY <2>1, CommitChanges DEF Updates!Next
  <2>2. CASE Look(r) \/ ReadAgain(r) \/ UpdateRow(r) \/ InsertEvent(r) \/ InsertJob(r) \/ Abort(r)
    BY <1>0, <2>2, WithoutEffect DEF Updates!Next
  <2> QED
    BY <1>3, <2>1, <2>2 DEF Serve
<1>4. CASE UNCHANGED vars
  BY <1>4 DEF vars, tables, Updates!vars, Asked
<1> QED
  BY <1>1, <1>2, <1>3, <1>4 DEF Next

\* The task service is atomic: its transactions, locks and repeated reads implement requests that
\* take effect, and are judged, at one moment each.
THEOREM UpdatesAreAtomicAlways == Spec => UpdatesAreAtomic
<1>1. Init => Updates!Init
  BY DEF Init, Updates!Init, Asked
<1>2. Spec => Updates!Init /\ [][Updates!Next]_(Updates!vars)
  BY <1>1, UpdatesNext, InvAlways, PTL DEF Spec
<1> QED
  BY <1>2 DEF UpdatesAreAtomic, Updates!Spec
=============================================================================

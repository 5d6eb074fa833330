-------------------------- MODULE MembershipProofs --------------------------
(***************************************************************************)
(* Theorems about Membership, for any set of requests, addresses and       *)
(* earlier requests that MembershipAssumption allows.                      *)
(*                                                                         *)
(* The invariant says of every request what it may have written at each    *)
(* await of its handler, and what it has been shown by then.  A step of    *)
(* one request touches only its own rows, never takes back what has been   *)
(* committed, and so leaves what is said of the others true (Others); what *)
(* it does for itself is shown action by action.                           *)
(***************************************************************************)
EXTENDS Membership, FiniteSetTheorems, TLAPS

-----------------------------------------------------------------------------
(* The invariant.                                                          *)

Ops == {"register", "tenant", "project", "invite", "task", "update"}

\* The transaction of k is about to commit, or has.
Done(k) == k \in committed \/ at[k] = "commit"

\* What k asks for exists.
AskOK(k) ==
    IF at[k] = "unsent" THEN ask[k] = Unsent /\ tenant[k] = None
    ELSE /\ ask[k].op \in Ops
         /\ ask[k].op \in {"register", "invite"} => ask[k].email \in Emails
         /\ ask[k].op # "register" => ask[k].user \in Ids(users)
         /\ ask[k].op \in {"invite", "task"} => ask[k].target \in Ids(projects)
         /\ ask[k].op = "update" => ask[k].target \in Ids(tasks) \cup {None}

\* The awaits of each route.
Awaits(op) ==
    CASE op = "register" -> {"user", "tenant", "owner", "commit"}
      [] op = "tenant" -> {"tenant", "owner", "commit"}
      [] op = "project" -> {"context", "project", "lead", "commit"}
      [] op = "invite" -> {"context", "access", "authority", "invitee", "upsert", "enrol", "member", "commit"}
      [] op = "task" -> {"context", "access", "save", "task"}
      [] op = "update" -> {"context", "resolve", "access", "find"}
      [] OTHER -> {"unsent"}

PlaceOK(k) == at[k] = "answered" \/ at[k] \in Awaits(ask[k].op)

ReplyOK(k) ==
    /\ at[k] # "answered" => reply[k] = "none"
    /\ k \in committed => at[k] = "answered" /\ reply[k] \in {"ok", "error"}

\* A tenant in the request is one that its caller is in.
TenantOK(k) ==
    /\ tenant[k] # None => ask[k].header \in {None, tenant[k]} /\ tenant[k] \in TenantsOf(ask[k].user)
    /\ \/ at[k] \in {"resolve", "access", "find", "save", "task", "project", "lead", "authority", "invitee",
                     "upsert", "enrol", "member"}
       \/ ask[k].op \in {"project", "invite"} /\ Done(k)
       \/ ask[k].op \in {"invite", "task", "update"} /\ reply[k] = "ok"
       => tenant[k] # None

RolesFor(op) == IF op = "invite" THEN {"owner"} ELSE {"owner", "member"}

\* Past its guards, a request about a project is of somebody who belongs there.
AccessOK(k) ==
    \/ at[k] \in {"save", "task", "authority", "invitee", "upsert", "enrol", "member"}
    \/ at[k] = "find" /\ ask[k].target # None
    \/ ask[k].op \in {"invite", "task", "update"} /\ (at[k] = "commit" \/ reply[k] = "ok")
    => Admitted(k, RolesFor(ask[k].op))

\* The user that is invited is there, and then a member of the tenant as k sees it.
InviteOK(k) ==
    /\ at[k] \in {"upsert", "enrol", "member"} => Invitees(k) # {}
    /\ at[k] = "member" => Visible(Enrolled(k), k) # {}

Caller(k) == IF ask[k].op = "register" THEN k ELSE ask[k].user

\* Every row is one that the handler of its request writes, and at this await it may have.
UserRows(k) == \A x \in users : x.by = k =>
    /\ ask[k].op = "register" /\ x.email = ask[k].email
    /\ Done(k) \/ at[k] \in {"tenant", "owner"}

TenantRows(k) == \A x \in tenants : x.by = k =>
    /\ ask[k].op \in {"register", "tenant"}
    /\ Done(k) \/ at[k] = "owner"

EnrolRows(k) == \A x \in tenantMembers : x.by = k =>
    /\ x.tenant \in committed \cup {k}
    /\ \/ ask[k].op \in {"register", "tenant"} /\ x = TenantOwner(k, Caller(k)) /\ Done(k)
       \/ /\ ask[k].op = "invite" /\ x.role = "member" /\ x.tenant = tenant[k] /\ x.user \in Invitees(k)
          /\ Done(k) \/ at[k] = "member"

ProjectRows(k) == \A x \in projects : x.by = k =>
    /\ ask[k].op = "project" /\ x.tenant = tenant[k] /\ x.owner = ask[k].user
    /\ Done(k) \/ at[k] = "lead"

MemberRows(k) == \A x \in projectMembers : x.by = k =>
    /\ x.project \in committed \cup {k}
    /\ Done(k)
    /\ \/ ask[k].op = "project" /\ x = ProjectMember(k, ask[k].user, "owner", k)
       \/ ask[k].op = "invite" /\ x.role = "member" /\ x.project = ask[k].target
    \* ... and the member is in the project's tenant, as k sees it
    /\ \E p \in Visible(projects, k), y \in Visible(tenantMembers, k) :
         p.by = x.project /\ y.tenant = p.tenant /\ y.user = x.user

TaskRows(k) == \A x \in tasks : x.by = k => k \in committed

RowsOK(k) == UserRows(k) /\ TenantRows(k) /\ EnrolRows(k) /\ ProjectRows(k) /\ MemberRows(k) /\ TaskRows(k)

\* The rows that must be there.
HasRows(k) ==
    /\ ask[k].op = "register" /\ Done(k) => [by |-> k] \in tenants
    /\ ask[k].op = "register" /\ at[k] = "owner" => [by |-> k] \in tenants
    /\ ask[k].op = "register" /\ Done(k) => TenantOwner(k, k) \in tenantMembers
    /\ ask[k].op = "project" /\ (at[k] = "lead" \/ Done(k)) =>
         [tenant |-> tenant[k], owner |-> ask[k].user, by |-> k] \in projects
    /\ ask[k].op = "project" /\ Done(k) => ProjectMember(k, ask[k].user, "owner", k) \in projectMembers

\* A request that was refused has written nothing, and an address is refused only if it is taken.
RefusedOK(k) ==
    /\ reply[k] \in {"bad_request", "forbidden", "not_found", "conflict"} => Wrote(k) = {}
    /\ reply[k] = "conflict" /\ ask[k].op = "register" => \E u \in Committed(users) : u.email = ask[k].email

\* The unique indexes, over the rows of open transactions too.
Keys ==
    /\ \A u, v \in users : u.email = v.email => u = v
    /\ \A m, n \in tenantMembers : m.tenant = n.tenant /\ m.user = n.user => m = n
    /\ \A m, n \in projectMembers : m.project = n.project /\ m.user = n.user => m = n

ReqInv(k) ==
    /\ AskOK(k) /\ PlaceOK(k) /\ ReplyOK(k) /\ TenantOK(k) /\ AccessOK(k) /\ InviteOK(k)
    /\ RowsOK(k) /\ HasRows(k) /\ RefusedOK(k)

Inv == TypeOK /\ Keys /\ \A k \in Requests : ReqInv(k)

USE MembershipAssumption

-----------------------------------------------------------------------------
(* What a step of one request leaves alone.                                *)

\* From the rows S of a table to the rows T.
Frame(r, S, T) ==
    /\ \A x \in S : x.by # r \/ x.by \in committed => x \in T
    /\ \A x \in T : x.by # r => x \in S

OnlyBy(r) ==
    /\ Frame(r, users, users')
    /\ Frame(r, tenants, tenants')
    /\ Frame(r, tenantMembers, tenantMembers')
    /\ Frame(r, projects, projects')
    /\ Frame(r, projectMembers, projectMembers')
    /\ Frame(r, tasks, tasks')
    /\ committed \subseteq committed' /\ committed' \subseteq committed \cup {r}
    /\ \A k \in Requests \ {r} :
         at'[k] = at[k] /\ ask'[k] = ask[k] /\ tenant'[k] = tenant[k] /\ reply'[k] = reply[k]

\* What was committed stays, and with it all that guards have seen.
LEMMA Monotone ==
    ASSUME NEW r \in Requests, OnlyBy(r), \A k \in Requests : TaskRows(k), TypeOK
    PROVE  /\ Ids(users) \subseteq Ids(users)'
           /\ Ids(projects) \subseteq Ids(projects)'
           /\ Ids(tasks) \subseteq Ids(tasks)'
           /\ \A u : TenantsOf(u) \subseteq TenantsOf(u)'
           /\ \A k \in Requests : ask'[k] = ask[k] =>
                /\ Invitees(k) \subseteq Invitees(k)'
                /\ \A roles : tenant'[k] = tenant[k] /\ Admitted(k, roles) => Admitted(k, roles)'
  <1>1. /\ Committed(users) \subseteq Committed(users)'
        /\ Committed(tenantMembers) \subseteq Committed(tenantMembers)'
        /\ Committed(projects) \subseteq Committed(projects)'
        /\ Committed(projectMembers) \subseteq Committed(projectMembers)'
        /\ Committed(tasks) \subseteq Committed(tasks)'
    BY DEF OnlyBy, Frame, Committed
  <1>2. tasks \subseteq tasks'
    BY DEF OnlyBy, Frame, TaskRows, TypeOK
  <1>3. ASSUME NEW k \in Requests, ask'[k] = ask[k]
        PROVE  Invitees(k) \subseteq Invitees(k)'
    BY <1>1, <1>3 DEF Invitees
  <1>4. ASSUME NEW k \in Requests, ask'[k] = ask[k], tenant'[k] = tenant[k], NEW roles, Admitted(k, roles)
        PROVE  Admitted(k, roles)'
    <2>1. PICK m \in Committed(projectMembers), p \in Committed(projects) :
            /\ IsAbout(k, p)
            /\ p.tenant = tenant[k]
            /\ m.project = p.by /\ m.user = ask[k].user /\ m.role \in roles
      BY <1>4 DEF Admitted
    <2>2. IsAbout(k, p)'
      BY <1>2, <1>4, <2>1 DEF IsAbout
    <2>3. QED
      BY <1>1, <1>4, <2>1, <2>2 DEF Admitted
  <1>5. QED
    BY <1>1, <1>3, <1>4 DEF Ids, TenantsOf

LEMMA Others ==
    ASSUME Inv, NEW r \in Requests, OnlyBy(r), NEW k \in Requests \ {r}
    PROVE  ReqInv(k)'
  <1>0. /\ ReqInv(k) /\ TypeOK
        /\ at'[k] = at[k] /\ ask'[k] = ask[k] /\ tenant'[k] = tenant[k] /\ reply'[k] = reply[k]
        /\ k \in committed' <=> k \in committed
        /\ committed \subseteq committed'
    BY DEF Inv, OnlyBy
  <1>1. /\ Ids(users) \subseteq Ids(users)'
        /\ Ids(projects) \subseteq Ids(projects)'
        /\ Ids(tasks) \subseteq Ids(tasks)'
        /\ \A u : TenantsOf(u) \subseteq TenantsOf(u)'
        /\ Invitees(k) \subseteq Invitees(k)'
        /\ \A roles : Admitted(k, roles) => Admitted(k, roles)'
    BY <1>0, Monotone DEF Inv, ReqInv, RowsOK
  <1>2. AskOK(k)' /\ PlaceOK(k)' /\ ReplyOK(k)'
    BY <1>0, <1>1 DEF ReqInv, AskOK, PlaceOK, ReplyOK
  <1>3. TenantOK(k)' /\ AccessOK(k)'
    BY <1>0, <1>1 DEF ReqInv, TenantOK, AccessOK, Done
  <1>4. InviteOK(k)'
    <2>1. Visible(Enrolled(k), k) # {} => (Visible(Enrolled(k), k) # {})'
      BY <1>0, <1>1 DEF Visible, Enrolled, OnlyBy, Frame
    <2>2. QED
      BY <1>0, <1>1, <2>1 DEF ReqInv, InviteOK
  <1>5. RowsOK(k)'
    <2>1. UserRows(k)' /\ TenantRows(k)' /\ ProjectRows(k)' /\ TaskRows(k)'
      BY <1>0 DEF ReqInv, RowsOK, UserRows, TenantRows, ProjectRows, TaskRows, Done, OnlyBy, Frame
    <2>2. EnrolRows(k)'
      BY <1>0, <1>1 DEF ReqInv, RowsOK, EnrolRows, Done, OnlyBy, Frame, Caller
    <2>3. MemberRows(k)'
      BY <1>0, <1>1 DEF ReqInv, RowsOK, MemberRows, Visible, Done, OnlyBy, Frame
    <2>4. QED
      BY <2>1, <2>2, <2>3 DEF RowsOK
  <1>6. HasRows(k)'
    BY <1>0 DEF ReqInv, HasRows, Done, OnlyBy, Frame, TenantOwner, ProjectMember
  <1>7. RefusedOK(k)'
    BY <1>0 DEF ReqInv, RefusedOK, Wrote, Committed, OnlyBy, Frame
  <1>8. QED
    BY <1>2, <1>3, <1>4, <1>5, <1>6, <1>7 DEF ReqInv

-----------------------------------------------------------------------------
(* Every step is of one request.                                           *)

LEMMA StepFrame ==
    ASSUME Inv, NEW r \in Requests, Send(r) \/ Serve(r) \/ Abort(r)
    PROVE  OnlyBy(r)
  <1>0. TypeOK /\ (at[r] # "answered" => r \notin committed)
    BY DEF Inv, ReqInv, ReplyOK
  <1>1. CASE Send(r)
    BY <1>0, <1>1 DEF Send, OnlyBy, Frame, TypeOK, tables
  <1>2. CASE ResolveTenant(r) \/ ResolveProject(r) \/ CheckAccess(r)
    BY <1>0, <1>2 DEF ResolveTenant, ResolveProject, CheckAccess, Goto, Answer, OnlyBy, Frame, TypeOK, tables
  <1>3. CASE InsertUser(r) \/ InsertTenant(r) \/ InsertTenantOwner(r)
    BY <1>0, <1>3 DEF InsertUser, InsertTenant, InsertTenantOwner, TenantOwner, Goto, Answer, OnlyBy, Frame, TypeOK
  <1>4. CASE InsertProject(r) \/ InsertProjectOwner(r)
    BY <1>0, <1>4 DEF InsertProject, InsertProjectOwner, ProjectMember, Goto, Answer, OnlyBy, Frame, TypeOK
  <1>5. CASE CheckOwner(r) \/ FindInvitee(r) \/ LookUpsert(r) \/ FindProject(r) \/ FindTask(r)
    BY <1>0, <1>5 DEF CheckOwner, FindInvitee, LookUpsert, FindProject, FindTask, Goto, Answer, OnlyBy, Frame,
         TypeOK, tables
  <1>6. CASE Enrol(r)
    BY <1>0, <1>6 DEF Enrol, Goto, Answer, OnlyBy, Frame, TypeOK
  <1>7. CASE InsertMember(r) \/ Abort(r)
    BY <1>0, <1>7 DEF InsertMember, Abort, ProjectMember, Rollback, Goto, Answer, OnlyBy, Frame, TypeOK, Waiting
  <1>8. ASSUME NEW replied \in BOOLEAN, InsertTask(r, replied) \/ Commit(r, replied)
        PROVE  OnlyBy(r)
    BY <1>0, <1>8 DEF InsertTask, Commit, Answer, OnlyBy, Frame, TypeOK, tables
  <1>9. QED
    BY <1>1, <1>2, <1>3, <1>4, <1>5, <1>6, <1>7, <1>8 DEF Serve

Moved(r, next) == at'[r] = next /\ reply'[r] = reply[r]
Answered(r, how) == at'[r] = "answered" /\ reply'[r] = how

LEMMA Turns ==
    ASSUME TypeOK, NEW r \in Requests
    PROVE  /\ \A next : Goto(r, next) => Moved(r, next)
           /\ \A how : Answer(r, how) => Answered(r, how)
  BY DEF TypeOK, Goto, Answer, Moved, Answered

-----------------------------------------------------------------------------
(* Steps that write nothing.                                               *)

NoRows(r) ==
    /\ \A x \in users : x.by # r
    /\ \A x \in tenants : x.by # r
    /\ \A x \in tenantMembers : x.by # r
    /\ \A x \in projects : x.by # r
    /\ \A x \in projectMembers : x.by # r
    /\ \A x \in tasks : x.by # r

\* The awaits before a request has written anything.
Clean(r) ==
    \/ at[r] \in {"unsent", "context", "resolve", "access", "find", "save", "task", "user", "project",
                  "authority", "invitee", "upsert", "enrol"}
    \/ at[r] = "tenant" /\ ask[r].op # "register"

LEMMA CleanHasNoRows ==
    ASSUME Inv, NEW r \in Requests, Clean(r)
    PROVE  NoRows(r) /\ r \notin committed
  BY DEF Inv, ReqInv, ReplyOK, RowsOK, UserRows, TenantRows, EnrolRows, ProjectRows, MemberRows, TaskRows, Done,
         Clean, NoRows

LEMMA NoRowsOK ==
    ASSUME NEW r \in Requests, NoRows(r)', r \notin committed', at'[r] \notin {"owner", "lead", "commit"}
    PROVE  RowsOK(r)' /\ HasRows(r)' /\ Wrote(r)' = {}
  <1>1. RowsOK(r)' /\ HasRows(r)'
    BY DEF NoRows, RowsOK, UserRows, TenantRows, EnrolRows, ProjectRows, MemberRows, TaskRows, HasRows, Done
  <1>2. Wrote(r)' = {}
    BY DEF NoRows, Wrote
  <1>3. QED
    BY <1>1, <1>2

\* A handler reads the tables, or is refused by them, before it has written anything.
Reads(r) ==
    /\ Clean(r)
    /\ UNCHANGED <<tables, committed, ask>>
    /\ at'[r] \notin {"owner", "lead", "commit"}

LEMMA ReadsRows ==
    ASSUME Inv, NEW r \in Requests, Reads(r)
    PROVE  RowsOK(r)' /\ HasRows(r)' /\ Wrote(r)' = {} /\ r \notin committed'
  <1>1. NoRows(r)' /\ r \notin committed'
    BY CleanHasNoRows DEF Reads, NoRows, tables
  <1>2. QED
    BY <1>1, NoRowsOK DEF Reads

\* What a request that has read something knows of itself.
LEMMA ReadsAsk ==
    ASSUME Inv, NEW r \in Requests, at[r] # "unsent", Reads(r), at'[r] # "unsent"
    PROVE  AskOK(r)'
  BY DEF Inv, ReqInv, AskOK, Reads, Ids, Committed, tables

LEMMA SendOwn ==
    ASSUME Inv, NEW r \in Requests, Send(r)
    PROVE  ReqInv(r)'
  <1>0. /\ TypeOK /\ ReqInv(r) /\ at[r] = "unsent"
        /\ NoRows(r) /\ r \notin committed
    BY CleanHasNoRows DEF Inv, Send, Clean
  <1>1. PICK call \in Calls :
          /\ ask' = [ask EXCEPT ![r] = call]
          /\ at' = [at EXCEPT ![r] = FirstAwait(call.op)]
    BY DEF Send
  <1>2. /\ ask'[r] = call /\ at'[r] = FirstAwait(call.op)
        /\ UNCHANGED <<tables, committed, tenant, reply>>
    BY <1>0, <1>1 DEF Send, TypeOK
  <1>3. /\ call.op \in Ops
        /\ call.op \in {"register", "invite"} => call.email \in Emails
        /\ call.op # "register" => call.user \in Ids(users)
        /\ call.op \in {"invite", "task"} => call.target \in Ids(projects)
        /\ call.op = "update" => call.target \in Ids(tasks) \cup {None}
    BY DEF Calls, Ask, Ops
  <1>4. tenant[r] = None /\ reply[r] = "none"
    BY <1>0 DEF ReqInv, AskOK, ReplyOK
  <1>5. AskOK(r)'
    BY <1>2, <1>3 DEF AskOK, FirstAwait, Ids, Committed, tables
  <1>6. PlaceOK(r)' /\ ReplyOK(r)' /\ TenantOK(r)' /\ AccessOK(r)' /\ InviteOK(r)'
    BY <1>0, <1>2, <1>3, <1>4
       DEF PlaceOK, Awaits, ReplyOK, TenantOK, AccessOK, InviteOK, FirstAwait, Ops, Done
  <1>7. RowsOK(r)' /\ HasRows(r)' /\ RefusedOK(r)'
    <2>1. NoRows(r)' /\ r \notin committed' /\ at'[r] \notin {"owner", "lead", "commit"}
      BY <1>0, <1>2, <1>3 DEF NoRows, tables, FirstAwait, Ops
    <2>2. QED
      BY <1>2, <1>4, <2>1, NoRowsOK DEF RefusedOK
  <1>8. QED
    BY <1>5, <1>6, <1>7 DEF ReqInv

LEMMA ResolveTenantOwn ==
    ASSUME Inv, NEW r \in Requests, ResolveTenant(r)
    PROVE  ReqInv(r)'
  <1>0. /\ TypeOK /\ ReqInv(r) /\ at[r] = "context" /\ reply[r] = "none" /\ Clean(r)
        /\ ask[r].op \in {"project", "invite", "task", "update"}
    BY DEF Inv, ReqInv, ReplyOK, ResolveTenant, Clean, PlaceOK, Awaits
  <1>1. \/ Answered(r, "forbidden") /\ UNCHANGED tenant
        \/ Answered(r, "bad_request") /\ UNCHANGED tenant
        \/ \E t \in TenantsOf(ask[r].user) :
             /\ ask[r].header \in {None, t}
             /\ tenant'[r] = t
             /\ Moved(r, AfterContext(ask[r].op))
    BY <1>0, Turns DEF ResolveTenant, TypeOK
  <1>2. Reads(r)
    BY <1>0, <1>1 DEF ResolveTenant, Reads, Moved, Answered, AfterContext
  <1>3. AskOK(r)' /\ PlaceOK(r)' /\ ReplyOK(r)' /\ InviteOK(r)'
    BY <1>0, <1>1, <1>2, ReadsAsk, ReadsRows
       DEF Reads, Moved, Answered, PlaceOK, Awaits, ReplyOK, InviteOK, AfterContext, Ops
  <1>4. TenantOK(r)'
    <2>1. \A u : TenantsOf(u)' = TenantsOf(u)
      BY <1>2 DEF Reads, tables, TenantsOf, Committed
    <2>2. tenant[r] = None \/ (ask[r].header \in {None, tenant[r]} /\ tenant[r] \in TenantsOf(ask[r].user))
      BY <1>0 DEF ReqInv, TenantOK
    <2>3. \A u : None \notin TenantsOf(u)
      BY <1>0 DEF TypeOK, TenantsOf, Committed
    <2>4. QED
      BY <1>0, <1>1, <1>2, <2>1, <2>2, <2>3, ReadsRows
         DEF Reads, Moved, Answered, TenantOK, AfterContext, Done
  <1>5. AccessOK(r)'
    BY <1>0, <1>1, <1>2 DEF Reads, Moved, Answered, AccessOK, AfterContext
  <1>6. RowsOK(r)' /\ HasRows(r)' /\ RefusedOK(r)'
    BY <1>0, <1>1, <1>2, ReadsRows DEF RefusedOK, Moved, Answered, Reads
  <1>7. QED
    BY <1>3, <1>4, <1>5, <1>6 DEF ReqInv

\* Past the tenant guard, before anything is written.
Inside == {"resolve", "access", "find", "save", "authority", "invitee", "upsert", "enrol"}

LEMMA InsideFacts ==
    ASSUME Inv, NEW r \in Requests, at[r] \in Inside
    PROVE  /\ TypeOK /\ ReqInv(r) /\ reply[r] = "none" /\ Clean(r)
           /\ tenant[r] # None
           /\ ask[r].op \in {"invite", "task", "update"}
  BY DEF Inv, ReqInv, ReplyOK, Clean, Inside, TenantOK, PlaceOK, Awaits

\* A handler that has read something goes on.
LEMMA GoesOn ==
    ASSUME Inv, NEW r \in Requests, at[r] \in Inside, UNCHANGED <<tables, committed, ask, tenant>>,
           NEW next \in Awaits(ask[r].op) \ {"commit"}, Moved(r, next),
           next \in {"save", "task", "authority", "invitee", "upsert", "enrol", "member"}
             \/ (next = "find" /\ ask[r].target # None) => Admitted(r, RolesFor(ask[r].op)),
           next \in {"upsert", "enrol", "member"} => Invitees(r) # {},
           next = "member" => Visible(Enrolled(r), r) # {}
    PROVE  ReqInv(r)'
  <1>0. /\ ReqInv(r) /\ Clean(r) /\ tenant[r] # None /\ reply[r] = "none"
        /\ ask[r].op \in {"invite", "task", "update"}
    BY InsideFacts
  <1>1. Reads(r) /\ at'[r] = next /\ reply'[r] = "none" /\ ask'[r] = ask[r] /\ tenant'[r] = tenant[r]
    BY <1>0 DEF Reads, Moved, Awaits
  <1>2. /\ \A u : TenantsOf(u)' = TenantsOf(u)
        /\ Invitees(r)' = Invitees(r)
        /\ Visible(Enrolled(r), r)' = Visible(Enrolled(r), r)
        /\ \A roles : Admitted(r, roles) => Admitted(r, roles)'
    BY DEF tables, TenantsOf, Invitees, Enrolled, Visible, Admitted, IsAbout, Committed
  <1>3. AskOK(r)' /\ PlaceOK(r)' /\ ReplyOK(r)'
    BY <1>0, <1>1, ReadsAsk, ReadsRows DEF PlaceOK, Awaits, ReplyOK, Inside
  <1>4. TenantOK(r)'
    BY <1>0, <1>1, <1>2 DEF ReqInv, TenantOK
  <1>5. AccessOK(r)' /\ InviteOK(r)'
    BY <1>0, <1>1, <1>2 DEF AccessOK, InviteOK, Awaits
  <1>6. RowsOK(r)' /\ HasRows(r)' /\ RefusedOK(r)'
    BY <1>1, ReadsRows DEF RefusedOK
  <1>7. QED
    BY <1>3, <1>4, <1>5, <1>6 DEF ReqInv

\* ... or is answered.
LEMMA IsAnswered ==
    ASSUME Inv, NEW r \in Requests, at[r] \in Inside \cup {"user"},
           UNCHANGED <<tables, committed, ask, tenant>>,
           NEW how, Answered(r, how),
           how = "ok" => ask[r].op = "update" /\ Admitted(r, RolesFor(ask[r].op)),
           how = "conflict" /\ ask[r].op = "register" => \E u \in Committed(users) : u.email = ask[r].email
    PROVE  ReqInv(r)'
  <1>0. /\ ReqInv(r) /\ Clean(r) /\ (at[r] \in Inside => tenant[r] # None)
        /\ at[r] = "user" => ask[r].op = "register"
    BY InsideFacts DEF Clean, Inv, ReqInv, PlaceOK, Awaits
  <1>1. /\ Reads(r) /\ at'[r] = "answered" /\ reply'[r] = how /\ ask'[r] = ask[r] /\ tenant'[r] = tenant[r]
        /\ at[r] # "unsent"
    BY <1>0 DEF Reads, Answered, Inside
  <1>2. /\ \A u : TenantsOf(u)' = TenantsOf(u)
        /\ \A roles : Admitted(r, roles) => Admitted(r, roles)'
        /\ Committed(users)' = Committed(users)
    BY DEF tables, TenantsOf, Admitted, IsAbout, Committed
  <1>3. AskOK(r)' /\ PlaceOK(r)' /\ ReplyOK(r)' /\ InviteOK(r)'
    BY <1>1, ReadsAsk, ReadsRows DEF PlaceOK, ReplyOK, InviteOK
  <1>4. TenantOK(r)'
    BY <1>0, <1>1, <1>2, ReadsRows DEF ReqInv, TenantOK, Done
  <1>5. AccessOK(r)'
    BY <1>0, <1>1, <1>2 DEF AccessOK
  <1>6. RowsOK(r)' /\ HasRows(r)' /\ RefusedOK(r)'
    BY <1>1, <1>2, ReadsRows DEF RefusedOK
  <1>7. QED
    BY <1>3, <1>4, <1>5, <1>6 DEF ReqInv

LEMMA GuardsOwn ==
    ASSUME Inv, NEW r \in Requests, ResolveProject(r) \/ CheckAccess(r) \/ CheckOwner(r)
    PROVE  ReqInv(r)'
  <1>0. /\ at[r] \in Inside /\ UNCHANGED <<tables, committed, ask, tenant>>
        /\ TypeOK /\ ReqInv(r)
    BY DEF ResolveProject, CheckAccess, CheckOwner, Inside, Inv
  <1>1. CASE ResolveProject(r)
    <2>1. ask[r].op = "update" /\ at[r] = "resolve"
      BY <1>0, <1>1, InsideFacts DEF ResolveProject, ReqInv, PlaceOK, Awaits
    <2>2. CASE Goto(r, "access")
      BY <1>0, <2>1, <2>2, Turns, GoesOn DEF Awaits
    <2>3. CASE ask[r].target \notin Ids(tasks) /\ Goto(r, "find")
      <3>1. ask[r].target = None
        BY <1>0, <2>1, <2>3 DEF ReqInv, AskOK
      <3>2. QED
        BY <1>0, <2>1, <2>3, <3>1, Turns, GoesOn DEF Awaits
    <2>4. QED
      BY <1>1, <2>2, <2>3 DEF ResolveProject
  <1>2. CASE CheckAccess(r)
    <2>1. at[r] = "access" /\ ask[r].op \in {"invite", "task", "update"}
      BY <1>0, <1>2, InsideFacts DEF CheckAccess
    <2>2. CASE Answer(r, "forbidden")
      BY <1>0, <2>2, Turns, IsAnswered
    <2>3. CASE Admitted(r, RolesFor(ask[r].op)) /\ Goto(r, AfterAccess(ask[r].op))
      <3>1. /\ AfterAccess(ask[r].op) \in Awaits(ask[r].op) \ {"commit"}
            /\ AfterAccess(ask[r].op) \in {"authority", "save", "find"}
        BY <2>1 DEF AfterAccess, Awaits
      <3>2. QED
        BY <1>0, <2>3, <3>1, Turns, GoesOn
    <2>4. QED
      BY <1>2, <2>2, <2>3 DEF CheckAccess, RolesFor
  <1>3. CASE CheckOwner(r)
    <2>1. at[r] = "authority" /\ ask[r].op = "invite"
      BY <1>0, <1>3, InsideFacts DEF CheckOwner, ReqInv, PlaceOK, Awaits
    <2>2. CASE Answer(r, "forbidden")
      BY <1>0, <2>2, Turns, IsAnswered
    <2>3. CASE Goto(r, "invitee") /\ Admitted(r, {"owner"})
      BY <1>0, <2>1, <2>3, Turns, GoesOn DEF Awaits, RolesFor
    <2>4. QED
      BY <1>3, <2>2, <2>3 DEF CheckOwner
  <1>4. QED
    BY <1>1, <1>2, <1>3

LEMMA LooksOwn ==
    ASSUME Inv, NEW r \in Requests, FindInvitee(r) \/ LookUpsert(r) \/ FindProject(r) \/ FindTask(r)
    PROVE  ReqInv(r)'
  <1>0. /\ at[r] \in Inside /\ UNCHANGED <<tables, committed, ask, tenant>>
        /\ TypeOK /\ ReqInv(r)
    BY DEF FindInvitee, LookUpsert, FindProject, FindTask, Inside, Inv
  <1>1. CASE FindInvitee(r)
    <2>1. at[r] = "invitee" /\ ask[r].op = "invite" /\ Admitted(r, RolesFor(ask[r].op))
      BY <1>0, <1>1, InsideFacts DEF FindInvitee, ReqInv, PlaceOK, AccessOK, Awaits
    <2>2. CASE Answer(r, "not_found")
      BY <1>0, <2>2, Turns, IsAnswered
    <2>3. CASE Goto(r, "upsert") /\ Invitees(r) # {}
      BY <1>0, <2>1, <2>3, Turns, GoesOn DEF Awaits
    <2>4. QED
      BY <1>1, <2>2, <2>3 DEF FindInvitee
  <1>2. CASE LookUpsert(r)
    <2>1. /\ at[r] = "upsert" /\ ask[r].op = "invite" /\ Admitted(r, RolesFor(ask[r].op))
          /\ Invitees(r) # {}
      BY <1>0, <1>2, InsideFacts DEF LookUpsert, ReqInv, PlaceOK, AccessOK, InviteOK, Awaits
    <2>2. CASE Goto(r, "enrol")
      BY <1>0, <2>1, <2>2, Turns, GoesOn DEF Awaits
    <2>3. CASE Goto(r, "member") /\ Visible(Enrolled(r), r) # {}
      BY <1>0, <2>1, <2>3, Turns, GoesOn DEF Awaits
    <2>4. QED
      BY <1>2, <2>2, <2>3 DEF LookUpsert
  <1>3. CASE FindProject(r)
    <2>1. at[r] = "save" /\ ask[r].op = "task" /\ Admitted(r, RolesFor(ask[r].op))
      BY <1>0, <1>3, InsideFacts DEF FindProject, ReqInv, PlaceOK, AccessOK, Awaits
    <2>2. CASE Answer(r, "error")
      BY <1>0, <2>2, Turns, IsAnswered
    <2>3. CASE Goto(r, "task")
      BY <1>0, <2>1, <2>3, Turns, GoesOn DEF Awaits
    <2>4. QED
      BY <1>3, <2>2, <2>3 DEF FindProject
  <1>4. CASE FindTask(r)
    <2>1. at[r] = "find" /\ ask[r].op = "update"
      BY <1>0, <1>4, InsideFacts DEF FindTask, ReqInv, PlaceOK, Awaits
    <2>2. CASE Answer(r, "not_found")
      BY <1>0, <2>2, Turns, IsAnswered
    <2>3. CASE InTenant(r) /\ Answer(r, "ok")
      <3>1. ask[r].target # None
        BY <1>0, <2>1, <2>3 DEF InTenant, IsAbout, TypeOK
      <3>2. Admitted(r, RolesFor(ask[r].op))
        BY <1>0, <2>1, <3>1 DEF ReqInv, AccessOK
      <3>3. QED
        BY <1>0, <2>1, <2>3, <3>2, Turns, IsAnswered
    <2>4. QED
      BY <1>4, <2>2, <2>3 DEF FindTask
  <1>5. QED
    BY <1>1, <1>2, <1>3, <1>4

-----------------------------------------------------------------------------
(* Steps that write.                                                       *)

\* What a request that goes on after a write still knows.
LEMMA WritesOn ==
    ASSUME Inv, NEW r \in Requests, OnlyBy(r), at[r] \notin {"unsent", "answered"},
           UNCHANGED <<committed, ask, tenant>>,
           NEW next \in Awaits(ask[r].op), Moved(r, next),
           next \in {"tenant", "owner", "lead", "member", "commit"},
           ask[r].op \in {"project", "invite"} => tenant[r] # None,
           ask[r].op = "invite" => Admitted(r, {"owner"}),
           next = "member" => Invitees(r) # {} /\ (Visible(Enrolled(r), r) # {})'
    PROVE  /\ at'[r] = next /\ reply'[r] = "none" /\ r \notin committed'
           /\ AskOK(r)' /\ PlaceOK(r)' /\ ReplyOK(r)' /\ TenantOK(r)' /\ AccessOK(r)' /\ InviteOK(r)'
           /\ RefusedOK(r)'
  <1>0. /\ TypeOK /\ ReqInv(r) /\ reply[r] = "none" /\ r \notin committed
        /\ \A k \in Requests : TaskRows(k)
    BY DEF Inv, ReqInv, ReplyOK, RowsOK
  <1>1. /\ Ids(users) \subseteq Ids(users)'
        /\ Ids(projects) \subseteq Ids(projects)'
        /\ Ids(tasks) \subseteq Ids(tasks)'
        /\ \A u : TenantsOf(u) \subseteq TenantsOf(u)'
        /\ Invitees(r) \subseteq Invitees(r)'
        /\ \A roles : Admitted(r, roles) => Admitted(r, roles)'
    BY <1>0, Monotone
  <1>2. at'[r] = next /\ reply'[r] = "none" /\ r \notin committed'
    BY <1>0 DEF Moved
  <1>3. next \notin {"unsent", "answered"}
    OBVIOUS
  <1>4. AskOK(r)' /\ PlaceOK(r)' /\ ReplyOK(r)'
    BY <1>0, <1>1, <1>2, <1>3 DEF ReqInv, AskOK, PlaceOK, ReplyOK
  <1>5. TenantOK(r)'
    BY <1>0, <1>1, <1>2 DEF ReqInv, TenantOK, Done, Awaits
  <1>6. AccessOK(r)' /\ InviteOK(r)' /\ RefusedOK(r)'
    BY <1>0, <1>1, <1>2 DEF ReqInv, AccessOK, InviteOK, RefusedOK, PlaceOK, RolesFor, Awaits
  <1>7. QED
    BY <1>2, <1>4, <1>5, <1>6

LEMMA InsertUserOwn ==
    ASSUME Inv, NEW r \in Requests, InsertUser(r)
    PROVE  ReqInv(r)'
  <1>0. /\ TypeOK /\ ReqInv(r) /\ OnlyBy(r) /\ at[r] = "user" /\ ask[r].op = "register"
        /\ NoRows(r) /\ r \notin committed
    BY StepFrame, CleanHasNoRows DEF Serve, InsertUser, Inv, ReqInv, PlaceOK, Awaits, Clean
  <1>1. CASE users' = users \cup {[email |-> ask[r].email, by |-> r]} /\ Goto(r, "tenant")
    <2>1. UNCHANGED <<tenants, tenantMembers, projects, projectMembers, tasks, committed, ask, tenant>>
      BY DEF InsertUser
    <2>2. Moved(r, "tenant") /\ "tenant" \in Awaits(ask[r].op)
      BY <1>0, <1>1, Turns DEF Awaits
    <2>3. /\ at'[r] = "tenant" /\ r \notin committed'
          /\ AskOK(r)' /\ PlaceOK(r)' /\ ReplyOK(r)' /\ TenantOK(r)' /\ AccessOK(r)' /\ InviteOK(r)'
          /\ RefusedOK(r)'
      BY <1>0, <2>1, <2>2, WritesOn
    <2>4. RowsOK(r)' /\ HasRows(r)'
      BY <1>0, <1>1, <2>1, <2>3
         DEF NoRows, RowsOK, UserRows, TenantRows, EnrolRows, ProjectRows, MemberRows, TaskRows, HasRows, Done
    <2>5. QED
      BY <2>3, <2>4 DEF ReqInv
  <1>2. CASE Committed({u \in users : u.email = ask[r].email}) # {} /\ Answer(r, "conflict") /\ UNCHANGED users
    <2>1. \E u \in Committed(users) : u.email = ask[r].email
      BY <1>2 DEF Committed
    <2>2. UNCHANGED <<tables, committed, ask, tenant>> /\ Answered(r, "conflict")
      BY <1>0, <1>2, Turns DEF InsertUser, tables
    <2>3. QED
      BY <1>0, <2>1, <2>2, IsAnswered
  <1>3. QED
    BY <1>1, <1>2 DEF InsertUser

LEMMA InsertTenantOwn ==
    ASSUME Inv, NEW r \in Requests, InsertTenant(r)
    PROVE  ReqInv(r)'
  <1>0. /\ TypeOK /\ ReqInv(r) /\ OnlyBy(r) /\ at[r] = "tenant" /\ ask[r].op \in {"register", "tenant"}
        /\ r \notin committed
    BY StepFrame DEF Serve, InsertTenant, Inv, ReqInv, PlaceOK, ReplyOK, Awaits
  <1>1. /\ tenants' = tenants \cup {[by |-> r]}
        /\ UNCHANGED <<users, tenantMembers, projects, projectMembers, tasks, committed, ask, tenant>>
    BY DEF InsertTenant
  <1>2. Moved(r, "owner") /\ "owner" \in Awaits(ask[r].op)
    BY <1>0, Turns DEF InsertTenant, Awaits
  <1>3. /\ at'[r] = "owner" /\ r \notin committed'
        /\ AskOK(r)' /\ PlaceOK(r)' /\ ReplyOK(r)' /\ TenantOK(r)' /\ AccessOK(r)' /\ InviteOK(r)'
        /\ RefusedOK(r)'
    BY <1>0, <1>1, <1>2, WritesOn
  <1>4. RowsOK(r)' /\ HasRows(r)'
    BY <1>0, <1>1, <1>3
       DEF ReqInv, RowsOK, UserRows, TenantRows, EnrolRows, ProjectRows, MemberRows, TaskRows, HasRows, Done
  <1>5. QED
    BY <1>3, <1>4 DEF ReqInv

LEMMA InsertTenantOwnerOwn ==
    ASSUME Inv, NEW r \in Requests, InsertTenantOwner(r)
    PROVE  ReqInv(r)'
  <1>0. /\ TypeOK /\ ReqInv(r) /\ OnlyBy(r) /\ at[r] = "owner" /\ ask[r].op \in {"register", "tenant"}
        /\ r \notin committed
    BY StepFrame DEF Serve, InsertTenantOwner, Inv, ReqInv, PlaceOK, ReplyOK, Awaits
  <1>1. /\ tenantMembers' = tenantMembers \cup {TenantOwner(r, Caller(r))}
        /\ UNCHANGED <<users, tenants, projects, projectMembers, tasks, committed, ask, tenant>>
    BY DEF InsertTenantOwner, Caller
  <1>2. Moved(r, "commit") /\ "commit" \in Awaits(ask[r].op)
    BY <1>0, Turns DEF InsertTenantOwner, Awaits
  <1>3. /\ at'[r] = "commit" /\ r \notin committed'
        /\ AskOK(r)' /\ PlaceOK(r)' /\ ReplyOK(r)' /\ TenantOK(r)' /\ AccessOK(r)' /\ InviteOK(r)'
        /\ RefusedOK(r)'
    BY <1>0, <1>1, <1>2, WritesOn
  <1>4. Caller(r)' = Caller(r)
    BY <1>1 DEF Caller
  <1>5. EnrolRows(r)'
    BY <1>0, <1>1, <1>3, <1>4 DEF ReqInv, RowsOK, EnrolRows, TenantOwner, Done
  <1>6. UserRows(r)' /\ TenantRows(r)' /\ ProjectRows(r)' /\ MemberRows(r)' /\ TaskRows(r)'
    BY <1>0, <1>1, <1>3 DEF ReqInv, RowsOK, UserRows, TenantRows, ProjectRows, MemberRows, TaskRows, Done
  <1>7. HasRows(r)'
    BY <1>0, <1>1, <1>3 DEF ReqInv, HasRows, Caller, Done
  <1>8. QED
    BY <1>3, <1>5, <1>6, <1>7 DEF ReqInv, RowsOK

LEMMA InsertProjectOwn ==
    ASSUME Inv, NEW r \in Requests, InsertProject(r)
    PROVE  ReqInv(r)'
  <1>0. /\ TypeOK /\ ReqInv(r) /\ OnlyBy(r) /\ at[r] = "project" /\ ask[r].op = "project"
        /\ NoRows(r) /\ r \notin committed /\ tenant[r] # None
    BY StepFrame, CleanHasNoRows DEF Serve, InsertProject, Inv, ReqInv, PlaceOK, TenantOK, Awaits, Clean
  <1>1. /\ projects' = projects \cup {[tenant |-> tenant[r], owner |-> ask[r].user, by |-> r]}
        /\ UNCHANGED <<users, tenants, tenantMembers, projectMembers, tasks, committed, ask, tenant>>
    BY DEF InsertProject
  <1>2. Moved(r, "lead") /\ "lead" \in Awaits(ask[r].op)
    BY <1>0, Turns DEF InsertProject, Awaits
  <1>3. /\ at'[r] = "lead" /\ r \notin committed'
        /\ AskOK(r)' /\ PlaceOK(r)' /\ ReplyOK(r)' /\ TenantOK(r)' /\ AccessOK(r)' /\ InviteOK(r)'
        /\ RefusedOK(r)'
    BY <1>0, <1>1, <1>2, WritesOn
  <1>4. RowsOK(r)' /\ HasRows(r)'
    BY <1>0, <1>1, <1>3
       DEF NoRows, RowsOK, UserRows, TenantRows, EnrolRows, ProjectRows, MemberRows, TaskRows, HasRows, Done
  <1>5. QED
    BY <1>3, <1>4 DEF ReqInv

LEMMA InsertProjectOwnerOwn ==
    ASSUME Inv, NEW r \in Requests, InsertProjectOwner(r)
    PROVE  ReqInv(r)'
  <1>0. /\ TypeOK /\ ReqInv(r) /\ OnlyBy(r) /\ at[r] = "lead" /\ ask[r].op = "project"
        /\ r \notin committed /\ tenant[r] # None
    BY StepFrame DEF Serve, InsertProjectOwner, Inv, ReqInv, PlaceOK, ReplyOK, TenantOK, Awaits
  <1>1. /\ projectMembers' = projectMembers \cup {ProjectMember(r, ask[r].user, "owner", r)}
        /\ UNCHANGED <<users, tenants, tenantMembers, projects, tasks, committed, ask, tenant>>
    BY DEF InsertProjectOwner
  <1>2. Moved(r, "commit") /\ "commit" \in Awaits(ask[r].op)
    BY <1>0, Turns DEF InsertProjectOwner, Awaits
  <1>3. /\ at'[r] = "commit" /\ r \notin committed'
        /\ AskOK(r)' /\ PlaceOK(r)' /\ ReplyOK(r)' /\ TenantOK(r)' /\ AccessOK(r)' /\ InviteOK(r)'
        /\ RefusedOK(r)'
    BY <1>0, <1>1, <1>2, WritesOn
  <1>4. \A x \in projectMembers : x.by # r
    BY <1>0 DEF ReqInv, RowsOK, MemberRows, Done
  <1>5. \E p \in Visible(projects, r), y \in Visible(tenantMembers, r) :
          p.by = r /\ y.tenant = p.tenant /\ y.user = ask[r].user
    <2>1. [tenant |-> tenant[r], owner |-> ask[r].user, by |-> r] \in Visible(projects, r)
      BY <1>0 DEF ReqInv, HasRows, Visible
    <2>2. tenant[r] \in TenantsOf(ask[r].user)
      BY <1>0 DEF ReqInv, TenantOK
    <2>3. \E y \in Visible(tenantMembers, r) : y.tenant = tenant[r] /\ y.user = ask[r].user
      BY <2>2 DEF TenantsOf, Committed, Visible
    <2>4. QED
      BY <2>1, <2>3
  <1>6. MemberRows(r)'
    <2>1. (\E p \in Visible(projects, r), y \in Visible(tenantMembers, r) :
             p.by = r /\ y.tenant = p.tenant /\ y.user = ask[r].user)'
      BY <1>1, <1>5 DEF Visible
    <2>2. QED
      BY <1>0, <1>1, <1>3, <1>4, <2>1 DEF MemberRows, ProjectMember, Done
  <1>7. UserRows(r)' /\ TenantRows(r)' /\ EnrolRows(r)' /\ ProjectRows(r)' /\ TaskRows(r)'
    BY <1>0, <1>1, <1>3 DEF ReqInv, RowsOK, UserRows, TenantRows, EnrolRows, ProjectRows, TaskRows, Done
  <1>8. HasRows(r)'
    BY <1>0, <1>1, <1>3 DEF ReqInv, HasRows, Done
  <1>9. QED
    BY <1>3, <1>6, <1>7, <1>8 DEF ReqInv, RowsOK

\* The tenant of a request, once known, is one whose creation has been committed.
LEMMA TenantIsCommitted ==
    ASSUME Inv, NEW r \in Requests, tenant[r] # None
    PROVE  tenant[r] \in committed
  <1>1. tenant[r] \in TenantsOf(ask[r].user)
    BY DEF Inv, ReqInv, TenantOK
  <1>2. PICK y \in tenantMembers : y.by \in committed /\ y.tenant = tenant[r]
    BY <1>1 DEF TenantsOf, Committed
  <1>3. y.by \in Requests /\ EnrolRows(y.by)
    BY <1>2 DEF Inv, TypeOK, ReqInv, RowsOK
  <1>4. QED
    BY <1>2, <1>3 DEF EnrolRows

LEMMA OneInvitee ==
    ASSUME Keys, NEW r \in Requests
    PROVE  \A u, v \in Invitees(r) : u = v
  BY DEF Keys, Invitees, Committed

LEMMA EnrolOwn ==
    ASSUME Inv, NEW r \in Requests, Enrol(r)
    PROVE  ReqInv(r)'
  <1>0. /\ TypeOK /\ ReqInv(r) /\ OnlyBy(r) /\ at[r] = "enrol" /\ ask[r].op = "invite"
        /\ NoRows(r) /\ r \notin committed /\ tenant[r] # None /\ Invitees(r) # {}
        /\ Admitted(r, {"owner"})
    BY StepFrame, CleanHasNoRows
       DEF Serve, Enrol, Inv, ReqInv, PlaceOK, TenantOK, AccessOK, InviteOK, RolesFor, Awaits, Clean
  <1>1. CASE tenantMembers' = tenantMembers \cup
               {[tenant |-> tenant[r], user |-> u, role |-> "member", by |-> r] : u \in Invitees(r)}
             /\ Goto(r, "member")
    <2>1. UNCHANGED <<users, tenants, projects, projectMembers, tasks, committed, ask, tenant>>
      BY DEF Enrol
    <2>2. Moved(r, "member") /\ "member" \in Awaits(ask[r].op)
      BY <1>0, <1>1, Turns DEF Awaits
    <2>3. Invitees(r)' = Invitees(r)
      BY <2>1 DEF Invitees, Committed
    <2>4. (Visible(Enrolled(r), r) # {})'
      <3>1. PICK u \in Invitees(r) : TRUE
        BY <1>0
      <3>2. [tenant |-> tenant[r], user |-> u, role |-> "member", by |-> r] \in Visible(Enrolled(r), r)'
        BY <1>1, <2>1, <2>3 DEF Visible, Enrolled
      <3>3. QED
        BY <3>2
    <2>5. /\ at'[r] = "member" /\ r \notin committed'
          /\ AskOK(r)' /\ PlaceOK(r)' /\ ReplyOK(r)' /\ TenantOK(r)' /\ AccessOK(r)' /\ InviteOK(r)'
          /\ RefusedOK(r)'
      BY <1>0, <2>1, <2>2, <2>4, WritesOn
    <2>6. EnrolRows(r)'
      BY <1>0, <1>1, <2>1, <2>3, <2>5, TenantIsCommitted DEF NoRows, EnrolRows
    <2>7. RowsOK(r)' /\ HasRows(r)'
      BY <1>0, <2>1, <2>5, <2>6
         DEF NoRows, RowsOK, UserRows, TenantRows, ProjectRows, MemberRows, TaskRows, HasRows, Done
    <2>8. QED
      BY <2>5, <2>7 DEF ReqInv
  <1>2. CASE Answer(r, "conflict") /\ UNCHANGED tenantMembers
    <2>1. UNCHANGED <<tables, committed, ask, tenant>> /\ Answered(r, "conflict")
      BY <1>0, <1>2, Turns DEF Enrol, tables
    <2>2. QED
      BY <1>0, <2>1, IsAnswered DEF Inside
  <1>3. QED
    BY <1>1, <1>2 DEF Enrol

\* A transaction that is rolled back.
LEMMA RolledBack ==
    ASSUME Inv, NEW r \in Requests, OnlyBy(r), at[r] \in Waiting, Rollback(r), UNCHANGED <<committed, ask, tenant>>,
           NEW how \in {"conflict", "error"}, Answered(r, how), ask[r].op = "register" => how = "error"
    PROVE  ReqInv(r)'
  <1>0. /\ TypeOK /\ ReqInv(r) /\ r \notin committed
        /\ \A k \in Requests : TaskRows(k)
    BY DEF Inv, ReqInv, ReplyOK, RowsOK, Waiting
  <1>1. /\ Ids(users) \subseteq Ids(users)'
        /\ Ids(projects) \subseteq Ids(projects)'
        /\ Ids(tasks) \subseteq Ids(tasks)'
        /\ \A u : TenantsOf(u) \subseteq TenantsOf(u)'
    BY <1>0, Monotone
  <1>2. at'[r] = "answered" /\ reply'[r] = how /\ r \notin committed' /\ at[r] # "unsent"
    BY <1>0 DEF Answered, Waiting
  <1>3. NoRows(r)'
    BY DEF Rollback, NoRows
  <1>4. AskOK(r)' /\ PlaceOK(r)' /\ ReplyOK(r)' /\ TenantOK(r)' /\ AccessOK(r)' /\ InviteOK(r)'
    BY <1>0, <1>1, <1>2 DEF ReqInv, AskOK, PlaceOK, ReplyOK, TenantOK, AccessOK, InviteOK, Done
  <1>5. RowsOK(r)' /\ HasRows(r)' /\ RefusedOK(r)'
    BY <1>2, <1>3, NoRowsOK DEF RefusedOK
  <1>6. QED
    BY <1>4, <1>5 DEF ReqInv

LEMMA InsertMemberOwn ==
    ASSUME Inv, NEW r \in Requests, InsertMember(r)
    PROVE  ReqInv(r)'
  <1>0. /\ TypeOK /\ Keys /\ ReqInv(r) /\ OnlyBy(r) /\ at[r] = "member" /\ ask[r].op = "invite"
        /\ r \notin committed /\ tenant[r] # None
        /\ Admitted(r, {"owner"}) /\ Visible(Enrolled(r), r) # {}
    BY StepFrame
       DEF Serve, InsertMember, Inv, ReqInv, PlaceOK, ReplyOK, TenantOK, AccessOK, InviteOK, RolesFor, Awaits
  <1>1. CASE /\ projectMembers' = projectMembers \cup
                  {ProjectMember(ask[r].target, u, "member", r) : u \in Invitees(r)}
             /\ Goto(r, "commit")
             /\ UNCHANGED <<users, tenants, tenantMembers, projects, tasks>>
    <2>1. UNCHANGED <<users, tenants, tenantMembers, projects, tasks, committed, ask, tenant>>
      BY <1>1 DEF InsertMember
    <2>2. Moved(r, "commit") /\ "commit" \in Awaits(ask[r].op)
      BY <1>0, <1>1, Turns DEF Awaits
    <2>3. /\ at'[r] = "commit" /\ r \notin committed'
          /\ AskOK(r)' /\ PlaceOK(r)' /\ ReplyOK(r)' /\ TenantOK(r)' /\ AccessOK(r)' /\ InviteOK(r)'
          /\ RefusedOK(r)'
      BY <1>0, <2>1, <2>2, WritesOn
    <2>4. Invitees(r)' = Invitees(r)
      BY <2>1 DEF Invitees, Committed
    <2>5. \A x \in projectMembers : x.by # r
      BY <1>0 DEF ReqInv, RowsOK, MemberRows, Done
    <2>6. ask[r].target \in committed
      BY <1>0 DEF ReqInv, AskOK, Ids, Committed
    <2>7. ASSUME NEW u \in Invitees(r)
          PROVE  (\E p \in Visible(projects, r), y \in Visible(tenantMembers, r) :
                    p.by = ask[r].target /\ y.tenant = p.tenant /\ y.user = u)'
      <3>1. PICK p \in Committed(projects) : p.by = ask[r].target /\ p.tenant = tenant[r]
        BY <1>0 DEF Admitted, IsAbout
      <3>2. PICK y \in Visible(Enrolled(r), r) : TRUE
        BY <1>0
      <3>3. y.tenant = tenant[r] /\ y.user = u
        BY <1>0, <2>7, <3>2, OneInvitee DEF Visible, Enrolled
      <3>4. p \in Visible(projects, r) /\ y \in Visible(tenantMembers, r)
        BY <3>1, <3>2 DEF Committed, Visible, Enrolled
      <3>5. QED
        BY <2>1, <3>1, <3>3, <3>4 DEF Visible
    <2>8. MemberRows(r)'
      BY <1>0, <1>1, <2>1, <2>3, <2>5, <2>6, <2>7 DEF MemberRows, ProjectMember, Done
    <2>9. UserRows(r)' /\ TenantRows(r)' /\ EnrolRows(r)' /\ ProjectRows(r)' /\ TaskRows(r)'
      BY <1>0, <2>1, <2>3, <2>4 DEF ReqInv, RowsOK, UserRows, TenantRows, EnrolRows, ProjectRows, TaskRows, Done
    <2>10. HasRows(r)'
      BY <1>0, <2>1, <2>3 DEF HasRows
    <2>11. QED
      BY <2>3, <2>8, <2>9, <2>10 DEF ReqInv, RowsOK
  <1>2. CASE Rollback(r) /\ Answer(r, "conflict")
    <2>1. Answered(r, "conflict") /\ UNCHANGED <<committed, ask, tenant>> /\ at[r] \in Waiting
      BY <1>0, <1>2, Turns DEF InsertMember, Waiting
    <2>2. QED
      BY <1>0, <1>2, <2>1, RolledBack
  <1>3. QED
    BY <1>1, <1>2 DEF InsertMember

LEMMA AbortOwn ==
    ASSUME Inv, NEW r \in Requests, Abort(r)
    PROVE  ReqInv(r)'
  <1>1. OnlyBy(r) /\ Answered(r, "error")
    BY StepFrame, Turns DEF Inv, Abort
  <1>2. QED
    BY <1>1, RolledBack DEF Abort

LEMMA CommitOwn ==
    ASSUME Inv, NEW r \in Requests, NEW replied \in BOOLEAN, Commit(r, replied)
    PROVE  ReqInv(r)'
  <1>0. /\ TypeOK /\ ReqInv(r) /\ OnlyBy(r) /\ at[r] = "commit"
        /\ \A k \in Requests : TaskRows(k)
    BY StepFrame DEF Serve, Commit, Inv, ReqInv, RowsOK
  <1>1. /\ at'[r] = "answered" /\ reply'[r] \in {"ok", "error"}
        /\ committed' = committed \cup {r}
        /\ UNCHANGED <<tables, ask, tenant>>
    BY <1>0, Turns DEF Commit, Answered
  <1>2. /\ Ids(users) \subseteq Ids(users)'
        /\ Ids(projects) \subseteq Ids(projects)'
        /\ Ids(tasks) \subseteq Ids(tasks)'
        /\ \A u : TenantsOf(u) \subseteq TenantsOf(u)'
        /\ Invitees(r) \subseteq Invitees(r)'
        /\ \A roles : Admitted(r, roles) => Admitted(r, roles)'
    BY <1>0, <1>1, Monotone
  <1>3. AskOK(r)' /\ PlaceOK(r)' /\ ReplyOK(r)'
    BY <1>0, <1>1, <1>2 DEF ReqInv, AskOK, PlaceOK, ReplyOK
  <1>4. TenantOK(r)' /\ AccessOK(r)' /\ InviteOK(r)' /\ RefusedOK(r)'
    BY <1>0, <1>1, <1>2
       DEF ReqInv, PlaceOK, Awaits, TenantOK, AccessOK, InviteOK, RefusedOK, Done
  <1>5. UserRows(r)' /\ TenantRows(r)' /\ EnrolRows(r)' /\ ProjectRows(r)' /\ TaskRows(r)'
    BY <1>0, <1>1, <1>2
       DEF ReqInv, RowsOK, UserRows, TenantRows, EnrolRows, Caller, ProjectRows, TaskRows, Done, tables
  <1>6. MemberRows(r)'
    BY <1>0, <1>1 DEF ReqInv, RowsOK, MemberRows, Visible, Done, tables
  <1>7. HasRows(r)'
    BY <1>0, <1>1 DEF ReqInv, HasRows, Done, tables
  <1>8. QED
    BY <1>3, <1>4, <1>5, <1>6, <1>7 DEF ReqInv, RowsOK

LEMMA InsertTaskOwn ==
    ASSUME Inv, NEW r \in Requests, NEW replied \in BOOLEAN, InsertTask(r, replied)
    PROVE  ReqInv(r)'
  <1>0. /\ TypeOK /\ ReqInv(r) /\ OnlyBy(r) /\ at[r] = "task" /\ ask[r].op = "task"
        /\ NoRows(r) /\ Admitted(r, RolesFor(ask[r].op))
        /\ \A k \in Requests : TaskRows(k)
    BY StepFrame, CleanHasNoRows
       DEF Serve, InsertTask, Inv, ReqInv, RowsOK, PlaceOK, AccessOK, Awaits, Clean
  <1>1. /\ at'[r] = "answered" /\ reply'[r] \in {"ok", "error"}
        /\ committed' = committed \cup {r}
        /\ tasks' = tasks \cup {[project |-> ask[r].target, by |-> r]}
        /\ UNCHANGED <<users, tenants, tenantMembers, projects, projectMembers, ask, tenant>>
    BY <1>0, Turns DEF InsertTask, Answered
  <1>2. tenant[r] # None
    <2>1. \A m \in Committed(projects) : m.tenant # None
      BY <1>0 DEF TypeOK, Committed
    <2>2. QED
      BY <1>0, <2>1 DEF Admitted
  <1>3. /\ Ids(users) \subseteq Ids(users)'
        /\ Ids(projects) \subseteq Ids(projects)'
        /\ \A u : TenantsOf(u) \subseteq TenantsOf(u)'
        /\ \A roles : Admitted(r, roles) => Admitted(r, roles)'
    BY <1>0, <1>1, Monotone
  <1>4. AskOK(r)' /\ PlaceOK(r)' /\ ReplyOK(r)'
    BY <1>0, <1>1, <1>3 DEF ReqInv, AskOK, PlaceOK, ReplyOK
  <1>5. TenantOK(r)' /\ AccessOK(r)' /\ InviteOK(r)' /\ RefusedOK(r)'
    BY <1>0, <1>1, <1>2, <1>3 DEF ReqInv, TenantOK, AccessOK, InviteOK, RefusedOK, Done
  <1>6. RowsOK(r)' /\ HasRows(r)'
    BY <1>0, <1>1
       DEF NoRows, RowsOK, UserRows, TenantRows, EnrolRows, ProjectRows, MemberRows, TaskRows, HasRows
  <1>7. QED
    BY <1>4, <1>5, <1>6 DEF ReqInv

LEMMA OwnStep ==
    ASSUME Inv, NEW r \in Requests, Send(r) \/ Serve(r) \/ Abort(r)
    PROVE  ReqInv(r)'
  BY SendOwn, ResolveTenantOwn, GuardsOwn, LooksOwn, InsertUserOwn, InsertTenantOwn, InsertTenantOwnerOwn,
     InsertProjectOwn, InsertProjectOwnerOwn, EnrolOwn, InsertMemberOwn, InsertTaskOwn, CommitOwn, AbortOwn DEF Serve

-----------------------------------------------------------------------------
(* Types.                                                                  *)

TablesOK ==
    /\ users \subseteq [email : Emails, by : Requests]
    /\ tenants \subseteq [by : Requests]
    /\ tenantMembers \subseteq [tenant : Requests, user : Requests, role : {"owner", "member"}, by : Requests]
    /\ projects \subseteq [tenant : Requests, owner : Requests, by : Requests]
    /\ projectMembers \subseteq [project : Requests, user : Requests, role : {"owner", "member"}, by : Requests]
    /\ tasks \subseteq [project : Requests, by : Requests]
    /\ committed \subseteq Requests

Replies == {"none", "ok", "bad_request", "forbidden", "not_found", "conflict", "error"}

HandlersOK ==
    /\ at \in [Requests -> {"unsent", "answered"} \cup Waiting]
    /\ ask \in [Requests -> [op : {"none"} \cup Ops, user : Maybe, header : Maybe, target : Maybe,
                             email : Emails \cup {None}]]
    /\ tenant \in [Requests -> Maybe]
    /\ reply \in [Requests -> Replies]

LEMMA TypeParts == TypeOK <=> TablesOK /\ HandlersOK
  BY DEF TypeOK, TablesOK, HandlersOK, Ops, Replies

\* What a request asks for, as the inserts use it.
LEMMA AsksFor ==
    ASSUME Inv, NEW r \in Requests, at[r] \in Waiting
    PROVE  /\ ask[r].op # "register" => ask[r].user \in Requests
           /\ ask[r].op \in {"invite", "task"} => ask[r].target \in Requests
           /\ ask[r].op \in {"register", "invite"} => ask[r].email \in Emails
           /\ at[r] \in {"project", "enrol", "member"} => tenant[r] \in Requests
           /\ Invitees(r) \subseteq Requests
  <1>1. TypeOK /\ AskOK(r) /\ TenantOK(r) /\ at[r] # "unsent"
    BY DEF Inv, ReqInv, Waiting
  <1>2. QED
    BY <1>1 DEF TypeOK, AskOK, TenantOK, Ids, Committed, Invitees, Maybe

LEMMA TablesNext ==
    ASSUME Inv, NEW r \in Requests, Send(r) \/ Serve(r) \/ Abort(r)
    PROVE  TablesOK'
  <1>0. TablesOK /\ PlaceOK(r)
    BY TypeParts DEF Inv, ReqInv
  <1>1. CASE Send(r) \/ ResolveTenant(r) \/ ResolveProject(r) \/ CheckAccess(r) \/ CheckOwner(r)
             \/ FindInvitee(r) \/ LookUpsert(r) \/ FindProject(r) \/ FindTask(r)
    BY <1>0, <1>1
       DEF Send, ResolveTenant, ResolveProject, CheckAccess, CheckOwner, FindInvitee, LookUpsert, FindProject,
           FindTask, tables, TablesOK
  <1>2. CASE InsertUser(r)
    <2>1. ask[r].email \in Emails
      BY <1>0, <1>2, AsksFor DEF InsertUser, PlaceOK, Awaits, Waiting
    <2>2. QED
      BY <1>0, <1>2, <2>1 DEF InsertUser, TablesOK
  <1>3. CASE InsertTenant(r)
    BY <1>0, <1>3 DEF InsertTenant, TablesOK
  <1>4. CASE InsertTenantOwner(r)
    <2>1. Caller(r) \in Requests
      BY <1>0, <1>4, AsksFor DEF InsertTenantOwner, Caller, Waiting
    <2>2. tenantMembers' = tenantMembers \cup {TenantOwner(r, Caller(r))}
      BY <1>4 DEF InsertTenantOwner, Caller
    <2>3. QED
      BY <1>0, <1>4, <2>1, <2>2 DEF InsertTenantOwner, TenantOwner, TablesOK
  <1>5. CASE InsertProject(r) \/ InsertProjectOwner(r)
    <2>1. ask[r].user \in Requests /\ (at[r] = "project" => tenant[r] \in Requests)
      BY <1>0, <1>5, AsksFor DEF InsertProject, InsertProjectOwner, PlaceOK, Awaits, Waiting
    <2>2. QED
      BY <1>0, <1>5, <2>1 DEF InsertProject, InsertProjectOwner, ProjectMember, TablesOK
  <1>6. CASE Enrol(r)
    <2>1. tenant[r] \in Requests /\ Invitees(r) \subseteq Requests
      BY <1>6, AsksFor DEF Enrol, Waiting
    <2>2. QED
      BY <1>0, <1>6, <2>1 DEF Enrol, TablesOK
  <1>7. CASE InsertMember(r)
    <2>1. ask[r].target \in Requests /\ Invitees(r) \subseteq Requests
      BY <1>0, <1>7, AsksFor DEF InsertMember, PlaceOK, Awaits, Waiting
    <2>2. QED
      BY <1>0, <1>7, <2>1 DEF InsertMember, ProjectMember, Rollback, TablesOK
  <1>8. CASE Abort(r)
    BY <1>0, <1>8 DEF Abort, Rollback, TablesOK
  <1>9. ASSUME NEW replied \in BOOLEAN, InsertTask(r, replied)
        PROVE  TablesOK'
    <2>1. ask[r].target \in Requests
      BY <1>0, <1>9, AsksFor DEF InsertTask, PlaceOK, Awaits, Waiting
    <2>2. QED
      BY <1>0, <1>9, <2>1 DEF InsertTask, TablesOK
  <1>10. ASSUME NEW replied \in BOOLEAN, Commit(r, replied)
         PROVE  TablesOK'
    BY <1>0, <1>10 DEF Commit, tables, TablesOK
  <1>11. QED
    BY <1>1, <1>2, <1>3, <1>4, <1>5, <1>6, <1>7, <1>8, <1>9, <1>10 DEF Serve

\* A step leads a request to another of its awaits, or to an answer.
LEMMA HandlersNext ==
    ASSUME Inv, NEW r \in Requests, Send(r) \/ Serve(r) \/ Abort(r)
    PROVE  HandlersOK'
  <1>0. HandlersOK /\ TypeOK
    BY TypeParts DEF Inv
  <1>1. ASSUME NEW next \in Waiting, Goto(r, next), UNCHANGED <<ask, tenant>>
        PROVE  HandlersOK'
    BY <1>0, <1>1 DEF Goto, HandlersOK
  <1>2. ASSUME NEW how \in Replies, Answer(r, how), UNCHANGED <<ask, tenant>>
        PROVE  HandlersOK'
    BY <1>0, <1>2 DEF Answer, HandlersOK
  <1>3. CASE Send(r)
    <2>1. Calls \subseteq [op : {"none"} \cup Ops, user : Maybe, header : Maybe, target : Maybe,
                           email : Emails \cup {None}]
      BY <1>0 DEF TypeOK, Calls, Ask, Ids, Headers, Committed, Maybe, Ops
    <2>2. \A call \in Calls : FirstAwait(call.op) \in Waiting
      BY DEF FirstAwait, Waiting
    <2>3. QED
      BY <1>0, <1>3, <2>1, <2>2 DEF Send, HandlersOK
  <1>4. CASE ResolveTenant(r)
    <2>1. ASSUME NEW t \in TenantsOf(ask[r].user), tenant' = [tenant EXCEPT ![r] = t],
                 Goto(r, AfterContext(ask[r].op)), UNCHANGED ask
          PROVE  HandlersOK'
      <3>1. t \in Maybe
        BY <1>0 DEF TypeOK, TenantsOf, Committed, Maybe
      <3>2. AfterContext(ask[r].op) \in Waiting
        BY DEF AfterContext, Waiting
      <3>3. QED
        BY <1>0, <2>1, <3>1, <3>2 DEF Goto, HandlersOK
    <2>2. QED
      BY <1>2, <1>4, <2>1 DEF ResolveTenant, Replies
  <1>5. CASE CheckAccess(r)
    <2>1. ask[r].op \in {"invite", "task", "update"}
      BY <1>5, InsideFacts DEF CheckAccess, Inside
    <2>2. AfterAccess(ask[r].op) \in Waiting
      BY <2>1 DEF AfterAccess, Waiting
    <2>3. QED
      BY <1>1, <1>2, <1>5, <2>2 DEF CheckAccess, Replies
  <1>6. CASE ResolveProject(r) \/ CheckOwner(r) \/ FindInvitee(r) \/ LookUpsert(r) \/ FindProject(r) \/ FindTask(r)
    BY <1>1, <1>2, <1>6
       DEF ResolveProject, CheckOwner, FindInvitee, LookUpsert, FindProject, FindTask, Waiting, Replies
  <1>7. CASE InsertUser(r) \/ InsertTenant(r) \/ InsertTenantOwner(r) \/ InsertProject(r) \/ InsertProjectOwner(r)
    BY <1>1, <1>2, <1>7
       DEF InsertUser, InsertTenant, InsertTenantOwner, InsertProject, InsertProjectOwner, Waiting, Replies
  <1>8. CASE Enrol(r) \/ InsertMember(r) \/ Abort(r)
    BY <1>1, <1>2, <1>8 DEF Enrol, InsertMember, Abort, Waiting, Replies
  <1>9. ASSUME NEW replied \in BOOLEAN, InsertTask(r, replied) \/ Commit(r, replied)
        PROVE  HandlersOK'
    BY <1>2, <1>9 DEF InsertTask, Commit, Replies
  <1>10. QED
    BY <1>3, <1>4, <1>5, <1>6, <1>7, <1>8, <1>9 DEF Serve

-----------------------------------------------------------------------------
(* Unique keys.                                                            *)

\* Nobody else can have used the id of a tenant or a project before it is committed.
LEMMA IdsAreFresh ==
    ASSUME Inv, NEW r \in Requests, r \notin committed
    PROVE  /\ at[r] = "owner" => \A m \in tenantMembers : m.tenant # r
           /\ at[r] = "lead" => \A m \in projectMembers : m.project # r
  <1>1. ASSUME at[r] = "owner", NEW m \in tenantMembers, m.tenant = r
        PROVE  FALSE
    <2>1. m.by \in Requests /\ EnrolRows(m.by)
      BY DEF Inv, TypeOK, ReqInv, RowsOK
    <2>2. QED
      BY <1>1, <2>1 DEF EnrolRows, Done
  <1>2. ASSUME at[r] = "lead", NEW m \in projectMembers, m.project = r
        PROVE  FALSE
    <2>1. m.by \in Requests /\ MemberRows(m.by)
      BY DEF Inv, TypeOK, ReqInv, RowsOK
    <2>2. QED
      BY <1>2, <2>1 DEF MemberRows, Done
  <1>3. QED
    BY <1>1, <1>2

LEMMA KeysNext ==
    ASSUME Inv, NEW r \in Requests, Send(r) \/ Serve(r) \/ Abort(r)
    PROVE  Keys'
  <1>0. Keys /\ (at[r] # "answered" => r \notin committed)
    BY DEF Inv, ReqInv, ReplyOK
  <1>1. CASE UNCHANGED <<users, tenantMembers, projectMembers>>
    BY <1>0, <1>1 DEF Keys
  <1>2. CASE Rollback(r)
    BY <1>0, <1>2 DEF Keys, Rollback
  <1>3. CASE InsertUser(r)
    BY <1>0, <1>3 DEF InsertUser, Keys
  <1>4. CASE InsertTenantOwner(r)
    <2>1. \A m \in tenantMembers : m.tenant # r
      BY <1>0, <1>4, IdsAreFresh DEF InsertTenantOwner
    <2>2. tenantMembers' = tenantMembers \cup {TenantOwner(r, Caller(r))} /\ UNCHANGED <<users, projectMembers>>
      BY <1>4 DEF InsertTenantOwner, Caller
    <2>3. QED
      BY <1>0, <2>1, <2>2 DEF TenantOwner, Keys
  <1>5. CASE InsertProjectOwner(r)
    <2>1. \A m \in projectMembers : m.project # r
      BY <1>0, <1>5, IdsAreFresh DEF InsertProjectOwner
    <2>2. QED
      BY <1>0, <1>5, <2>1 DEF InsertProjectOwner, ProjectMember, Keys
  <1>6. CASE Enrol(r)
    BY <1>0, <1>6, OneInvitee DEF Enrol, Enrolled, Keys
  <1>7. CASE InsertMember(r)
    BY <1>0, <1>2, <1>7, OneInvitee DEF InsertMember, Joined, ProjectMember, Keys
  <1>8. CASE Send(r) \/ ResolveTenant(r) \/ ResolveProject(r) \/ CheckAccess(r) \/ CheckOwner(r)
             \/ FindInvitee(r) \/ LookUpsert(r) \/ FindProject(r) \/ FindTask(r)
    BY <1>1, <1>8
       DEF Send, ResolveTenant, ResolveProject, CheckAccess, CheckOwner, FindInvitee, LookUpsert, FindProject,
           FindTask, tables
  <1>9. ASSUME NEW replied \in BOOLEAN,
               InsertTenant(r) \/ InsertProject(r) \/ InsertTask(r, replied) \/ Commit(r, replied)
        PROVE  Keys'
    BY <1>1, <1>9 DEF InsertTenant, InsertProject, InsertTask, Commit, tables
  <1>10. QED
    BY <1>2, <1>3, <1>4, <1>5, <1>6, <1>7, <1>8, <1>9 DEF Serve, Abort

-----------------------------------------------------------------------------
(* The theorems.                                                           *)

LEMMA InitInv == Init => Inv
  <1> SUFFICES ASSUME Init PROVE Inv
    OBVIOUS
  <1>1. TypeOK
    <2>1. TablesOK
      BY DEF Init, TablesOK, TenantOwner, ProjectMember, Served
    <2>2. ASSUME NEW r \in Requests
          PROVE  (CASE r \in Founders -> Ask("register", None, None, None, EmailOf[r])
                    [] r \in Started -> Ask("project", OwnerOf[r], None, None, None)
                    [] OTHER -> Unsent)
                 \in [op : {"none"} \cup Ops, user : Maybe, header : Maybe, target : Maybe,
                      email : Emails \cup {None}]
      BY DEF Ask, Unsent, Ops, Maybe
    <2>3. HandlersOK
      <3>1. ask \in [Requests -> [op : {"none"} \cup Ops, user : Maybe, header : Maybe, target : Maybe,
                                  email : Emails \cup {None}]]
        BY <2>2 DEF Init
      <3>2. QED
        BY <3>1 DEF Init, HandlersOK, Replies, Maybe
    <2>4. QED
      BY <2>1, <2>3, TypeParts
  <1>2. Keys
    BY DEF Init, Keys, TenantOwner, ProjectMember
  <1>3. ASSUME NEW k \in Requests
        PROVE  ReqInv(k)
    <2>1. CASE k \in Founders
      <3>1. /\ at[k] = "answered" /\ reply[k] = "ok" /\ tenant[k] = None /\ k \in committed
            /\ ask[k] = Ask("register", None, None, None, EmailOf[k])
        BY <2>1 DEF Init, Served
      <3>2. ask[k].op = "register" /\ ask[k].email = EmailOf[k] /\ EmailOf[k] \in Emails
        BY <2>1, <3>1 DEF Ask
      <3>3. AskOK(k) /\ PlaceOK(k) /\ ReplyOK(k) /\ TenantOK(k) /\ AccessOK(k) /\ InviteOK(k) /\ RefusedOK(k)
        BY <3>1, <3>2 DEF AskOK, PlaceOK, ReplyOK, TenantOK, AccessOK, InviteOK, RefusedOK, Ops
      <3>4. RowsOK(k) /\ HasRows(k)
        BY <2>1, <3>1, <3>2
           DEF Init, Served, RowsOK, UserRows, TenantRows, EnrolRows, ProjectRows, MemberRows, TaskRows, HasRows,
               Done, Caller, TenantOwner, ProjectMember
      <3>5. QED
        BY <3>3, <3>4 DEF ReqInv
    <2>2. CASE k \in Started
      <3>1. /\ at[k] = "answered" /\ reply[k] = "ok" /\ tenant[k] = OwnerOf[k] /\ k \in committed
            /\ ask[k] = Ask("project", OwnerOf[k], None, None, None) /\ k \notin Founders
        BY <2>2 DEF Init, Served
      <3>2. /\ ask[k].op = "project" /\ ask[k].user = OwnerOf[k] /\ ask[k].header = None
            /\ OwnerOf[k] \in Founders /\ OwnerOf[k] # None
        BY <2>2, <3>1 DEF Ask
      <3>3. OwnerOf[k] \in Ids(users)
        <4>1. [email |-> EmailOf[OwnerOf[k]], by |-> OwnerOf[k]] \in Committed(users)
          BY <3>2 DEF Init, Served, Committed
        <4>2. QED
          BY <4>1 DEF Ids
      <3>4. /\ TenantOwner(OwnerOf[k], OwnerOf[k]) \in Committed(tenantMembers)
            /\ [tenant |-> OwnerOf[k], owner |-> OwnerOf[k], by |-> k] \in Committed(projects)
        BY <2>2, <3>2 DEF Init, Served, Committed, TenantOwner
      <3>5. OwnerOf[k] \in TenantsOf(OwnerOf[k])
        BY <3>4 DEF TenantsOf, TenantOwner
      <3>6. AskOK(k) /\ PlaceOK(k) /\ ReplyOK(k) /\ TenantOK(k) /\ AccessOK(k) /\ InviteOK(k) /\ RefusedOK(k)
        BY <3>1, <3>2, <3>3, <3>5 DEF AskOK, PlaceOK, ReplyOK, TenantOK, AccessOK, InviteOK, RefusedOK, Ops
      <3>7. MemberRows(k)
        <4>1. \A x \in projectMembers : x.by = k => x = ProjectMember(k, ask[k].user, "owner", k)
          BY <2>2, <3>2 DEF Init, ProjectMember
        <4>2. \E p \in Visible(projects, k), y \in Visible(tenantMembers, k) :
                p.by = k /\ y.tenant = p.tenant /\ y.user = OwnerOf[k]
          BY <3>4 DEF Visible, Committed, TenantOwner
        <4>3. QED
          BY <3>1, <3>2, <4>1, <4>2 DEF MemberRows, ProjectMember, Done
      <3>8. UserRows(k) /\ TenantRows(k) /\ EnrolRows(k) /\ ProjectRows(k) /\ TaskRows(k) /\ HasRows(k)
        BY <2>2, <3>1, <3>2
           DEF Init, UserRows, TenantRows, EnrolRows, ProjectRows, TaskRows, HasRows, Done, TenantOwner, ProjectMember
      <3>9. QED
        BY <3>6, <3>7, <3>8 DEF ReqInv, RowsOK
    <2>3. CASE k \notin Served
      <3>1. at[k] = "unsent" /\ reply[k] = "none" /\ tenant[k] = None /\ k \notin committed /\ ask[k] = Unsent
        BY <2>3 DEF Init, Served
      <3>2. ask[k].op = "none"
        BY <3>1 DEF Unsent, Ask
      <3>3. AskOK(k) /\ PlaceOK(k) /\ ReplyOK(k) /\ TenantOK(k) /\ AccessOK(k) /\ InviteOK(k) /\ RefusedOK(k)
        BY <3>1, <3>2 DEF AskOK, PlaceOK, Awaits, ReplyOK, TenantOK, AccessOK, InviteOK, RefusedOK, Done
      <3>4. RowsOK(k) /\ HasRows(k)
        BY <2>3, <3>1, <3>2
           DEF Init, Served, RowsOK, UserRows, TenantRows, EnrolRows, ProjectRows, MemberRows, TaskRows, HasRows,
               Done, TenantOwner, ProjectMember
      <3>5. QED
        BY <3>3, <3>4 DEF ReqInv
    <2>4. QED
      BY <2>1, <2>2, <2>3 DEF Served
  <1>4. QED
    BY <1>1, <1>2, <1>3 DEF Inv

LEMMA InvNext ==
    ASSUME Inv, [Next]_vars
    PROVE  Inv'
  <1>1. ASSUME NEW r \in Requests, Send(r) \/ Serve(r) \/ Abort(r)
        PROVE  Inv'
    <2>1. TypeOK'
      <3>1. TablesOK' /\ HandlersOK'
        BY <1>1, TablesNext, HandlersNext
      <3>2. QED
        BY <3>1 DEF TypeOK, TablesOK, HandlersOK, Ops, Replies
    <2>2. \A k \in Requests : ReqInv(k)'
      BY <1>1, OwnStep, StepFrame, Others
    <2>3. QED
      BY <1>1, <2>1, <2>2, KeysNext DEF Inv
  <1>2. CASE UNCHANGED vars
    <2>1. TypeOK' /\ Keys'
      BY <1>2 DEF Inv, vars, tables, TypeOK, Keys
    <2>2. ASSUME NEW k \in Requests
          PROVE  ReqInv(k)'
      <3>1. ReqInv(k)
        BY DEF Inv
      <3>2. AskOK(k)' /\ PlaceOK(k)' /\ ReplyOK(k)' /\ TenantOK(k)' /\ AccessOK(k)' /\ InviteOK(k)'
        BY <1>2, <3>1
           DEF vars, tables, ReqInv, AskOK, PlaceOK, ReplyOK, TenantOK, AccessOK, InviteOK, Done, Ids, TenantsOf,
               Admitted, IsAbout, Invitees, Enrolled, Visible, Committed
      <3>3. RowsOK(k)' /\ HasRows(k)' /\ RefusedOK(k)'
        BY <1>2, <3>1
           DEF vars, tables, ReqInv, RowsOK, UserRows, TenantRows, EnrolRows, ProjectRows, MemberRows, TaskRows,
               HasRows, RefusedOK, Wrote, Done, Caller, Invitees, Visible, Committed
      <3>4. QED
        BY <3>2, <3>3 DEF ReqInv
    <2>3. QED
      BY <2>1, <2>2 DEF Inv
  <1>3. QED
    BY <1>1, <1>2 DEF Next

LEMMA Invariance == Spec => []Inv
  <1>1. Inv /\ [Next]_vars => Inv'
    BY InvNext
  <1>2. QED
    BY InitInv, <1>1, PTL DEF Spec

\* Every variable keeps its type, and every route answers as it may.
THEOREM TypeCorrect == Spec => []TypeOK
  <1>1. Inv => TypeOK
    BY DEF Inv
  <1>2. QED
    BY Invariance, <1>1, PTL

\* Whoever is a member of a project is a member of its tenant, however invitations, registrations
\* and aborted transactions interleave.
THEOREM MembersWithinTenantAlways == Spec => []MembersWithinTenant
  <1>1. ASSUME Inv
        PROVE  MembersWithinTenant
    <2>1. ASSUME NEW m \in Committed(projectMembers)
          PROVE  \E p \in Committed(projects) :
                   /\ p.by = m.project
                   /\ \E x \in Committed(tenantMembers) : x.tenant = p.tenant /\ x.user = m.user
      <3>1. m \in projectMembers /\ m.by \in committed /\ m.by \in Requests
        BY <1>1 DEF Inv, TypeOK, Committed
      <3>2. MemberRows(m.by)
        BY <1>1, <3>1 DEF Inv, ReqInv, RowsOK
      <3>3. PICK p \in Visible(projects, m.by), y \in Visible(tenantMembers, m.by) :
              p.by = m.project /\ y.tenant = p.tenant /\ y.user = m.user
        BY <3>1, <3>2 DEF MemberRows
      <3>4. p \in Committed(projects) /\ y \in Committed(tenantMembers)
        BY <3>1, <3>3 DEF Visible, Committed
      <3>5. QED
        BY <3>3, <3>4
    <2>2. QED
      BY <2>1 DEF MembersWithinTenant
  <1>2. QED
    BY Invariance, <1>1, PTL

\* Every registered user has an address and a tenant of their own.
THEOREM EveryUserHasHomeAlways == Spec => []EveryUserHasHome
  <1>1. ASSUME Inv
        PROVE  EveryUserHasHome
    <2>1. ASSUME NEW u \in Committed(users)
          PROVE  /\ \A v \in Committed(users) : v.email = u.email => v = u
                 /\ \E t \in Committed(tenants) : TenantOwner(t.by, u.by) \in Committed(tenantMembers)
      <3>1. u \in users /\ u.by \in committed /\ u.by \in Requests
        BY <1>1 DEF Inv, TypeOK, Committed
      <3>2. UserRows(u.by) /\ HasRows(u.by)
        BY <1>1, <3>1 DEF Inv, ReqInv, RowsOK
      <3>3. [by |-> u.by] \in Committed(tenants) /\ TenantOwner(u.by, u.by) \in Committed(tenantMembers)
        BY <3>1, <3>2 DEF UserRows, HasRows, Done, Committed, TenantOwner
      <3>4. QED
        BY <1>1, <3>3 DEF Inv, Keys, Committed
    <2>2. QED
      BY <2>1 DEF EveryUserHasHome
  <1>2. QED
    BY Invariance, <1>1, PTL

\* Nobody has two roles in a tenant or a project, and neither has two owners.
THEOREM RolesAreUnambiguousAlways == Spec => []RolesAreUnambiguous
  <1>1. ASSUME Inv
        PROVE  RolesAreUnambiguous
    <2>1. ASSUME NEW m \in tenantMembers, m.role = "owner"
          PROVE  m = TenantOwner(m.tenant, Caller(m.tenant))
      <3>1. m.by \in Requests /\ EnrolRows(m.by)
        BY <1>1 DEF Inv, TypeOK, ReqInv, RowsOK
      <3>2. QED
        BY <2>1, <3>1 DEF EnrolRows, TenantOwner
    <2>2. ASSUME NEW m \in projectMembers, m.role = "owner"
          PROVE  m = ProjectMember(m.project, ask[m.project].user, "owner", m.project)
      <3>1. m.by \in Requests /\ MemberRows(m.by)
        BY <1>1 DEF Inv, TypeOK, ReqInv, RowsOK
      <3>2. QED
        BY <2>2, <3>1 DEF MemberRows, ProjectMember
    <2>3. ASSUME NEW p \in Committed(projects)
          PROVE  ProjectMember(p.by, p.owner, "owner", p.by) \in projectMembers
      <3>1. p \in projects /\ p.by \in committed /\ p.by \in Requests
        BY <1>1 DEF Inv, TypeOK, Committed
      <3>2. ProjectRows(p.by) /\ HasRows(p.by)
        BY <1>1, <3>1 DEF Inv, ReqInv, RowsOK
      <3>3. QED
        BY <3>1, <3>2 DEF ProjectRows, HasRows, Done
    <2>4. \A m, n \in tenantMembers :
            m.tenant = n.tenant /\ (m.user = n.user \/ (m.role = "owner" /\ n.role = "owner")) => m = n
      BY <1>1, <2>1 DEF Inv, Keys
    <2>5. \A m, n \in projectMembers :
            m.project = n.project /\ (m.user = n.user \/ (m.role = "owner" /\ n.role = "owner")) => m = n
      BY <1>1, <2>2 DEF Inv, Keys
    <2>6. QED
      BY <2>3, <2>4, <2>5 DEF RolesAreUnambiguous, Committed
  <1>2. QED
    BY Invariance, <1>1, PTL

\* No request about a project is granted outside of its caller's tenant and projects.
THEOREM GrantedInTenantAlways == Spec => []GrantedInTenant
  <1>1. ASSUME Inv
        PROVE  GrantedInTenant
    <2>1. ASSUME NEW r \in Requests, reply[r] = "ok", ask[r].op \in {"invite", "task", "update"}
          PROVE  /\ ask[r].header \in {None, tenant[r]}
                 /\ \E p \in Committed(projects), m \in Committed(projectMembers) :
                      /\ IsAbout(r, p) /\ p.tenant = tenant[r]
                      /\ m.project = p.by /\ m.user = ask[r].user
                      /\ ask[r].op = "invite" => m.role = "owner"
                 /\ tenant[r] \in TenantsOf(ask[r].user)
      <3>1. TenantOK(r) /\ AccessOK(r)
        BY <1>1 DEF Inv, ReqInv
      <3>2. ask[r].header \in {None, tenant[r]} /\ tenant[r] \in TenantsOf(ask[r].user)
        BY <2>1, <3>1 DEF TenantOK
      <3>3. Admitted(r, RolesFor(ask[r].op))
        BY <2>1, <3>1 DEF AccessOK
      <3>4. QED
        BY <3>2, <3>3 DEF Admitted, RolesFor
    <2>2. QED
      BY <2>1 DEF GrantedInTenant
  <1>2. QED
    BY Invariance, <1>1, PTL

\* A request that was refused has left nothing, and was refused for what it was told.
THEOREM RefusalsAreTrueAlways == Spec => []RefusalsAreTrue
  <1>1. Inv => RefusalsAreTrue
    BY DEF Inv, ReqInv, RefusedOK, RefusalsAreTrue
  <1>2. QED
    BY Invariance, <1>1, PTL

-----------------------------------------------------------------------------
(* No deadlock: nobody waits in a circle.                                  *)

\* The next insert of r meets a key that the open transaction of k has written, and waits for it.
WaitsFor(r, k) ==
    /\ k \notin committed
    /\ \/ at[r] = "user" /\ \E x \in users : x.by = k /\ x.email = ask[r].email
       \/ at[r] = "enrol" /\ \E x \in Enrolled(r) : x.by = k
       \/ at[r] = "member" /\ \E x \in Joined(r) : x.by = k

\* How far a request is on the way through the unique keys.
Rank(r) == CASE at[r] \in {"user", "enrol"} -> 1
             [] at[r] = "member" -> 2
             [] OTHER -> 3

NobodyWaitsInACircle ==
    \A S \in SUBSET Requests : S # {} => \E r \in S : \A k \in S : ~ WaitsFor(r, k)

\* Whoever is waited for is past the key, and has none before it to wait for.
LEMMA WaitsUpwards ==
    ASSUME Inv, NEW r \in Requests, NEW k \in Requests, WaitsFor(r, k)
    PROVE  Rank(r) < Rank(k)
  <1>0. /\ TypeOK /\ k \notin committed
        /\ UserRows(k) /\ EnrolRows(k) /\ MemberRows(k)
    BY DEF Inv, ReqInv, RowsOK, WaitsFor
  <1>1. CASE at[r] = "user"
    <2>1. at[k] \in {"tenant", "owner", "commit"}
      BY <1>0, <1>1 DEF WaitsFor, UserRows, Done
    <2> QED
      BY <1>1, <2>1 DEF Rank
  <1>2. CASE at[r] = "enrol"
    <2>1. at[k] \in {"member", "commit"}
      BY <1>0, <1>2 DEF WaitsFor, Enrolled, EnrolRows, Done
    <2> QED
      BY <1>2, <2>1 DEF Rank
  <1>3. CASE at[r] = "member"
    <2>1. at[k] = "commit"
      BY <1>0, <1>3 DEF WaitsFor, Joined, MemberRows, Done
    <2> QED
      BY <1>3, <2>1 DEF Rank
  <1> QED
    BY <1>1, <1>2, <1>3 DEF WaitsFor

\* However many registrations and invitations have written and wait for keys of the unique indexes
\* at once, some of them can go on: of any set of requests one waits for none of the set.  The
\* database never has to break a circle of their transactions (auth.service.ts:32-44,
\* projects.service.ts:60-70).
THEOREM NobodyWaitsInACircleAlways == Spec => []NobodyWaitsInACircle
  <1>1. Inv => NobodyWaitsInACircle
    <2> SUFFICES ASSUME Inv, NEW S \in SUBSET Requests, S # {}
                 PROVE  \E r \in S : \A k \in S : ~ WaitsFor(r, k)
      BY DEF NobodyWaitsInACircle
    <2>1. \A r \in S : Rank(r) \in {1, 2, 3}
      BY DEF Rank
    <2>2. PICK r \in S : \A k \in S : ~ Rank(r) < Rank(k)
      BY <2>1
    <2> QED
      BY <2>2, WaitsUpwards
  <1> QED
    BY Invariance, <1>1, PTL

-----------------------------------------------------------------------------
(* Requests are atomic: the refinement of Directory.                       *)

Own(rows, r) == {x \in rows : x.by = r}

\* The rows that a transaction has written by the time it commits.  Inv says which rows may be
\* there; this says that they are.
Written(k) ==
    /\ ask[k].op = "register" /\ at[k] \in {"tenant", "owner", "commit"} =>
         [email |-> ask[k].email, by |-> k] \in users
    /\ ask[k].op \in {"register", "tenant"} /\ at[k] \in {"owner", "commit"} => [by |-> k] \in tenants
    /\ ask[k].op \in {"register", "tenant"} /\ at[k] = "commit" =>
         TenantOwner(k, Caller(k)) \in tenantMembers
    /\ ask[k].op = "invite" /\ at[k] = "commit" =>
         /\ Visible(Enrolled(k), k) # {}
         /\ \E u \in Invitees(k) : Own(projectMembers, k) = {ProjectMember(ask[k].target, u, "member", k)}

WrittenInv == \A k \in Requests : Written(k)

LEMMA WrittenByOthers ==
    ASSUME Inv, NEW r \in Requests, OnlyBy(r), NEW k \in Requests \ {r}, Written(k)
    PROVE  Written(k)'
  <1>0. /\ TypeOK
        /\ at'[k] = at[k] /\ ask'[k] = ask[k] /\ tenant'[k] = tenant[k]
    BY DEF Inv, OnlyBy
  <1>1. Invitees(k) \subseteq Invitees(k)'
    BY <1>0, Monotone DEF Inv, ReqInv, RowsOK
  <1>2. /\ \A x \in users : x.by = k => x \in users'
        /\ \A x \in tenants : x.by = k => x \in tenants'
        /\ \A x \in tenantMembers : x.by \in committed \cup {k} => x \in tenantMembers'
        /\ Own(projectMembers, k)' = Own(projectMembers, k)
        /\ committed \subseteq committed'
    BY DEF OnlyBy, Frame, Own
  <1>3. Caller(k)' = Caller(k)
    BY <1>0 DEF Caller
  <1>4. Visible(Enrolled(k), k) # {} => (Visible(Enrolled(k), k) # {})'
    BY <1>0, <1>1, <1>2 DEF Visible, Enrolled
  <1>5. TenantOwner(k, Caller(k)).by = k
    BY DEF TenantOwner
  <1>6. \A u \in Invitees(k) : u \in Invitees(k)'
    BY <1>1
  <1>7. QED
    BY <1>0, <1>2, <1>3, <1>4, <1>5, <1>6 DEF Written

LEMMA WrittenOwn ==
    ASSUME Inv, NEW r \in Requests, Send(r) \/ Serve(r) \/ Abort(r), Written(r)
    PROVE  Written(r)'
  <1>0. /\ TypeOK /\ ReqInv(r) /\ PlaceOK(r) /\ ReqInv(r)' /\ PlaceOK(r)'
        /\ at \in [Requests -> {"unsent", "answered"} \cup Waiting]
    BY OwnStep DEF Inv, ReqInv, TypeOK
  <1>1. CASE at'[r] \notin {"tenant", "owner", "commit"}
    BY <1>1 DEF Written
  <1>2. CASE Send(r)
    <2>1. at'[r] \in {"user", "tenant", "context"} /\ (at'[r] = "tenant" => ask'[r].op = "tenant")
      BY <1>0, <1>2 DEF Send, FirstAwait, Calls, Ask, TypeOK
    <2> QED
      BY <2>1 DEF Written
  <1>3. CASE InsertUser(r)
    BY <1>0, <1>1, <1>3, Turns DEF InsertUser, Moved, Answered, Written
  <1>4. CASE InsertTenant(r)
    BY <1>0, <1>4, Turns DEF InsertTenant, Moved, Written
  <1>5. CASE InsertTenantOwner(r)
    <2>1. /\ at[r] = "owner" /\ at'[r] = "commit" /\ ask[r].op \in {"register", "tenant"}
          /\ UNCHANGED <<users, tenants, ask>>
          /\ tenantMembers' = tenantMembers \cup {TenantOwner(r, Caller(r))}
          /\ Caller(r)' = Caller(r)
      BY <1>0, <1>5, Turns DEF InsertTenantOwner, Moved, PlaceOK, Awaits, Caller
    <2> QED
      BY <2>1 DEF Written
  <1>6. CASE InsertProjectOwner(r)
    <2>1. at[r] = "lead" /\ ask[r].op = "project" /\ ask' = ask
      BY <1>0, <1>6 DEF InsertProjectOwner, PlaceOK, Awaits
    <2> QED
      BY <2>1 DEF Written
  <1>7. CASE InsertMember(r)
    <2>1. CASE Joined(r) = {} /\ Goto(r, "commit")
               /\ projectMembers' = projectMembers \cup
                    {ProjectMember(ask[r].target, u, "member", r) : u \in Invitees(r)}
               /\ UNCHANGED <<users, tenants, tenantMembers, projects, tasks>>
      <3>1. /\ at[r] = "member" /\ at'[r] = "commit" /\ ask[r].op = "invite"
            /\ UNCHANGED <<committed, ask, tenant>>
        BY <1>0, <1>7, <2>1, Turns DEF InsertMember, Moved, PlaceOK, Awaits
      <3>2. /\ Visible(Enrolled(r), r)' = Visible(Enrolled(r), r) /\ Visible(Enrolled(r), r) # {}
            /\ Invitees(r)' = Invitees(r)
        BY <1>0, <2>1, <3>1 DEF ReqInv, InviteOK, Visible, Enrolled, Invitees, Committed
      <3>3. PICK u \in Invitees(r) : Invitees(r) = {u}
        BY <1>0, <3>1, OneInvitee DEF ReqInv, InviteOK, Inv
      <3>4. \A x \in projectMembers : x.by # r
        BY <1>0, <3>1 DEF ReqInv, ReplyOK, RowsOK, MemberRows, Done
      <3>5. Own(projectMembers, r)' = {ProjectMember(ask[r].target, u, "member", r)}
        BY <2>1, <3>3, <3>4 DEF Own, ProjectMember
      <3>6. ask'[r] = ask[r] /\ u \in Invitees(r)'
        BY <3>1, <3>2
      <3> QED
        BY <3>1, <3>2, <3>5, <3>6 DEF Written
    <2>2. CASE Rollback(r) /\ Answer(r, "conflict")
      BY <1>0, <1>1, <2>2, Turns DEF Answered
    <2> QED
      BY <1>7, <2>1, <2>2 DEF InsertMember
  <1>8. CASE ResolveTenant(r) \/ ResolveProject(r) \/ CheckAccess(r)
    <2>1. at'[r] \in {"answered", "project", "resolve", "access", "find", "authority", "save"}
      <3>1. ask[r].op \in {"project", "invite", "task", "update"}
        BY <1>0, <1>8 DEF ResolveTenant, ResolveProject, CheckAccess, PlaceOK, Awaits, ReqInv, AskOK, Ops
      <3>2. at[r] = "access" => ask[r].op # "project"
        BY <1>0 DEF PlaceOK, Awaits
      <3> QED
        BY <1>8, <3>1, <3>2, Turns, <1>0
           DEF ResolveTenant, ResolveProject, CheckAccess, AfterContext, AfterAccess, Moved, Answered
    <2> QED
      BY <1>1, <2>1
  <1>9. CASE InsertProject(r) \/ CheckOwner(r) \/ FindInvitee(r) \/ LookUpsert(r) \/ Enrol(r)
             \/ FindProject(r) \/ FindTask(r) \/ Abort(r)
    BY <1>0, <1>1, <1>9, Turns
       DEF InsertProject, CheckOwner, FindInvitee, LookUpsert, Enrol, FindProject, FindTask, Abort, Moved, Answered
  <1>10. ASSUME NEW replied \in BOOLEAN, InsertTask(r, replied) \/ Commit(r, replied)
         PROVE  Written(r)'
    BY <1>0, <1>1, <1>10, Turns DEF InsertTask, Commit, Answered
  <1>11. QED
    BY <1>2, <1>3, <1>4, <1>5, <1>6, <1>7, <1>8, <1>9, <1>10 DEF Serve

LEMMA WrittenAlways == Spec => []WrittenInv
  <1>1. Init => WrittenInv
    BY DEF Init, WrittenInv, Written
  <1>2. Inv /\ WrittenInv /\ [Next]_vars => WrittenInv'
    <2> SUFFICES ASSUME Inv, WrittenInv, [Next]_vars, NEW k \in Requests
                 PROVE  Written(k)'
      BY DEF WrittenInv
    <2>1. ASSUME NEW r \in Requests, Send(r) \/ Serve(r) \/ Abort(r)
          PROVE  Written(k)'
      BY <2>1, StepFrame, WrittenOwn, WrittenByOthers DEF WrittenInv
    <2>2. CASE UNCHANGED vars
      <3>1. Written(k)
        BY DEF WrittenInv
      <3> QED
        BY <2>2, <3>1 DEF vars, tables, Written, Caller, Visible, Enrolled, Invitees, Committed, Own
    <2> QED
      BY <2>1, <2>2 DEF Next
  <1>3. QED
    BY <1>1, <1>2, Invariance, PTL DEF Spec

\* What the abstract specification sees of a request is what its handler sees.
LEMMA SameView ==
    ASSUME Inv, NEW r \in Requests
    PROVE  /\ \A u : Atomic!TenantsOf(u) = TenantsOf(u)
           /\ Atomic!Invitees(ask[r]) = Invitees(r)
           /\ Atomic!InTenant(ask[r], tenant[r]) <=> InTenant(r)
           /\ ask[r].op \in {"invite", "task", "update"} =>
                (Atomic!Admitted(ask[r], tenant[r]) <=> Admitted(r, RolesFor(ask[r].op)))
  <1>1. \A u : Atomic!TenantsOf(u) = TenantsOf(u)
    BY DEF Atomic!TenantsOf, TenantsOf
  <1>2. Atomic!Invitees(ask[r]) = Invitees(r)
    BY DEF Atomic!Invitees, Invitees
  <1>3. Committed(tasks) = tasks
    BY DEF Inv, TypeOK, ReqInv, RowsOK, TaskRows, Committed
  <1>4. \A p : Atomic!IsAbout(ask[r], p) <=> IsAbout(r, p)
    BY <1>3 DEF Atomic!IsAbout, IsAbout
  <1>5. Atomic!InTenant(ask[r], tenant[r]) <=> InTenant(r)
    BY <1>4 DEF Atomic!InTenant, InTenant
  <1>6. \A m \in Committed(projectMembers) : m.role \in {"owner", "member"}
    BY DEF Inv, TypeOK, Committed
  <1>7. ASSUME ask[r].op \in {"invite", "task", "update"}
        PROVE  Atomic!Admitted(ask[r], tenant[r]) <=> Admitted(r, RolesFor(ask[r].op))
    <2>1. \A m \in Committed(projectMembers) :
            (ask[r].op = "invite" => m.role = "owner") <=> m.role \in RolesFor(ask[r].op)
      BY <1>6, <1>7 DEF RolesFor
    <2> QED
      BY <1>4, <2>1 DEF Atomic!Admitted, Admitted
  <1> QED
    BY <1>1, <1>2, <1>5, <1>7

\* The tenant of a request is one it may be about.
LEMMA TenantInReach ==
    ASSUME Inv, NEW r \in Requests, tenant[r] # None
    PROVE  tenant[r] \in Atomic!Reach(ask[r])
  <1>1. ask[r].header \in {None, tenant[r]} /\ tenant[r] \in TenantsOf(ask[r].user)
    BY DEF Inv, ReqInv, TenantOK
  <1> QED
    BY <1>1, SameView DEF Atomic!Reach

\* Where there is more than one tenant to choose from, the request names none.
LEMMA NoHeaderNoTenant ==
    ASSUME NEW r \in Requests, Cardinality(Atomic!Reach(ask[r])) > 1
    PROVE  ask[r].header = None /\ \E t, u \in Atomic!Reach(ask[r]) : t # u
  <1> DEFINE reach == Atomic!Reach(ask[r])
  <1>1. Cardinality({}) = 0 /\ \A t : Cardinality({t}) = 1
    BY FS_EmptySet, FS_Singleton
  <1> HIDE DEF reach
  <1>2. reach # {} /\ \A t : reach # {t}
    <2>1. Cardinality(reach) > 1
      BY DEF reach
    <2>2. Cardinality(reach) # 0 /\ Cardinality(reach) # 1
      BY <2>1
    <2> QED
      BY <1>1, <2>2
  <1>3. \E t, u \in reach : t # u
    <2>1. PICK t \in reach : TRUE
      BY <1>2
    <2>2. PICK u : ~ (u \in reach <=> u \in {t})
      BY <1>2
    <2> QED
      BY <2>1, <2>2
  <1>4. ask[r].header = None \/ \A t, u \in reach : t = u
    BY DEF Atomic!Reach, reach
  <1> QED
    BY <1>3, <1>4 DEF reach

\* A step that commits nothing changes no table that others see.
LEMMA NothingShows ==
    ASSUME NEW r \in Requests, OnlyBy(r), r \notin committed, committed' = committed
    PROVE  /\ Committed(users)' = Committed(users)
           /\ Committed(tenants)' = Committed(tenants)
           /\ Committed(tenantMembers)' = Committed(tenantMembers)
           /\ Committed(projects)' = Committed(projects)
           /\ Committed(projectMembers)' = Committed(projectMembers)
           /\ Committed(tasks)' = Committed(tasks)
  BY DEF OnlyBy, Frame, Committed

\* A request that has arrived asks for the same before and after its steps.
LEMMA AskedKept ==
    ASSUME TypeOK, NEW r \in Requests, ask' = ask, at[r] # "unsent", at'[r] # "unsent", OnlyBy(r)
    PROVE  Asked' = Asked /\ Asked[r] = {ask[r]}
  BY DEF Asked, OnlyBy

\* The answer of a request, as others see it.
LEMMA AnswerShows ==
    ASSUME Inv, NEW r \in Requests, at[r] # "answered", Asked' = Asked, NEW how, Answer(r, how)
    PROVE  Atomic!Answer(r, how)
  BY DEF Inv, ReqInv, ReplyOK, Answer, Atomic!Answer

LEMMA ArriveStep ==
    ASSUME Inv, NEW r \in Requests, Send(r)
    PROVE  Atomic!Arrive(r)
  <1>1. PICK call \in Calls : /\ ask' = [ask EXCEPT ![r] = call]
                              /\ at' = [at EXCEPT ![r] = FirstAwait(call.op)]
    BY DEF Send
  <1>2. /\ at[r] = "unsent" /\ UNCHANGED <<tables, committed, reply>>
        /\ at \in [Requests -> {"unsent", "answered"} \cup Waiting] /\ DOMAIN ask = Requests
    BY DEF Send, Inv, TypeOK
  <1>3. call \in Atomic!Asks
    BY DEF Calls, Ask, Headers, Ids, Atomic!Asks, Atomic!Ids
  <1>4. FirstAwait(call.op) # "unsent"
    BY DEF FirstAwait
  <1>5. Asked[r] = {} /\ Asked' = [Asked EXCEPT ![r] = {call}]
    BY <1>1, <1>2, <1>4 DEF Asked
  <1>6. /\ Committed(users)' = Committed(users) /\ Committed(tenants)' = Committed(tenants)
        /\ Committed(tenantMembers)' = Committed(tenantMembers) /\ Committed(projects)' = Committed(projects)
        /\ Committed(projectMembers)' = Committed(projectMembers) /\ Committed(tasks)' = Committed(tasks)
    BY <1>2 DEF tables, Committed
  <1> QED
    BY <1>2, <1>3, <1>5, <1>6 DEF Atomic!Arrive


\* Every action of a handler starts at one of its awaits, and leaves what was asked for alone.
LEMMA ServeShape ==
    ASSUME Inv, NEW r \in Requests, Serve(r) \/ Abort(r)
    PROVE  at[r] \in Waiting /\ at'[r] # "unsent" /\ ask' = ask
  <1>0. /\ TypeOK /\ PlaceOK(r)
        /\ at \in [Requests -> {"unsent", "answered"} \cup Waiting]
    BY DEF Inv, ReqInv, TypeOK
  <1>1. CASE ResolveTenant(r) \/ ResolveProject(r) \/ CheckAccess(r)
    <2>1. /\ at[r] \in {"context", "resolve", "access"} /\ ask' = ask
          /\ ask[r].op \in {"project", "invite", "task", "update"}
          /\ at[r] = "access" => ask[r].op # "project"
      BY <1>0, <1>1 DEF ResolveTenant, ResolveProject, CheckAccess, PlaceOK, Awaits
    <2> QED
      BY <1>0, <1>1, <2>1, Turns
         DEF ResolveTenant, ResolveProject, CheckAccess, AfterContext, AfterAccess, Moved, Answered, Waiting
  <1>2. CASE InsertUser(r) \/ InsertTenant(r) \/ InsertTenantOwner(r) \/ InsertProject(r) \/ InsertProjectOwner(r)
    BY <1>0, <1>2, Turns
       DEF InsertUser, InsertTenant, InsertTenantOwner, InsertProject, InsertProjectOwner, Moved, Answered, Waiting
  <1>3. CASE CheckOwner(r) \/ FindInvitee(r) \/ LookUpsert(r) \/ Enrol(r) \/ InsertMember(r)
    BY <1>0, <1>3, Turns DEF CheckOwner, FindInvitee, LookUpsert, Enrol, InsertMember, Moved, Answered, Waiting
  <1>4. CASE FindProject(r) \/ FindTask(r) \/ Abort(r)
    BY <1>0, <1>4, Turns DEF FindProject, FindTask, Abort, Moved, Answered, Waiting
  <1>5. ASSUME NEW replied \in BOOLEAN, InsertTask(r, replied) \/ Commit(r, replied)
        PROVE  at[r] \in Waiting /\ at'[r] # "unsent" /\ ask' = ask
    BY <1>0, <1>5, Turns DEF InsertTask, Commit, Answered, Waiting
  <1> QED
    BY <1>1, <1>2, <1>3, <1>4, <1>5 DEF Serve

\* The steps of a request that commit nothing go on, answer it for a reason that is true, let the
\* request about a task pass, or are the mistaken conflict.
LEMMA WithoutEffect ==
    ASSUME Inv, NEW r \in Requests, Serve(r) \/ Abort(r), committed' = committed
    PROVE  \/ UNCHANGED Atomic!vars
           \/ \E x \in Asked[r] : Atomic!Effect(r, x) \/ Atomic!Refuse(r, x)
           \/ MistakenConflict(r)
  <1> DEFINE a == ask[r]
             t == tenant[r]
             reach == Atomic!Reach(a)
  <1>0. /\ TypeOK /\ ReqInv(r) /\ PlaceOK(r) /\ TenantOK(r) /\ OnlyBy(r)
        /\ at[r] \in Waiting /\ at'[r] # "unsent" /\ ask' = ask
        /\ r \notin committed
    BY StepFrame, ServeShape DEF Inv, ReqInv, ReplyOK, Waiting
  <1>1. Asked' = Asked /\ Asked[r] = {a}
    BY <1>0, AskedKept DEF Waiting
  <1>2. /\ Committed(users)' = Committed(users) /\ Committed(tenants)' = Committed(tenants)
        /\ Committed(tenantMembers)' = Committed(tenantMembers) /\ Committed(projects)' = Committed(projects)
        /\ Committed(projectMembers)' = Committed(projectMembers) /\ Committed(tasks)' = Committed(tasks)
    BY <1>0, NothingShows
  <1>3. ASSUME NEW next, Goto(r, next)
        PROVE  UNCHANGED Atomic!vars
    BY <1>1, <1>2, <1>3 DEF Goto, Atomic!vars
  <1>4. ASSUME NEW how, Answer(r, how)
        PROVE  Atomic!Answer(r, how)
    BY <1>0, <1>1, <1>4, AnswerShows DEF Waiting
  <1>5. at[r] \in Inside \cup {"member"} => t \in reach /\ a.op \in {"invite", "task", "update"}
    BY <1>0, TenantInReach DEF Inside, TenantOK, PlaceOK, Awaits
  <1>6. /\ reach = IF a.header = None THEN TenantsOf(a.user) ELSE TenantsOf(a.user) \cap {a.header}
        /\ Cardinality(reach) > 1 => a.header = None /\ \E u, v \in reach : u # v
    BY SameView, NoHeaderNoTenant DEF Atomic!Reach
  <1>7. /\ Atomic!Invitees(a) = Invitees(r)
        /\ Atomic!InTenant(a, t) <=> InTenant(r)
        /\ a.op \in {"invite", "task", "update"} => (Atomic!Admitted(a, t) <=> Admitted(r, RolesFor(a.op)))
    BY SameView
  <1>8. ASSUME Atomic!Effect(r, a) \/ Atomic!Refuse(r, a)
        PROVE  \E x \in Asked[r] : Atomic!Effect(r, x) \/ Atomic!Refuse(r, x)
    BY <1>1, <1>8
  <1> HIDE DEF reach
  <1>9. CASE ResolveTenant(r)
    <2>1. \/ reach = {} /\ Answer(r, "forbidden")
          \/ Cardinality(reach) > 1 /\ Answer(r, "bad_request")
          \/ \E next : Goto(r, next)
      BY <1>6, <1>9 DEF ResolveTenant
    <2>2. CASE reach = {} /\ Answer(r, "forbidden")
      BY <1>2, <1>4, <1>8, <2>2 DEF Atomic!Refuse, reach
    <2>3. CASE Cardinality(reach) > 1 /\ Answer(r, "bad_request")
      BY <1>2, <1>4, <1>6, <1>8, <2>3 DEF Atomic!Refuse, reach
    <2> QED
      BY <1>3, <2>1, <2>2, <2>3
  <1>10. CASE CheckAccess(r) \/ CheckOwner(r)
    <2>1. /\ t \in reach /\ a.op \in {"invite", "task", "update"}
          /\ at[r] = "authority" => a.op = "invite"
      BY <1>0, <1>5, <1>10 DEF CheckAccess, CheckOwner, Inside, PlaceOK, Awaits
    <2>2. \/ ~ Admitted(r, RolesFor(a.op)) /\ Answer(r, "forbidden")
          \/ \E next : Goto(r, next)
      BY <1>10, <2>1 DEF CheckAccess, CheckOwner, RolesFor
    <2>3. CASE ~ Admitted(r, RolesFor(a.op)) /\ Answer(r, "forbidden")
      BY <1>2, <1>4, <1>7, <1>8, <2>1, <2>3 DEF Atomic!Refuse, reach
    <2> QED
      BY <1>3, <2>2, <2>3
  <1>11. CASE InsertUser(r)
    <2>1. \/ Committed({u \in users : u.email = a.email}) # {} /\ Answer(r, "conflict")
          \/ \E next : Goto(r, next)
      BY <1>11 DEF InsertUser
    <2>2. CASE Committed({u \in users : u.email = a.email}) # {} /\ Answer(r, "conflict")
      <3>1. a.op = "register"
        BY <1>0, <1>11 DEF InsertUser, PlaceOK, Awaits
      <3>2. Invitees(r) # {}
        BY <2>2 DEF Invitees, Committed
      <3> QED
        BY <1>2, <1>4, <1>7, <1>8, <2>2, <3>1, <3>2 DEF Atomic!Refuse
    <2> QED
      BY <1>3, <2>1, <2>2
  <1>12. CASE FindInvitee(r)
    <2>1. a.op = "invite"
      BY <1>0, <1>12 DEF FindInvitee, PlaceOK, Awaits
    <2>2. CASE Invitees(r) = {} /\ Answer(r, "not_found")
      BY <1>2, <1>4, <1>7, <1>8, <2>1, <2>2 DEF Atomic!Refuse
    <2> QED
      BY <1>3, <1>12, <2>2 DEF FindInvitee
  <1>13. CASE Enrol(r) \/ InsertMember(r)
    <2>1. a.op = "invite"
      BY <1>0, <1>13 DEF Enrol, InsertMember, PlaceOK, Awaits
    <2>2. \/ Committed(Joined(r)) # {} /\ Answer(r, "conflict")
          \/ Enrol(r) /\ Committed(Joined(r)) = {} /\ Answer(r, "conflict")
          \/ \E next : Goto(r, next)
      BY <1>13 DEF Enrol, InsertMember
    <2>3. CASE Committed(Joined(r)) # {} /\ Answer(r, "conflict")
      <3>1. \E u \in Invitees(r) : Atomic!Joined(a.target, u)
        BY <2>3 DEF Joined, Committed, Atomic!Joined
      <3> QED
        BY <1>2, <1>4, <1>7, <1>8, <2>1, <2>3, <3>1 DEF Atomic!Refuse
    <2>4. CASE Enrol(r) /\ Committed(Joined(r)) = {} /\ Answer(r, "conflict")
      <3>1. reply'[r] = "conflict"
        BY <1>0, <2>4 DEF Answer, TypeOK
      <3> QED
        BY <2>4, <3>1 DEF MistakenConflict
    <2> QED
      BY <1>3, <2>2, <2>3, <2>4
  <1>14. CASE FindTask(r)
    <2>1. a.op = "update" /\ t \in reach /\ at[r] = "find"
      BY <1>0, <1>5, <1>14 DEF FindTask, Inside, PlaceOK, Awaits
    <2>2. CASE ~ InTenant(r) /\ Answer(r, "not_found")
      BY <1>2, <1>4, <1>7, <1>8, <2>1, <2>2 DEF Atomic!Refuse, reach
    <2>3. CASE InTenant(r) /\ Answer(r, "ok")
      <3>1. a.target # None
        BY <1>0, <2>1, <2>3 DEF InTenant, IsAbout, TypeOK
      <3>2. Admitted(r, RolesFor(a.op))
        BY <1>0, <2>1, <3>1 DEF ReqInv, AccessOK
      <3>3. Atomic!Pass(r, a)
        BY <1>2, <1>7, <2>1, <3>2 DEF Atomic!Pass, reach
      <3> QED
        BY <1>4, <1>8, <2>3, <3>3 DEF Atomic!Effect
    <2> QED
      BY <1>14, <2>2, <2>3 DEF FindTask
  <1>15. CASE Answer(r, "error")
    BY <1>2, <1>4, <1>8, <1>15 DEF Atomic!Refuse
  <1>16. CASE FindProject(r) \/ Abort(r)
    BY <1>3, <1>15, <1>16 DEF FindProject, Abort
  <1>17. CASE ResolveProject(r) \/ LookUpsert(r) \/ InsertTenant(r) \/ InsertTenantOwner(r)
              \/ InsertProject(r) \/ InsertProjectOwner(r)
    BY <1>3, <1>17
       DEF ResolveProject, LookUpsert, InsertTenant, InsertTenantOwner, InsertProject, InsertProjectOwner
  <1>18. ASSUME NEW replied \in BOOLEAN, InsertTask(r, replied) \/ Commit(r, replied)
         PROVE  FALSE
    BY <1>0, <1>18 DEF InsertTask, Commit
  <1> QED
    BY <1>9, <1>10, <1>11, <1>12, <1>13, <1>14, <1>16, <1>17, <1>18 DEF Serve

\* Which rows a transaction has written when it commits.
LEMMA OwnAtCommit ==
    ASSUME Inv, NEW r \in Requests, at[r] = "commit", Written(r)
    PROVE  /\ ask[r].op \in {"register", "tenant", "project", "invite"}
           /\ r \notin committed
           /\ Own(users, r) = IF ask[r].op = "register" THEN {[email |-> ask[r].email, by |-> r]} ELSE {}
           /\ Own(tenants, r) = IF ask[r].op \in {"register", "tenant"} THEN {[by |-> r]} ELSE {}
           /\ ask[r].op \in {"register", "tenant"} => Own(tenantMembers, r) = {TenantOwner(r, Caller(r))}
           /\ ask[r].op = "project" => Own(tenantMembers, r) = {}
           /\ Own(projects, r) = IF ask[r].op = "project"
                                 THEN {[tenant |-> tenant[r], owner |-> ask[r].user, by |-> r]} ELSE {}
           /\ ask[r].op \in {"register", "tenant"} => Own(projectMembers, r) = {}
           /\ ask[r].op = "project" => Own(projectMembers, r) = {ProjectMember(r, ask[r].user, "owner", r)}
           /\ Own(tasks, r) = {}
  <1>0. /\ TypeOK /\ HasRows(r)
        /\ UserRows(r) /\ TenantRows(r) /\ EnrolRows(r) /\ ProjectRows(r) /\ MemberRows(r) /\ TaskRows(r)
    BY DEF Inv, ReqInv, RowsOK
  <1>1. /\ ask[r].op \in {"register", "tenant", "project", "invite"}
        /\ r \notin committed
    BY DEF Inv, ReqInv, PlaceOK, ReplyOK, Awaits
  <1>2. Own(users, r) = IF ask[r].op = "register" THEN {[email |-> ask[r].email, by |-> r]} ELSE {}
    <2>1. \A x \in Own(users, r) : /\ x = [email |-> x.email, by |-> x.by]
                                   /\ x.by = r /\ x.email = ask[r].email /\ ask[r].op = "register"
      BY <1>0 DEF UserRows, Own, TypeOK
    <2>2. ask[r].op = "register" => [email |-> ask[r].email, by |-> r] \in Own(users, r)
      BY DEF Written, Own
    <2> QED
      BY <2>1, <2>2
  <1>3. Own(tenants, r) = IF ask[r].op \in {"register", "tenant"} THEN {[by |-> r]} ELSE {}
    <2>1. \A x \in Own(tenants, r) : x = [by |-> x.by] /\ x.by = r /\ ask[r].op \in {"register", "tenant"}
      BY <1>0 DEF TenantRows, Own, TypeOK
    <2>2. ask[r].op \in {"register", "tenant"} => [by |-> r] \in Own(tenants, r)
      BY DEF Written, Own
    <2> QED
      BY <2>1, <2>2
  <1>4. /\ ask[r].op \in {"register", "tenant"} => Own(tenantMembers, r) = {TenantOwner(r, Caller(r))}
        /\ ask[r].op = "project" => Own(tenantMembers, r) = {}
    <2>1. \A x \in Own(tenantMembers, r) :
            /\ ask[r].op # "project"
            /\ ask[r].op \in {"register", "tenant"} => x = TenantOwner(r, Caller(r))
      BY <1>0 DEF EnrolRows, Own
    <2>2. ask[r].op \in {"register", "tenant"} => TenantOwner(r, Caller(r)) \in Own(tenantMembers, r)
      BY DEF Written, Own, TenantOwner
    <2> QED
      BY <2>1, <2>2
  <1>5. Own(projects, r) = IF ask[r].op = "project"
                           THEN {[tenant |-> tenant[r], owner |-> ask[r].user, by |-> r]} ELSE {}
    <2>1. \A x \in Own(projects, r) :
            /\ x = [tenant |-> x.tenant, owner |-> x.owner, by |-> x.by]
            /\ x.by = r /\ x.tenant = tenant[r] /\ x.owner = ask[r].user /\ ask[r].op = "project"
      BY <1>0 DEF ProjectRows, Own, TypeOK
    <2>2. ask[r].op = "project" => [tenant |-> tenant[r], owner |-> ask[r].user, by |-> r] \in Own(projects, r)
      BY <1>0 DEF HasRows, Done, Own
    <2> QED
      BY <2>1, <2>2
  <1>6. /\ ask[r].op \in {"register", "tenant"} => Own(projectMembers, r) = {}
        /\ ask[r].op = "project" => Own(projectMembers, r) = {ProjectMember(r, ask[r].user, "owner", r)}
    <2>1. \A x \in Own(projectMembers, r) :
            /\ ask[r].op \notin {"register", "tenant"}
            /\ ask[r].op = "project" => x = ProjectMember(r, ask[r].user, "owner", r)
      BY <1>0 DEF MemberRows, Own
    <2>2. ask[r].op = "project" => ProjectMember(r, ask[r].user, "owner", r) \in Own(projectMembers, r)
      BY <1>0 DEF HasRows, Done, Own, ProjectMember
    <2> QED
      BY <2>1, <2>2
  <1>7. Own(tasks, r) = {}
    BY <1>0, <1>1 DEF TaskRows, Own
  <1> QED
    BY <1>1, <1>2, <1>3, <1>4, <1>5, <1>6, <1>7

\* The rows of an invitation: the invited user is put into the tenant unless they are in it.
LEMMA InvitationRows ==
    ASSUME Inv, NEW r \in Requests, at[r] = "commit", Written(r), ask[r].op = "invite"
    PROVE  \E u \in Invitees(r) :
             /\ Own(projectMembers, r) = {ProjectMember(ask[r].target, u, "member", r)}
             /\ ~ Atomic!Joined(ask[r].target, u)
             /\ Own(tenantMembers, r) = {m \in {[tenant |-> tenant[r], user |-> u, role |-> "member", by |-> r]} :
                                           ~ Atomic!Enrolled(tenant[r], u)}
  <1>0. TypeOK /\ Keys /\ EnrolRows(r) /\ r \notin committed
    BY OwnAtCommit DEF Inv, ReqInv, RowsOK
  <1>1. PICK u \in Invitees(r) : Own(projectMembers, r) = {ProjectMember(ask[r].target, u, "member", r)}
    BY DEF Written
  <1>2. Invitees(r) = {u}
    BY <1>0, OneInvitee
  <1> DEFINE row == [tenant |-> tenant[r], user |-> u, role |-> "member", by |-> r]
  <1>3. ~ Atomic!Joined(ask[r].target, u)
    <2> SUFFICES ASSUME NEW m \in Committed(projectMembers), m.project = ask[r].target, m.user = u
                 PROVE  FALSE
      BY DEF Atomic!Joined
    <2>1. ProjectMember(ask[r].target, u, "member", r) \in projectMembers
      BY <1>1 DEF Own
    <2>2. m = ProjectMember(ask[r].target, u, "member", r)
      BY <1>0, <2>1 DEF Keys, Committed, ProjectMember
    <2> QED
      BY <1>0, <2>2 DEF Committed, ProjectMember
  <1>4. \A x \in Own(tenantMembers, r) : x = row
    <2>1. \A x \in Own(tenantMembers, r) :
            /\ x = [tenant |-> x.tenant, user |-> x.user, role |-> x.role, by |-> x.by]
            /\ x.by = r /\ x.tenant = tenant[r] /\ x.role = "member" /\ x.user \in Invitees(r)
      BY <1>0 DEF EnrolRows, Own, TypeOK
    <2> QED
      BY <1>2, <2>1
  <1>5. PICK y \in Visible(Enrolled(r), r) : TRUE
    BY DEF Written
  <1>6. y \in tenantMembers /\ y.by \in committed \cup {r} /\ y.tenant = tenant[r] /\ y.user = u
    BY <1>2, <1>5 DEF Visible, Enrolled
  <1>7. Atomic!Enrolled(tenant[r], u) => Own(tenantMembers, r) = {}
    <2> SUFFICES ASSUME NEW m \in Committed(tenantMembers), m.tenant = tenant[r], m.user = u,
                        NEW x \in Own(tenantMembers, r)
                 PROVE  FALSE
      BY DEF Atomic!Enrolled
    <2>1. m = x
      BY <1>0, <1>4 DEF Keys, Committed, Own
    <2> QED
      BY <1>0, <2>1 DEF Committed, Own
  <1>8. ~ Atomic!Enrolled(tenant[r], u) => y \in Own(tenantMembers, r)
    BY <1>6 DEF Atomic!Enrolled, Committed, Own
  <1>9. Own(tenantMembers, r) = {m \in {row} : ~ Atomic!Enrolled(tenant[r], u)}
    <2> HIDE DEF row
    <2> QED
      BY <1>4, <1>7, <1>8
  <1> QED
    BY <1>1, <1>3, <1>9

\* A commit shows all that its transaction has written.
LEMMA CommitShows ==
    ASSUME NEW r \in Requests, NEW replied \in BOOLEAN, Commit(r, replied)
    PROVE  /\ Committed(users)' = Committed(users) \cup Own(users, r)
           /\ Committed(tenants)' = Committed(tenants) \cup Own(tenants, r)
           /\ Committed(tenantMembers)' = Committed(tenantMembers) \cup Own(tenantMembers, r)
           /\ Committed(projects)' = Committed(projects) \cup Own(projects, r)
           /\ Committed(projectMembers)' = Committed(projectMembers) \cup Own(projectMembers, r)
           /\ Committed(tasks)' = Committed(tasks) \cup Own(tasks, r)
  BY DEF Commit, tables, Committed, Own

\* A commit is the whole effect of a request at once.
LEMMA CommitEffect ==
    ASSUME Inv, NEW r \in Requests, NEW replied \in BOOLEAN, Commit(r, replied), Written(r)
    PROVE  \E x \in Asked[r] : Atomic!Effect(r, x)
  <1> DEFINE a == ask[r]
             t == tenant[r]
  <1>0. /\ TypeOK /\ AskOK(r) /\ TenantOK(r) /\ AccessOK(r) /\ OnlyBy(r)
        /\ at[r] = "commit" /\ at'[r] # "unsent" /\ ask' = ask
        /\ Answer(r, "ok") \/ Answer(r, "error")
    BY StepFrame, ServeShape DEF Inv, ReqInv, Serve, Commit
  <1>1. Asked' = Asked /\ Asked[r] = {a}
    BY <1>0, AskedKept
  <1>2. Atomic!Answer(r, "ok") \/ Atomic!Answer(r, "error")
    BY <1>0, <1>1, AnswerShows
  <1>3. a.op \in {"project", "invite"} => t \in Atomic!Reach(a)
    BY <1>0, TenantInReach DEF TenantOK, Done
  <1>8. /\ Committed(users)' = Committed(users) \cup Own(users, r)
        /\ Committed(tenants)' = Committed(tenants) \cup Own(tenants, r)
        /\ Committed(tenantMembers)' = Committed(tenantMembers) \cup Own(tenantMembers, r)
        /\ Committed(projects)' = Committed(projects) \cup Own(projects, r)
        /\ Committed(projectMembers)' = Committed(projectMembers) \cup Own(projectMembers, r)
        /\ Committed(tasks)' = Committed(tasks) \cup Own(tasks, r)
    BY CommitShows
  <1>4. CASE a.op = "register"
    <2>1. Atomic!Invitees(a) = {}
      <3>1. [email |-> a.email, by |-> r] \in users /\ r \notin committed
        BY <1>0, <1>4, OwnAtCommit DEF Written
      <3>2. \A u \in Committed(users) : u.email # a.email
        BY <3>1 DEF Inv, Keys, Committed
      <3> QED
        BY <3>2 DEF Atomic!Invitees
    <2>2. Caller(r) = r
      BY <1>4 DEF Caller
    <2>3. /\ Own(users, r) = {[email |-> a.email, by |-> r]}
          /\ Own(tenants, r) = {[by |-> r]}
          /\ Own(tenantMembers, r) = {[tenant |-> r, user |-> r, role |-> "owner", by |-> r]}
          /\ Own(projects, r) = {} /\ Own(projectMembers, r) = {} /\ Own(tasks, r) = {}
      BY <1>0, <1>4, <2>2, OwnAtCommit DEF TenantOwner
    <2>4. Atomic!Register(r, a)
      BY <1>4, <1>8, <2>1, <2>3 DEF Atomic!Register, Atomic!Found
    <2> QED
      BY <1>1, <1>2, <2>4 DEF Atomic!Effect
  <1>5. CASE a.op = "tenant"
    <2>1. Caller(r) = a.user
      BY <1>5 DEF Caller
    <2>2. a.user \in Atomic!Ids(Committed(users))
      BY <1>0, <1>5 DEF AskOK, Ids, Atomic!Ids
    <2>3. /\ Own(users, r) = {} /\ Own(tenants, r) = {[by |-> r]}
          /\ Own(tenantMembers, r) = {[tenant |-> r, user |-> a.user, role |-> "owner", by |-> r]}
          /\ Own(projects, r) = {} /\ Own(projectMembers, r) = {} /\ Own(tasks, r) = {}
      BY <1>0, <1>5, <2>1, OwnAtCommit DEF TenantOwner
    <2>4. Atomic!CreateTenant(r, a)
      BY <1>5, <1>8, <2>2, <2>3 DEF Atomic!CreateTenant, Atomic!Found
    <2> QED
      BY <1>1, <1>2, <2>4 DEF Atomic!Effect
  <1>6. CASE a.op = "project"
    <2>1. /\ Own(users, r) = {} /\ Own(tenants, r) = {} /\ Own(tenantMembers, r) = {}
          /\ Own(projects, r) = {[tenant |-> t, owner |-> a.user, by |-> r]}
          /\ Own(projectMembers, r) = {[project |-> r, user |-> a.user, role |-> "owner", by |-> r]}
          /\ Own(tasks, r) = {}
      BY <1>0, <1>6, OwnAtCommit DEF ProjectMember
    <2>2. Atomic!CreateProject(r, a)
      BY <1>3, <1>6, <1>8, <2>1 DEF Atomic!CreateProject
    <2> QED
      BY <1>1, <1>2, <2>2 DEF Atomic!Effect
  <1>7. CASE a.op = "invite"
    <2>1. PICK u \in Invitees(r) :
            /\ Own(projectMembers, r) = {ProjectMember(a.target, u, "member", r)}
            /\ ~ Atomic!Joined(a.target, u)
            /\ Own(tenantMembers, r) = {m \in {[tenant |-> t, user |-> u, role |-> "member", by |-> r]} :
                                          ~ Atomic!Enrolled(t, u)}
      BY <1>0, <1>7, InvitationRows
    <2>2. u \in Atomic!Invitees(a) /\ Atomic!Admitted(a, t)
      BY <1>0, <1>7, SameView DEF AccessOK
    <2>3. Own(users, r) = {} /\ Own(tenants, r) = {} /\ Own(projects, r) = {} /\ Own(tasks, r) = {}
      BY <1>0, <1>7, OwnAtCommit
    <2>4. Atomic!Invite(r, a)
      BY <1>3, <1>7, <1>8, <2>1, <2>2, <2>3 DEF Atomic!Invite, ProjectMember
    <2> QED
      BY <1>1, <1>2, <2>4 DEF Atomic!Effect
  <1> QED
    BY <1>0, <1>4, <1>5, <1>6, <1>7, OwnAtCommit

\* So is the statement that inserts a task.
LEMMA InsertTaskEffect ==
    ASSUME Inv, NEW r \in Requests, NEW replied \in BOOLEAN, InsertTask(r, replied)
    PROVE  \E x \in Asked[r] : Atomic!Effect(r, x)
  <1> DEFINE a == ask[r]
             t == tenant[r]
  <1>0. /\ TypeOK /\ PlaceOK(r) /\ TenantOK(r) /\ AccessOK(r) /\ OnlyBy(r)
        /\ at[r] = "task" /\ at'[r] # "unsent" /\ ask' = ask
        /\ Answer(r, "ok") \/ Answer(r, "error")
    BY StepFrame, ServeShape DEF Inv, ReqInv, Serve, InsertTask
  <1>1. Asked' = Asked /\ Asked[r] = {a}
    BY <1>0, AskedKept
  <1>2. Atomic!Answer(r, "ok") \/ Atomic!Answer(r, "error")
    BY <1>0, <1>1, AnswerShows
  <1>3. a.op = "task" /\ t \in Atomic!Reach(a)
    BY <1>0, TenantInReach DEF PlaceOK, Awaits, TenantOK
  <1>4. Atomic!Admitted(a, t)
    BY <1>0, <1>3, SameView DEF AccessOK
  <1>5. NoRows(r)
    BY <1>0, CleanHasNoRows DEF Clean
  <1>6. /\ Committed(users)' = Committed(users) /\ Committed(tenants)' = Committed(tenants)
        /\ Committed(tenantMembers)' = Committed(tenantMembers) /\ Committed(projects)' = Committed(projects)
        /\ Committed(projectMembers)' = Committed(projectMembers)
        /\ Committed(tasks)' = Committed(tasks) \cup {[project |-> a.target, by |-> r]}
    BY <1>5 DEF InsertTask, NoRows, Committed
  <1>7. Atomic!CreateTask(r, a)
    BY <1>3, <1>4, <1>6 DEF Atomic!CreateTask
  <1> QED
    BY <1>1, <1>2, <1>7 DEF Atomic!Effect

Mistaken == \E r \in Requests : MistakenConflict(r)

\* Every step is one of the abstract specification, the mistaken conflict, or none.
LEMMA AtomicNext == Inv /\ WrittenInv /\ [Next]_vars => [Atomic!Next \/ Mistaken]_(Atomic!vars)
  <1> SUFFICES ASSUME Inv, WrittenInv, [Next]_vars
               PROVE  Atomic!Next \/ Mistaken \/ UNCHANGED Atomic!vars
    OBVIOUS
  <1>1. ASSUME NEW r \in Requests, Send(r)
        PROVE  Atomic!Next
    BY <1>1, ArriveStep DEF Atomic!Next
  <1>2. ASSUME NEW r \in Requests, Serve(r) \/ Abort(r)
        PROVE  Atomic!Next \/ Mistaken \/ UNCHANGED Atomic!vars
    <2>1. ASSUME NEW replied \in BOOLEAN, Commit(r, replied) \/ InsertTask(r, replied)
          PROVE  Atomic!Next
      BY <2>1, CommitEffect, InsertTaskEffect DEF WrittenInv, Atomic!Next
    <2>2. CASE ~ \E replied \in BOOLEAN : Commit(r, replied) \/ InsertTask(r, replied)
      <3>1. committed' = committed
        BY <1>2, <2>2
           DEF Serve, ResolveTenant, ResolveProject, CheckAccess, InsertUser, InsertTenant, InsertTenantOwner,
               InsertProject, InsertProjectOwner, CheckOwner, FindInvitee, LookUpsert, Enrol, InsertMember,
               FindProject, FindTask, Abort
      <3> QED
        BY <1>2, <3>1, WithoutEffect DEF Atomic!Next, Mistaken
    <2> QED
      BY <2>1, <2>2
  <1>3. CASE UNCHANGED vars
    BY <1>3 DEF vars, tables, Atomic!vars, Asked, Committed
  <1> QED
    BY <1>1, <1>2, <1>3 DEF Next

LEMMA AtomicInit == Init => Atomic!Init
  <1> SUFFICES ASSUME Init PROVE Atomic!Init
    OBVIOUS
  <1>1. /\ Committed(users) = users /\ Committed(tenants) = tenants
        /\ Committed(tenantMembers) = tenantMembers /\ Committed(projects) = projects
        /\ Committed(projectMembers) = projectMembers /\ Committed(tasks) = tasks
    BY DEF Init, Committed, Served, TenantOwner, ProjectMember
  <1>2. Founders \subseteq Atomic!Ids(users) /\ Atomic!Served = Served
    <2>1. ASSUME NEW f \in Founders PROVE f \in Atomic!Ids(users)
      <3>1. [email |-> EmailOf[f], by |-> f] \in users
        BY DEF Init
      <3> QED
        BY <3>1 DEF Atomic!Ids
    <2> QED
      BY <2>1 DEF Atomic!Served, Served
  <1>3. ASSUME NEW r \in Served
        PROVE  Asked[r] = {ask[r]} /\ ask[r] \in Atomic!Asks
    <2>1. r \in Requests /\ at[r] = "answered"
      BY DEF Init, Served
    <2>2. \/ r \in Founders /\ ask[r] = Ask("register", None, None, None, EmailOf[r]) /\ EmailOf[r] \in Emails
          \/ r \notin Founders /\ ask[r] = Ask("project", OwnerOf[r], None, None, None) /\ OwnerOf[r] \in Founders
      BY <2>1 DEF Init, Served
    <2> QED
      BY <1>1, <1>2, <2>1, <2>2 DEF Asked, Ask, Atomic!Asks
  <1>4. \A r \in Requests \ Served : Asked[r] = {}
    BY DEF Init, Asked
  <1>5. Asked \in [Requests -> SUBSET Atomic!Asks] /\ \A r \in Requests : Asked[r] = {} <=> r \notin Served
    BY <1>3, <1>4 DEF Asked
  <1> QED
    BY <1>1, <1>2, <1>5 DEF Init, Atomic!Init, TenantOwner, ProjectMember

\* Registration, tenants, projects, invitations and the guards in front of them are atomic: with
\* every await, every open transaction and every failure in between, each request takes effect, or
\* is refused, at one moment, for a reason that is true: all but the one refusal that
\* RequestsAreAtomic names.
THEOREM RequestsAreAtomicAlways == Spec => RequestsAreAtomic
  <1>1. Spec => Atomic!Init /\ [][Atomic!Next \/ Mistaken]_(Atomic!vars)
    BY AtomicInit, AtomicNext, Invariance, WrittenAlways, PTL DEF Spec
  <1> QED
    BY <1>1 DEF RequestsAreAtomic, Mistaken
=============================================================================

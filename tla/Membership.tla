----------------------------- MODULE Membership -----------------------------
(***************************************************************************)
(* Who belongs to what: registration, tenants, projects, project members,  *)
(* and the guards that read them on every request (src/auth, src/tenants,  *)
(* src/projects, and src/tasks for the requests about tasks).              *)
(*                                                                         *)
(* Transactions run at READ COMMITTED.  A table holds the rows of open     *)
(* transactions too; a row names the request that wrote it and only that   *)
(* request sees it before the commit.  An insert whose unique key is in    *)
(* the table waits for the transaction that has written the key, and fails *)
(* (P2002) once that has committed.  An id is drawn by the request that    *)
(* creates the row, so the request's name is the id.                       *)
(*                                                                         *)
(* Callers carry the token of a registered user.  Nothing deletes a user,  *)
(* a tenant, a project, a task or a membership.  Malformed ids, passwords  *)
(* and tokens are left out.                                                *)
(***************************************************************************)
EXTENDS Naturals, FiniteSets

CONSTANTS
    Requests,       \* names for the requests ever made
    Emails,         \* the addresses people register with
    Founders,       \* the registrations that were served before the model starts
    EmailOf,        \* their addresses
    Started,        \* the projects created after them, each in its owner's first tenant
    OwnerOf,        \* their owners
    None            \* a header, a user or a target a request does not have

ASSUME MembershipAssumption ==
    /\ Founders \subseteq Requests
    /\ Started \subseteq Requests \ Founders
    /\ OwnerOf \in [Started -> Founders]
    /\ EmailOf \in [Founders -> Emails]
    /\ \A f, g \in Founders : EmailOf[f] = EmailOf[g] => f = g
    /\ None \notin Requests \cup Emails

VARIABLES
    users, tenants, tenantMembers, projects, projectMembers, tasks,    \* the tables
    committed,      \* the requests whose transaction has committed
    at,             \* the await the handler of each request is at
    ask,            \* what the request asks for
    tenant,         \* request.tenantId
    reply           \* what the request was answered

tables == <<users, tenants, tenantMembers, projects, projectMembers, tasks>>
vars == <<tables, committed, at, ask, tenant, reply>>

Ask(op, user, header, target, email) ==
    [op |-> op, user |-> user, header |-> header, target |-> target, email |-> email]

Unsent == Ask("none", None, None, None, None)

Committed(rows) == {x \in rows : x.by \in committed}
Visible(rows, r) == {x \in rows : x.by \in committed \cup {r}}

Waiting == {"context", "resolve", "access", "find", "save", "task", "user", "tenant", "owner",
            "project", "lead", "authority", "invitee", "upsert", "enrol", "member", "commit"}

TenantOwner(t, u) == [tenant |-> t, user |-> u, role |-> "owner", by |-> t]
ProjectMember(p, u, role, r) == [project |-> p, user |-> u, role |-> role, by |-> r]

Served == Founders \cup Started

\* The requests in Served came one at a time, registrations first.
Init ==
    /\ users = {[email |-> EmailOf[f], by |-> f] : f \in Founders}
    /\ tenants = {[by |-> f] : f \in Founders}
    /\ tenantMembers = {TenantOwner(f, f) : f \in Founders}
    /\ projects = {[tenant |-> OwnerOf[p], owner |-> OwnerOf[p], by |-> p] : p \in Started}
    /\ projectMembers = {ProjectMember(p, OwnerOf[p], "owner", p) : p \in Started}
    /\ tasks = {}
    /\ committed = Served
    /\ at = [r \in Requests |-> IF r \in Served THEN "answered" ELSE "unsent"]
    /\ ask = [r \in Requests |->
                CASE r \in Founders -> Ask("register", None, None, None, EmailOf[r])
                  [] r \in Started -> Ask("project", OwnerOf[r], None, None, None)
                  [] OTHER -> Unsent]
    /\ tenant = [r \in Requests |-> IF r \in Started THEN OwnerOf[r] ELSE None]
    /\ reply = [r \in Requests |-> IF r \in Served THEN "ok" ELSE "none"]

-----------------------------------------------------------------------------
(* A request arrives, goes on and is answered.                             *)

Ids(rows) == {x.by : x \in Committed(rows)}
Headers == Ids(tenants) \cup {None}

\* What clients may ask for, with the ids they can know.
Calls ==
    {Ask("register", None, None, None, e) : e \in Emails}
    \cup {Ask("tenant", u, None, None, None) : u \in Ids(users)}
    \cup {Ask("project", u, h, None, None) : u \in Ids(users), h \in Headers}
    \cup {Ask("invite", u, h, p, e) :
            u \in Ids(users), h \in Headers, p \in Ids(projects), e \in Emails}
    \cup {Ask("task", u, h, p, None) : u \in Ids(users), h \in Headers, p \in Ids(projects)}
    \cup {Ask("update", u, h, t, None) : u \in Ids(users), h \in Headers, t \in Ids(tasks) \cup {None}}

\* The first await of each route: its guards come before its service.
FirstAwait(op) ==
    CASE op = "register" -> "user"
      [] op = "tenant" -> "tenant"
      [] OTHER -> "context"

Send(r) ==
    /\ at[r] = "unsent"
    /\ \E call \in Calls :
         /\ ask' = [ask EXCEPT ![r] = call]
         /\ at' = [at EXCEPT ![r] = FirstAwait(call.op)]
    /\ UNCHANGED <<tables, committed, tenant, reply>>

Goto(r, next) ==
    /\ at' = [at EXCEPT ![r] = next]
    /\ UNCHANGED reply

Answer(r, how) ==
    /\ at' = [at EXCEPT ![r] = "answered"]
    /\ reply' = [reply EXCEPT ![r] = how]

\* What the transaction of the request has written is gone.
Rollback(r) ==
    /\ users' = {x \in users : x.by # r}
    /\ tenants' = {x \in tenants : x.by # r}
    /\ tenantMembers' = {x \in tenantMembers : x.by # r}
    /\ projects' = {x \in projects : x.by # r}
    /\ projectMembers' = {x \in projectMembers : x.by # r}
    /\ tasks' = {x \in tasks : x.by # r}

\* Variant: the transaction is not awaited, and its failure goes unnoticed.
AbortUnnoticed(r) ==
    /\ at[r] \in Waiting
    /\ Rollback(r)
    /\ Answer(r, IF at[r] = "commit" THEN "ok" ELSE "error")
    /\ UNCHANGED <<committed, ask, tenant>>

\* A statement fails, the transaction times out or the instance dies.
Abort(r) ==
    /\ at[r] \in Waiting
    /\ Rollback(r)
    /\ Answer(r, "error")
    /\ UNCHANGED <<committed, ask, tenant>>

\* The answer of a commit may be lost.
Commit(r, replied) ==
    /\ at[r] = "commit"
    /\ committed' = committed \cup {r}
    /\ Answer(r, IF replied THEN "ok" ELSE "error")
    /\ UNCHANGED <<tables, ask, tenant>>

-----------------------------------------------------------------------------
(* The guards.                                                             *)

TenantsOf(u) == {m.tenant : m \in {x \in Committed(tenantMembers) : x.user = u}}

AfterContext(op) ==
    CASE op = "project" -> "project"
      [] op = "update" -> "resolve"
      [] OTHER -> "access"

\* Variant: the tenant found without a header is not put into the request.
ForgetTenant(r) ==
    LET mine == TenantsOf(ask[r].user)
        chosen == IF ask[r].header = None THEN mine ELSE mine \cap {ask[r].header}
    IN  /\ at[r] = "context"
        /\ \/ chosen = {} /\ Answer(r, "forbidden") /\ UNCHANGED tenant
           \/ Cardinality(chosen) > 1 /\ Answer(r, "bad_request") /\ UNCHANGED tenant
           \/ /\ Cardinality(chosen) = 1
              /\ tenant' = [tenant EXCEPT ![r] = ask[r].header]
              /\ Goto(r, AfterContext(ask[r].op))
        /\ UNCHANGED <<tables, committed, ask>>

\* TenantContextGuard: the tenant of the header if the user is a member, else the only one.
ResolveTenant(r) ==
    LET mine == TenantsOf(ask[r].user)
        chosen == IF ask[r].header = None THEN mine ELSE mine \cap {ask[r].header}
    IN  /\ at[r] = "context"
        /\ \/ chosen = {} /\ Answer(r, "forbidden") /\ UNCHANGED tenant
           \/ Cardinality(chosen) > 1 /\ Answer(r, "bad_request") /\ UNCHANGED tenant
           \/ \E t \in chosen : /\ chosen = {t}
                                /\ tenant' = [tenant EXCEPT ![r] = t]
                                /\ Goto(r, AfterContext(ask[r].op))
        /\ UNCHANGED <<tables, committed, ask>>

\* ProjectAccessGuard.resolveProjectId for /tasks/:id: without a task there is no project to check.
ResolveProject(r) ==
    /\ at[r] = "resolve"
    /\ \/ ask[r].target \in Ids(tasks) /\ Goto(r, "access")
       \/ ask[r].target \notin Ids(tasks) /\ Goto(r, "find")
    /\ UNCHANGED <<tables, committed, ask, tenant>>

\* The project a request is about, and whether it is one of a tenant's.
IsAbout(r, p) ==
    \/ ask[r].op # "update" /\ p.by = ask[r].target
    \/ ask[r].op = "update" /\ \E x \in tasks : x.by = ask[r].target /\ x.project = p.by

InTenant(r) == \E p \in Committed(projects) : IsAbout(r, p) /\ p.tenant = tenant[r]

\* The caller is a member of the project in one of the roles, in the tenant of the request.
Admitted(r, roles) ==
    \E m \in Committed(projectMembers), p \in Committed(projects) :
      /\ IsAbout(r, p)
      /\ p.tenant = tenant[r]
      /\ m.project = p.by /\ m.user = ask[r].user /\ m.role \in roles

AfterAccess(op) ==
    CASE op = "invite" -> "authority"
      [] op = "task" -> "save"
      [] op = "update" -> "find"

\* Variant: a member of the tenant is taken for a member of the project.
CheckTenant(r) ==
    /\ at[r] = "access"
    /\ \/ ~ InTenant(r) /\ Answer(r, "forbidden")
       \/ InTenant(r) /\ Goto(r, AfterAccess(ask[r].op))
    /\ UNCHANGED <<tables, committed, ask, tenant>>

\* ProjectAccessGuard, and RolesGuard, which asks for an owner on the members' route.
CheckAccess(r) ==
    LET roles == IF ask[r].op = "invite" THEN {"owner"} ELSE {"owner", "member"}
    IN  /\ at[r] = "access"
        /\ \/ ~ Admitted(r, roles) /\ Answer(r, "forbidden")
           \/ Admitted(r, roles) /\ Goto(r, AfterAccess(ask[r].op))
        /\ UNCHANGED <<tables, committed, ask, tenant>>

-----------------------------------------------------------------------------
(* POST /auth/register and POST /tenants.                                  *)

\* Variant: the user is created before the transaction.
InsertUserAtOnce(r) ==
    LET rivals == {u \in users : u.email = ask[r].email}
    IN  /\ at[r] = "user"
        /\ rivals = {}
        /\ users' = users \cup {[email |-> ask[r].email, by |-> r]}
        /\ committed' = committed \cup {r}
        /\ Goto(r, "tenant")
        /\ UNCHANGED <<tenants, tenantMembers, projects, projectMembers, tasks, ask, tenant>>

\* Variant: an address that is being registered is refused without waiting for the outcome.
InsertUserNoWait(r) ==
    LET rivals == {u \in users : u.email = ask[r].email}
    IN  /\ at[r] = "user"
        /\ \/ /\ rivals = {}
              /\ users' = users \cup {[email |-> ask[r].email, by |-> r]}
              /\ Goto(r, "tenant")
           \/ /\ rivals # {}
              /\ Answer(r, "conflict")
              /\ UNCHANGED users
        /\ UNCHANGED <<tenants, tenantMembers, projects, projectMembers, tasks,
                       committed, ask, tenant>>

\* The email is unique.
InsertUser(r) ==
    LET rivals == {u \in users : u.email = ask[r].email}
    IN  /\ at[r] = "user"
        /\ \/ /\ rivals = {}
              /\ users' = users \cup {[email |-> ask[r].email, by |-> r]}
              /\ Goto(r, "tenant")
           \/ /\ Committed(rivals) # {}
              /\ Answer(r, "conflict")
              /\ UNCHANGED users
        /\ UNCHANGED <<tenants, tenantMembers, projects, projectMembers, tasks,
                       committed, ask, tenant>>

InsertTenant(r) ==
    /\ at[r] = "tenant"
    /\ tenants' = tenants \cup {[by |-> r]}
    /\ Goto(r, "owner")
    /\ UNCHANGED <<users, tenantMembers, projects, projectMembers, tasks, committed, ask, tenant>>

\* The owner is the caller, or the user that is being registered.
InsertTenantOwner(r) ==
    /\ at[r] = "owner"
    /\ LET caller == IF ask[r].op = "register" THEN r ELSE ask[r].user
       IN  tenantMembers' = tenantMembers \cup {TenantOwner(r, caller)}
    /\ Goto(r, "commit")
    /\ UNCHANGED <<users, tenants, projects, projectMembers, tasks, committed, ask, tenant>>

-----------------------------------------------------------------------------
(* POST /projects and POST /projects/:id/members.                          *)

InsertProject(r) ==
    /\ at[r] = "project"
    /\ projects' = projects \cup {[tenant |-> tenant[r], owner |-> ask[r].user, by |-> r]}
    /\ Goto(r, "lead")
    /\ UNCHANGED <<users, tenants, tenantMembers, projectMembers, tasks, committed, ask, tenant>>

InsertProjectOwner(r) ==
    /\ at[r] = "lead"
    /\ projectMembers' = projectMembers \cup {ProjectMember(r, ask[r].user, "owner", r)}
    /\ Goto(r, "commit")
    /\ UNCHANGED <<users, tenants, tenantMembers, projects, tasks, committed, ask, tenant>>

\* ProjectsService.addMember checks the owner once more.
CheckOwner(r) ==
    /\ at[r] = "authority"
    /\ \/ ~ Admitted(r, {"owner"}) /\ Answer(r, "forbidden")
       \/ Admitted(r, {"owner"}) /\ Goto(r, "invitee")
    /\ UNCHANGED <<tables, committed, ask, tenant>>

\* The users registered with an address: one at most.
Invitees(r) == {u.by : u \in {x \in Committed(users) : x.email = ask[r].email}}

FindInvitee(r) ==
    /\ at[r] = "invitee"
    /\ \/ Invitees(r) = {} /\ Answer(r, "not_found")
       \/ Invitees(r) # {} /\ Goto(r, "upsert")
    /\ UNCHANGED <<tables, committed, ask, tenant>>

\* The rows of the invitee in the tenant and in the project.
Enrolled(r) == {m \in tenantMembers : m.tenant = tenant[r] /\ m.user \in Invitees(r)}
Joined(r) == {m \in projectMembers : m.project = ask[r].target /\ m.user \in Invitees(r)}

\* Variant: the upsert looks for the user alone, and finds them in another tenant.
LookUpsertAnyTenant(r) ==
    LET found == Visible({m \in tenantMembers : m.user \in Invitees(r)}, r)
    IN  /\ at[r] = "upsert"
        /\ \/ found = {} /\ Goto(r, "enrol")
           \/ found # {} /\ Goto(r, "member")
        /\ UNCHANGED <<tables, committed, ask, tenant>>

\* tenantMember.upsert with an empty update is a find and, if there is no row, a create.
LookUpsert(r) ==
    LET found == Visible(Enrolled(r), r)
    IN  /\ at[r] = "upsert"
        /\ \/ found = {} /\ Goto(r, "enrol")
           \/ found # {} /\ Goto(r, "member")
        /\ UNCHANGED <<tables, committed, ask, tenant>>

\* The key is (tenant, user), and every P2002 is answered 409.
Enrol(r) ==
    /\ at[r] = "enrol"
    /\ \/ /\ Enrolled(r) = {}
          /\ tenantMembers' = tenantMembers \cup
               {[tenant |-> tenant[r], user |-> u, role |-> "member", by |-> r] : u \in Invitees(r)}
          /\ Goto(r, "member")
       \/ /\ Committed(Enrolled(r)) # {}
          /\ Answer(r, "conflict")
          /\ UNCHANGED tenantMembers
    /\ UNCHANGED <<users, tenants, projects, projectMembers, tasks, committed, ask, tenant>>

\* Variant: nothing makes (project, user) unique.
InsertMemberNoKey(r) ==
    /\ at[r] = "member"
    /\ projectMembers' = projectMembers \cup
         {ProjectMember(ask[r].target, u, "member", r) : u \in Invitees(r)}
    /\ Goto(r, "commit")
    /\ UNCHANGED <<users, tenants, tenantMembers, projects, tasks, committed, ask, tenant>>

\* The key is (project, user).
InsertMember(r) ==
    /\ at[r] = "member"
    /\ \/ /\ Joined(r) = {}
          /\ projectMembers' = projectMembers \cup
               {ProjectMember(ask[r].target, u, "member", r) : u \in Invitees(r)}
          /\ Goto(r, "commit")
          /\ UNCHANGED <<users, tenants, tenantMembers, projects, tasks>>
       \/ /\ Committed(Joined(r)) # {}
          /\ Rollback(r)
          /\ Answer(r, "conflict")
    /\ UNCHANGED <<committed, ask, tenant>>

-----------------------------------------------------------------------------
(* POST /tasks and PATCH /tasks/:id/status, up to where TaskStatus begins. *)

\* PrismaTaskRepository.save looks for the project in the tenant.
FindProject(r) ==
    /\ at[r] = "save"
    /\ \/ ~ InTenant(r) /\ Answer(r, "error")
       \/ InTenant(r) /\ Goto(r, "task")
    /\ UNCHANGED <<tables, committed, ask, tenant>>

\* One statement, which commits by itself.
InsertTask(r, replied) ==
    /\ at[r] = "task"
    /\ tasks' = tasks \cup {[project |-> ask[r].target, by |-> r]}
    /\ committed' = committed \cup {r}
    /\ Answer(r, IF replied THEN "ok" ELSE "error")
    /\ UNCHANGED <<users, tenants, tenantMembers, projects, projectMembers, ask, tenant>>

\* PrismaTaskRepository.findById reads the task by its id and the tenant of its project.
FindTask(r) ==
    /\ at[r] = "find"
    /\ \/ ~ InTenant(r) /\ Answer(r, "not_found")
       \/ InTenant(r) /\ Answer(r, "ok")
    /\ UNCHANGED <<tables, committed, ask, tenant>>

Serve(r) ==
    \/ ResolveTenant(r) \/ ResolveProject(r) \/ CheckAccess(r)
    \/ InsertUser(r) \/ InsertTenant(r) \/ InsertTenantOwner(r)
    \/ InsertProject(r) \/ InsertProjectOwner(r)
    \/ CheckOwner(r) \/ FindInvitee(r) \/ LookUpsert(r) \/ Enrol(r) \/ InsertMember(r)
    \/ FindProject(r) \/ FindTask(r)
    \/ \E replied \in BOOLEAN : InsertTask(r, replied) \/ Commit(r, replied)

Next == \E r \in Requests : Send(r) \/ Serve(r) \/ Abort(r)

Spec == Init /\ [][Next]_vars

-----------------------------------------------------------------------------
(* Correctness.                                                            *)

Maybe == Requests \cup {None}

\* Every variable has its type; the answers are those the routes give.
TypeOK ==
    /\ users \subseteq [email : Emails, by : Requests]
    /\ tenants \subseteq [by : Requests]
    /\ tenantMembers \subseteq [tenant : Requests, user : Requests, role : {"owner", "member"}, by : Requests]
    /\ projects \subseteq [tenant : Requests, owner : Requests, by : Requests]
    /\ projectMembers \subseteq [project : Requests, user : Requests, role : {"owner", "member"}, by : Requests]
    /\ tasks \subseteq [project : Requests, by : Requests]
    /\ committed \subseteq Requests
    /\ at \in [Requests -> {"unsent", "answered"} \cup Waiting]
    /\ ask \in [Requests -> [op : {"none", "register", "tenant", "project", "invite", "task", "update"}, user : Maybe, header : Maybe,
                             target : Maybe, email : Emails \cup {None}]]
    /\ tenant \in [Requests -> Maybe]
    /\ reply \in [Requests -> {"none", "ok", "bad_request", "forbidden", "not_found", "conflict", "error"}]

\* Whoever is a member of a project, as its owner or by invitation, is a member of its tenant:
\* otherwise TenantContextGuard would keep them out of it (projects.service.ts:60-66).  Of two
\* invitations one may rely on the row the other has written.
MembersWithinTenant ==
    \A m \in Committed(projectMembers) : \E p \in Committed(projects) :
        /\ p.by = m.project
        /\ \E x \in Committed(tenantMembers) : x.tenant = p.tenant /\ x.user = m.user

\* A registered user has an address of their own and a tenant of their own; no failure leaves
\* one that can log in and has no data boundary (auth.service.ts:32-44).
EveryUserHasHome ==
    \A u \in Committed(users) :
        /\ \A v \in Committed(users) : v.email = u.email => v = u
        /\ \E t \in Committed(tenants) : TenantOwner(t.by, u.by) \in Committed(tenantMembers)

\* A user has one role in a project and one in a tenant, and both have one owner: the user who
\* created the project, and for a project one who was a member of the tenant
\* (projects.service.ts:21-29, 62-70).
RolesAreUnambiguous ==
    /\ \A m, n \in Committed(tenantMembers) :
         m.tenant = n.tenant /\ (m.user = n.user \/ (m.role = "owner" /\ n.role = "owner")) => m = n
    /\ \A m, n \in Committed(projectMembers) :
         m.project = n.project /\ (m.user = n.user \/ (m.role = "owner" /\ n.role = "owner")) => m = n
    /\ \A p \in Committed(projects) : ProjectMember(p.by, p.owner, "owner", p.by) \in projectMembers

\* What a request about a project was granted is in the tenant it named, or in the one found for
\* its caller, and the caller was a member of both, or the owner to invite
\* (tenant-context.guard.ts:41-55, project-access.guard.ts:35-50, prisma-task.repository.ts:34-39).
GrantedInTenant ==
    \A r \in Requests : reply[r] = "ok" /\ ask[r].op \in {"invite", "task", "update"} =>
        /\ ask[r].header \in {None, tenant[r]}
        /\ \E p \in Committed(projects), m \in Committed(projectMembers) :
             /\ IsAbout(r, p) /\ p.tenant = tenant[r]
             /\ m.project = p.by /\ m.user = ask[r].user
             /\ ask[r].op = "invite" => m.role = "owner"
        /\ tenant[r] \in TenantsOf(ask[r].user)

Wrote(r) == {x \in users \cup tenants \cup tenantMembers \cup projects \cup projectMembers \cup tasks : x.by = r}

\* A request that was refused has left no row of any table, whichever of its statements was
\* refused, and an address is refused only if another user has it (auth.service.ts:46-54,
\* projects.service.ts:71-79).
RefusalsAreTrue ==
    \A r \in Requests :
        /\ reply[r] \in {"bad_request", "forbidden", "not_found", "conflict"} => Wrote(r) = {}
        /\ reply[r] = "conflict" /\ ask[r].op = "register" =>
             \E u \in Committed(users) : u.email = ask[r].email

\* The tables as they are outside of open transactions, and the requests that have arrived.
Asked == [r \in Requests |-> IF at[r] = "unsent" THEN {} ELSE {ask[r]}]

Atomic == INSTANCE Directory WITH
    users <- Committed(users),
    tenants <- Committed(tenants),
    tenantMembers <- Committed(tenantMembers),
    projects <- Committed(projects),
    projectMembers <- Committed(projectMembers),
    tasks <- Committed(tasks),
    asked <- Asked,
    answer <- reply

\* An invitation finds its user enrolled in the tenant by another invitation since its upsert looked,
\* and is refused as if they were a member of the project, which they are not
\* (projects.service.ts:61, 71-77).
MistakenConflict(r) ==
    /\ Enrol(r)
    /\ Committed(Joined(r)) = {}
    /\ reply'[r] = "conflict"

\* Every request takes effect, or is refused, at one moment: what its guards have seen at earlier
\* awaits still holds then, all of its rows appear together, and the reason of a refusal is true
\* (auth.service.ts:32-54, tenants.service.ts:14-27, tenant-context.guard.ts:33-61,
\* project-access.guard.ts:24-55, projects.service.ts:14-80).  The one refusal whose reason is not
\* true is MistakenConflict: project-membership/spec.md:26-27, 36 has a registered user who is no
\* member of the project be added to it, and refuses members only.
RequestsAreAtomic ==
    /\ Atomic!Init
    /\ [][Atomic!Next \/ \E r \in Requests : MistakenConflict(r)]_(Atomic!vars)
=============================================================================

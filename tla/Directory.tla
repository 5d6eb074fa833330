------------------------------ MODULE Directory ------------------------------
(***************************************************************************)
(* What the service promises about who belongs to what, with no guard,     *)
(* transaction, unique index or open row: every request takes effect at    *)
(* one moment between its arrival and its answer.  At that moment either   *)
(* all that it asks for is allowed, and all of its rows are written        *)
(* together; or the answer names a reason that is true at that moment, and *)
(* nothing is written.  An error may stand for either, but it too is the   *)
(* whole effect or none.                                                   *)
(*                                                                         *)
(* The guards of a request, which read before its transaction begins, are  *)
(* here part of that one moment.  That is sound because nothing that a     *)
(* guard has seen is ever taken back.                                      *)
(*                                                                         *)
(* Membership implements this specification, but for one refusal whose     *)
(* reason is not true (Membership!MistakenConflict).                       *)
(***************************************************************************)
CONSTANTS
    Requests,       \* names for the requests ever made, and for what they create
    Emails,         \* the addresses people register with
    Founders, EmailOf,      \* the users there are before, and their addresses
    Started, OwnerOf,       \* the projects there are before, each in its owner's first tenant
    None

VARIABLES
    users, tenants, tenantMembers, projects, projectMembers, tasks,
    asked,          \* what each request asks for, nothing before it arrives
    answer          \* what each request was answered

vars == <<users, tenants, tenantMembers, projects, projectMembers, tasks, asked, answer>>

Ids(rows) == {x.by : x \in rows}

\* What may be asked for: a request can name only what is there.
Asks == [op : {"register", "tenant", "project", "invite", "task", "update"},
         user : Ids(users) \cup {None},
         header : Ids(tenants) \cup {None},
         target : Ids(projects) \cup Ids(tasks) \cup {None},
         email : Emails \cup {None}]

Served == Founders \cup Started

Init ==
    /\ users = {[email |-> EmailOf[f], by |-> f] : f \in Founders}
    /\ tenants = {[by |-> f] : f \in Founders}
    /\ tenantMembers = {[tenant |-> f, user |-> f, role |-> "owner", by |-> f] : f \in Founders}
    /\ projects = {[tenant |-> OwnerOf[p], owner |-> OwnerOf[p], by |-> p] : p \in Started}
    /\ projectMembers = {[project |-> p, user |-> OwnerOf[p], role |-> "owner", by |-> p] : p \in Started}
    /\ tasks = {}
    /\ asked \in [Requests -> SUBSET Asks]
    /\ \A r \in Requests : asked[r] = {} <=> r \notin Served
    /\ answer = [r \in Requests |-> IF r \in Served THEN "ok" ELSE "none"]

\* A request arrives.  It asks for one thing, and is not asked again.
Arrive(r) ==
    /\ asked[r] = {}
    /\ \E ask \in Asks : asked' = [asked EXCEPT ![r] = {ask}]
    /\ UNCHANGED <<users, tenants, tenantMembers, projects, projectMembers, tasks, answer>>

Answer(r, how) ==
    /\ answer[r] = "none"
    /\ answer' = [answer EXCEPT ![r] = how]
    /\ UNCHANGED asked

-----------------------------------------------------------------------------
(* What a request may rely on.                                             *)

TenantsOf(u) == {m.tenant : m \in {x \in tenantMembers : x.user = u}}

\* The tenants a request may be about: the one it names, or any that its caller is in.
Reach(ask) == IF ask.header = None THEN TenantsOf(ask.user) ELSE TenantsOf(ask.user) \cap {ask.header}

IsAbout(ask, p) ==
    \/ ask.op # "update" /\ p.by = ask.target
    \/ ask.op = "update" /\ \E x \in tasks : x.by = ask.target /\ x.project = p.by

InTenant(ask, t) == \E p \in projects : IsAbout(ask, p) /\ p.tenant = t

\* The project is in the tenant, and the caller is a member of it: its owner, to invite.
Admitted(ask, t) ==
    \E p \in projects, m \in projectMembers :
      /\ IsAbout(ask, p) /\ p.tenant = t
      /\ m.project = p.by /\ m.user = ask.user
      /\ ask.op = "invite" => m.role = "owner"

Invitees(ask) == {u.by : u \in {x \in users : x.email = ask.email}}
Enrolled(t, u) == \E m \in tenantMembers : m.tenant = t /\ m.user = u
Joined(p, u) == \E m \in projectMembers : m.project = p /\ m.user = u

-----------------------------------------------------------------------------
(* The effects, each all at once.                                          *)

\* The tenant is named after the request that founds it.
Found(r, u) ==
    /\ tenants' = tenants \cup {[by |-> r]}
    /\ tenantMembers' = tenantMembers \cup {[tenant |-> r, user |-> u, role |-> "owner", by |-> r]}
    /\ UNCHANGED <<projects, projectMembers, tasks>>

Register(r, ask) ==
    /\ ask.op = "register"
    /\ Invitees(ask) = {}
    /\ users' = users \cup {[email |-> ask.email, by |-> r]}
    /\ Found(r, r)

CreateTenant(r, ask) ==
    /\ ask.op = "tenant"
    /\ ask.user \in Ids(users)
    /\ UNCHANGED users
    /\ Found(r, ask.user)

CreateProject(r, ask) ==
    /\ ask.op = "project"
    /\ \E t \in Reach(ask) :
         projects' = projects \cup {[tenant |-> t, owner |-> ask.user, by |-> r]}
    /\ projectMembers' = projectMembers \cup
         {[project |-> r, user |-> ask.user, role |-> "owner", by |-> r]}
    /\ UNCHANGED <<users, tenants, tenantMembers, tasks>>

\* The invited user becomes a member of the project, and of its tenant if they are not.
Invite(r, ask) ==
    /\ ask.op = "invite"
    /\ \E t \in Reach(ask), u \in Invitees(ask) :
         /\ Admitted(ask, t)
         /\ ~ Joined(ask.target, u)
         /\ tenantMembers' = tenantMembers \cup
              {m \in {[tenant |-> t, user |-> u, role |-> "member", by |-> r]} : ~ Enrolled(t, u)}
         /\ projectMembers' = projectMembers \cup
              {[project |-> ask.target, user |-> u, role |-> "member", by |-> r]}
    /\ UNCHANGED <<users, tenants, projects, tasks>>

CreateTask(r, ask) ==
    /\ ask.op = "task"
    /\ \E t \in Reach(ask) : Admitted(ask, t)
    /\ tasks' = tasks \cup {[project |-> ask.target, by |-> r]}
    /\ UNCHANGED <<users, tenants, tenantMembers, projects, projectMembers>>

\* The request about a task goes on, to where TaskUpdates begins.
Pass(r, ask) ==
    /\ ask.op = "update"
    /\ \E t \in Reach(ask) : Admitted(ask, t)
    /\ UNCHANGED <<users, tenants, tenantMembers, projects, projectMembers, tasks>>

Effect(r, ask) ==
    /\ Register(r, ask) \/ CreateTenant(r, ask) \/ CreateProject(r, ask) \/ Invite(r, ask)
         \/ CreateTask(r, ask) \/ Pass(r, ask)
    /\ Answer(r, "ok") \/ Answer(r, "error")

\* No effect, for a reason that holds now.
Refuse(r, ask) ==
    /\ \/ /\ \/ Reach(ask) = {}
             \/ ask.op \in {"invite", "task", "update"} /\ \E t \in Reach(ask) : ~ Admitted(ask, t)
          /\ Answer(r, "forbidden")
       \/ ask.header = None /\ (\E t, u \in Reach(ask) : t # u) /\ Answer(r, "bad_request")
       \/ /\ \/ ask.op = "invite" /\ Invitees(ask) = {}
             \/ ask.op = "update" /\ \E t \in Reach(ask) : ~ InTenant(ask, t)
          /\ Answer(r, "not_found")
       \/ ask.op = "register" /\ Invitees(ask) # {} /\ Answer(r, "conflict")
       \/ /\ ask.op = "invite"
          /\ \E u \in Invitees(ask) : Joined(ask.target, u)
          /\ Answer(r, "conflict")
       \/ Answer(r, "error")
    /\ UNCHANGED <<users, tenants, tenantMembers, projects, projectMembers, tasks>>

Next ==
    \/ \E r \in Requests : Arrive(r)
    \/ \E r \in Requests : \E ask \in asked[r] : Effect(r, ask) \/ Refuse(r, ask)

Spec == Init /\ [][Next]_vars
=============================================================================

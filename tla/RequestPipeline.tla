--------------------------- MODULE RequestPipeline ---------------------------
(***************************************************************************)
(* One request on its way through the service: guards, interceptor, pipe,  *)
(* handler, exception filter (src/observability, src/app.module.ts), for   *)
(* the health probes (src/health), the login (src/auth) and the list of    *)
(* notifications (src/notifications), which stands for the guarded routes. *)
(*                                                                         *)
(* Nest calls the guards before the interceptor, and the filter whenever   *)
(* anything throws.  An action is the code between two awaits; the code    *)
(* after the last one of them, the log and the answer are one step.        *)
(* Whether the rate limiter refuses a request is the library's business,   *)
(* and which requests the tenant guard refuses is Membership's.  The       *)
(* libraries that hash do not fail on a hash that one of them has made.    *)
(* ServiceProcess says when requests arrive and what becomes of the        *)
(* process.                                                                *)
(***************************************************************************)
EXTENDS Naturals, Sequences

CONSTANTS
    Requests,       \* names for the requests ever made
    Shapes,         \* what they may look like
    PasswordOf,     \* the passwords of the registered addresses
    DummyPassword,  \* what dummyPasswordHash is a hash of
    StoredKinds,    \* the kinds of hashes in the table at the start
    NoHash, NoId

VARIABLES
    req,            \* where each request is, and what it was answered
    stored,         \* users.password_hash by address
    database,       \* "up" or "down"
    phase           \* of the process: see ServiceProcess

Registered == DOMAIN PasswordOf

-----------------------------------------------------------------------------
(* PasswordService.                                                        *)

Hash(kind, password) == [kind |-> kind, of |-> password]

\* Variant: new hashes have other parameters than those needsRehash compares with.
FreshWithOldOptions(password) == Hash("argon2id_old", password)

Fresh(password) == Hash("argon2id", password)

\* Both libraries answer for the hash they know; anything else matches nothing.  That neither of
\* them throws here is an assumption: verify would catch it and answer that nothing matches.
Verify(password, hash) ==
    /\ hash.kind \in {"argon2id", "argon2id_old", "argon2i", "scrypt"}
    /\ hash.of = password

\* Legacy hashes, and those of argon2id with other parameters.
NeedsRehash(hash) == hash.kind \in {"scrypt", "argon2id_old"}

-----------------------------------------------------------------------------
(* The ends of a request.                                                  *)

Unsent ==
    [shape |-> NoId, since |-> NoId, at |-> "unsent", id |-> NoId, header |-> NoId, body |-> NoId,
     status |-> 0, log |-> <<>>, hash |-> NoHash]

InProgress(r) == req[r].at \notin {"unsent", "answered", "dropped"}

Set(r, q) == req' = [req EXCEPT ![r] = q]

Log(q, status) == [q EXCEPT !.log = Append(@, [id |-> q.id, status |-> status])]

\* Variant: an exception that is no HttpException is left to somebody else.
FilterHttpOnly(q, status) ==
    IF status = 500 THEN [q EXCEPT !.at = "hanging"]
    ELSE LET id == IF q.id = NoId THEN "redrawn" ELSE q.id
         IN  [q EXCEPT !.at = "answered", !.status = status, !.header = id, !.body = id, !.hash = NoHash]

\* Variant: the filter draws an id of its own.
FilterWithOwnId(q, status) ==
    [q EXCEPT !.at = "answered", !.status = status, !.header = "redrawn", !.body = "redrawn", !.hash = NoHash]

\* HttpExceptionFilter: the id is the interceptor's, if it came that far.
Filter(q, status) ==
    LET id == IF q.id = NoId THEN "redrawn" ELSE q.id
    IN  [q EXCEPT !.at = "answered", !.status = status, !.header = id, !.body = id, !.hash = NoHash]

\* A handler or a pipe throws: catchError logs, and the filter answers.
Throw(q, status) == Filter(Log(q, status), status)

\* A handler returns: tap logs, and Nest answers.
Return(q, status) == [Log(q, status) EXCEPT !.at = "answered", !.status = status, !.hash = NoHash]

\* A query is answered as the database is.  One that meets $disconnect may fail, or open the
\* pool again.
QuerySucceeds == database = "up"
QueryFails == database = "down" \/ phase \in {"released", "draining", "closing"}

-----------------------------------------------------------------------------
(* Guards.                                                                 *)

Guarded(route) == route = "list"

\* A request reaches the router; no guard and no interceptor belongs to an unknown route.
Route(r, shape) ==
    LET q == [Unsent EXCEPT !.shape = shape, !.since = IF shape.route = "ready" THEN phase ELSE NoId]
    IN  /\ req[r].at = "unsent"
        /\ Set(r, IF shape.route = "unknown" THEN Filter(q, 404) ELSE [q EXCEPT !.at = "throttle"])

\* RequestLoggingInterceptor up to next.handle(): the client's id if it is well-formed.
Intercept(q) ==
    LET id == IF q.shape.traced THEN "client" ELSE "drawn"
    IN  [q EXCEPT !.id = id, !.header = id, !.at = "handler"]

\* ThrottlerGuard; the probes skip it.
Throttle(r) ==
    LET q == req[r]
    IN  /\ q.at = "throttle"
        /\ \/ q.shape.route \notin {"live", "ready"} /\ Set(r, Filter(q, 429))
           \/ Set(r, IF Guarded(q.shape.route) THEN [q EXCEPT !.at = "token"] ELSE Intercept(q))
        /\ UNCHANGED <<stored, database, phase>>

\* JwtAuthGuard: the token is verified, then its user is read; whatever throws is answered 401.
CheckToken(r) ==
    LET q == req[r]
    IN  /\ q.at = "token"
        /\ \/ (~ q.shape.token \/ QueryFails) /\ Set(r, Filter(q, 401))
           \/ q.shape.token /\ QuerySucceeds /\ Set(r, [q EXCEPT !.at = "tenant"])
        /\ UNCHANGED <<stored, database, phase>>

\* TenantContextGuard looks at the header, reads the memberships and catches nothing.
CheckTenant(r) ==
    LET q == req[r]
    IN  /\ q.at = "tenant"
        /\ \/ Set(r, Filter(q, 400))
           \/ QueryFails /\ Set(r, Filter(q, 500))
           \/ QuerySucceeds /\ (Set(r, Filter(q, 403)) \/ Set(r, Intercept(q)))
        /\ UNCHANGED <<stored, database, phase>>

-----------------------------------------------------------------------------
(* Handlers.                                                               *)

Draining == phase \in {"draining", "closing"}

\* ValidationPipe, then the handler up to its first await.
Handle(r) ==
    LET q == req[r]
        route == q.shape.route
    IN  /\ q.at = "handler"
        /\ Set(r, CASE route = "live" -> Return(q, 200)
                    [] route = "ready" -> IF Draining THEN Throw(q, 503) ELSE [q EXCEPT !.at = "probe"]
                    [] route = "list" -> [q EXCEPT !.at = "list"]
                    [] route = "login" -> IF q.shape.valid THEN [q EXCEPT !.at = "find"] ELSE Throw(q, 400))
        /\ UNCHANGED <<stored, database, phase>>

\* Variant: the probe lets the failure of its query through.
ProbeUncaught(r) ==
    /\ req[r].at = "probe"
    /\ \/ QueryFails /\ Set(r, Throw(req[r], 500))
       \/ QuerySucceeds /\ Set(r, Return(req[r], 200))
    /\ UNCHANGED <<stored, database, phase>>

\* HealthService.checkReadiness, back from SELECT 1.
Probe(r) ==
    /\ req[r].at = "probe"
    /\ \/ QueryFails /\ Set(r, Throw(req[r], 503))
       \/ QuerySucceeds /\ Set(r, Return(req[r], 200))
    /\ UNCHANGED <<stored, database, phase>>

\* NotificationsService.listForUser.
List(r) ==
    /\ req[r].at = "list"
    /\ \/ QueryFails /\ Set(r, Throw(req[r], 500))
       \/ QuerySucceeds /\ Set(r, Return(req[r], 200))
    /\ UNCHANGED <<stored, database, phase>>

\* AuthService.login reads the user; an unknown address gets the hash of nobody's password.
FindUser(r) ==
    LET q == req[r]
        hash == IF q.shape.email \in Registered THEN stored[q.shape.email] ELSE Fresh(DummyPassword)
    IN  /\ q.at = "find"
        /\ \/ QueryFails /\ Set(r, Throw(q, 500))
           \/ QuerySucceeds /\ Set(r, [q EXCEPT !.at = "verify", !.hash = hash])
        /\ UNCHANGED <<stored, database, phase>>

\* Variant: only the password is looked at.
CheckVerifiedOnly(r) ==
    LET q == req[r]
    IN  /\ q.at = "verify"
        /\ Set(r, IF Verify(q.shape.password, q.hash) THEN [q EXCEPT !.at = "sign"] ELSE Throw(q, 401))
        /\ UNCHANGED <<stored, database, phase>>

\* Variant: a hash of the old kind is replaced before the password is looked at.
RehashFirst(r) ==
    LET q == req[r]
        known == q.shape.email \in Registered
    IN  /\ q.at = "verify"
        /\ Set(r, CASE known /\ NeedsRehash(q.hash) -> [q EXCEPT !.at = "rehash"]
                    [] known /\ ~ NeedsRehash(q.hash) /\ Verify(q.shape.password, q.hash) -> [q EXCEPT !.at = "sign"]
                    [] OTHER -> Throw(q, 401))
        /\ UNCHANGED <<stored, database, phase>>

\* PasswordService.verify has answered for the hash that was read.
CheckPassword(r) ==
    LET q == req[r]
        accepted == q.shape.email \in Registered /\ Verify(q.shape.password, q.hash)
    IN  /\ q.at = "verify"
        /\ Set(r, CASE ~ accepted -> Throw(q, 401)
                    [] accepted /\ NeedsRehash(q.hash) -> [q EXCEPT !.at = "rehash"]
                    [] OTHER -> [q EXCEPT !.at = "sign"])
        /\ UNCHANGED <<stored, database, phase>>

\* The update takes effect or not, and its answer may be lost: either way the login fails with it.
Rehash(r) ==
    LET q == req[r]
        store == stored' = [stored EXCEPT ![q.shape.email] = Fresh(q.shape.password)]
    IN  /\ q.at = "rehash"
        /\ \/ QuerySucceeds /\ store /\ Set(r, [q EXCEPT !.at = "sign"])
           \/ QueryFails /\ (store \/ UNCHANGED stored) /\ Set(r, Throw(q, 500))
        /\ UNCHANGED <<database, phase>>

\* The token is signed.
Sign(r) ==
    /\ req[r].at = "sign"
    /\ Set(r, Return(req[r], 200))
    /\ UNCHANGED <<stored, database, phase>>

Serve(r) ==
    \/ Throttle(r) \/ CheckToken(r) \/ CheckTenant(r) \/ Handle(r)
    \/ Probe(r) \/ List(r)
    \/ FindUser(r) \/ CheckPassword(r) \/ Rehash(r) \/ Sign(r)
=============================================================================

--------------------------- MODULE ServiceProcess ---------------------------
(***************************************************************************)
(* The life of the service's process: the migration that comes before it,  *)
(* the validation of its environment, the requests it serves, and the      *)
(* order in which Nest shuts it down when it gets a signal.                *)
(*                                                                         *)
(* On a signal Nest calls every onModuleDestroy, the processor's before    *)
(* Prisma's, then every beforeApplicationShutdown, and only then closes    *)
(* the HTTP server, which waits for the requests under way.  Of the        *)
(* processor it knows what ProcessorLife says and ProcessorScheduling      *)
(* implements: its loop runs or not, and its hook knows of the loop or has *)
(* forgotten it (SchedulingDrain.cfg).                                     *)
(***************************************************************************)
EXTENDS RequestPipeline

CONSTANTS
    Environments,   \* what the process may find in its environment
    MaxOutages,     \* bound of the model: how often the database goes down
    MaxStops        \* bound of the model: how often the process is ended

ASSUME ProcessAssumption ==
    /\ StoredKinds \subseteq {"argon2id", "argon2id_old", "argon2i", "scrypt"}
    /\ \A s \in Shapes : /\ s.route \in {"live", "ready", "login", "list", "unknown"}
                         /\ {s.traced, s.token, s.valid} \subseteq BOOLEAN
    /\ NoId \notin Shapes /\ NoId \notin {"client", "drawn", "redrawn"}
    /\ MaxOutages \in Nat
    /\ MaxStops \in Nat

VARIABLES
    environment,    \* the values of the settings
    stopped,        \* the operator has stopped the container, and not started it since
    loop,           \* the processor's loop: see ProcessorLife
    outages, stops

Processor == INSTANCE ProcessorLife

bounds == <<outages, stops>>
outside == <<environment, stopped>>
vars == <<req, stored, database, phase, outside, loop, bounds>>

Init ==
    /\ req = [r \in Requests |-> Unsent]
    /\ \E kinds \in [Registered -> StoredKinds] :
         stored = [e \in Registered |-> Hash(kinds[e], PasswordOf[e])]
    /\ database \in {"up", "down"}
    /\ phase = "off"
    /\ environment \in Environments
    /\ stopped = FALSE
    /\ loop = "none"
    /\ outages = 0
    /\ stops = 0

-----------------------------------------------------------------------------
(* Starting.                                                               *)

Optional == {"THROTTLE_TTL", "THROTTLE_LIMIT"}
Settings == Optional \cup {"DATABASE_URL", "JWT_SECRET", "JWT_ISSUER", "JWT_AUDIENCE", "JWT_ACCESS_TOKEN_TTL"}

\* validateEnvironment.
Accepted(env) ==
    \A s \in Settings : env[s] = "good" \/ (s \in Optional /\ env[s] = "missing")

\* restart: unless-stopped.  The container is started again when its process has ended, unless its
\* operator has stopped it.
Start ==
    /\ phase = "off"
    /\ ~ stopped
    /\ phase' = "migrating"
    /\ UNCHANGED <<req, stored, database, outside, loop, bounds>>

\* The operator starts a container that they have stopped.
OperatorStarts ==
    /\ phase = "off"
    /\ stopped
    /\ stopped' = FALSE
    /\ UNCHANGED <<req, stored, database, phase, environment, loop, bounds>>

\* entrypoint.sh: with set -e a failed migration ends it before node is started.
Migrate ==
    /\ phase = "migrating"
    /\ phase' = IF database = "up" THEN "booting" ELSE "off"
    /\ UNCHANGED <<req, stored, database, outside, loop, bounds>>

\* Variant: validateEnvironment has no defaults.
BootWithoutDefaults ==
    /\ phase = "booting"
    /\ phase' = IF \A s \in Settings : environment[s] = "good" THEN "up" ELSE "off"
    /\ UNCHANGED <<req, stored, database, outside, loop, bounds>>

\* bootstrap(): nothing listens before the environment has been validated and everything is set up.
Boot ==
    /\ phase = "booting"
    /\ phase' = IF Accepted(environment) THEN "up" ELSE "off"
    /\ UNCHANGED <<req, stored, database, outside, loop, bounds>>

-----------------------------------------------------------------------------
(* Serving.                                                                *)

Listening == phase \in {"up", "destroying", "released", "draining"}

Arrive(r) ==
    /\ Listening
    /\ \E shape \in Shapes : Route(r, shape)
    /\ UNCHANGED <<stored, database, phase, outside, loop, bounds>>

ServeHere(r) == Serve(r) /\ UNCHANGED <<outside, loop, bounds>>

\* Variant: a loop that is scheduled starts although the provider is closed.
LoopStartsAnyway ==
    /\ phase \in {"up", "destroying"}
    /\ loop = "none"
    /\ loop' = "awaited"
    /\ UNCHANGED <<req, stored, database, phase, outside, bounds>>

LoopStarts == Processor!LoopStarts /\ UNCHANGED <<req, stored, database, outside, bounds>>

LoopForgotten == Processor!LoopForgotten /\ UNCHANGED <<req, stored, database, outside, bounds>>

LoopEnds == Processor!LoopEnds /\ UNCHANGED <<req, stored, database, outside, bounds>>

DatabaseFails ==
    /\ database = "up"
    /\ outages < MaxOutages
    /\ outages' = outages + 1
    /\ database' = "down"
    /\ UNCHANGED <<req, stored, phase, outside, loop, stops>>

DatabaseReturns ==
    /\ database = "down"
    /\ database' = "up"
    /\ UNCHANGED <<req, stored, phase, outside, loop, bounds>>

-----------------------------------------------------------------------------
(* Stopping.                                                               *)

\* A signal, of the operator who stops the container or of somebody else:
\* NotificationProcessor.onModuleDestroy sets closed.
Signal ==
    /\ Processor!Signal
    /\ stops < MaxStops
    /\ stops' = stops + 1
    /\ stopped' \in BOOLEAN
    /\ UNCHANGED <<req, stored, database, environment, outages>>

\* PrismaService.onModuleDestroy, once the processor has waited for the loop it knows.
ReleasePool ==
    /\ Processor!ReleasePool
    /\ UNCHANGED <<req, stored, database, outside, bounds>>

\* ApplicationLifecycleService.beforeApplicationShutdown.
Drain ==
    /\ phase = "released"
    /\ phase' = "draining"
    /\ UNCHANGED <<req, stored, database, outside, loop, bounds>>

\* The HTTP server takes no more requests.
CloseServer ==
    /\ phase = "draining"
    /\ phase' = "closing"
    /\ UNCHANGED <<req, stored, database, outside, loop, bounds>>

Exit ==
    /\ phase = "closing"
    /\ \A r \in Requests : ~ InProgress(r)
    /\ phase' = "off"
    /\ loop' = "none"
    /\ UNCHANGED <<req, stored, database, outside, bounds>>

\* The process is killed, by the operator or not, or dies: its requests get no answer.
Kill ==
    /\ phase # "off"
    /\ stops < MaxStops
    /\ stops' = stops + 1
    /\ phase' = "off"
    /\ loop' = "none"
    /\ req' = [r \in Requests |-> IF InProgress(r) THEN [req[r] EXCEPT !.at = "dropped", !.hash = NoHash] ELSE req[r]]
    /\ stopped' \in {stopped, TRUE}
    /\ UNCHANGED <<stored, database, environment, outages>>

Next ==
    \/ Start \/ OperatorStarts \/ Migrate \/ Boot
    \/ \E r \in Requests : Arrive(r) \/ ServeHere(r)
    \/ LoopStarts \/ LoopForgotten \/ LoopEnds
    \/ DatabaseFails \/ DatabaseReturns
    \/ Signal \/ ReleasePool \/ Drain \/ CloseServer \/ Exit
    \/ Kill

\* A container that nobody has stopped is restarted, statements are answered, the hooks are called
\* one after the other, and a database that is down comes back.  Nobody has to send requests or
\* signals, or to start what they have stopped, and nothing has to fail.
Fairness ==
    /\ WF_vars(Start) /\ WF_vars(Migrate) /\ WF_vars(Boot)
    /\ WF_vars(LoopEnds) /\ WF_vars(DatabaseReturns)
    /\ WF_vars(ReleasePool) /\ WF_vars(Drain) /\ WF_vars(CloseServer) /\ WF_vars(Exit)
    /\ \A r \in Requests : WF_vars(ServeHere(r))

Spec == Init /\ [][Next]_vars /\ Fairness

-----------------------------------------------------------------------------
(* Correctness.                                                            *)

Ids == {NoId, "client", "drawn", "redrawn"}
Hashes == [kind : {"argon2id", "argon2id_old", "argon2i", "scrypt"},
           of : {PasswordOf[e] : e \in Registered} \cup {DummyPassword} \cup {s.password : s \in Shapes}]

\* Every variable has its type, and every route answers with a code that its guards, its handler or
\* the filter can give it.
TypeOK ==
    /\ DOMAIN req = Requests
    /\ \A r \in Requests :
         /\ req[r].shape \in Shapes \cup {NoId}
         /\ req[r].at \in {"unsent", "throttle", "token", "tenant", "handler", "probe", "list", "find",
                           "verify", "rehash", "sign", "answered", "dropped"}
         /\ {req[r].id, req[r].header, req[r].body} \subseteq Ids
         /\ req[r].hash \in Hashes \cup {NoHash}
         /\ req[r].at = "answered" => req[r].status \in
              CASE req[r].shape.route = "live" -> {200}
                [] req[r].shape.route = "ready" -> {200, 503}
                [] req[r].shape.route = "login" -> {200, 400, 401, 429, 500}
                [] req[r].shape.route = "list" -> {200, 400, 401, 403, 429, 500}
                [] OTHER -> {404}
    /\ stored \in [Registered -> Hashes]
    /\ database \in {"up", "down"}
    /\ phase \in {"off", "migrating", "booting", "up", "destroying", "released", "draining", "closing"}
    /\ environment \in Environments
    /\ stopped \in BOOLEAN
    /\ loop \in {"none", "awaited", "forgotten"}
    /\ outages \in 0 .. MaxOutages
    /\ stops \in 0 .. MaxStops

\* A request that got past its guards is logged once, with the code it is answered with, under the
\* id that its answer carries, and that is the client's own if it was usable; an error says the same
\* id in its body as in its header.  Interceptor and filter each do half of this, and meet only in
\* request.requestId (request-logging.interceptor.ts:28-52, http-exception.filter.ts:21-40).
AnswersAgree ==
    \A r \in Requests : LET q == req[r] IN
        /\ q.at = "answered" =>
             /\ q.id # NoId => q.log = <<[id |-> q.header, status |-> q.status]>>
             /\ q.id # NoId /\ q.shape.traced => q.header = "client"
             /\ q.status >= 400 => q.body = q.header /\ q.header # NoId
        /\ q.at # "answered" => q.log = <<>>

\* A login is accepted only with the password of a registered address, and refused as wrong only
\* without it: never because a statement failed, never because another login was replacing the hash
\* that this one has read (auth.service.ts:57-81).
LoginsAreTrue ==
    \A r \in Requests : LET q == req[r] IN
        q.at = "answered" /\ q.shape.route = "login" =>
            /\ q.status = 200 => q.shape.email \in Registered /\ q.shape.password = PasswordOf[q.shape.email]
            /\ q.status = 401 => q.shape.email \notin Registered \/ q.shape.password # PasswordOf[q.shape.email]

\* Whatever logins do to the stored hashes, side by side, cut short or killed, everybody's password
\* keeps working (auth.service.ts:71-77).
PasswordsKeepWorking == \A e \in Registered : Verify(PasswordOf[e], stored[e])

\* Once a login has been accepted, the hash of its address is up to date and stays so, whatever
\* older logins write that read another one (auth.service.ts:71-77, password.service.ts:17-47).
LoginUpgradesHash ==
    \A r \in Requests : LET q == req[r] IN
        q.at = "answered" /\ q.shape.route = "login" /\ q.status = 200 =>
            ~ NeedsRehash(stored[q.shape.email])

\* Every request is answered, unless the process is killed: also when a query fails, and when the
\* service is stopped meanwhile (http-exception.filter.ts:16-41, main.ts:17).
EveryRequestEnds == \A r \in Requests : InProgress(r) ~> ~ InProgress(r)

\* A signal ends the process: no hook waits for something that may go on for ever
\* (notification.processor.ts:45-52).
SignalEndsProcess == phase = "destroying" ~> phase = "off"

\* With a valid environment a process that has ended is up again some time, whatever the database
\* did, whatever killed the process or sent it a signal, and however often its migration fails,
\* unless its operator has stopped the container
\* (entrypoint.sh:5-6, environment.ts:31-94, compose.production.yaml:32).
ServiceComesBack == Accepted(environment) /\ phase = "off" /\ ~ stopped ~> phase = "up" \/ stopped

-----------------------------------------------------------------------------
(* What the documents say and the code does not do.                        *)

\* changes/shutdown-drain/specs/production-runtime/spec.md: after a signal the process is draining
\* before its modules are destroyed, and the readiness probe stops reporting that it can take
\* requests.  Nest calls beforeApplicationShutdown after all onModuleDestroy.
StoppingIsNotReady ==
    \A r \in Requests : LET q == req[r] IN
        q.at = "answered" /\ q.shape.route = "ready" /\ q.status = 200 => q.since = "up"
=============================================================================

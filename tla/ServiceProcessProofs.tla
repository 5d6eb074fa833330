------------------------ MODULE ServiceProcessProofs ------------------------
(***************************************************************************)
(* Theorems about ServiceProcess, for any requests, shapes of requests,    *)
(* addresses, stored hashes, outages and ends of the process.              *)
(*                                                                         *)
(* The invariant says what the record of a request shows at each await of  *)
(* its way through guards, interceptor and handler.  Only the replacement  *)
(* of a stored hash reaches other requests, and it only improves what they *)
(* rely on.                                                                *)
(***************************************************************************)
EXTENDS ServiceProcess, TLAPS

USE ProcessAssumption

-----------------------------------------------------------------------------
(* Records of requests.                                                    *)

Ats == {"unsent", "throttle", "token", "tenant", "handler", "probe", "list", "find", "verify", "rehash",
        "sign", "answered", "dropped"}

Lines == [id : Ids, status : Nat]

Records ==
    [shape : Shapes \cup {NoId}, since : {NoId, "up", "destroying", "released", "draining"}, at : Ats,
     id : Ids, header : Ids, body : Ids, status : Nat, log : Seq(Lines), hash : Hashes \cup {NoHash}]

At(q, at) == [q EXCEPT !.at = at]

\* Everything but where the request is, and what it has read.
SameAnswer(p, q) ==
    /\ p.shape = q.shape /\ p.since = q.since /\ p.id = q.id /\ p.header = q.header /\ p.body = q.body
    /\ p.status = q.status /\ p.log = q.log

LEMMA AtFields ==
    ASSUME NEW q \in Records, NEW at \in Ats
    PROVE  At(q, at) \in Records /\ At(q, at).at = at /\ SameAnswer(At(q, at), q) /\ At(q, at).hash = q.hash
  BY DEF Records, At, SameAnswer

LEMMA FilterFields ==
    ASSUME NEW q \in Records, NEW status \in Nat
    PROVE  /\ Filter(q, status) \in Records
           /\ Filter(q, status).at = "answered" /\ Filter(q, status).status = status
           /\ Filter(q, status).shape = q.shape /\ Filter(q, status).id = q.id /\ Filter(q, status).log = q.log
           /\ Filter(q, status).header = IF q.id = NoId THEN "redrawn" ELSE q.id
           /\ Filter(q, status).body = Filter(q, status).header
  BY ZenonT(30) DEF Records, Filter, Ids, Ats

Line(q, status) == [id |-> q.id, status |-> status]

LEMMA LogFields ==
    ASSUME NEW q \in Records, NEW status \in Nat, q.log = <<>>
    PROVE  /\ Log(q, status) \in Records
           /\ Log(q, status).log = <<Line(q, status)>>
           /\ Log(q, status).shape = q.shape /\ Log(q, status).id = q.id /\ Log(q, status).header = q.header
           /\ Log(q, status).body = q.body /\ Log(q, status).at = q.at
  <1>1. Line(q, status) \in Lines
    BY DEF Records, Lines, Line
  <1>2. Append(q.log, Line(q, status)) = <<Line(q, status)>> /\ Append(q.log, Line(q, status)) \in Seq(Lines)
    BY <1>1
  <1>3. Log(q, status) = [q EXCEPT !.log = Append(q.log, Line(q, status))]
    BY DEF Log, Line
  <1>4. QED
    BY <1>2, <1>3 DEF Records

LEMMA ThrowFields ==
    ASSUME NEW q \in Records, NEW status \in Nat, q.log = <<>>, q.id # NoId
    PROVE  /\ Throw(q, status) \in Records
           /\ Throw(q, status).at = "answered" /\ Throw(q, status).status = status
           /\ Throw(q, status).shape = q.shape /\ Throw(q, status).id = q.id
           /\ Throw(q, status).log = <<Line(q, status)>>
           /\ Throw(q, status).header = q.id /\ Throw(q, status).body = q.id
  <1> DEFINE z == Log(q, status)
  <1>1. z \in Records /\ z.log = <<Line(q, status)>> /\ z.shape = q.shape /\ z.id = q.id
    BY LogFields
  <1>2. Throw(q, status) = Filter(z, status)
    BY DEF Throw
  <1> HIDE DEF z
  <1>3. /\ Filter(z, status) \in Records
        /\ Filter(z, status).at = "answered" /\ Filter(z, status).status = status
        /\ Filter(z, status).shape = z.shape /\ Filter(z, status).id = z.id /\ Filter(z, status).log = z.log
        /\ Filter(z, status).header = z.id /\ Filter(z, status).body = z.id
    BY <1>1, FilterFields
  <1> QED
    BY <1>1, <1>2, <1>3

LEMMA ReturnFields ==
    ASSUME NEW q \in Records, NEW status \in Nat, q.log = <<>>
    PROVE  /\ Return(q, status) \in Records
           /\ Return(q, status).at = "answered" /\ Return(q, status).status = status
           /\ Return(q, status).shape = q.shape /\ Return(q, status).id = q.id
           /\ Return(q, status).log = <<Line(q, status)>>
           /\ Return(q, status).header = q.header
  <1> DEFINE z == Log(q, status)
  <1>1. z \in Records /\ z.log = <<Line(q, status)>> /\ z.shape = q.shape /\ z.id = q.id /\ z.header = q.header
    BY LogFields
  <1>2. Return(q, status) = [z EXCEPT !.at = "answered", !.status = status, !.hash = NoHash]
    BY DEF Return
  <1> HIDE DEF z
  <1>3. Return(q, status) \in Records
    BY <1>1, <1>2 DEF Records, Ats
  <1>4. /\ Return(q, status).at = "answered" /\ Return(q, status).status = status
        /\ Return(q, status).shape = z.shape /\ Return(q, status).id = z.id
        /\ Return(q, status).log = z.log /\ Return(q, status).header = z.header
    BY <1>1, <1>2 DEF Records
  <1> QED
    BY <1>1, <1>3, <1>4

LEMMA InterceptFields ==
    ASSUME NEW q \in Records
    PROVE  /\ Intercept(q) \in Records
           /\ Intercept(q).at = "handler" /\ Intercept(q).shape = q.shape /\ Intercept(q).log = q.log
           /\ Intercept(q).id = IF q.shape.traced THEN "client" ELSE "drawn"
           /\ Intercept(q).header = Intercept(q).id
  BY ZenonT(30) DEF Records, Intercept, Ids, Ats

-----------------------------------------------------------------------------
(* The invariant.                                                          *)

\* Before the interceptor, and in its care.
Guards == {"throttle", "token", "tenant"}
Handlers == {"handler", "probe", "list", "find", "verify", "rehash", "sign"}

Codes(route) ==
    CASE route = "live" -> {200}
      [] route = "ready" -> {200, 503}
      [] route = "login" -> {200, 400, 401, 429, 500}
      [] route = "list" -> {200, 400, 401, 403, 429, 500}
      [] OTHER -> {404}

\* Only some routes come to an await.
PlaceOK(q) ==
    /\ q.at # "unsent" => q.shape \in Shapes
    /\ q.at \in {"throttle", "handler"} => q.shape.route # "unknown"
    /\ q.at \in {"token", "tenant", "list"} => q.shape.route = "list"
    /\ q.at = "probe" => q.shape.route = "ready"
    /\ q.at \in {"find", "verify", "rehash", "sign"} => q.shape.route = "login"

\* The interceptor gives the request its id.
IdOK(q) ==
    /\ q.at \in Guards => q.id = NoId
    /\ q.at \in Handlers => q.id # NoId /\ q.header = q.id /\ (q.shape.traced => q.id = "client")
    /\ q.at # "answered" => q.log = <<>>

AnswerOK(q) ==
    q.at = "answered" =>
      /\ q.status \in Codes(q.shape.route)
      /\ q.id # NoId => q.log = <<[id |-> q.header, status |-> q.status]>>
      /\ q.id # NoId /\ q.shape.traced => q.header = "client"
      /\ q.status >= 400 => q.body = q.header /\ q.header # NoId

Right(q) == q.shape.email \in Registered /\ q.shape.password = PasswordOf[q.shape.email]

\* What a login knows of its address, whose stored hash may have been replaced meanwhile.
LoginOK(q, hashes) ==
    /\ q.at = "verify" /\ q.shape.email \in Registered =>
         /\ Verify(PasswordOf[q.shape.email], q.hash)
         /\ ~ NeedsRehash(q.hash) => ~ NeedsRehash(hashes[q.shape.email])
    /\ q.at \in {"rehash", "sign"} => Right(q)
    /\ q.at = "sign" => ~ NeedsRehash(hashes[q.shape.email])
    /\ q.at = "answered" /\ q.shape.route = "login" =>
         /\ q.status = 200 => Right(q) /\ ~ NeedsRehash(hashes[q.shape.email])
         /\ q.status = 401 => ~ Right(q)

ReqOK(q, hashes) == q \in Records /\ PlaceOK(q) /\ IdOK(q) /\ AnswerOK(q) /\ LoginOK(q, hashes)

StoredOK ==
    /\ stored \in [Registered -> Hashes]
    /\ \A e \in Registered : Verify(PasswordOf[e], stored[e])

ProcessOK ==
    /\ database \in {"up", "down"}
    /\ phase \in {"off", "migrating", "booting", "up", "destroying", "released", "draining", "closing"}
    /\ environment \in Environments
    /\ stopped \in BOOLEAN
    /\ loop \in {"none", "awaited", "forgotten"}
    /\ outages \in 0 .. MaxOutages
    /\ stops \in 0 .. MaxStops

Inv ==
    /\ req \in [Requests -> Records]
    /\ \A r \in Requests : ReqOK(req[r], stored)
    /\ StoredOK /\ ProcessOK

\* The three ends of a request.
LEMMA Refused ==
    ASSUME NEW q, ReqOK(q, stored), q.at \in Guards, NEW status \in Codes(q.shape.route), status >= 400,
           q.shape.route = "login" => status # 401
    PROVE  ReqOK(Filter(q, status), stored)
  <1>1. q \in Records /\ q.id = NoId /\ q.shape \in Shapes /\ status \in Nat
    BY DEF ReqOK, IdOK, PlaceOK, Codes, Guards
  <1> DEFINE z == Filter(q, status)
  <1>2. /\ z \in Records /\ z.at = "answered" /\ z.status = status /\ z.shape = q.shape /\ z.id = NoId
        /\ z.header = "redrawn" /\ z.body = "redrawn"
    BY <1>1, FilterFields
  <1> HIDE DEF z
  <1>3. PlaceOK(z) /\ IdOK(z) /\ AnswerOK(z)
    BY <1>1, <1>2 DEF PlaceOK, IdOK, AnswerOK, Guards, Handlers
  <1>4. LoginOK(z, stored)
    BY <1>1, <1>2 DEF LoginOK
  <1>5. QED
    BY <1>2, <1>3, <1>4 DEF ReqOK, z

LEMMA Thrown ==
    ASSUME NEW q, ReqOK(q, stored), q.at \in Handlers, NEW status \in Codes(q.shape.route), status >= 400,
           q.shape.route = "login" /\ status = 401 => ~ Right(q)
    PROVE  ReqOK(Throw(q, status), stored)
  <1>1. /\ q \in Records /\ q.log = <<>> /\ q.id # NoId /\ q.shape \in Shapes /\ status \in Nat
        /\ q.shape.traced => q.id = "client"
    BY DEF ReqOK, IdOK, PlaceOK, Codes, Handlers
  <1> DEFINE z == Throw(q, status)
  <1>2. /\ z \in Records /\ z.at = "answered" /\ z.status = status /\ z.shape = q.shape /\ z.id = q.id
        /\ z.log = <<Line(q, status)>> /\ z.header = q.id /\ z.body = q.id
    BY <1>1, ThrowFields
  <1> HIDE DEF z
  <1>3. PlaceOK(z) /\ IdOK(z) /\ AnswerOK(z)
    BY <1>1, <1>2 DEF PlaceOK, IdOK, AnswerOK, Line, Guards, Handlers
  <1>4. LoginOK(z, stored)
    BY <1>1, <1>2 DEF LoginOK, Right
  <1>5. QED
    BY <1>2, <1>3, <1>4 DEF ReqOK, z

LEMMA Returned ==
    ASSUME NEW q, ReqOK(q, stored), q.at \in Handlers, 200 \in Codes(q.shape.route),
           q.shape.route = "login" => q.at = "sign"
    PROVE  ReqOK(Return(q, 200), stored)
  <1>1. /\ q \in Records /\ q.log = <<>> /\ q.id # NoId /\ q.shape \in Shapes /\ q.header = q.id
        /\ q.shape.traced => q.id = "client"
        /\ q.at = "sign" => Right(q) /\ ~ NeedsRehash(stored[q.shape.email])
    BY DEF ReqOK, IdOK, PlaceOK, LoginOK, Handlers
  <1> DEFINE z == Return(q, 200)
  <1>2. /\ z \in Records /\ z.at = "answered" /\ z.status = 200 /\ z.shape = q.shape /\ z.id = q.id
        /\ z.log = <<Line(q, 200)>> /\ z.header = q.header
    BY <1>1, ReturnFields
  <1> HIDE DEF z
  <1>3. PlaceOK(z) /\ IdOK(z) /\ AnswerOK(z)
    BY <1>1, <1>2 DEF PlaceOK, IdOK, AnswerOK, Line, Guards, Handlers
  <1>4. LoginOK(z, stored)
    BY <1>1, <1>2 DEF LoginOK, Right
  <1>5. QED
    BY <1>2, <1>3, <1>4 DEF ReqOK, z

\* A request that goes on.
LEMMA GoesOn ==
    ASSUME NEW q, ReqOK(q, stored), NEW at \in Guards \cup Handlers,
           (q.at \in Guards /\ at \in Guards) \/ (q.at \in Handlers /\ at \in Handlers),
           NEW z \in Records, z.at = at, SameAnswer(z, q), PlaceOK(z), LoginOK(z, stored)
    PROVE  ReqOK(z, stored)
  BY DEF ReqOK, IdOK, AnswerOK, SameAnswer, Guards, Handlers

LEMMA Intercepted ==
    ASSUME NEW q, ReqOK(q, stored), q.at \in Guards
    PROVE  ReqOK(Intercept(q), stored)
  <1>1. q \in Records /\ q.log = <<>> /\ q.shape \in Shapes /\ q.shape.route # "unknown"
    BY DEF ReqOK, IdOK, PlaceOK, Guards
  <1> DEFINE z == Intercept(q)
  <1>2. /\ z \in Records /\ z.at = "handler" /\ z.shape = q.shape /\ z.log = <<>>
        /\ z.id = IF q.shape.traced THEN "client" ELSE "drawn"
        /\ z.header = z.id
    BY <1>1, InterceptFields
  <1> HIDE DEF z
  <1>3. PlaceOK(z) /\ IdOK(z) /\ AnswerOK(z) /\ LoginOK(z, stored)
    BY <1>1, <1>2 DEF PlaceOK, IdOK, AnswerOK, LoginOK, Guards, Handlers
  <1>4. QED
    BY <1>2, <1>3 DEF ReqOK, z

-----------------------------------------------------------------------------
(* The steps of a request.                                                 *)

\* A step of r that stores no hash leaves r's record as the invariant asks.
Fine(r) == \E z : Set(r, z) /\ ReqOK(z, stored)

LEMMA RouteFine ==
    ASSUME Inv, NEW r \in Requests, NEW shape \in Shapes, Listening, Route(r, shape)
    PROVE  Fine(r)
  <1> DEFINE since == IF shape.route = "ready" THEN phase ELSE NoId
             q == [Unsent EXCEPT !.shape = shape, !.since = since]
  <1>1. since \in {NoId, "up", "destroying", "released", "draining"}
    BY DEF Listening
  <1>2. /\ q \in Records /\ q.at = "unsent" /\ q.shape = shape /\ q.id = NoId /\ q.log = <<>>
    <2>1. Unsent \in Records /\ Unsent.at = "unsent" /\ Unsent.id = NoId /\ Unsent.log = <<>>
      <3>1. <<>> \in Seq(Lines)
        OBVIOUS
      <3>2. QED
        BY <3>1 DEF Unsent, Records, Ats, Ids
    <2>2. ASSUME NEW u \in Records, NEW w \in {NoId, "up", "destroying", "released", "draining"}
          PROVE  LET v == [u EXCEPT !.shape = shape, !.since = w]
                 IN  v \in Records /\ v.at = u.at /\ v.shape = shape /\ v.id = u.id /\ v.log = u.log
      BY DEF Records
    <2> HIDE DEF since
    <2>3. QED
      BY <1>1, <2>1, <2>2, ZenonT(30)
  <1>3. Set(r, IF shape.route = "unknown" THEN Filter(q, 404) ELSE At(q, "throttle"))
    BY DEF Route, At
  <1> HIDE DEF q
  <1>4. CASE shape.route = "unknown"
    <2> DEFINE z == Filter(q, 404)
    <2>1. /\ z \in Records /\ z.at = "answered" /\ z.status = 404 /\ z.shape = shape /\ z.id = NoId
          /\ z.header = "redrawn" /\ z.body = "redrawn"
      BY <1>2, FilterFields
    <2>2. Set(r, z)
      BY <1>3, <1>4
    <2> HIDE DEF z
    <2>3. ReqOK(z, stored)
      BY <1>4, <2>1 DEF ReqOK, PlaceOK, IdOK, AnswerOK, LoginOK, Codes, Guards, Handlers
    <2>4. QED
      BY <2>2, <2>3 DEF Fine
  <1>5. CASE shape.route # "unknown"
    <2> DEFINE z == At(q, "throttle")
    <2>1. z \in Records /\ z.at = "throttle" /\ z.shape = shape /\ z.id = NoId /\ z.log = <<>>
      BY <1>2, AtFields DEF SameAnswer, Ats
    <2>2. Set(r, z)
      BY <1>3, <1>5
    <2> HIDE DEF z
    <2>3. ReqOK(z, stored)
      BY <1>5, <2>1 DEF ReqOK, PlaceOK, IdOK, AnswerOK, LoginOK, Guards, Handlers
    <2>4. QED
      BY <2>2, <2>3 DEF Fine
  <1>6. QED
    BY <1>4, <1>5

\* A request that goes on to another await, with what it has read.
LEMMA AtFine ==
    ASSUME NEW q, ReqOK(q, stored), NEW at \in Guards \cup Handlers,
           (q.at \in Guards /\ at \in Guards) \/ (q.at \in Handlers /\ at \in Handlers),
           PlaceOK(At(q, at)), LoginOK(At(q, at), stored)
    PROVE  ReqOK(At(q, at), stored)
  <1>1. at \in Ats /\ q \in Records
    BY DEF Guards, Handlers, Ats, ReqOK
  <1>2. At(q, at) \in Records /\ At(q, at).at = at /\ SameAnswer(At(q, at), q)
    BY <1>1, AtFields
  <1>3. QED
    BY <1>2, GoesOn

LEMMA GuardsFine ==
    ASSUME Inv, NEW r \in Requests, Throttle(r) \/ CheckToken(r) \/ CheckTenant(r)
    PROVE  Fine(r)
  <1> DEFINE q == req[r]
  <1>0. ReqOK(q, stored) /\ q.at \in Guards /\ q.shape \in Shapes /\ q \in Records
    BY DEF Throttle, CheckToken, CheckTenant, Inv, ReqOK, PlaceOK, Guards
  <1>1. CASE Throttle(r)
    <2>1. /\ q.at = "throttle" /\ q.shape.route # "unknown"
          /\ \/ q.shape.route \notin {"live", "ready"} /\ Set(r, Filter(q, 429))
             \/ q.shape.route = "list" /\ Set(r, At(q, "token"))
             \/ Set(r, Intercept(q))
      BY <1>0, <1>1 DEF Throttle, Guarded, At, ReqOK, PlaceOK
    <2> HIDE DEF q
    <2>2. CASE q.shape.route \notin {"live", "ready"} /\ Set(r, Filter(q, 429))
      <3>1. 429 \in Codes(q.shape.route)
        BY <1>0, <2>1, <2>2 DEF Codes
      <3>2. QED
        BY <1>0, <2>2, <3>1, Refused DEF Fine
    <2>3. CASE q.shape.route = "list" /\ Set(r, At(q, "token"))
      <3>1. At(q, "token").at = "token" /\ SameAnswer(At(q, "token"), q)
        BY <1>0, AtFields DEF Ats
      <3>2. PlaceOK(At(q, "token")) /\ LoginOK(At(q, "token"), stored)
        BY <1>0, <2>3, <3>1 DEF PlaceOK, LoginOK, SameAnswer
      <3>3. QED
        <4>1. ReqOK(At(q, "token"), stored)
          BY <1>0, <3>2, AtFine DEF Guards
        <4>2. QED
          BY <2>3, <4>1 DEF Fine
    <2>4. CASE Set(r, Intercept(q)) /\ q.shape.route # "unknown"
      BY <1>0, <2>4, Intercepted DEF Fine
    <2>5. QED
      BY <2>1, <2>2, <2>3, <2>4
  <1>2. CASE CheckToken(r)
    <2>1. /\ q.at = "token" /\ q.shape.route = "list"
          /\ \/ Set(r, Filter(q, 401))
             \/ Set(r, At(q, "tenant"))
      BY <1>0, <1>2 DEF CheckToken, At, ReqOK, PlaceOK
    <2> HIDE DEF q
    <2>2. CASE Set(r, Filter(q, 401))
      <3>1. 401 \in Codes(q.shape.route)
        BY <2>1 DEF Codes
      <3>2. QED
        BY <1>0, <2>1, <2>2, <3>1, Refused DEF Fine
    <2>3. CASE Set(r, At(q, "tenant"))
      <3>1. At(q, "tenant").at = "tenant" /\ SameAnswer(At(q, "tenant"), q)
        BY <1>0, AtFields DEF Ats
      <3>2. PlaceOK(At(q, "tenant")) /\ LoginOK(At(q, "tenant"), stored)
        BY <1>0, <2>1, <3>1 DEF PlaceOK, LoginOK, SameAnswer
      <3>3. QED
        <4>1. ReqOK(At(q, "tenant"), stored)
          BY <1>0, <3>2, AtFine DEF Guards
        <4>2. QED
          BY <2>3, <4>1 DEF Fine
    <2>4. QED
      BY <2>1, <2>2, <2>3
  <1>3. CASE CheckTenant(r)
    <2>1. /\ q.at = "tenant" /\ q.shape.route = "list"
          /\ \/ \E status \in {400, 403, 500} : Set(r, Filter(q, status))
             \/ Set(r, Intercept(q))
      BY <1>0, <1>3 DEF CheckTenant, ReqOK, PlaceOK
    <2> HIDE DEF q
    <2>2. {400, 403, 500} \subseteq Codes(q.shape.route)
      BY <2>1 DEF Codes
    <2>3. QED
      BY <1>0, <2>1, <2>2, Refused, Intercepted DEF Fine
  <1>4. QED
    BY <1>1, <1>2, <1>3

LEMMA HandleFine ==
    ASSUME Inv, NEW r \in Requests, Handle(r)
    PROVE  Fine(r)
  <1> DEFINE q == req[r]
  <1>0. /\ ReqOK(q, stored) /\ q.at = "handler" /\ q.shape \in Shapes /\ q \in Records
        /\ q.shape.route \in {"live", "ready", "list", "login"}
    BY DEF Handle, Inv, ReqOK, PlaceOK
  <1>1. \/ q.shape.route = "live" /\ Set(r, Return(q, 200))
        \/ q.shape.route = "ready" /\ Set(r, Throw(q, 503))
        \/ q.shape.route = "ready" /\ Set(r, At(q, "probe"))
        \/ q.shape.route = "list" /\ Set(r, At(q, "list"))
        \/ q.shape.route = "login" /\ Set(r, At(q, "find"))
        \/ q.shape.route = "login" /\ Set(r, Throw(q, 400))
    BY <1>0 DEF Handle, At
  <1> HIDE DEF q
  <1>2. ASSUME NEW at \in {"probe", "list", "find"}, PlaceOK(q), Set(r, At(q, at)),
               at = "probe" => q.shape.route = "ready",
               at = "list" => q.shape.route = "list",
               at = "find" => q.shape.route = "login"
        PROVE  Fine(r)
    <2>1. At(q, at).at = at /\ SameAnswer(At(q, at), q)
      BY <1>0, AtFields DEF Ats
    <2>2. PlaceOK(At(q, at)) /\ LoginOK(At(q, at), stored)
      BY <1>0, <1>2, <2>1 DEF PlaceOK, LoginOK, SameAnswer
    <2>3. QED
      BY <1>0, <1>2, <2>2, AtFine DEF Fine, Handlers
  <1>3. CASE Set(r, Return(q, 200)) /\ q.shape.route = "live"
    BY <1>0, <1>3, Returned DEF Fine, Codes, Handlers
  <1>4. CASE q.shape.route = "ready" /\ Set(r, Throw(q, 503))
    BY <1>0, <1>4, Thrown DEF Fine, Codes, Handlers
  <1>5. CASE q.shape.route = "login" /\ Set(r, Throw(q, 400))
    BY <1>0, <1>5, Thrown DEF Fine, Codes, Handlers
  <1>6. QED
    BY <1>0, <1>1, <1>2, <1>3, <1>4, <1>5 DEF ReqOK

LEMMA QueriesFine ==
    ASSUME Inv, NEW r \in Requests, Probe(r) \/ List(r)
    PROVE  Fine(r)
  <1> DEFINE q == req[r]
  <1>0. ReqOK(q, stored)
    BY DEF Inv
  <1>1. \/ q.at = "probe" /\ q.shape.route = "ready" /\ Set(r, Throw(q, 503))
        \/ q.at = "probe" /\ q.shape.route = "ready" /\ Set(r, Return(q, 200))
        \/ q.at = "list" /\ q.shape.route = "list" /\ Set(r, Throw(q, 500))
        \/ q.at = "list" /\ q.shape.route = "list" /\ Set(r, Return(q, 200))
    BY <1>0 DEF Probe, List, ReqOK, PlaceOK
  <1> HIDE DEF q
  <1>2. QED
    BY <1>0, <1>1, Thrown, Returned DEF Fine, Codes, Handlers

LEMMA FindUserFine ==
    ASSUME Inv, NEW r \in Requests, FindUser(r)
    PROVE  Fine(r)
  <1> DEFINE q == req[r]
             hash == IF q.shape.email \in Registered THEN stored[q.shape.email] ELSE Fresh(DummyPassword)
             z == [q EXCEPT !.at = "verify", !.hash = hash]
  <1>0. /\ ReqOK(q, stored) /\ q \in Records /\ q.at = "find" /\ q.shape.route = "login"
        /\ Set(r, Throw(q, 500)) \/ Set(r, z)
    BY DEF Inv, FindUser, ReqOK, PlaceOK
  <1>1. /\ hash \in Hashes
        /\ q.shape.email \in Registered =>
             /\ Verify(PasswordOf[q.shape.email], hash)
             /\ hash = stored[q.shape.email]
    BY DEF Inv, StoredOK, Fresh, Hash, Hashes
  <1> HIDE DEF hash
  <1>2. z \in Records /\ z.at = "verify" /\ z.hash = hash /\ SameAnswer(z, q)
    BY <1>0, <1>1 DEF Records, SameAnswer, Ats
  <1> HIDE DEF q, z
  <1>3. PlaceOK(z) /\ LoginOK(z, stored)
    BY <1>0, <1>1, <1>2 DEF ReqOK, PlaceOK, LoginOK, SameAnswer
  <1>4. ReqOK(z, stored)
    BY <1>0, <1>2, <1>3, GoesOn DEF Handlers
  <1>5. QED
    BY <1>0, <1>4, Thrown DEF Fine, Codes, Handlers

LEMMA CheckPasswordFine ==
    ASSUME Inv, NEW r \in Requests, CheckPassword(r)
    PROVE  Fine(r)
  <1> DEFINE q == req[r]
             accepted == q.shape.email \in Registered /\ Verify(q.shape.password, q.hash)
  <1>0. ReqOK(q, stored) /\ q \in Records /\ q.at = "verify" /\ q.shape.route = "login"
    BY DEF Inv, CheckPassword, ReqOK, PlaceOK
  <1>1. \/ ~ accepted /\ Set(r, Throw(q, 401))
        \/ accepted /\ Set(r, At(q, "rehash"))
        \/ accepted /\ ~ NeedsRehash(q.hash) /\ Set(r, At(q, "sign"))
    BY DEF CheckPassword, At
  <1>2. /\ q.shape.email \in Registered => Verify(PasswordOf[q.shape.email], q.hash)
        /\ q.shape.email \in Registered /\ ~ NeedsRehash(q.hash) => ~ NeedsRehash(stored[q.shape.email])
    BY <1>0 DEF ReqOK, LoginOK
  <1> HIDE DEF q
  <1>3. accepted <=> Right(q)
    BY <1>2 DEF Right, Verify
  <1> HIDE DEF accepted
  <1>4. CASE ~ accepted /\ Set(r, Throw(q, 401))
    BY <1>0, <1>3, <1>4, Thrown DEF Fine, Codes, Handlers
  <1>5. ASSUME NEW at \in {"rehash", "sign"}, accepted, at = "sign" => ~ NeedsRehash(q.hash), Set(r, At(q, at))
        PROVE  Fine(r)
    <2>1. At(q, at).at = at /\ SameAnswer(At(q, at), q)
      BY <1>0, AtFields DEF Ats
    <2>2. Right(q) /\ (at = "sign" => ~ NeedsRehash(stored[q.shape.email]))
      BY <1>2, <1>3, <1>5 DEF Right
    <2>3. PlaceOK(At(q, at)) /\ LoginOK(At(q, at), stored)
      BY <1>0, <2>1, <2>2 DEF ReqOK, PlaceOK, LoginOK, Right, SameAnswer
    <2>4. QED
      BY <1>0, <1>5, <2>3, AtFine DEF Fine, Handlers
  <1>6. QED
    BY <1>1, <1>4, <1>5

LEMMA SignFine ==
    ASSUME Inv, NEW r \in Requests, Sign(r)
    PROVE  Fine(r)
  <1> DEFINE q == req[r]
  <1>0. ReqOK(q, stored) /\ q.at = "sign" /\ q.shape.route = "login" /\ Set(r, Return(q, 200))
    BY DEF Inv, Sign, ReqOK, PlaceOK
  <1> HIDE DEF q
  <1>1. QED
    BY <1>0, Returned DEF Fine, Codes, Handlers

-----------------------------------------------------------------------------
(* What is stored.                                                         *)

\* Hashes that are up to date stay so, and every password goes on working.
Improves ==
    /\ stored' \in [Registered -> Hashes]
    /\ \A e \in Registered : /\ Verify(PasswordOf[e], stored'[e])
                             /\ ~ NeedsRehash(stored[e]) => ~ NeedsRehash(stored'[e])

LEMMA Keeps ==
    ASSUME Improves, NEW q, ReqOK(q, stored)
    PROVE  ReqOK(q, stored')
  BY DEF Improves, ReqOK, LoginOK, Right

\* A login stores a hash of its own password, which is the address's.
LEMMA RehashOK ==
    ASSUME Inv, NEW r \in Requests, Rehash(r)
    PROVE  /\ Improves
           /\ \E z : Set(r, z) /\ ReqOK(z, stored')
  <1> DEFINE q == req[r]
             email == q.shape.email
             store == stored' = [stored EXCEPT ![email] = Fresh(q.shape.password)]
  <1>0. /\ ReqOK(q, stored) /\ q \in Records /\ q.at = "rehash" /\ q.shape.route = "login"
        /\ email \in Registered /\ q.shape.password = PasswordOf[email]
        /\ StoredOK
    BY DEF Inv, Rehash, ReqOK, PlaceOK, LoginOK, Right
  <1>1. \/ store /\ Set(r, At(q, "sign"))
        \/ (store \/ UNCHANGED stored) /\ Set(r, Throw(q, 500))
    BY DEF Rehash, At
  <1>2. Fresh(q.shape.password) \in Hashes /\ ~ NeedsRehash(Fresh(q.shape.password))
        /\ Verify(PasswordOf[email], Fresh(q.shape.password))
    BY <1>0 DEF Fresh, Hash, Hashes, NeedsRehash, Verify
  <1> HIDE DEF q, email
  <1>3. ASSUME store
        PROVE  Improves /\ ~ NeedsRehash(stored'[email])
    <2>1. /\ stored' \in [Registered -> Hashes]
          /\ \A e \in Registered : stored'[e] = IF e = email THEN Fresh(q.shape.password) ELSE stored[e]
      BY <1>0, <1>2, <1>3 DEF StoredOK
    <2>2. QED
      BY <1>0, <1>2, <2>1 DEF StoredOK, Improves
  <1>4. Improves
    BY <1>0, <1>1, <1>3 DEF StoredOK, Improves
  <1>5. CASE store /\ Set(r, At(q, "sign"))
    <2> DEFINE z == At(q, "sign")
    <2>1. z \in Records /\ z.at = "sign" /\ SameAnswer(z, q)
      BY <1>0, AtFields DEF Ats
    <2>2. Right(z) /\ ~ NeedsRehash(stored'[z.shape.email])
      BY <1>0, <1>3, <1>5, <2>1 DEF Right, SameAnswer, email
    <2>3. Set(r, z)
      BY <1>5
    <2> HIDE DEF z
    <2>4. PlaceOK(z) /\ IdOK(z) /\ AnswerOK(z)
      BY <1>0, <2>1 DEF ReqOK, PlaceOK, IdOK, AnswerOK, SameAnswer, Guards, Handlers
    <2>5. ReqOK(z, stored')
      BY <2>1, <2>2, <2>4 DEF ReqOK, LoginOK
    <2>6. QED
      BY <1>4, <2>3, <2>5
  <1>6. CASE Set(r, Throw(q, 500))
    <2>1. 500 \in Codes(q.shape.route) /\ q.at \in Handlers
      BY <1>0 DEF Codes, Handlers
    <2>2. ReqOK(Throw(q, 500), stored)
      BY <1>0, <2>1, Thrown
    <2>3. ReqOK(Throw(q, 500), stored')
      BY <1>4, <2>2, Keeps
    <2>4. QED
      BY <1>4, <1>6, <2>3
  <1>7. QED
    BY <1>1, <1>5, <1>6

-----------------------------------------------------------------------------
(* The theorems.                                                           *)

RequestsOK == req \in [Requests -> Records] /\ \A r \in Requests : ReqOK(req[r], stored)

\* One request moves, and what is stored is at least as good as before.
LEMMA OneMoves ==
    ASSUME Inv, Improves, NEW r \in Requests, NEW z, Set(r, z), ReqOK(z, stored')
    PROVE  RequestsOK' /\ StoredOK'
  <1>1. z \in Records /\ req' = [req EXCEPT ![r] = z] /\ req \in [Requests -> Records]
    BY DEF Set, ReqOK, Inv
  <1>2. /\ req' \in [Requests -> Records] /\ req'[r] = z
        /\ \A k \in Requests \ {r} : req'[k] = req[k]
    BY <1>1
  <1>3. \A k \in Requests : ReqOK(req'[k], stored')
    BY <1>2, Keeps DEF Inv
  <1>4. QED
    BY <1>2, <1>3 DEF RequestsOK, StoredOK, Improves

LEMMA Unstored ==
    ASSUME Inv, UNCHANGED stored
    PROVE  Improves
  BY DEF Inv, StoredOK, Improves

LEMMA RequestsNext ==
    ASSUME Inv, [Next]_vars
    PROVE  RequestsOK' /\ StoredOK'
  <1>1. CASE UNCHANGED <<req, stored>>
    BY <1>1 DEF Inv, RequestsOK, StoredOK
  <1>2. ASSUME NEW r \in Requests, Fine(r), UNCHANGED stored
        PROVE  RequestsOK' /\ StoredOK'
    <2>1. PICK z : Set(r, z) /\ ReqOK(z, stored)
      BY <1>2 DEF Fine
    <2>2. QED
      BY <1>2, <2>1, Unstored, OneMoves
  <1>3. ASSUME NEW r \in Requests, Arrive(r)
        PROVE  RequestsOK' /\ StoredOK'
    BY <1>2, <1>3, RouteFine DEF Arrive
  <1>4. ASSUME NEW r \in Requests, ServeHere(r)
        PROVE  RequestsOK' /\ StoredOK'
    <2>1. CASE Rehash(r)
      <3>1. PICK z : Set(r, z) /\ ReqOK(z, stored')
        BY <2>1, RehashOK
      <3>2. QED
        BY <2>1, <3>1, RehashOK, OneMoves
    <2>2. CASE Throttle(r) \/ CheckToken(r) \/ CheckTenant(r)
      BY <1>2, <2>2, GuardsFine DEF Throttle, CheckToken, CheckTenant
    <2>3. CASE Handle(r)
      BY <1>2, <2>3, HandleFine DEF Handle
    <2>4. CASE Probe(r) \/ List(r)
      BY <1>2, <2>4, QueriesFine DEF Probe, List
    <2>5. CASE FindUser(r)
      BY <1>2, <2>5, FindUserFine DEF FindUser
    <2>6. CASE CheckPassword(r)
      BY <1>2, <2>6, CheckPasswordFine DEF CheckPassword
    <2>7. CASE Sign(r)
      BY <1>2, <2>7, SignFine DEF Sign
    <2>8. QED
      BY <1>4, <2>1, <2>2, <2>3, <2>4, <2>5, <2>6, <2>7 DEF ServeHere, Serve
  <1>5. CASE Kill
    <2>1. ASSUME NEW q, ReqOK(q, stored), q.at \notin {"unsent", "answered", "dropped"}
          PROVE  ReqOK([q EXCEPT !.at = "dropped", !.hash = NoHash], stored)
      <3> DEFINE z == [q EXCEPT !.at = "dropped", !.hash = NoHash]
      <3>1. z \in Records /\ z.at = "dropped" /\ SameAnswer(z, q)
        BY <2>1 DEF ReqOK, Records, SameAnswer, Ats
      <3> HIDE DEF z
      <3>2. ReqOK(z, stored)
        BY <2>1, <3>1 DEF ReqOK, PlaceOK, IdOK, AnswerOK, LoginOK, SameAnswer, Guards, Handlers
      <3>3. QED
        BY <3>2 DEF z
    <2>2. ASSUME NEW r \in Requests
          PROVE  ReqOK(IF InProgress(r) THEN [req[r] EXCEPT !.at = "dropped", !.hash = NoHash] ELSE req[r], stored)
      BY <2>1 DEF Inv, InProgress
    <2>3. /\ req' = [r \in Requests |-> IF InProgress(r) THEN [req[r] EXCEPT !.at = "dropped", !.hash = NoHash]
                                                         ELSE req[r]]
          /\ UNCHANGED stored
      BY <1>5 DEF Kill
    <2>4. \A r \in Requests : ReqOK(req'[r], stored')
      BY <2>2, <2>3
    <2>5. req' \in [Requests -> Records]
      BY <2>3, <2>4 DEF ReqOK
    <2>6. QED
      BY <2>3, <2>4, <2>5 DEF Inv, RequestsOK, StoredOK
  <1>6. QED
    BY <1>1, <1>3, <1>4, <1>5
       DEF Next, vars, Start, OperatorStarts, Migrate, Boot, LoopStarts, LoopForgotten, LoopEnds, DatabaseFails,
           DatabaseReturns, Signal, ReleasePool, Drain, CloseServer, Exit

LEMMA ProcessNext ==
    ASSUME Inv, [Next]_vars
    PROVE  ProcessOK'
  <1>0. ProcessOK
    BY DEF Inv
  <1>1. CASE UNCHANGED <<database, phase, outside, loop, bounds>>
    BY <1>0, <1>1 DEF ProcessOK, outside, bounds
  <1>2. ASSUME NEW r \in Requests, Arrive(r) \/ ServeHere(r)
        PROVE  UNCHANGED <<database, phase, outside, loop, bounds>>
    BY <1>2
       DEF Arrive, ServeHere, Serve, Throttle, CheckToken, CheckTenant, Handle, Probe, List, FindUser,
           CheckPassword, Rehash, Sign
  <1>3. CASE Start \/ OperatorStarts \/ Migrate \/ Boot \/ LoopStarts \/ LoopForgotten \/ LoopEnds
    BY <1>0, <1>3
       DEF Start, OperatorStarts, Migrate, Boot, LoopStarts, LoopForgotten, LoopEnds, ProcessOK, outside, bounds,
           Processor!LoopStarts, Processor!LoopForgotten, Processor!LoopEnds
  <1>4. CASE DatabaseFails \/ DatabaseReturns
    BY <1>0, <1>4 DEF DatabaseFails, DatabaseReturns, ProcessOK, outside, bounds
  <1>5. CASE Signal \/ Kill
    <2>1. /\ stops < MaxStops /\ stops' = stops + 1
          /\ phase' \in {"destroying", "off"} /\ loop' \in {loop, "none"}
          /\ stopped' \in {stopped, TRUE, FALSE}
          /\ UNCHANGED <<database, environment, outages>>
      BY <1>5 DEF Signal, Kill, Processor!Signal
    <2>2. stops' \in 0 .. MaxStops
      BY <1>0, <2>1 DEF ProcessOK
    <2>3. QED
      BY <1>0, <2>1, <2>2 DEF ProcessOK
  <1>6. CASE ReleasePool \/ Drain \/ CloseServer \/ Exit
    BY <1>0, <1>6 DEF ReleasePool, Drain, CloseServer, Exit, ProcessOK, outside, bounds, Processor!ReleasePool
  <1>7. CASE UNCHANGED vars
    BY <1>1, <1>7 DEF vars
  <1>8. QED
    BY <1>1, <1>2, <1>3, <1>4, <1>5, <1>6, <1>7 DEF Next

LEMMA InitInv == Init => Inv
  <1> SUFFICES ASSUME Init PROVE Inv
    OBVIOUS
  <1>1. Unsent \in Records /\ Unsent.at = "unsent" /\ Unsent.log = <<>>
    <2>1. <<>> \in Seq(Lines)
      OBVIOUS
    <2>2. QED
      BY <2>1 DEF Unsent, Records, Ats, Ids
  <1>2. ReqOK(Unsent, stored)
    BY <1>1 DEF ReqOK, PlaceOK, IdOK, AnswerOK, LoginOK, Guards, Handlers
  <1>3. PICK kinds \in [Registered -> StoredKinds] : stored = [e \in Registered |-> Hash(kinds[e], PasswordOf[e])]
    BY DEF Init
  <1>4. ASSUME NEW e \in Registered
        PROVE  Hash(kinds[e], PasswordOf[e]) \in Hashes /\ Verify(PasswordOf[e], Hash(kinds[e], PasswordOf[e]))
    <2>1. kinds[e] \in {"argon2id", "argon2id_old", "argon2i", "scrypt"}
      BY <1>3
    <2>2. QED
      BY <2>1 DEF Hash, Hashes, Verify
  <1>5. StoredOK
    BY <1>3, <1>4 DEF StoredOK
  <1>6. ProcessOK
    <2>1. stopped \in BOOLEAN
      BY DEF Init
    <2>2. outages \in 0 .. MaxOutages /\ stops \in 0 .. MaxStops
      BY DEF Init
    <2>3. QED
      BY <2>1, <2>2 DEF Init, ProcessOK
  <1>7. QED
    BY <1>1, <1>2, <1>5, <1>6 DEF Init, Inv

LEMMA Invariance == Spec => []Inv
  <1>1. Inv /\ [Next]_vars => Inv'
    BY RequestsNext, ProcessNext DEF Inv, RequestsOK
  <1>2. QED
    BY InitInv, <1>1, PTL DEF Spec

\* Every variable keeps its type, and every answer has a code that its route can be given.
THEOREM TypeCorrect == Spec => []TypeOK
  <1>1. ASSUME Inv
        PROVE  TypeOK
    <2>1. ASSUME NEW r \in Requests
          PROVE  /\ req[r].shape \in Shapes \cup {NoId}
                 /\ req[r].at \in Ats
                 /\ {req[r].id, req[r].header, req[r].body} \subseteq Ids
                 /\ req[r].hash \in Hashes \cup {NoHash}
                 /\ req[r].at = "answered" => req[r].status \in Codes(req[r].shape.route)
      BY <1>1 DEF Inv, ReqOK, Records, AnswerOK
    <2>2. QED
      BY <1>1, <2>1 DEF Inv, StoredOK, ProcessOK, TypeOK, Ats, Codes
  <1>2. QED
    BY Invariance, <1>1, PTL

\* Log, header and body of an answer agree, whatever threw and wherever the request came to its end.
THEOREM AnswersAgreeAlways == Spec => []AnswersAgree
  <1>1. ASSUME Inv
        PROVE  AnswersAgree
    BY <1>1 DEF Inv, ReqOK, IdOK, AnswerOK, AnswersAgree
  <1>2. QED
    BY Invariance, <1>1, PTL

\* Logins are accepted with the right password only, and refused as wrong only without it.
THEOREM LoginsAreTrueAlways == Spec => []LoginsAreTrue
  <1>1. ASSUME Inv
        PROVE  LoginsAreTrue
    BY <1>1 DEF Inv, ReqOK, LoginOK, Right, LoginsAreTrue
  <1>2. QED
    BY Invariance, <1>1, PTL

\* Everybody's password keeps working.
THEOREM PasswordsKeepWorkingAlways == Spec => []PasswordsKeepWorking
  <1>1. Inv => PasswordsKeepWorking
    BY DEF Inv, StoredOK, PasswordsKeepWorking
  <1>2. QED
    BY Invariance, <1>1, PTL

\* After an accepted login the hash of its address is up to date, and stays so.
THEOREM LoginUpgradesHashAlways == Spec => []LoginUpgradesHash
  <1>1. ASSUME Inv
        PROVE  LoginUpgradesHash
    BY <1>1 DEF Inv, ReqOK, LoginOK, LoginUpgradesHash
  <1>2. QED
    BY Invariance, <1>1, PTL
=============================================================================

-------------------------- MODULE MCServiceProcess --------------------------
(* Small instances of ServiceProcess for TLC.                              *)
EXTENDS ServiceProcess

CONSTANTS r1, r2

OneRequest == {r1}
TwoRequests == {r1, r2}

MCPasswordOf == [known |-> "right"]

Shape(route, traced, token, valid, email, password) ==
    [route |-> route, traced |-> traced, token |-> token, valid |-> valid, email |-> email, password |-> password]

Plain(route) == Shape(route, FALSE, FALSE, TRUE, "none", "none")

\* The right password, a wrong one, the dummy's for an address nobody has, and no valid payload.
Logins ==
    {Shape("login", TRUE, FALSE, TRUE, "known", "right"),
     Shape("login", FALSE, FALSE, TRUE, "known", "wrong"),
     Shape("login", FALSE, FALSE, TRUE, "unknown", "dummy"),
     Shape("login", FALSE, FALSE, FALSE, "none", "none")}

Probes == {Plain("ready")}

MCShapes ==
    Logins \cup Probes \cup {Plain("live"), Plain("unknown"),
     Shape("list", TRUE, TRUE, TRUE, "none", "none"),
     Shape("list", FALSE, FALSE, TRUE, "none", "none")}

Good == [s \in Settings |-> "good"]
MCEnvironments ==
    {[Good EXCEPT !["THROTTLE_TTL"] = "missing"],
     [Good EXCEPT !["JWT_SECRET"] = "missing"],
     [Good EXCEPT !["THROTTLE_LIMIT"] = "bad"]}
=============================================================================

--------------------------- MODULE MCMembership ---------------------------
(* Small instances of Membership: two users, projects of the first, more requests. *)
EXTENDS Membership, TLC

CONSTANTS f1, f2, MCStarted, e1, e2, e3, NewRequests

MCRequests == {f1, f2} \cup MCStarted \cup NewRequests
MCFounders == {f1, f2}
MCEmails == {e1, e2, e3}
MCEmailOf == (f1 :> e1) @@ (f2 :> e2)
MCOwnerOf == [p \in MCStarted |-> f1]

\* The names of the requests to come mean nothing.
Symmetry == Permutations(NewRequests)
=============================================================================

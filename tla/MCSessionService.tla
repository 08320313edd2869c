-------------------------- MODULE MCSessionService --------------------------
(* Two pods, a session id chosen by clients, three requests. *)
EXTENDS SessionService, TLC

CONSTANTS r1, r2, r3, p1, p2

ThreeRequests == {r1, r2, r3}
TwoPods == {p1, p2}
Symmetry == Permutations(Requests) \union Permutations(Pods)
=============================================================================

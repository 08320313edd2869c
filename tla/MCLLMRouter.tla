---------------------------- MODULE MCLLMRouter -----------------------------
(* A small instance of LLMRouter for TLC: three concurrent requests. *)
EXTENDS LLMRouter

CONSTANTS r1, r2, r3

MCRequests == {r1, r2, r3}
=============================================================================

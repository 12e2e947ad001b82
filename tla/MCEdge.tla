------------------------------- MODULE MCEdge -------------------------------
(* Edge for TLC: a good token, and tokens with one fault each.             *)
EXTENDS Edge

Good == [segments |-> 3, alg |-> "HS256", signed |-> TRUE, payload |-> "json",
         expired |-> FALSE, sub |-> "alice"]

GoodAndFaulty ==
    {Good,
     [Good EXCEPT !.segments = 2],
     [Good EXCEPT !.alg = "none"],
     [Good EXCEPT !.signed = FALSE],
     [Good EXCEPT !.expired = TRUE]}
=============================================================================

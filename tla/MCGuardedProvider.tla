------------------------- MODULE MCGuardedProvider -------------------------
(* GuardedProvider for TLC: the calls are interchangeable.                 *)
EXTENDS GuardedProvider, TLC

Interchangeable == Permutations(Calls)
=============================================================================

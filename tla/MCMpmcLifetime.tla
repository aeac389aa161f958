--------------------------- MODULE MCMpmcLifetime ---------------------------
(* Two threads, a and b, with two variables each.                          *)
EXTENDS MpmcLifetime, TLC

CONSTANTS a, b, a1, a2, b1, b2

Owners == (a1 :> a) @@ (a2 :> a) @@ (b1 :> b) @@ (b2 :> b)
Addresses == Permutations(Chans)
=============================================================================

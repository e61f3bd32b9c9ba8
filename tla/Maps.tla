--------------------------------- MODULE Maps ---------------------------------
(***************************************************************************)
(* Functions put together from pairs, as in the module TLC: with           *)
(* definitions that proofs can use.                                        *)
(***************************************************************************)
x :> y == [z \in {x} |-> y]

\* The first function wins.
Merged(f, g) == [z \in DOMAIN f \cup DOMAIN g |-> IF z \in DOMAIN f THEN f[z] ELSE g[z]]
f @@ g == Merged(f, g)
=============================================================================

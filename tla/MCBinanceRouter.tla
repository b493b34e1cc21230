-------------------------- MODULE MCBinanceRouter --------------------------
(* Two paths; the first may carry every stream but x.                      *)
EXTENDS BinanceRouter, TLC

CONSTANTS a, b, c, d, x

MCPaths  == <<"public", "market">>
MCPathOf == [n \in Names |-> IF n = x THEN "market" ELSE "public"]
Symmetry == Permutations(Names \ {x})
=============================================================================

---------------------------- MODULE MCKalshiBook ----------------------------
(* KalshiBook with its constants given values.                             *)
EXTENDS KalshiBook, TLC

CONSTANTS m1, m2

Symmetry == Permutations({m1, m2})

OneChannel  == <<"book">>
TwoChannels == <<"book", "trade">>
=============================================================================

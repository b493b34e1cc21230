---------------------------- MODULE MCKalshiSend ----------------------------
(* Small instances of KalshiSend for TLC.                                  *)
EXTENDS KalshiSend

CONSTANTS s1, s2, costsRoute, limitsRoute, market

MCTwoSends == {s1, s2}

MCRoutes == {costsRoute, limitsRoute, market}

=============================================================================

-------------------------- MODULE MCCapacityBucket --------------------------
(* A small instance of CapacityBucket for TLC.                             *)
EXTENDS CapacityBucket

CONSTANTS p1, p2

\* Two calls.
MCCallers == {p1, p2}

=============================================================================

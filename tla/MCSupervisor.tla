---------------------------- MODULE MCSupervisor ----------------------------
(* Small instances of Supervisor for TLC.                                  *)
EXTENDS Supervisor

CONSTANTS c1, c2

\* Two changes: c1 is recorded during an outage, c2 is held for the next
\* connection.
MCChanges == {c1, c2}
MCRecordable == {c1}

=============================================================================

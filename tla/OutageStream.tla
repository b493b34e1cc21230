---------------------------- MODULE OutageStream ----------------------------
(***************************************************************************)
(* What a Supervisor promises the reader of its stream, with no task, no   *)
(* queue and no command in sight: a log of items that a connection's life  *)
(* writes and the reader reads in order.  Documented at the struct         *)
(* Supervisor and the struct Supervised (supervisor/mod.rs:330-375,        *)
(* 491-497).                                                               *)
(***************************************************************************)
EXTENDS Naturals, Sequences

CONSTANTS
  Declares,  (* whether outages are announced, or only their ends           *)
  MaxBatch   (* events one frame may carry                                  *)

VARIABLES
  phase,   (* "up", "down" in an outage, "ended" once nothing more is written *)
  log,     (* every item written                                            *)
  read,    (* what the reader has read of it                                *)
  open     (* the reader still holds the stream                             *)

vars == <<phase, log, read, open>>

Marker == IF Declares THEN <<"down">> ELSE <<>>

Write(kinds) ==
  log' = log \o [i \in 1..Len(kinds) |->
                   [kind |-> kinds[i], at |-> Len(log) + i]]

\* What one frame brings: events, or an error the stream survives.
Batches ==
  (UNION {[1..n -> {"event"}] : n \in 0..MaxBatch}) \cup {<<"skipped">>}

Init ==
  /\ \/ phase = "up" /\ log = <<>>
     \/ /\ phase = "down"
        /\ log = [i \in 1..Len(Marker) |-> [kind |-> Marker[i], at |-> i]]
  /\ read = <<>>
  /\ open = TRUE

\* A live connection writes what it receives, `batch`.
Receive(batch) ==
  /\ phase = "up" /\ phase' = "up"
  /\ Write(batch)

\* It is lost after `batch`: the outage is announced.
Lose(batch) ==
  /\ phase = "up" /\ phase' = "down"
  /\ Write(batch \o Marker)

\* It is lost, and nothing is left to reconnect for.
LoseUnwanted ==
  /\ phase = "up" /\ phase' = "ended"
  /\ Write(Marker \o <<"up">>)

\* The outage ends with a connection, or with nothing left to connect for.
Recover ==
  /\ phase = "down" /\ phase' \in {"up", "ended"}
  /\ Write(<<"up">>)

\* The stream ends on an error, yielded last.
Stop(batch) ==
  /\ phase = "up" \/ (phase = "down" /\ batch = <<>>)
  /\ phase' = "ended"
  /\ Write(Append(batch, "stop"))

\* It ends with no error: nothing is left to be connected for, or nobody is
\* left to read.
End ==
  /\ phase = "up" \/ (phase = "down" /\ ~open)
  /\ phase' = "ended"
  /\ UNCHANGED log

ReadNext ==
  /\ open
  /\ Len(read) < Len(log)
  /\ read' = Append(read, log[Len(read) + 1])
  /\ UNCHANGED <<phase, log, open>>

Drop ==
  /\ open
  /\ open' = FALSE
  /\ UNCHANGED <<phase, log, read>>

Next ==
  \/ /\ \/ \E batch \in Batches :
             Receive(batch) \/ Lose(batch) \/ Stop(batch)
        \/ LoseUnwanted \/ Recover \/ End
     /\ UNCHANGED <<read, open>>
  \/ ReadNext
  \/ Drop

Spec == Init /\ [][Next]_vars

\* A reader that keeps reading reaches every item, until it leaves.
FairSpec == Spec /\ WF_vars(ReadNext)

=============================================================================

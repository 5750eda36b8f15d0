--------------------------- MODULE CommandService ---------------------------
(***************************************************************************)
(* What the command engine promises its application (include/at.h): up to  *)
(* Capacity commands wait in the order in which they were accepted; the    *)
(* oldest is written, and only then answered; its callback is called once, *)
(* with a status that fits how far it got; and it leaves the queue, making *)
(* room for another and letting the next one be written, when its callback *)
(* returns. What a callback may do in between is send.                     *)
(***************************************************************************)
EXTENDS Integers, Sequences

CONSTANTS Capacity, NoCall

VARIABLES
  next,     \* the command accepted next
  pending,  \* commands accepted, the oldest first
  phase,    \* how far the oldest has got
  told      \* the callback in progress, for which command and with which status

svars == <<next, pending, phase, told>>

Phases == {"queued", "writing", "sent", "body"}

\* What a callback can say of a command, by how far it has got.
Says(p) ==
  CASE p = "queued" -> {"ABORTED"}
    [] p \in {"writing", "body"} -> {"IO"}
    [] p = "sent" -> {"OK", "ERROR", "TIMEOUT", "ABORTED"}

Init == next = 1 /\ pending = <<>> /\ phase = "queued" /\ told = NoCall

Accept ==
  /\ Len(pending) < Capacity
  /\ pending' = Append(pending, next) /\ next' = next + 1
  /\ UNCHANGED <<phase, told>>

Write ==
  /\ pending # <<>> /\ told = NoCall
  /\ \/ phase = "queued" /\ phase' = "writing"
     \/ phase = "writing" /\ phase' = "sent"
     \/ phase = "sent" /\ phase' = "body"
     \/ phase = "body" /\ phase' = "sent"
  /\ UNCHANGED <<next, pending, told>>

Complete ==
  /\ pending # <<>> /\ told = NoCall
  /\ \E s \in Says(phase) : told' = [id |-> Head(pending), status |-> s]
  /\ UNCHANGED <<next, pending, phase>>

Return ==
  /\ told # NoCall
  /\ pending' = Tail(pending) /\ phase' = "queued" /\ told' = NoCall
  /\ UNCHANGED next

Next == Accept \/ Write \/ Complete \/ Return

Spec == Init /\ [][Next]_svars
=============================================================================

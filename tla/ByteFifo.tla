------------------------------ MODULE ByteFifo ------------------------------
(***************************************************************************)
(* What the receive ring promises its two users: at_feed (the producer)    *)
(* sees a bounded FIFO that accepts a byte whenever fewer than Capacity    *)
(* are waiting and refuses it, losing it, otherwise; at_process (the       *)
(* consumer) gets the accepted bytes in order, each once.                  *)
(*                                                                         *)
(* A reset flushes the FIFO. It takes time: bytes offered while it runs    *)
(* may be refused whatever the occupancy, and the reset either keeps all   *)
(* that it accepted meanwhile or loses all of it.                          *)
(***************************************************************************)
EXTENDS Naturals, Sequences

CONSTANTS Bytes, Capacity, NoByte

VARIABLES
  fifo,       \* accepted and not yet delivered, oldest first
  refused,    \* the last offer was refused
  got,        \* the byte delivered last
  flushing    \* "no", or what the running reset does to new bytes

fvars == <<fifo, refused, got, flushing>>

Init ==
  /\ fifo = <<>>
  /\ refused = FALSE
  /\ got = NoByte
  /\ flushing = "no"

Accept(b) ==
  /\ flushing # "lose"
  /\ Len(fifo) < Capacity
  /\ fifo' = Append(fifo, b)
  /\ refused' = FALSE
  /\ UNCHANGED <<got, flushing>>

Refuse ==
  /\ flushing = "no" => Len(fifo) = Capacity
  /\ refused' = TRUE
  /\ UNCHANGED <<fifo, got, flushing>>

AcceptAndLose ==
  /\ flushing = "lose"
  /\ refused' = FALSE
  /\ UNCHANGED <<fifo, got, flushing>>

Deliver ==
  /\ flushing = "no"
  /\ fifo # <<>>
  /\ got' = Head(fifo)
  /\ fifo' = Tail(fifo)
  /\ UNCHANGED <<refused, flushing>>

FlushBegin ==
  /\ flushing = "no"
  /\ fifo' = <<>>
  /\ flushing' \in {"keep", "lose"}
  /\ UNCHANGED <<refused, got>>

FlushEnd ==
  /\ flushing # "no"
  /\ flushing' = "no"
  /\ UNCHANGED <<fifo, refused, got>>

Next ==
  \/ \E b \in Bytes : Accept(b)
  \/ Refuse \/ AcceptAndLose \/ Deliver \/ FlushBegin \/ FlushEnd

Spec == Init /\ [][Next]_fvars
=============================================================================

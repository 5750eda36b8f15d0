------------------------------ MODULE SmsOutbox ------------------------------
(***************************************************************************)
(* What at_gsm_send_long does to a message as a whole, of the way from the *)
(* caller to the modem: it is accepted at most once, with all its parts in *)
(* the queue, and the modem is handed the text of accepted messages only.  *)
(* What a receiver makes of the parts is outside.                          *)
(***************************************************************************)
CONSTANT Messages

VARIABLES
  accepted,   \* messages all parts of which have been queued
  handedOver  \* the texts the modem has taken all parts of

Init == accepted = {} /\ handedOver = {}

Accept(m) == m \notin accepted /\ accepted' = accepted \cup {m} /\ UNCHANGED handedOver

HandOver(m) ==
  /\ m \in accepted \ handedOver
  /\ handedOver' = handedOver \cup {m} /\ UNCHANGED accepted

Next == \E m \in Messages : Accept(m) \/ HandOver(m)

Spec == Init /\ [][Next]_<<accepted, handedOver>>
=============================================================================

------------------------------- MODULE SmsLong -------------------------------
(***************************************************************************)
(* at_gsm_send_long of src/src/at_gsm.c over the engine's command queue,   *)
(* one part per step: the split into parts, the loop that queues them and  *)
(* gives up at the first refusal, and which of them the modem takes.       *)
(*                                                                         *)
(* The engine (AtEngine) is its queue here. Between two parts it may       *)
(* dequeue, and other commands may be queued: at_process and other senders *)
(* run in other tasks, as ARCHITECTURE.md has it. A part of a text is the  *)
(* range of characters it is cut from, with the numbers in its header.     *)
(* That range is what send_concat_part hands to its encoder: what becomes  *)
(* of it in the PDU, and whether a receiver can read that, is SmsPdu's     *)
(* subject (it cannot: PartReadsBack), and nothing here is about it.       *)
(***************************************************************************)
EXTENDS Integers, Sequences, FiniteSets

CONSTANTS
  SingleMax,  \* GSM7_SINGLE_MAX
  ConcatMax,  \* GSM7_CONCAT_MAX
  PartWidth,  \* 2^8, the values of a part number
  MaxParts,   \* AT_GSM_MAX_PARTS: longer texts are outside the contract
  Depth,      \* AT_CFG_CMD_QUEUE_DEPTH
  Messages,   \* [ref, len, valid]: no two with the same reference; not valid
              \* when the number or a character of the text is refused
  MaxUsed     \* bound: messages sent in a behaviour

ASSUME SplitAssumption ==
  /\ ConcatMax \in Nat \ {0} /\ SingleMax \in Nat /\ ConcatMax <= SingleMax
  /\ MaxParts \in Nat /\ PartWidth \in Nat /\ MaxParts < PartWidth
  /\ SingleMax <= MaxParts * ConcatMax
ASSUME DepthAssumption == Depth \in Nat \ {0} /\ MaxUsed \in Nat
ASSUME MessagesAssumption ==
  /\ \A m \in Messages : m.len \in Nat /\ m.valid \in BOOLEAN
  /\ \A m1, m2 \in Messages : m1.ref = m2.ref => m1 = m2

VARIABLES
  queue,     \* commands in the engine's queue: parts, and others
  call,      \* the call in progress: its message, number of parts, next part
  returned,  \* what the last call for a message returned
  queued,    \* history: the parts of a message queued so far
  taken      \* history: the parts of a message whose commands ended with AT_OK

vars == <<queue, call, returned, queued, taken>>

-----------------------------------------------------------------------------
\* Slip: the remainder gets no part of its own.
PartCountFloor(len) == IF len <= SingleMax THEN 1 ELSE (len \div ConcatMax) % PartWidth
\* A narrow type: beyond its values the count starts again.
at_gsm_part_count(len) ==
  IF len <= SingleMax THEN 1 ELSE ((len + ConcatMax - 1) \div ConcatMax) % PartWidth

\* Slip: parts begin where those without a header would.
OffsetSingle(i) == i * SingleMax
Offset(i) == i * ConcatMax

Lesser(a, b) == IF a < b THEN a ELSE b
Part(m, total, i) ==
  [m |-> m, total |-> total, part |-> i + 1, from |-> Offset(i),
   to |-> Offset(i) + Lesser(m.len - Offset(i), ConcatMax)]
WholeText(m) == [m |-> m, total |-> 1, part |-> 1, from |-> 0, to |-> m.len]

NoPart == [total |-> 0]   \* another command
NoCall == [n |-> 0, i |-> 0]

\* Slip: off by one.
FullLoose == Len(queue) > Depth
Full == Len(queue) >= Depth

Init ==
  /\ queue = <<>> /\ call = NoCall
  /\ returned = [m \in Messages |-> "none"]
  /\ queued = [m \in Messages |-> {}]
  /\ taken = [m \in Messages |-> {}]

\* at_send of one part.
Enqueue(p) == queue' = Append(queue, p) /\ queued' = [queued EXCEPT ![p.m] = @ \cup {p}]

Return(m, rc) == returned' = [returned EXCEPT ![m] = rc]

\* The call, by a user who tries again only after AT_ERR_BUSY. A text for one
\* part goes to at_gsm_cmgs_pdu, whose encoder refuses more than 160 characters.
\* A number or text that is missing or malformed, or a number of more than 20
\* digits (the first part's encoder finds it), is refused with nothing queued.
at_gsm_send_long(m) ==
  /\ call = NoCall /\ returned[m] \in {"none", "AT_ERR_BUSY"}
  /\ Cardinality({k \in Messages : returned[k] # "none"} \cup {m}) <= MaxUsed
  /\ LET n == at_gsm_part_count(m.len)
     IN  \/ /\ ~m.valid \/ n = 0 \/ (n = 1 /\ m.len > SingleMax)
            /\ Return(m, "AT_ERR_PARAM") /\ UNCHANGED <<queue, call, queued>>
         \/ /\ m.valid /\ n = 1 /\ m.len <= SingleMax /\ Full
            /\ Return(m, "AT_ERR_BUSY") /\ UNCHANGED <<queue, call, queued>>
         \/ /\ m.valid /\ n = 1 /\ m.len <= SingleMax /\ ~Full
            /\ Enqueue(WholeText(m)) /\ Return(m, "AT_OK") /\ UNCHANGED call
         \/ /\ m.valid /\ n > 1
            /\ call' = [m |-> m, n |-> n, i |-> 0] /\ UNCHANGED <<queue, returned, queued>>
  /\ UNCHANGED taken

\* Slip: a queue without room for a further part ends the loop.
GivesUpEarly == Len(queue) >= Depth - 1
\* send_concat_part is refused.
GivesUp == Full

\* One turn of the loop.
send_concat_part ==
  /\ call.i < call.n
  /\ IF GivesUp
       THEN Return(call.m, "AT_ERR_BUSY") /\ call' = NoCall
       ELSE UNCHANGED returned /\ call' = [call EXCEPT !.i = @ + 1]
  /\ IF Full
       THEN UNCHANGED <<queue, queued>>
       ELSE Enqueue(Part(call.m, call.n, call.i))
  /\ UNCHANGED taken

send_long_return ==
  /\ call # NoCall /\ call.i = call.n
  /\ Return(call.m, "AT_OK") /\ call' = NoCall
  /\ UNCHANGED <<queue, queued, taken>>

\* A command of another task.
at_send == ~Full /\ queue' = Append(queue, NoPart) /\ UNCHANGED <<call, returned, queued, taken>>

\* engine_finalize of the oldest command: with AT_OK, when the modem took the
\* part, or with another status.
Complete ==
  /\ queue # <<>> /\ queue' = Tail(queue)
  /\ \/ UNCHANGED taken
     \/ /\ Head(queue) # NoPart
        /\ taken' = [taken EXCEPT ![Head(queue).m] = @ \cup {Head(queue)}]
  /\ UNCHANGED <<call, returned, queued>>

Next ==
  \/ \E m \in Messages : at_gsm_send_long(m)
  \/ send_concat_part
  \/ send_long_return
  \/ at_send
  \/ Complete

Spec == Init /\ [][Next]_vars

-----------------------------------------------------------------------------
InProgress(m) == call # NoCall /\ call.m = m
Documented(m) == m.len <= MaxParts * ConcatMax

\* The parts make up the text: each begins where the one before it ends, the
\* first at its beginning and the last at its end.
MakesUp(parts, m) ==
  \E total \in {p.total : p \in parts} :
    /\ \A k \in 1 .. total : \E p \in parts : p.total = total /\ p.part = k
    /\ \A p \in parts :
         /\ p.part \in 1 .. total
         /\ IF p.part = 1 THEN p.from = 0 ELSE \E q \in parts : q.part = p.part - 1 /\ q.to = p.from
         /\ p.part = total => p.to = m.len

\* TypeOK. The variables keep their types.
TypeOK ==
  /\ Len(queue) <= Depth
  /\ call.n \in 0 .. PartWidth - 1 /\ call.i \in 0 .. call.n
  /\ returned \in [Messages -> {"none", "AT_OK", "AT_ERR_BUSY", "AT_ERR_PARAM"}]
  /\ \A m \in Messages : \A p \in queued[m] :
       p.part \in 1 .. p.total /\ p.to - p.from \in 0 .. SingleMax
  /\ \A m \in Messages : taken[m] \subseteq queued[m]

\* OkMeansAll. AT_OK is returned only when parts have been queued that make up
\* the text, whatever the queue refused in earlier calls for the message.
OkMeansAll == \A m \in Messages : Documented(m) /\ returned[m] = "AT_OK" => MakesUp(queued[m], m)

\* BusyMeansPart. A message whose call was refused is not handed over whole:
\* the parts queued before the refusal, and sent all the same, never complete it.
BusyMeansPart ==
  \A m \in Messages :
    returned[m] = "AT_ERR_BUSY" /\ ~InProgress(m) => ~MakesUp(taken[m], m)

\* Each part of a message, by the numbers in their headers.
Assembled(parts) == {p.total : p \in parts} # {} /\ \A p \in parts : {q.part : q \in parts} = 1 .. p.total
\* What the modem took as all parts of a message: its text, or some other.
HandedOver(m) == IF MakesUp(taken[m], m) THEN m ELSE [m EXCEPT !.len = -1]

\* ImplementsOutbox. A message within the documented length is accepted with
\* the part that completes it, and what the modem takes as all parts of a
\* reference are ranges of an accepted message's text, one after the other and
\* without gap or overlap, from its beginning to its end. (The ranges and the
\* header's numbers; not what a receiver reads in the parts.)
Outbox == INSTANCE SmsOutbox WITH
  Messages <- {m \in Messages : Documented(m)},
  accepted <- {m \in Messages : Documented(m) /\ Assembled(queued[m])},
  handedOver <- {HandedOver(m) : m \in {n \in Messages : Documented(n) /\ Assembled(taken[n])}}
ImplementsOutbox == Outbox!Spec
=============================================================================

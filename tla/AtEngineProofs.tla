--------------------------- MODULE AtEngineProofs ---------------------------
(***************************************************************************)
(* Proofs about AtEngine, for every value of its constants.                *)
(***************************************************************************)
EXTENDS AtEngine, SequenceTheorems, TLAPS

USE DEF At, LineFor, NoId

\* A remainder is below the divisor.
LEMMA ModRange ==
  ASSUME NEW n \in Nat \ {0}, NEW i \in Int
  PROVE  i % n \in 0 .. n - 1
OBVIOUS

\* The successor of a slot is a slot.
LEMMA NextSlotType ==
  ASSUME NEW s \in Slots
  PROVE  NextSlot(s) \in Slots
<1>1. s + 1 \in Int /\ Depth \in Nat \ {0}
  BY DepthAssumption DEF Slots
<1> QED
  BY <1>1, ModRange DEF NextSlot, Slots

\* Looking at or removing the innermost call leaves calls.
LEMMA CallersType ==
  ASSUME stack \in Seq(Frame), stack # <<>>
  PROVE  /\ Callers \in Seq(Frame)
         /\ Top \in Frame
BY DEF Callers, Top

\* The task goes on at p: the stack is still one of calls.
LEMMA GotoType ==
  ASSUME stack \in Seq(Frame), stack # <<>>, NEW p \in Pcs
  PROVE  Goto(p) \in Seq(Frame)
BY CallersType, DepthAssumption DEF Goto, Frame, Slots, Statuses

\* Counting a callback keeps the counts in 0 .. 2.
LEMMA FireType ==
  ASSUME TypeOK, NEW c, Fire(c)
  PROVE  fires' \in [Ids -> 0 .. 2]
<1>1. CASE c \in Ids /\ fires[c] < 2
  <2>0. fires \in [Ids -> 0 .. 2]
    BY DEF TypeOK
  <2>1. fires[c] + 1 \in 0 .. 2
    <3>1. fires[c] \in 0 .. 2 /\ fires[c] < 2
      BY <1>1, <2>0
    <3> QED  BY <3>1
  <2> QED
    BY <1>1, <2>1 DEF Fire, TypeOK
<1>2. CASE ~(c \in Ids /\ fires[c] < 2)
  BY <1>2 DEF Fire, TypeOK
<1> QED
  BY <1>1, <1>2

\* engine_finalize stores a status, pushes a call and counts a callback.
LEMMA FinalizeType ==
  ASSUME TypeOK, NEW status \in Statuses, NEW l \in Line, NEW callers \in Seq(Frame),
         engine_finalize(status, l, callers)
  PROVE  /\ response' \in Statuses
         /\ stack' \in Seq(Frame)
         /\ fires' \in [Ids -> 0 .. 2]
<1>1. Active.id \in Ids \cup {NoId}
  BY DEF TypeOK, Active, Entry
<1>2. [pc |-> "callback", slot |-> q_tail, id |-> Active.id,
       status |-> status, by |-> l.id, n |-> l.n] \in Frame
  BY <1>1 DEF TypeOK, Frame, Line, Pcs
<1>3. stack' \in Seq(Frame)
  BY <1>2 DEF engine_finalize
<1>4. fires' \in [Ids -> 0 .. 2]
  BY FireType DEF engine_finalize
<1> QED
  BY <1>3, <1>4 DEF engine_finalize

\* The line that stands for none is a line.
LEMMA NoLineType == NoLine \in Line
BY DEF NoLine, Line, Kinds, Finals

-----------------------------------------------------------------------------
\* TypeOK holds when at_init has run.
LEMMA InitType ==
  ASSUME Init
  PROVE  TypeOK
<1>1. 0 \in Slots
  BY DepthAssumption DEF Slots
<1>2. queue \in [Slots -> Entry]
  BY DEF Init, Entry, Zeroed
<1>3. 0 \in 0 .. MaxCmds /\ 0 <= LinesMax /\ 0 <= RxCap
  BY BoundAssumption, LinesAssumption
<1>4. fires \in [Ids -> 0 .. 2]
  BY DEF Init
<1> QED
  BY <1>1, <1>2, <1>3, <1>4 DEF Init, TypeOK, Statuses

\* at_send, at_abort and at_reset keep TypeOK.
LEMMA UserType ==
  ASSUME TypeOK, User
  PROVE  TypeOK'
<1>1. ASSUME NEW t \in Timeouts, at_send(t)
      PROVE  TypeOK'
  <2>1. q_head' \in Slots
    BY <1>1, NextSlotType DEF TypeOK, at_send
  <2>2. q_count' \in 0 .. 255
    BY <1>1, ModRange DEF TypeOK, at_send, U8
  <2>3. (IF t = 0 THEN DefaultTimeout % 65536 ELSE t) \in Nat
    BY TimeAssumption, ModRange
  <2>4. accepted + 1 \in Ids
    BY <1>1, BoundAssumption DEF TypeOK, at_send, Ids
  <2>5. [id |-> accepted + 1, sms |-> accepted + 1 \in SmsCmds,
         timeout |-> IF t = 0 THEN DefaultTimeout % 65536 ELSE t] \in Entry
    BY <2>3, <2>4 DEF Entry
  <2>6. queue' \in [Slots -> Entry]
    BY <1>1, <2>5 DEF TypeOK, at_send
  <2>7. accepted' \in 0 .. MaxCmds
    BY <1>1, BoundAssumption DEF TypeOK, at_send
  <2> QED
    BY <1>1, <2>1, <2>2, <2>6, <2>7
    DEF TypeOK, at_send, tvars, rvars, evars
<1>2. CASE at_abort
  <2>1. engine_finalize("ABORTED", NoLine, stack)
    BY <1>2 DEF at_abort
  <2>2. /\ response' \in Statuses
        /\ stack' \in Seq(Frame)
        /\ fires' \in [Ids -> 0 .. 2]
    BY <2>1, FinalizeType, NoLineType DEF TypeOK, Statuses
  <2> QED
    BY <1>2, <2>1, <2>2 DEF TypeOK, at_abort, engine_finalize, qvars, tvars, evars
<1>3. CASE at_reset
  <2>1. Append(stack, At("flush")) \in Seq(Frame)
    BY DepthAssumption DEF TypeOK, Frame, Slots, Statuses, Pcs
  <2>2. CASE state # "IDLE" /\ q_count > 0
    <3>1. engine_finalize("ABORTED", NoLine, Append(stack, At("flush")))
      BY <1>3, <2>2 DEF at_reset
    <3>2. /\ response' \in Statuses
          /\ stack' \in Seq(Frame)
          /\ fires' \in [Ids -> 0 .. 2]
      BY <2>1, <3>1, FinalizeType, NoLineType DEF Statuses
    <3> QED
      BY <1>3, <2>2, <3>1, <3>2 DEF TypeOK, at_reset, engine_finalize, qvars, tvars, evars
  <2>3. CASE ~(state # "IDLE" /\ q_count > 0)
    <3>1. /\ stack' = Append(stack, At("flush"))
          /\ UNCHANGED <<qvars, tvars, rvars, evars, rx, modem, accepted, fires,
                         body_sent, disturbed>>
      BY <1>3, <2>3 DEF at_reset
    <3> QED
      BY <2>1, <3>1 DEF TypeOK, qvars, tvars, evars, rvars
  <2> QED
    BY <2>2, <2>3
<1> QED
  BY <1>1, <1>2, <1>3 DEF User

\* The returns of callbacks and handlers keep TypeOK.
LEMMA ReturnsType ==
  ASSUME TypeOK, Returns
  PROVE  TypeOK'
<1>1. stack # <<>> /\ Callers \in Seq(Frame) /\ Top \in Frame
  BY CallersType DEF TypeOK, Returns, finalize_return, flush_return, urc_return, Runs
<1>2. NextSlot(q_tail) \in Slots
  BY NextSlotType DEF TypeOK
<1>3. Dequeued \in 0 .. 255
  BY ModRange DEF TypeOK, Dequeued, U8
<1>4. CASE finalize_return
  <2>1. queue' \in [Slots -> Entry]
    BY <1>1, <1>4 DEF TypeOK, finalize_return, Entry, Zeroed
  <2> QED
    BY <1>1, <1>2, <1>3, <1>4, <2>1 DEF TypeOK, finalize_return, rvars, hvars
<1>5. CASE flush_return
  BY <1>1, <1>2, <1>3, <1>5 DEF TypeOK, flush_return, tvars, rvars, evars, hvars
<1>6. CASE urc_return
  BY <1>1, <1>6 DEF TypeOK, urc_return, qvars, tvars, rvars, evars, hvars
<1> QED
  BY <1>4, <1>5, <1>6 DEF Returns

\* engine_dispatch_line keeps TypeOK, one case per outcome.
LEMMA DispatchType ==
  ASSUME TypeOK, Dispatch
  PROVE  TypeOK'
<1>1. stack # <<>> /\ rx # <<>>
  BY DEF Dispatch, DispatchEcho, DispatchPrompt, DispatchFinal, DispatchUrc,
         DispatchOther, Drains, Runs
<1>2. Head(rx) \in Line /\ Tail(rx) \in Seq(Line) /\ Len(Tail(rx)) <= RxCap
  BY <1>1, BoundAssumption DEF TypeOK
<1>3. Callers \in Seq(Frame) /\ Top \in Frame
  BY <1>1, CallersType DEF TypeOK
<1>4. \A p \in Pcs : At(p) \in Frame
  BY DepthAssumption DEF Frame, Slots, Statuses
<1>5. CASE DispatchEcho
  BY <1>2, <1>5 DEF TypeOK, DispatchEcho, qvars, tvars, rvars, hvars
<1>6. CASE DispatchPrompt
  <2>1. CASE WantsBody
    <3>1. [At("body") EXCEPT !.by = Head(rx).id] \in Frame
      BY <1>2, <1>4 DEF Frame, Line, Pcs
    <3>2. stack' \in Seq(Frame)
      BY <1>3, <1>6, <2>1, <3>1 DEF DispatchPrompt
    <3> QED
      BY <1>2, <1>6, <2>1, <3>2, TimeAssumption
      DEF TypeOK, DispatchPrompt, TimerAtPrompt, qvars, rvars, evars
  <2>2. CASE ~WantsBody
    BY <1>2, <1>6, <2>2 DEF TypeOK, DispatchPrompt, qvars, tvars, rvars, evars
  <2> QED
    BY <2>1, <2>2
<1>7. CASE DispatchFinal
  <2> DEFINE status == IF Head(rx).kind = "ok" THEN "OK" ELSE "ERROR"
  <2>1. status \in Statuses
    BY DEF Statuses
  <2>2. engine_finalize(status, Head(rx), stack)
    BY <1>7 DEF DispatchFinal
  <2> HIDE DEF status
  <2>3. /\ response' \in Statuses
        /\ stack' \in Seq(Frame)
        /\ fires' \in [Ids -> 0 .. 2]
    BY <1>2, <2>1, <2>2, FinalizeType DEF TypeOK
  <2> QED
    BY <1>2, <1>7, <2>2, <2>3
    DEF TypeOK, DispatchFinal, engine_finalize, qvars, tvars, evars
<1>8. CASE DispatchUrc
  <2>1. stack' \in Seq(Frame)
    BY <1>4, <1>8 DEF TypeOK, DispatchUrc, Pcs
  <2> QED
    BY <1>2, <1>8, <2>1 DEF TypeOK, DispatchUrc, qvars, tvars, rvars, evars, hvars
<1>9. CASE DispatchOther
  <2>1. /\ pool' \in Seq(Ids \cup {NoId}) /\ Len(pool') <= LinesMax
        /\ response' \in Statuses /\ dropped' \in BOOLEAN
    <3>1. CASE ~Waiting
      BY <1>9, <3>1 DEF TypeOK, DispatchOther, rvars
    <3>2. CASE Waiting /\ ~PoolFull
      <4>1. Len(pool) + 1 <= LinesMax
        BY <3>2, LinesAssumption DEF TypeOK, PoolFull
      <4>2. Head(rx).id \in Ids \cup {NoId}
        BY <1>2 DEF Line
      <4>3. pool' = Append(pool, Head(rx).id) /\ UNCHANGED <<response, dropped>>
        BY <1>9, <3>2 DEF DispatchOther
      <4> QED
        BY <4>1, <4>2, <4>3 DEF TypeOK
    <3>3. CASE Waiting /\ PoolFull
      <4>1. response' = "OVERFLOW" /\ dropped' = TRUE /\ UNCHANGED pool
        BY <1>9, <3>3 DEF DispatchOther
      <4> QED
        BY <4>1 DEF TypeOK, Statuses
    <3> QED
      BY <3>1, <3>2, <3>3
  <2> QED
    BY <1>2, <1>9, <2>1 DEF TypeOK, DispatchOther, qvars, tvars, evars, hvars
<1> QED
  BY <1>5, <1>6, <1>7, <1>8, <1>9 DEF Dispatch

\* What the modem keeps of a line it has heard.
Heard == [id : Ids \cup {NoId}, sms : BOOLEAN, sent : 0 .. MaxData,
          echoed : BOOLEAN, prompted : BOOLEAN, ended : BOOLEAN]

\* What is written adds a line to those heard, or goes on with the last.
LEMMA TypedType ==
  ASSUME TypeOK, NEW c \in Ids \cup {NoId}, NEW b \in BOOLEAN, NEW e \in BOOLEAN
  PROVE  /\ HeardLines \in Seq(Heard)
         /\ Append(HeardLines, Typed(c, b, e)) \in Seq(Heard)
<1>1. modem \in Seq(Heard)
  BY DEF TypeOK, Heard
<1>2. HeardLines \in Seq(Heard)
  <2>1. CASE LeftOver
    <3>1. Len(modem) \in Nat /\ Len(modem) # 0
      BY <1>1, <2>1 DEF LeftOver
    <3>2. SubSeq(modem, 1, Len(modem) - 1) \in Seq(Heard)
      BY <1>1, <3>1, SubSeqProperties
    <3> QED  BY <2>1, <3>2 DEF HeardLines
  <2> QED  BY <1>1, <2>1 DEF HeardLines
<1>3. Typed(c, b, e) \in Heard
  BY BoundAssumption DEF Typed, Heard
<1> QED  BY <1>2, <1>3

\* The other steps of at_process and at_reset keep TypeOK.
LEMMA TaskStepType ==
  ASSUME TypeOK, TaskStep
  PROVE  TypeOK'
<1>1. \A p \in Pcs : At(p) \in Frame
  BY DepthAssumption DEF Frame, Slots, Statuses
<1>2. CASE Dispatch
  BY <1>2, DispatchType
<1>3. CASE CheckTimeout
  <2>1. stack # <<>>
    BY <1>3 DEF CheckTimeout, Runs
  <2>2. Goto("start") \in Seq(Frame)
    BY <2>1, GotoType DEF TypeOK, Pcs
  <2>3. CASE Expired
    <3>1. engine_finalize("TIMEOUT", NoLine, Goto("start")) /\ disturbed' = TRUE
      BY <1>3, <2>3 DEF CheckTimeout
    <3>2. /\ response' \in Statuses
          /\ stack' \in Seq(Frame)
          /\ fires' \in [Ids -> 0 .. 2]
      BY <2>2, <3>1, FinalizeType, NoLineType DEF Statuses
    <3> QED
      BY <1>3, <3>1, <3>2 DEF TypeOK, CheckTimeout, engine_finalize, qvars, tvars, evars
  <2>4. CASE ~Expired
    <3>1. /\ stack' = Goto("start")
          /\ UNCHANGED <<qvars, tvars, rvars, evars, rx, modem, hvars, disturbed>>
      BY <1>3, <2>4 DEF CheckTimeout, hvars
    <3> QED
      BY <2>2, <3>1 DEF TypeOK, qvars, tvars, rvars, evars, hvars
  <2> QED
    BY <2>3, <2>4
<1>4. CASE engine_start_next
  <2>1. stack # <<>>
    BY <1>4 DEF engine_start_next, Runs
  <2>2. Goto("write") \in Seq(Frame)
    BY <2>1, GotoType DEF TypeOK, Pcs
  <2>3. Active.timeout \in Nat /\ Active.id \in Ids \cup {NoId}
    BY DEF TypeOK, Active, Entry
  <2>4. disturbed' \in BOOLEAN
    BY <1>4 DEF engine_start_next
  <2>5. echo_armed' \in BOOLEAN /\ echo_expect' \in Ids \cup {NoId}
    BY <1>4, <2>3, UserAssumption DEF TypeOK, engine_start_next
  <2>6. pool' \in Seq(Ids \cup {NoId}) /\ Len(pool') <= LinesMax
    BY <1>4, LinesAssumption DEF engine_start_next
  <2>7. /\ response' = "PENDING" /\ dropped' = FALSE /\ timer_ms' = Active.timeout
        /\ elapsed' = 0 /\ state' = "SENDING" /\ body_sent' = FALSE /\ stack' = Goto("write")
    BY <1>4 DEF engine_start_next
  <2>8. UNCHANGED <<qvars, rx, modem, accepted, fires>>
    BY <1>4 DEF engine_start_next
  <2> QED
    <3>1. /\ timer_ms' \in Nat /\ elapsed' \in Nat /\ body_sent' \in BOOLEAN
          /\ response' \in Statuses /\ dropped' \in BOOLEAN
      <4>1. timer_ms' \in Nat
        BY <2>3, <2>7
      <4>2. elapsed' \in Nat /\ body_sent' \in BOOLEAN
        BY <2>7
      <4>3. response' \in Statuses
        BY <2>7 DEF Statuses
      <4>4. dropped' \in BOOLEAN
        BY <2>7
      <4> QED
        BY <4>1, <4>2, <4>3, <4>4
    <3>2. stack' \in Seq(Frame) /\ state' = "SENDING"
      BY <2>2, <2>7
    <3> QED
      BY <2>4, <2>5, <2>6, <2>8, <3>1, <3>2 DEF TypeOK, qvars
<1>5. CASE process_end
  <2>1. Callers \in Seq(Frame)
    BY <1>5, CallersType DEF TypeOK, process_end, Runs
  <2> QED
    BY <1>5, <2>1 DEF TypeOK, process_end, qvars, tvars, rvars, evars, hvars
<1>6. CASE WriteDone
  <2>1. Callers \in Seq(Frame)
    BY <1>6, CallersType DEF TypeOK, WriteDone, Runs
  <2>2. Active.sms \in BOOLEAN /\ (IF LeftOver THEN NoId ELSE Active.id) \in Ids \cup {NoId}
    BY DEF TypeOK, Active, Entry
  <2>3. modem' \in Seq(Heard)
    BY <1>6, <2>2, TypedType DEF WriteDone
  <2> QED
    BY <1>6, <2>1, <2>3 DEF TypeOK, Heard, WriteDone, qvars, rvars, evars, hvars
<1>7. CASE WriteFailed
  <2>1. Callers \in Seq(Frame)
    BY <1>7, CallersType DEF TypeOK, WriteFailed, Runs
  <2>2. engine_finalize("IO", NoLine, Callers)
    BY <1>7 DEF WriteFailed
  <2>3. /\ response' \in Statuses
        /\ stack' \in Seq(Frame)
        /\ fires' \in [Ids -> 0 .. 2]
    BY <2>1, <2>2, FinalizeType, NoLineType DEF Statuses
  <2>4. modem' \in Seq(Heard) /\ disturbed' \in BOOLEAN
    <3>1. CASE UNCHANGED <<modem, disturbed>>
      BY <3>1 DEF TypeOK, Heard
    <3>2. CASE modem' = Append(HeardLines, Typed(NoId, FALSE, FALSE)) /\ disturbed' = TRUE
      BY <3>2, TypedType
    <3> QED  BY <1>7, <3>1, <3>2 DEF WriteFailed
  <2> QED
    BY <1>7, <2>2, <2>3, <2>4 DEF TypeOK, Heard, WriteFailed, engine_finalize, qvars, tvars, evars
<1>8. CASE BodyDone
  <2>1. Goto("drain") \in Seq(Frame)
    BY <1>8, GotoType DEF TypeOK, BodyDone, Runs, Pcs
  <2> QED
    BY <1>8, <2>1 DEF TypeOK, BodyDone, qvars, rvars, evars, hvars
<1>9. CASE BodyFailed
  <2>1. Goto("drain") \in Seq(Frame)
    BY <1>9, GotoType DEF TypeOK, BodyFailed, Runs, Pcs
  <2>2. engine_finalize("IO", NoLine, Goto("drain"))
    BY <1>9 DEF BodyFailed
  <2>3. /\ response' \in Statuses
        /\ stack' \in Seq(Frame)
        /\ fires' \in [Ids -> 0 .. 2]
    BY <2>1, <2>2, FinalizeType, NoLineType DEF Statuses
  <2> QED
    BY <1>9, <2>2, <2>3 DEF TypeOK, BodyFailed, engine_finalize, qvars, tvars, evars
<1>10. CASE reset_flush
  <2>1. [At("flushed") EXCEPT !.slot = q_tail, !.id = Active.id, !.status = "ABORTED"]
          \in Frame
    BY <1>1 DEF TypeOK, Active, Entry, Frame, Pcs, Statuses
  <2>2. stack' \in Seq(Frame)
    BY <1>10, <2>1 DEF TypeOK, reset_flush
  <2>3. fires' \in [Ids -> 0 .. 2]
    BY <1>10, FireType DEF reset_flush
  <2> QED
    BY <1>10, <2>2, <2>3 DEF TypeOK, reset_flush, qvars, tvars, rvars, evars
<1>11. CASE reset_end
  <2>1. Callers \in Seq(Frame)
    BY <1>11, CallersType DEF TypeOK, reset_end, Runs
  <2>2. rx' \in Seq(Line) /\ Len(rx') <= RxCap
    BY <1>11, BoundAssumption DEF reset_end
  <2>3. pool' \in Seq(Ids \cup {NoId}) /\ Len(pool') <= LinesMax
    BY <1>11, LinesAssumption DEF reset_end
  <2>4. UNCHANGED <<qvars, timer_ms, elapsed, response, dropped, echo_expect, modem,
                    hvars, disturbed>>
    BY <1>11 DEF reset_end
  <2>5. state' = "IDLE" /\ echo_armed' = FALSE /\ stack' = Callers
    BY <1>11 DEF reset_end
  <2> QED
    BY <2>1, <2>2, <2>3, <2>4, <2>5 DEF TypeOK, qvars, hvars
<1> QED
  BY <1>2, <1>3, <1>4, <1>5, <1>6, <1>7, <1>8, <1>9, <1>10, <1>11
  DEF TaskStep, Writes

\* at_feed of a line keeps the receive buffer in its capacity.
LEMMA FeedType ==
  ASSUME TypeOK, NEW l \in Line, at_feed(l)
  PROVE  /\ rx' \in Seq(Line) /\ Len(rx') <= RxCap
         /\ disturbed' \in BOOLEAN
<1>1. CASE Len(rx) < RxCap
  <2>1. rx' = Append(rx, l) /\ disturbed' = (disturbed \/ l.kind = "nocarrier")
    BY <1>1 DEF at_feed
  <2>2. disturbed' \in BOOLEAN
    BY <2>1
  <2>3. rx' \in Seq(Line) /\ Len(rx') <= RxCap
    BY <1>1, <2>1, BoundAssumption DEF TypeOK
  <2> QED
    BY <2>2, <2>3
<1>2. CASE ~(Len(rx) < RxCap)
  BY <1>2 DEF TypeOK, at_feed
<1> QED
  BY <1>1, <1>2

\* The command the modem serves, and the replacement of it.
LEMMA ServingType ==
  ASSUME TypeOK, modem # <<>>
  PROVE  /\ Serving \in Heard /\ Tail(modem) \in Seq(Heard)
         /\ \A h \in Heard : <<h>> \o Tail(modem) \in Seq(Heard)
<1>1. modem \in Seq(Heard)
  BY DEF TypeOK, Heard
<1>2. Serving \in Heard /\ Tail(modem) \in Seq(Heard)
  BY <1>1 DEF Serving
<1>3. ASSUME NEW h \in Heard
      PROVE  <<h>> \o Tail(modem) \in Seq(Heard)
  <2>1. <<h>> \in Seq(Heard)
    OBVIOUS
  <2> QED
    BY <1>2, <2>1, ConcatProperties
<1> QED
  BY <1>2, <1>3

\* The steps of the modem keep TypeOK.
LEMMA ModemType ==
  ASSUME TypeOK, Modem
  PROVE  TypeOK'
<1> USE DEF Heard
<1>1. ASSUME NEW l \in Line, at_feed(l), modem' \in Seq(Heard)
      PROVE  TypeOK'
  <2>1. /\ rx' \in Seq(Line) /\ Len(rx') <= RxCap
        /\ disturbed' \in BOOLEAN
    BY <1>1, FeedType
  <2> QED
    BY <1>1, <2>1 DEF TypeOK, at_feed, qvars, tvars, rvars, evars, hvars
<1>2. \A k \in Kinds, m \in Nat : LineFor(k, NoId, m) \in Line
  BY DEF Line
<1>3. \A k \in Kinds, m \in Nat :
        modem # <<>> => LineFor(k, Serving.id, m) \in Line
  BY ServingType DEF Line
<1>4. CASE ModemEcho
  <2>1. modem' \in Seq(Heard)
    BY <1>4, ServingType DEF ModemEcho, Becomes, MayAnswer
  <2> QED
    BY <1>1, <1>3, <1>4, <2>1 DEF ModemEcho, MayAnswer, Kinds
<1>5. CASE ModemPrompt
  <2>1. modem' \in Seq(Heard)
    BY <1>5, ServingType DEF ModemPrompt, Becomes, MayAnswer
  <2> QED
    BY <1>1, <1>3, <1>5, <2>1 DEF ModemPrompt, MayAnswer, Kinds
<1>6. CASE ModemData
  <2>1. Serving.sent + 1 \in 0 .. MaxData
    BY <1>6, ServingType, BoundAssumption DEF ModemData, MayAnswer
  <2>2. modem' \in Seq(Heard)
    BY <1>6, <2>1, ServingType DEF ModemData, Becomes, MayAnswer
  <2> QED
    BY <1>1, <1>3, <1>6, <2>2 DEF ModemData, MayAnswer, Kinds
<1>7. CASE ModemFinal
  <2>1. modem' \in Seq(Heard) /\ Serving.sent \in Nat /\ modem # <<>>
    BY <1>7, ServingType, BoundAssumption DEF ModemFinal, MayAnswer
  <2>2. PICK k \in {"ok", "error"} : at_feed(LineFor(k, Serving.id, Serving.sent))
    BY <1>7 DEF ModemFinal
  <2> QED
    BY <1>1, <1>3, <2>1, <2>2 DEF Kinds, Finals
<1>8. CASE ModemRestart
  BY <1>8 DEF TypeOK, ModemRestart, qvars, tvars, rvars, evars, hvars
<1>9. CASE ModemUnsolicited
  <2>1. PICK k \in {"urc", "nocarrier"} : at_feed(LineFor(k, NoId, 0))
    BY <1>9 DEF ModemUnsolicited
  <2>2. modem' \in Seq(Heard)
    BY <1>9 DEF TypeOK, ModemUnsolicited
  <2> QED
    BY <1>1, <1>2, <2>1, <2>2 DEF Kinds, Finals
<1> QED
  BY <1>4, <1>5, <1>6, <1>7, <1>8, <1>9 DEF Modem

\* TypeCorrect. The engine's variables keep their types, in particular the
\* queue indices stay inside queue[], the response never has more lines than
\* the pool and the receive buffer never more than its capacity, whatever the
\* callbacks call.
THEOREM TypeCorrect == Spec => []TypeOK
<1>1. Init => TypeOK
  BY InitType
<1>2. TypeOK /\ [Next]_vars => TypeOK'
  <2> SUFFICES ASSUME TypeOK, [Next]_vars
               PROVE  TypeOK'
    OBVIOUS
  <2>1. CASE User
    BY <2>1, UserType
  <2>2. CASE at_process
    <3>1. At("drain") \in Frame
      BY DepthAssumption DEF Frame, Slots, Statuses, Pcs
    <3> QED
      BY <2>2, <3>1 DEF TypeOK, at_process, qvars, tvars, rvars, evars, hvars
  <2>3. CASE TaskStep
    BY <2>3, TaskStepType
  <2>4. CASE DrainEnd
    <3>1. Goto("timeout") \in Seq(Frame)
      BY <2>4, GotoType DEF TypeOK, DrainEnd, Runs, Pcs
    <3> QED
      BY <2>4, <3>1 DEF TypeOK, DrainEnd, qvars, tvars, rvars, evars, hvars
  <2>5. CASE Returns
    BY <2>5, ReturnsType
  <2>6. CASE Tick
    <3>1. PICK ms \in Ticks : at_tick(ms)
      BY <2>6 DEF Tick
    <3>2. timer_ms' \in Nat /\ elapsed' \in Nat
      BY <3>1, TimeAssumption DEF TypeOK, at_tick
    <3> QED
      BY <3>1, <3>2 DEF TypeOK, at_tick, qvars, rvars, evars, hvars
  <2>7. CASE Modem
    BY <2>7, ModemType
  <2>8. CASE UNCHANGED vars
    BY <2>8 DEF TypeOK, vars, qvars, tvars, rvars, evars, hvars
  <2> QED
    BY <2>1, <2>2, <2>3, <2>4, <2>5, <2>6, <2>7, <2>8 DEF Next
<1> QED
  BY <1>1, <1>2, PTL DEF Spec

-----------------------------------------------------------------------------
(***************************************************************************)
(* The command queue of AtEngine: no accepted command is lost, overtaken   *)
(* or completed twice, for every queue depth q_count can count to, as long *)
(* as completion callbacks call nothing but at_send.                       *)
(***************************************************************************)

\* Who calls whom: a callback is always the innermost call, because it calls
\* nothing that calls back.
CallSites == {<<"drain", "callback">>, <<"drain", "urc">>, <<"start", "callback">>,
              <<"urc", "callback">>, <<"urc", "flush">>,
              <<"flush", "callback">>, <<"flush", "flushed">>}
CallGraph ==
  \A i \in 1 .. Len(stack) - 1 : <<stack[i].pc, stack[i+1].pc>> \in CallSites

\* What the innermost call relies on.
TopInv ==
  /\ Runs("callback") \/ Runs("flushed") =>
       /\ q_count > 0
       /\ Top.slot = q_tail
       /\ Top.id = accepted - q_count + 1
  /\ Runs("flush") \/ Runs("flushed") => state = "IDLE"
  /\ Runs("write") \/ Runs("body") => q_count > 0

InCallback == Runs("callback") \/ Runs("flushed")

\* The callbacks so far: of every command dequeued, and of the oldest one in
\* the queue if its callback is running.
FiresInv ==
  /\ q_count <= accepted
  /\ \A c \in Ids :
       fires[c] = IF c <= accepted - q_count
                       \/ (InCallback /\ c = accepted - q_count + 1) THEN 1 ELSE 0

QueueInv == TypeOK /\ QueueWindow /\ CallGraph /\ TopInv /\ FiresInv

-----------------------------------------------------------------------------
\* Slots.

\* Adding an offset to a slot wraps at most once.
LEMMA SlotSum ==
  ASSUME NEW t \in Slots, NEW k \in 0 .. Depth
  PROVE  (t + k) % Depth = IF t + k < Depth THEN t + k ELSE t + k - Depth
<1>1. /\ Depth \in Nat \ {0} /\ t \in 0 .. Depth - 1
  BY DepthAssumption DEF Slots
<1>2. CASE t + k < Depth
  BY <1>1, <1>2
<1>3. CASE t + k >= Depth
  <2>1. t + k - Depth \in 0 .. Depth - 1
    BY <1>1, <1>3
  <2> QED
    BY <1>1, <1>3, <2>1
<1> QED
  BY <1>1, <1>2, <1>3

\* Different offsets within the queue are different slots.
LEMMA SlotsDiffer ==
  ASSUME NEW t \in Slots, NEW j \in 0 .. Depth - 1, NEW k \in 0 .. Depth - 1, j # k
  PROVE  (t + j) % Depth # (t + k) % Depth
<1>1. Depth \in Nat \ {0} /\ t \in 0 .. Depth - 1
  BY DepthAssumption DEF Slots
<1> QED
  BY <1>1, SlotSum

\* Stepping q_tail and counting one less is the same slot.
LEMMA SlotShift ==
  ASSUME NEW t \in Slots, NEW k \in 0 .. Depth - 1
  PROVE  (NextSlot(t) + k) % Depth = (t + (k + 1)) % Depth
<1>1. Depth \in Nat \ {0} /\ t \in 0 .. Depth - 1
  BY DepthAssumption DEF Slots
<1>2. NextSlot(t) = IF t + 1 < Depth THEN t + 1 ELSE t + 1 - Depth
  BY <1>1, SlotSum DEF NextSlot
<1>3. NextSlot(t) \in Slots
  BY NextSlotType
<1>4. (NextSlot(t) + k) % Depth =
        IF NextSlot(t) + k < Depth THEN NextSlot(t) + k ELSE NextSlot(t) + k - Depth
  <2>1. k \in 0 .. Depth
    BY <1>1
  <2> QED
    BY <1>3, <2>1, SlotSum, Zenon
<1>5. (t + (k + 1)) % Depth =
        IF t + (k + 1) < Depth THEN t + (k + 1) ELSE t + (k + 1) - Depth
  BY <1>1, SlotSum
<1> QED
  BY <1>1, <1>2, <1>4, <1>5

-----------------------------------------------------------------------------
\* The stack.

\* A call made at a call site keeps the call graph.
LEMMA PushGraph ==
  ASSUME TypeOK, CallGraph, NEW f \in Frame, stack' = Append(stack, f),
         stack # <<>> => <<Top.pc, f.pc>> \in CallSites
  PROVE  CallGraph' /\ stack' # <<>> /\ Top' = f
<1>1. stack \in Seq(Frame) /\ stack' \in Seq(Frame) /\ Len(stack') = Len(stack) + 1
  BY DEF TypeOK
<1>2. /\ \A i \in 1 .. Len(stack) : stack'[i] = stack[i]
      /\ stack'[Len(stack) + 1] = f
  BY <1>1
<1>3. Top' = f
  BY <1>1, <1>2 DEF Top
<1>4. ASSUME NEW i \in 1 .. Len(stack') - 1
      PROVE  <<stack'[i].pc, stack'[i+1].pc>> \in CallSites
  <2>1. CASE i < Len(stack)
    BY <1>1, <1>2, <2>1 DEF CallGraph
  <2>2. CASE i = Len(stack)
    BY <1>1, <1>2, <2>2 DEF Top
  <2> DEFINE n == Len(stack)
  <2>3. i \in 1 .. n /\ n \in Nat
    BY <1>1
  <2> HIDE DEF n
  <2>4. i < n \/ i = n
    BY <2>3
  <2> QED
    BY <2>1, <2>2, <2>4 DEF n
<1> QED
  BY <1>1, <1>3, <1>4 DEF CallGraph

\* A return keeps the call graph, and its caller is one of the call sites.
LEMMA PopGraph ==
  ASSUME TypeOK, CallGraph, stack # <<>>, stack' = Callers
  PROVE  /\ CallGraph'
         /\ stack' # <<>> => <<Top'.pc, Top.pc>> \in CallSites
<1>1. stack \in Seq(Frame) /\ Len(stack) \in Nat \ {0}
  BY DEF TypeOK
<1>2. /\ stack' \in Seq(Frame) /\ Len(stack') = Len(stack) - 1
      /\ \A i \in 1 .. Len(stack') : stack'[i] = stack[i]
  <2>1. \A i \in 1 .. Len(stack) - 1 : stack[i] \in Frame
    BY <1>1
  <2>2. /\ SubSeq(stack, 1, Len(stack) - 1) \in Seq(Frame)
        /\ Len(SubSeq(stack, 1, Len(stack) - 1)) = Len(stack) - 1
        /\ \A i \in 1 .. Len(stack) - 1 : SubSeq(stack, 1, Len(stack) - 1)[i] = stack[i]
    <3> DEFINE n == Len(stack)
    <3>1. n \in Nat /\ n > 0
      BY <1>1
    <3>2. \A i \in 1 .. n - 1 : stack[i] \in Frame
      BY <2>1
    <3> HIDE DEF n
    <3>3. /\ SubSeq(stack, 1, n - 1) \in Seq(Frame)
          /\ Len(SubSeq(stack, 1, n - 1)) = IF 1 <= n - 1 THEN n - 1 - 1 + 1 ELSE 0
          /\ \A i \in 1 .. n - 1 - 1 + 1 : SubSeq(stack, 1, n - 1)[i] = stack[1 + i - 1]
      BY <3>1, <3>2, SubSeqProperties
    <3>4. /\ Len(SubSeq(stack, 1, n - 1)) = n - 1
          /\ \A i \in 1 .. n - 1 : SubSeq(stack, 1, n - 1)[i] = stack[i]
      BY <3>1, <3>3
    <3> QED
      BY <3>3, <3>4 DEF n
  <2> QED
    BY <2>2 DEF Callers
<1>3. CallGraph'
  BY <1>1, <1>2 DEF CallGraph
<1>4. ASSUME stack' # <<>>
      PROVE  <<Top'.pc, Top.pc>> \in CallSites
  <2>1. Len(stack') \in 1 .. Len(stack) - 1
    BY <1>1, <1>2, <1>4
  <2>2. Top' = stack[Len(stack')] /\ Top = stack[Len(stack') + 1]
    BY <1>1, <1>2, <2>1 DEF Top
  <2> QED
    BY <2>1, <2>2 DEF CallGraph
<1> QED
  BY <1>3, <1>4

\* at_process is called by the task's loop only.
LEMMA ProcessAlone ==
  ASSUME TypeOK, CallGraph, stack # <<>>,
         Top.pc \in {"drain", "timeout", "start", "write", "body"}
  PROVE  Callers = <<>> /\ Len(stack) = 1
<1>1. stack \in Seq(Frame) /\ Len(stack) \in Nat \ {0}
  BY DEF TypeOK
<1>2. Len(stack) = 1
  <2> DEFINE n == Len(stack)
  <2>1. n \in Nat /\ n > 0
    BY <1>1
  <2>2. ASSUME n > 1
        PROVE  FALSE
    <3>1. <<stack[n - 1].pc, stack[n - 1 + 1].pc>> \in CallSites
      BY <2>1, <2>2 DEF CallGraph
    <3>2. n - 1 + 1 = n
      BY <2>1
    <3>3. <<stack[n - 1].pc, Top.pc>> \in CallSites
      BY <3>1, <3>2 DEF Top
    <3> QED
      BY <3>3 DEF CallSites
  <2> HIDE DEF n
  <2>3. n = 1
    BY <2>1, <2>2
  <2> QED
    BY <2>3 DEF n
<1> QED
  BY <1>1, <1>2 DEF Callers

\* Going from one part of at_process to the next.
LEMMA GotoGraph ==
  ASSUME TypeOK, CallGraph, NEW f \in Frame, stack # <<>>,
         Top.pc \in {"drain", "timeout", "start", "write", "body"},
         stack' = Append(Callers, f)
  PROVE  CallGraph' /\ stack' # <<>> /\ Top' = f
<1>1. Callers = <<>>
  BY ProcessAlone
<1>2. stack' = <<f>>
  BY <1>1
<1> QED
  BY <1>2 DEF CallGraph, Top

-----------------------------------------------------------------------------
\* What the steps do to the invariant.

\* Steps that leave the queue and the callbacks alone.
LEMMA QuietStep ==
  ASSUME QueueInv, UNCHANGED <<qvars, accepted, fires>>,
         CallGraph', ~InCallback, ~InCallback',
         state' # "IDLE" => q_count > 0,
         (Runs("flush") => state = "IDLE")',
         (Runs("write") \/ Runs("body"))' => q_count > 0
  PROVE  QueueWindow' /\ CallGraph' /\ TopInv' /\ FiresInv'
<1>1. QueueWindow'
  BY DEF QueueInv, QueueWindow, qvars
<1>2. TopInv'
  BY DEF InCallback, TopInv, qvars
<1>3. FiresInv'
  BY DEF QueueInv, FiresInv, qvars
<1> QED
  BY <1>1, <1>2, <1>3

\* Steps that leave the stack alone as well.
LEMMA SameStackStep ==
  ASSUME QueueInv, UNCHANGED <<qvars, accepted, fires, state, stack>>
  PROVE  QueueWindow' /\ CallGraph' /\ TopInv' /\ FiresInv'
BY DEF QueueInv, QueueWindow, CallGraph, TopInv, FiresInv, InCallback, Runs, Top, qvars

\* The slot at q_tail holds the oldest command not dequeued.
LEMMA ActiveIsOldest ==
  ASSUME QueueInv, q_count > 0
  PROVE  Active.id = accepted - q_count + 1 /\ Active.id \in Ids
<1>1. q_count \in 1 .. Depth /\ q_tail \in Slots /\ accepted \in 0 .. MaxCmds
  BY DEF QueueInv, QueueWindow, TypeOK
<1>2. (q_tail + 0) % Depth = q_tail
  BY <1>1, DepthAssumption DEF Slots
<1>3. queue[(q_tail + 0) % Depth].id = accepted - q_count + 1 + 0
  BY <1>1 DEF QueueInv, QueueWindow
<1>4. Active.id = accepted - q_count + 1
  BY <1>1, <1>2, <1>3 DEF Active
<1>5. q_count <= accepted
  BY DEF QueueInv, FiresInv
<1> QED
  BY <1>1, <1>4, <1>5, BoundAssumption DEF Ids

\* A callback of the oldest command starts, in a frame f of its own.
LEMMA CallbackStep ==
  ASSUME QueueInv, q_count > 0, ~InCallback, NEW f \in Frame,
         f.pc \in {"callback", "flushed"}, f.slot = q_tail, f.id = Active.id,
         f.pc = "flushed" => state = "IDLE",
         Fire(Active.id), UNCHANGED <<qvars, accepted, state>>,
         CallGraph', stack' # <<>>, Top' = f
  PROVE  QueueWindow' /\ CallGraph' /\ TopInv' /\ FiresInv'
<1>1. Active.id = accepted - q_count + 1 /\ Active.id \in Ids
  BY ActiveIsOldest
<1>2. QueueWindow'
  BY DEF QueueInv, QueueWindow, qvars
<1>3. TopInv'
  BY <1>1 DEF TopInv, Runs, qvars
<1>4. fires' = [fires EXCEPT ![Active.id] = 1]
  <2>1. fires[Active.id] = 0
    BY <1>1 DEF QueueInv, FiresInv, TypeOK
  <2> QED
    BY <1>1, <2>1 DEF Fire
<1>5. InCallback'
  BY DEF InCallback, Runs
<1>6. FiresInv'
  BY <1>1, <1>4, <1>5 DEF QueueInv, FiresInv, TypeOK, qvars
<1> QED
  BY <1>2, <1>3, <1>6

\* A callback has returned: the oldest command leaves the queue.
LEMMA DequeueStep ==
  ASSUME QueueInv, InCallback, UNCHANGED <<q_head, accepted, fires>>,
         \A s \in Slots \ {q_tail} : queue'[s] = queue[s],
         q_tail' = NextSlot(q_tail), q_count' = Dequeued,
         state' = "IDLE", CallGraph', ~InCallback',
         ~(Runs("write") \/ Runs("body"))'
  PROVE  QueueWindow' /\ CallGraph' /\ TopInv' /\ FiresInv'
<1>1. /\ q_count \in 1 .. Depth /\ q_count <= 255 /\ q_tail \in Slots
      /\ accepted \in 0 .. MaxCmds /\ Depth \in Nat \ {0}
  <2>1. q_count > 0
    BY DEF QueueInv, TopInv, InCallback
  <2>2. q_count \in 0 .. 255 /\ q_tail \in Slots /\ accepted \in 0 .. MaxCmds
    BY DEF QueueInv, TypeOK
  <2>3. q_count <= Depth
    BY DEF QueueInv, QueueWindow
  <2> QED
    BY <2>1, <2>2, <2>3, DepthAssumption
<1>2. q_count' = q_count - 1
  BY <1>1 DEF Dequeued, U8
<1>3. q_head' = (q_tail' + q_count') % Depth
  <2>1. q_count - 1 \in 0 .. Depth - 1
    BY <1>1
  <2>2. (NextSlot(q_tail) + (q_count - 1)) % Depth = (q_tail + (q_count - 1 + 1)) % Depth
    BY <1>1, <2>1, SlotShift
  <2>3. q_count - 1 + 1 = q_count
    BY <1>1
  <2> QED
    BY <1>2, <2>2, <2>3 DEF QueueInv, QueueWindow
<1>4. ASSUME NEW k \in 0 .. q_count' - 1
      PROVE  queue'[(q_tail' + k) % Depth].id = accepted' - q_count' + 1 + k
  <2>1. k \in 0 .. Depth - 1 /\ k + 1 \in 0 .. Depth - 1 /\ k + 1 \in 0 .. q_count - 1
    BY <1>1, <1>2
  <2>2. (q_tail' + k) % Depth = (q_tail + (k + 1)) % Depth
    BY <1>1, <2>1, SlotShift
  <2>3. (q_tail + 0) % Depth = q_tail
    BY <1>1 DEF Slots
  <2>4. (q_tail + (k + 1)) % Depth # (q_tail + 0) % Depth
    <3>1. 0 \in 0 .. Depth - 1 /\ k + 1 # 0
      BY <1>1, <2>1
    <3> QED
      BY <1>1, <2>1, <3>1, SlotsDiffer
  <2>5. (q_tail + (k + 1)) % Depth \in Slots
    <3>1. q_tail + (k + 1) \in Int
      BY <1>1, <2>1 DEF Slots
    <3> QED
      BY <1>1, <3>1, ModRange, Zenon DEF Slots
  <2>6. queue[(q_tail + (k + 1)) % Depth].id = accepted - q_count + 1 + (k + 1)
    BY <2>1 DEF QueueInv, QueueWindow
  <2>7. queue'[(q_tail' + k) % Depth].id = accepted - q_count + 1 + (k + 1)
    BY <2>2, <2>3, <2>4, <2>5, <2>6
  <2> QED
    BY <1>1, <1>2, <2>1, <2>7
<1>5. QueueWindow'
  BY <1>1, <1>2, <1>3, <1>4 DEF QueueWindow
<1>6. TopInv'
  BY DEF TopInv, InCallback
<1>7. FiresInv'
  BY <1>1, <1>2 DEF QueueInv, FiresInv, TypeOK, Ids
<1> QED
  BY <1>5, <1>6, <1>7

\* at_send puts the new command behind the others.
LEMMA SendStep ==
  ASSUME QueueInv, Depth < 256, NEW t \in Timeouts, at_send(t)
  PROVE  QueueWindow' /\ CallGraph' /\ TopInv' /\ FiresInv'
<1>1. /\ q_count \in 0 .. Depth - 1 /\ q_count < 255 /\ q_tail \in Slots
      /\ q_head \in Slots /\ accepted \in 0 .. MaxCmds /\ Depth \in Nat \ {0}
  BY DepthAssumption DEF QueueInv, QueueWindow, TypeOK, at_send, QueueFull
<1>2. q_count' = q_count + 1 /\ accepted' = accepted + 1
  BY <1>1 DEF at_send, U8
<1>3. UNCHANGED <<q_tail, stack, fires, state>>
  BY DEF at_send, tvars
<1>4. q_head' = (q_tail' + q_count') % Depth
  <2>1. q_head = IF q_tail + q_count < Depth THEN q_tail + q_count
                                             ELSE q_tail + q_count - Depth
    <3>1. q_count \in 0 .. Depth
      BY <1>1
    <3>2. (q_tail + q_count) % Depth =
            IF q_tail + q_count < Depth THEN q_tail + q_count ELSE q_tail + q_count - Depth
      BY <1>1, <3>1, SlotSum, Zenon
    <3> QED
      BY <3>2 DEF QueueInv, QueueWindow
  <2>2. q_count + 1 \in 0 .. Depth /\ 1 \in 0 .. Depth
    BY <1>1
  <2>3. (q_tail + (q_count + 1)) % Depth =
          IF q_tail + (q_count + 1) < Depth THEN q_tail + (q_count + 1)
                                            ELSE q_tail + (q_count + 1) - Depth
    BY <1>1, <2>2, SlotSum, Zenon
  <2>4. NextSlot(q_head) = IF q_head + 1 < Depth THEN q_head + 1 ELSE q_head + 1 - Depth
    BY <1>1, <2>2, SlotSum, Zenon DEF NextSlot
  <2>5. NextSlot(q_head) = (q_tail + (q_count + 1)) % Depth
    BY <1>1, <2>1, <2>3, <2>4 DEF Slots
  <2> QED
    BY <1>2, <1>3, <2>5 DEF at_send
<1>5. ASSUME NEW k \in 0 .. q_count' - 1
      PROVE  queue'[(q_tail' + k) % Depth].id = accepted' - q_count' + 1 + k
  <2>1. k \in 0 .. Depth - 1 /\ (q_tail + k) % Depth \in Slots
    BY <1>1, <1>2, ModRange DEF Slots
  <2>2. CASE k = q_count
    <3>1. (q_tail' + k) % Depth = q_head
      BY <1>3, <2>2 DEF QueueInv, QueueWindow
    <3>2. queue'[q_head].id = accepted + 1
      BY <1>1 DEF at_send, QueueInv, TypeOK
    <3> QED
      BY <1>1, <1>2, <2>2, <3>1, <3>2
  <2>3. CASE k < q_count
    <3>1. (q_tail + k) % Depth # q_head
      BY <1>1, <2>1, <2>3, SlotsDiffer DEF QueueInv, QueueWindow
    <3>2. queue'[(q_tail + k) % Depth] = queue[(q_tail + k) % Depth]
      BY <2>1, <3>1 DEF at_send, QueueInv, TypeOK
    <3>3. queue[(q_tail + k) % Depth].id = accepted - q_count + 1 + k
      <4>1. k \in 0 .. q_count - 1
        BY <1>1, <2>1, <2>3
      <4> QED
        BY <4>1 DEF QueueInv, QueueWindow
    <3> QED
      BY <1>1, <1>2, <1>3, <2>1, <3>2, <3>3
  <2> QED
    BY <1>1, <1>2, <2>1, <2>2, <2>3
<1>6. QueueWindow'
  BY <1>1, <1>2, <1>4, <1>5 DEF QueueWindow
<1>7. accepted' - q_count' = accepted - q_count
  BY <1>1, <1>2
<1>8. CallGraph' /\ TopInv'
  BY <1>1, <1>2, <1>3, <1>7 DEF QueueInv, CallGraph, TopInv, Runs, Top
<1>9. FiresInv'
  BY <1>1, <1>2, <1>3, <1>7 DEF QueueInv, FiresInv, InCallback, Runs, Top
<1> QED
  BY <1>6, <1>8, <1>9

-----------------------------------------------------------------------------
\* One lemma per group of actions.

Goal == QueueWindow' /\ CallGraph' /\ TopInv' /\ FiresInv'

\* The frame of a callback of the active command is a frame.
LEMMA CallbackFrame ==
  ASSUME TypeOK, NEW status \in Statuses, NEW l \in Line
  PROVE  [pc |-> "callback", slot |-> q_tail, id |-> Active.id,
          status |-> status, by |-> l.id, n |-> l.n] \in Frame
BY DEF TypeOK, Active, Entry, Frame, Line, Pcs

\* engine_finalize called by what is now the innermost call.
LEMMA FinalizeNested ==
  ASSUME QueueInv, q_count > 0, ~InCallback,
         NEW status \in Statuses, NEW l \in Line,
         engine_finalize(status, l, stack), UNCHANGED <<state, accepted>>,
         stack # <<>> => <<Top.pc, "callback">> \in CallSites
  PROVE  Goal
<1> DEFINE f == [pc |-> "callback", slot |-> q_tail, id |-> Active.id,
                 status |-> status, by |-> l.id, n |-> l.n]
<1>1. f \in Frame
  BY CallbackFrame DEF QueueInv
<1>2. stack' = Append(stack, f) /\ Fire(Active.id) /\ UNCHANGED qvars
  BY DEF engine_finalize
<1>3. f.pc = "callback" /\ f.slot = q_tail /\ f.id = Active.id
  OBVIOUS
<1> HIDE DEF f
<1>4. CallGraph' /\ stack' # <<>> /\ Top' = f
  BY <1>1, <1>2, <1>3, PushGraph DEF QueueInv
<1> QED
  BY <1>1, <1>2, <1>3, <1>4, CallbackStep DEF Goal

\* engine_finalize called by at_process, which goes on at p.
LEMMA FinalizeFromProcess ==
  ASSUME QueueInv, q_count > 0, ~InCallback, stack # <<>>,
         Top.pc \in {"timeout", "body"}, NEW p \in {"start", "drain"},
         NEW status \in Statuses, NEW l \in Line,
         engine_finalize(status, l, Goto(p)), UNCHANGED <<state, accepted>>
  PROVE  Goal
<1> DEFINE f == [pc |-> "callback", slot |-> q_tail, id |-> Active.id,
                 status |-> status, by |-> l.id, n |-> l.n]
<1>1. f \in Frame
  BY CallbackFrame DEF QueueInv
<1>2. stack' = Append(Goto(p), f) /\ Fire(Active.id) /\ UNCHANGED qvars
  BY DEF engine_finalize
<1>3. f.pc = "callback" /\ f.slot = q_tail /\ f.id = Active.id
  OBVIOUS
<1> HIDE DEF f
<1>4. Callers = <<>>
  BY ProcessAlone DEF QueueInv
<1>5. Goto(p) = <<At(p)>>
  BY <1>4 DEF Goto
<1>6. /\ Len(stack') = 2 /\ stack' # <<>>
      /\ stack'[1] = At(p) /\ stack'[2] = f
  BY <1>2, <1>5
<1>7. Top' = f
  BY <1>6 DEF Top
<1>8. CallGraph'
  <2>1. <<stack'[1].pc, stack'[2].pc>> \in CallSites
    BY <1>3, <1>6 DEF CallSites
  <2> QED
    BY <1>6, <2>1 DEF CallGraph
<1> QED
  BY <1>1, <1>2, <1>3, <1>6, <1>7, <1>8, CallbackStep DEF Goal

\* A call that calls nothing starts or ends.
LEMMA PushQuiet ==
  ASSUME QueueInv, ~InCallback, UNCHANGED <<qvars, state, accepted, fires>>,
         NEW f \in Frame, stack' = Append(stack, f),
         f.pc \in {"urc", "flush", "drain"}, f.pc = "flush" => state = "IDLE",
         stack # <<>> => <<Top.pc, f.pc>> \in CallSites
  PROVE  Goal
<1>1. CallGraph' /\ stack' # <<>> /\ Top' = f
  BY PushGraph DEF QueueInv
<1>2. /\ ~InCallback' /\ ~(Runs("write") \/ Runs("body"))'
      /\ (Runs("flush") => state = "IDLE")'
  BY <1>1 DEF InCallback, Runs
<1>3. state' # "IDLE" => q_count > 0
  BY DEF QueueInv, QueueWindow
<1> QED
  BY <1>1, <1>2, <1>3, QuietStep DEF Goal

\* A call that calls nothing back returns.
LEMMA PopQuiet ==
  ASSUME QueueInv, stack # <<>>, ~InCallback, UNCHANGED <<qvars, accepted, fires>>,
         state' # "IDLE" => q_count > 0,
         Top.pc \in {"start", "write", "urc", "flush"}, stack' = Callers
  PROVE  Goal
<1>1. CallGraph' /\ (stack' # <<>> => <<Top'.pc, Top.pc>> \in CallSites)
  BY PopGraph DEF QueueInv
<1>2. stack' # <<>> => Top'.pc \in {"drain", "urc"}
  BY <1>1 DEF CallSites
<1>3. /\ ~InCallback' /\ ~(Runs("write") \/ Runs("body"))' /\ ~Runs("flush")'
  BY <1>2 DEF InCallback, Runs
<1> QED
  BY <1>1, <1>3, QuietStep DEF Goal

\* at_process goes on to its next part.
LEMMA GotoQuiet ==
  ASSUME QueueInv, ~InCallback, UNCHANGED <<qvars, accepted, fires>>,
         stack # <<>>, Top.pc \in {"drain", "timeout", "start", "write", "body"},
         NEW f \in Frame, stack' = Append(Callers, f),
         f.pc \in {"drain", "timeout", "start", "write", "body"},
         state' # "IDLE" => q_count > 0,
         f.pc \in {"write", "body"} => q_count > 0
  PROVE  Goal
<1>1. CallGraph' /\ stack' # <<>> /\ Top' = f
  BY GotoGraph DEF QueueInv
<1>2. /\ ~InCallback' /\ ~Runs("flush")'
      /\ (Runs("write") \/ Runs("body"))' => q_count > 0
  BY <1>1 DEF InCallback, Runs
<1> QED
  BY <1>1, <1>2, QuietStep DEF Goal

\* Who may call the API when completion callbacks only send.
LEMMA Caller ==
  ASSUME CbCalls \subseteq {"send"}, NEW c \in {"abort", "reset"}, MayCall(c)
  PROVE  ~InCallback /\ (stack # <<>> => Top.pc = "urc")
BY DEF MayCall, InCallback, Runs

\* The calls of the API keep the invariant.
LEMMA UserStep ==
  ASSUME QueueInv, Depth < 256, CbCalls \subseteq {"send"}, User
  PROVE  Goal
<1>1. ASSUME NEW t \in Timeouts, at_send(t)
      PROVE  Goal
  BY <1>1, SendStep DEF Goal
<1>2. CASE at_abort
  <2>1. ~InCallback /\ (stack # <<>> => <<Top.pc, "callback">> \in CallSites)
    BY <1>2, Caller DEF at_abort, CallSites
  <2>2. q_count > 0
    BY <1>2 DEF at_abort, QueueInv, QueueWindow
  <2>3. /\ engine_finalize("ABORTED", NoLine, stack)
        /\ UNCHANGED <<state, accepted>>
    BY <1>2 DEF at_abort, tvars
  <2> QED
    BY <2>1, <2>2, <2>3, FinalizeNested, NoLineType DEF Statuses
<1>3. CASE at_reset
  <2>1. ~InCallback /\ (stack # <<>> => <<Top.pc, "flush">> \in CallSites)
    BY <1>3, Caller DEF at_reset, CallSites
  <2>2. At("flush") \in Frame /\ At("flush").pc = "flush"
    BY DepthAssumption DEF Frame, Slots, Statuses, Pcs
  <2>3. CASE state # "IDLE" /\ q_count > 0
    <3> DEFINE base == Append(stack, At("flush"))
               f == [pc |-> "callback", slot |-> q_tail, id |-> Active.id,
                     status |-> "ABORTED", by |-> NoLine.id, n |-> NoLine.n]
    <3>1. f \in Frame /\ f.pc = "callback" /\ f.slot = q_tail /\ f.id = Active.id
      BY CallbackFrame, NoLineType DEF QueueInv, Statuses
    <3>2. /\ stack' = Append(base, f) /\ Fire(Active.id)
          /\ UNCHANGED <<qvars, accepted, state>>
      BY <1>3, <2>3 DEF at_reset, engine_finalize, tvars
    <3> HIDE DEF f
    <3>3. CallGraph' /\ stack' # <<>> /\ Top' = f
      <4>1. stack \in Seq(Frame)
        BY DEF QueueInv, TypeOK
      <4>2. /\ base \in Seq(Frame) /\ Len(base) = Len(stack) + 1
            /\ \A i \in 1 .. Len(stack) : base[i] = stack[i]
            /\ base[Len(stack) + 1] = At("flush")
        BY <2>2, <4>1
      <4> HIDE DEF base
      <4>3. /\ stack' \in Seq(Frame) /\ Len(stack') = Len(stack) + 2
            /\ \A i \in 1 .. Len(stack) + 1 : stack'[i] = base[i]
            /\ stack'[Len(stack) + 2] = f
        BY <3>1, <3>2, <4>1, <4>2
      <4>4. stack' # <<>> /\ Top' = f
        BY <4>1, <4>3 DEF Top
      <4>5. ASSUME NEW i \in 1 .. Len(stack') - 1
            PROVE  <<stack'[i].pc, stack'[i+1].pc>> \in CallSites
        <5> DEFINE n == Len(stack)
        <5>1. n \in Nat /\ i \in 1 .. n + 1
          BY <4>1, <4>3
        <5>2. CASE i < n
          <6>1. stack'[i] = stack[i] /\ stack'[i+1] = stack[i+1]
            BY <4>2, <4>3, <5>1, <5>2
          <6> QED
            BY <5>1, <5>2, <6>1 DEF QueueInv, CallGraph
        <5>3. CASE i = n
          <6>1. stack'[i] = stack[n] /\ stack'[i+1] = At("flush") /\ stack # <<>>
            BY <4>1, <4>2, <4>3, <5>1, <5>3
          <6> QED
            BY <2>1, <2>2, <6>1 DEF Top
        <5>4. CASE i = n + 1
          <6>1. stack'[i] = At("flush") /\ stack'[i+1] = f
            BY <4>2, <4>3, <5>1, <5>4
          <6> QED
            BY <2>2, <3>1, <6>1 DEF CallSites
        <5> HIDE DEF n
        <5> QED
          BY <5>1, <5>2, <5>3, <5>4
      <4> QED
        BY <4>4, <4>5 DEF CallGraph
    <3> QED
      BY <2>1, <2>3, <3>1, <3>2, <3>3, CallbackStep DEF Goal
  <2>4. CASE ~(state # "IDLE" /\ q_count > 0)
    <3>1. state = "IDLE"
      BY <2>4 DEF QueueInv, QueueWindow
    <3>2. /\ stack' = Append(stack, At("flush"))
          /\ UNCHANGED <<qvars, state, accepted, fires>>
      BY <1>3, <2>4 DEF at_reset, tvars
    <3> QED
      BY <2>1, <2>2, <3>1, <3>2, PushQuiet
  <2> QED
    BY <2>3, <2>4
<1> QED
  BY <1>1, <1>2, <1>3 DEF User

\* The outcomes of engine_dispatch_line keep the invariant.
LEMMA DispatchStep ==
  ASSUME QueueInv, Dispatch
  PROVE  Goal
<1>1. /\ stack # <<>> /\ Top.pc = "drain" /\ rx # <<>> /\ ~InCallback
  BY DEF Dispatch, DispatchEcho, DispatchPrompt, DispatchFinal, DispatchUrc,
         DispatchOther, Drains, Runs, InCallback
<1>2. Head(rx) \in Line
  BY <1>1 DEF QueueInv, TypeOK
<1>3. CASE DispatchEcho
  BY <1>3, SameStackStep DEF DispatchEcho, Goal, tvars, hvars
<1>4. CASE DispatchPrompt
  <2>1. Waiting /\ q_count > 0
    BY <1>4 DEF DispatchPrompt, IsPrompt, Waiting, QueueInv, QueueWindow
  <2>2. CASE WantsBody
    <3> DEFINE f == [At("body") EXCEPT !.by = Head(rx).id]
    <3>1. f \in Frame /\ f.pc = "body"
      BY <1>2, DepthAssumption DEF Frame, Line, Slots, Statuses, Pcs
    <3>2. stack' = Append(Callers, f) /\ UNCHANGED <<qvars, accepted, fires>>
      BY <1>4, <2>2 DEF DispatchPrompt
    <3> HIDE DEF f
    <3> QED
      BY <1>1, <2>1, <3>1, <3>2, GotoQuiet
  <2>3. CASE ~WantsBody
    BY <1>4, <2>3, SameStackStep DEF DispatchPrompt, Goal, tvars
  <2> QED
    BY <2>2, <2>3
<1>5. CASE DispatchFinal
  <2> DEFINE status == IF Head(rx).kind = "ok" THEN "OK" ELSE "ERROR"
  <2>1. status \in Statuses
    BY DEF Statuses
  <2>2. /\ engine_finalize(status, Head(rx), stack)
        /\ UNCHANGED <<state, accepted>>
    BY <1>5 DEF DispatchFinal, tvars
  <2> HIDE DEF status
  <2>3. q_count > 0
    BY <1>5 DEF DispatchFinal, engine_is_final, Waiting, QueueInv, QueueWindow
  <2>4. <<Top.pc, "callback">> \in CallSites
    BY <1>1 DEF CallSites
  <2> QED
    BY <1>1, <1>2, <2>1, <2>2, <2>3, <2>4, FinalizeNested
<1>6. CASE DispatchUrc
  <2>1. At("urc") \in Frame /\ At("urc").pc = "urc"
    BY DepthAssumption DEF Frame, Slots, Statuses, Pcs
  <2>2. stack' = Append(stack, At("urc")) /\ UNCHANGED <<qvars, state, accepted, fires>>
    BY <1>6 DEF DispatchUrc, tvars, hvars
  <2>3. <<Top.pc, "urc">> \in CallSites
    BY <1>1 DEF CallSites
  <2> QED
    BY <1>1, <2>1, <2>2, <2>3, PushQuiet
<1>7. CASE DispatchOther
  BY <1>7, SameStackStep DEF DispatchOther, Goal, tvars, hvars
<1> QED
  BY <1>3, <1>4, <1>5, <1>6, <1>7 DEF Dispatch

\* The other steps of at_process and at_reset keep the invariant.
LEMMA TaskStepStep ==
  ASSUME QueueInv, TaskStep
  PROVE  Goal
<1>1. \A p \in Pcs : At(p) \in Frame /\ At(p).pc = p
  BY DepthAssumption DEF Frame, Slots, Statuses
<1>2. CASE Dispatch
  BY <1>2, DispatchStep
<1>3. CASE CheckTimeout
  <2>1. stack # <<>> /\ Top.pc = "timeout" /\ ~InCallback
    BY <1>3 DEF CheckTimeout, Runs, InCallback
  <2>2. CASE Expired
    <3>1. q_count > 0
      BY <2>2 DEF Expired, QueueInv, QueueWindow
    <3>2. /\ engine_finalize("TIMEOUT", NoLine, Goto("start"))
          /\ UNCHANGED <<state, accepted>>
      BY <1>3, <2>2 DEF CheckTimeout, tvars
    <3> QED
      BY <2>1, <3>1, <3>2, FinalizeFromProcess, NoLineType DEF Statuses
  <2>3. CASE ~Expired
    <3>1. /\ stack' = Append(Callers, At("start"))
          /\ UNCHANGED <<qvars, state, accepted, fires>>
      BY <1>3, <2>3 DEF CheckTimeout, tvars, Goto
    <3>2. At("start") \in Frame /\ At("start").pc = "start"
      BY <1>1 DEF Pcs
    <3>3. state' # "IDLE" => q_count > 0
      BY <3>1 DEF QueueInv, QueueWindow
    <3> QED
      BY <2>1, <3>1, <3>2, <3>3, GotoQuiet
  <2> QED
    BY <2>2, <2>3
<1>4. CASE engine_start_next
  <2>1. stack # <<>> /\ Top.pc = "start" /\ ~InCallback /\ q_count > 0
    BY <1>4 DEF engine_start_next, MayStart, Runs, InCallback
  <2>2. /\ stack' = Append(Callers, At("write"))
        /\ UNCHANGED <<qvars, accepted, fires>>
    BY <1>4 DEF engine_start_next, Goto
  <2>3. At("write") \in Frame /\ At("write").pc = "write"
    BY <1>1 DEF Pcs
  <2> QED
    BY <2>1, <2>2, <2>3, GotoQuiet
<1>5. CASE process_end
  <2>1. stack # <<>> /\ Top.pc = "start" /\ ~InCallback
    BY <1>5 DEF process_end, Runs, InCallback
  <2>2. stack' = Callers /\ UNCHANGED <<qvars, state, accepted, fires>>
    BY <1>5 DEF process_end, tvars, hvars
  <2>3. state' # "IDLE" => q_count > 0
    BY <2>2 DEF QueueInv, QueueWindow
  <2> QED
    BY <2>1, <2>2, <2>3, PopQuiet
<1>6. CASE WriteDone
  <2>1. stack # <<>> /\ Top.pc = "write" /\ ~InCallback
    BY <1>6 DEF WriteDone, Runs, InCallback
  <2>2. stack' = Callers /\ UNCHANGED <<qvars, accepted, fires>>
    BY <1>6 DEF WriteDone, hvars
  <2>3. q_count > 0
    BY <1>6 DEF WriteDone, QueueInv, TopInv
  <2> QED
    BY <2>1, <2>2, <2>3, PopQuiet
<1>7. CASE WriteFailed
  <2> DEFINE f == [pc |-> "callback", slot |-> q_tail, id |-> Active.id,
                   status |-> "IO", by |-> NoLine.id, n |-> NoLine.n]
  <2>1. stack # <<>> /\ Top.pc = "write" /\ ~InCallback
    BY <1>7 DEF WriteFailed, Runs, InCallback
  <2>2. q_count > 0
    BY <1>7 DEF WriteFailed, QueueInv, TopInv
  <2>3. f \in Frame /\ f.pc = "callback" /\ f.slot = q_tail /\ f.id = Active.id
    BY CallbackFrame, NoLineType DEF QueueInv, Statuses
  <2>4. /\ stack' = Append(Callers, f) /\ Fire(Active.id)
        /\ UNCHANGED <<qvars, accepted, state>>
    BY <1>7 DEF WriteFailed, engine_finalize, tvars
  <2> HIDE DEF f
  <2>5. CallGraph' /\ stack' # <<>> /\ Top' = f
    BY <2>1, <2>3, <2>4, GotoGraph DEF QueueInv
  <2> QED
    BY <2>1, <2>2, <2>3, <2>4, <2>5, CallbackStep DEF Goal
<1>8. CASE BodyDone
  <2>1. stack # <<>> /\ Top.pc = "body" /\ ~InCallback
    BY <1>8 DEF BodyDone, Runs, InCallback
  <2>2. stack' = Append(Callers, At("drain")) /\ UNCHANGED <<qvars, accepted, fires>>
    BY <1>8 DEF BodyDone, hvars, Goto
  <2>3. q_count > 0
    BY <1>8 DEF BodyDone, QueueInv, TopInv
  <2>4. At("drain") \in Frame /\ At("drain").pc = "drain"
    BY <1>1 DEF Pcs
  <2> QED
    BY <2>1, <2>2, <2>3, <2>4, GotoQuiet
<1>9. CASE BodyFailed
  <2>1. stack # <<>> /\ Top.pc = "body" /\ ~InCallback
    BY <1>9 DEF BodyFailed, Runs, InCallback
  <2>2. q_count > 0
    BY <1>9 DEF BodyFailed, QueueInv, TopInv
  <2>3. /\ engine_finalize("IO", NoLine, Goto("drain"))
        /\ UNCHANGED <<state, accepted>>
    BY <1>9 DEF BodyFailed, tvars
  <2> QED
    BY <2>1, <2>2, <2>3, FinalizeFromProcess, NoLineType DEF Statuses
<1>10. CASE reset_flush
  <2> DEFINE f == [At("flushed") EXCEPT !.slot = q_tail, !.id = Active.id,
                                        !.status = "ABORTED"]
  <2>1. stack # <<>> /\ Top.pc = "flush" /\ ~InCallback /\ q_count > 0 /\ state = "IDLE"
    BY <1>10 DEF reset_flush, Runs, InCallback, QueueInv, TopInv
  <2>2. f \in Frame /\ f.pc = "flushed" /\ f.slot = q_tail /\ f.id = Active.id
    BY <1>1 DEF QueueInv, TypeOK, Active, Entry, Frame, Pcs, Statuses
  <2>3. /\ stack' = Append(stack, f) /\ Fire(Active.id)
        /\ UNCHANGED <<qvars, accepted, state>>
    BY <1>10 DEF reset_flush, tvars
  <2> HIDE DEF f
  <2>4. <<Top.pc, f.pc>> \in CallSites
    BY <2>1, <2>2 DEF CallSites
  <2>5. CallGraph' /\ stack' # <<>> /\ Top' = f
    BY <2>2, <2>3, <2>4, PushGraph DEF QueueInv
  <2> QED
    BY <2>1, <2>2, <2>3, <2>5, CallbackStep DEF Goal
<1>11. CASE reset_end
  <2>1. stack # <<>> /\ Top.pc = "flush" /\ ~InCallback
    BY <1>11 DEF reset_end, Runs, InCallback
  <2>2. stack' = Callers /\ state' = "IDLE" /\ UNCHANGED <<qvars, accepted, fires>>
    BY <1>11 DEF reset_end, hvars
  <2> QED
    BY <2>1, <2>2, PopQuiet
<1> QED
  BY <1>2, <1>3, <1>4, <1>5, <1>6, <1>7, <1>8, <1>9, <1>10, <1>11
  DEF TaskStep, Writes

\* The returns keep the invariant.
LEMMA ReturnsStep ==
  ASSUME QueueInv, Returns
  PROVE  Goal
<1>1. CASE finalize_return \/ flush_return
  <2>1. stack # <<>> /\ Top.pc \in {"callback", "flushed"} /\ InCallback
    BY <1>1 DEF finalize_return, flush_return, Runs, InCallback
  <2>2. /\ stack' = Callers /\ UNCHANGED <<q_head, accepted, fires>>
        /\ q_tail' = NextSlot(q_tail) /\ q_count' = Dequeued
    BY <1>1 DEF finalize_return, flush_return, hvars
  <2>3. \A s \in Slots \ {q_tail} : queue'[s] = queue[s]
    <3>1. CASE finalize_return
      <4>1. Top.slot = q_tail
        BY <2>1 DEF QueueInv, TopInv, InCallback
      <4>2. queue' = [queue EXCEPT ![q_tail] = Zeroed]
        BY <3>1, <4>1 DEF finalize_return
      <4> QED
        BY <4>2 DEF QueueInv, TypeOK
    <3>2. CASE flush_return
      BY <3>2 DEF flush_return
    <3> QED
      BY <1>1, <3>1, <3>2
  <2>4. state' = "IDLE"
    BY <1>1 DEF finalize_return, flush_return, QueueInv, TopInv, tvars
  <2>5. CallGraph' /\ (stack' # <<>> => <<Top'.pc, Top.pc>> \in CallSites)
    BY <2>1, <2>2, PopGraph DEF QueueInv
  <2>6. stack' # <<>> => Top'.pc \in {"drain", "start", "urc", "flush"}
    BY <2>5 DEF CallSites
  <2>7. ~InCallback' /\ ~(Runs("write") \/ Runs("body"))'
    BY <2>6 DEF InCallback, Runs
  <2> QED
    BY <2>1, <2>2, <2>3, <2>4, <2>5, <2>7, DequeueStep DEF Goal
<1>2. CASE urc_return
  <2>1. stack # <<>> /\ Top.pc = "urc" /\ ~InCallback
    BY <1>2 DEF urc_return, Runs, InCallback
  <2>2. stack' = Callers /\ UNCHANGED <<qvars, state, accepted, fires>>
    BY <1>2 DEF urc_return, tvars, hvars
  <2>3. state' # "IDLE" => q_count > 0
    BY <2>2 DEF QueueInv, QueueWindow
  <2> QED
    BY <2>1, <2>2, <2>3, PopQuiet
<1> QED
  BY <1>1, <1>2 DEF Returns

\* Interrupts and the modem leave the queue and the stack alone.
LEMMA OutsideStep ==
  ASSUME QueueInv, Tick \/ Modem \/ UNCHANGED vars
  PROVE  Goal
<1>1. UNCHANGED <<qvars, accepted, fires, state, stack>>
  BY DEF Tick, at_tick, Modem, ModemEcho, ModemPrompt, ModemData, ModemFinal, ModemRestart,
         ModemUnsolicited, at_feed, vars, tvars, hvars
<1> QED
  BY <1>1, SameStackStep DEF Goal

\* Every step keeps the invariant.
LEMMA NextStep ==
  ASSUME QueueInv, Depth < 256, CbCalls \subseteq {"send"}, [Next]_vars
  PROVE  Goal
<1>1. CASE at_process
  <2>1. stack = <<>> /\ ~InCallback
    BY <1>1 DEF at_process, InCallback, Runs
  <2>2. At("drain") \in Frame /\ At("drain").pc = "drain"
    BY DepthAssumption DEF Frame, Slots, Statuses, Pcs
  <2>3. stack' = Append(stack, At("drain")) /\ UNCHANGED <<qvars, state, accepted, fires>>
    BY <1>1, <2>1 DEF at_process, tvars, hvars
  <2> QED
    BY <2>1, <2>2, <2>3, PushQuiet
<1>2. CASE DrainEnd
  <2>1. stack # <<>> /\ Top.pc = "drain" /\ ~InCallback
    BY <1>2 DEF DrainEnd, Runs, InCallback
  <2>2. /\ stack' = Append(Callers, At("timeout"))
        /\ UNCHANGED <<qvars, state, accepted, fires>>
    BY <1>2 DEF DrainEnd, Goto, tvars, hvars
  <2>3. At("timeout") \in Frame /\ At("timeout").pc = "timeout"
    BY DepthAssumption DEF Frame, Slots, Statuses, Pcs
  <2>4. state' # "IDLE" => q_count > 0
    BY <2>2 DEF QueueInv, QueueWindow
  <2> QED
    BY <2>1, <2>2, <2>3, <2>4, GotoQuiet
<1> QED
  BY <1>1, <1>2, UserStep, TaskStepStep, ReturnsStep, OutsideStep DEF Next

\* The invariant holds when at_init has run.
LEMMA InitQueue ==
  ASSUME Init
  PROVE  QueueInv
<1>1. TypeOK
  BY InitType
<1>2. QueueWindow
  BY DepthAssumption DEF Init, QueueWindow
<1>3. CallGraph /\ TopInv
  BY DEF Init, CallGraph, TopInv, Runs
<1>4. FiresInv
  BY DEF Init, FiresInv, InCallback, Runs, Ids
<1> QED
  BY <1>1, <1>2, <1>3, <1>4 DEF QueueInv

\* QueueInductive. The strengthening is an invariant.
THEOREM QueueInductive ==
  ASSUME Depth < 256, CbCalls \subseteq {"send"}
  PROVE  Spec => []QueueInv
<1>1. Init => QueueInv
  BY InitQueue
<1>2. QueueInv /\ TypeOK' /\ [Next]_vars => QueueInv'
  BY NextStep DEF Goal, QueueInv
<1> QED
  BY <1>1, <1>2, TypeCorrect, PTL DEF Spec

\* QueueSafe. No accepted command is lost or overtaken in the queue, whatever
\* the modem, the ticks and the write results do and however the calls nest
\* in URC handlers, for every depth that q_count can count to; completion
\* callbacks may enqueue follow-ups but not abort or reset.
THEOREM QueueSafe ==
  ASSUME Depth < 256, CbCalls \subseteq {"send"}
  PROVE  Spec => []QueueWindow
<1>1. QueueInv => QueueWindow
  BY DEF QueueInv
<1> QED
  BY <1>1, QueueInductive, PTL

\* CompletesOnce. Under the same conditions every accepted command's callback
\* is called once, in the order of the at_send calls.
THEOREM CompletesOnce ==
  ASSUME Depth < 256, CbCalls \subseteq {"send"}
  PROVE  Spec => []CompletedOnce
<1>1. QueueInv => CompletedOnce
  <2> SUFFICES ASSUME QueueInv, NEW c \in 1 .. accepted
               PROVE  fires[c] = IF c <= accepted - q_count \/ CallbackRuns(c)
                                   THEN 1 ELSE 0
    BY DEF CompletedOnce
  <2>1. c \in Ids
    BY BoundAssumption DEF QueueInv, TypeOK, Ids
  <2>2. CallbackRuns(c) <=> (InCallback /\ Top.id = c)
    <3>1. stack \in Seq(Frame)
      BY DEF QueueInv, TypeOK
    <3>2. ASSUME NEW i \in DOMAIN stack, stack[i].pc \in {"callback", "flushed"}
          PROVE  i = Len(stack)
      <4>1. i \in 1 .. Len(stack) /\ Len(stack) \in Nat
        BY <3>1
      <4>2. ASSUME i \in 1 .. Len(stack) - 1
            PROVE  FALSE
        BY <3>2, <4>2 DEF QueueInv, CallGraph, CallSites
      <4> QED
        BY <4>1, <4>2
    <3>3. stack # <<>> => Len(stack) \in DOMAIN stack
      BY <3>1
    <3> QED
      BY <3>1, <3>2, <3>3 DEF CallbackRuns, InCallback, Runs, Top
  <2>3. InCallback => Top.id = accepted - q_count + 1
    BY DEF QueueInv, TopInv, InCallback
  <2> QED
    BY <2>1, <2>2, <2>3 DEF QueueInv, FiresInv
<1> QED
  BY <1>1, QueueInductive, PTL
=============================================================================

------------------------ MODULE AtEngineAnswerProofs ------------------------
(***************************************************************************)
(* The life of the active command of AtEngine: what its timer has counted, *)
(* which lines in flight are its own, and that the answer its callback     *)
(* gets is its own and whole. As for the queue in AtEngineProofs, for      *)
(* every queue depth q_count can count to, as long as completion callbacks *)
(* call nothing but at_send.                                               *)
(*                                                                         *)
(* The invariants come in layers, each relying on those before it: the     *)
(* stage the engine is in, its clock, what is in flight, the echo, and the *)
(* tally of information lines.                                             *)
(***************************************************************************)
EXTENDS AtEngineProofs

USE DEF At, LineFor, NoId

\* Which call goes with which state: at_process drains, checks the timeout
\* and starts a command only while the engine is idle or waits.
StageInv ==
  /\ state = "PROMPT" => Runs("body") \/ Runs("callback")
  /\ state = "SENDING" => Runs("write") \/ Runs("callback")
  /\ Runs("body") => state = "PROMPT" /\ Active.sms
  /\ Runs("write") => state = "SENDING"
  /\ Runs("callback") => state # "IDLE"

\* The timer and the ticks since it was loaded make up at least what it was
\* loaded with, more when a tick passed the end, and a timed-out command's timer
\* stays at zero during its callback.
ClockInv ==
  /\ state # "IDLE" =>
       timer_ms + elapsed >= IF body_sent THEN PromptTimeout ELSE Active.timeout
  /\ Runs("callback") /\ Top.status = "TIMEOUT" => timer_ms = 0

\* Something of a command, and no unsolicited line, is on its way.
SomethingInFlight == modem # <<>> \/ \E i \in DOMAIN rx : rx[i].id # NoId

\* Until something is given up or lost, all that is in flight is the active
\* command's, it waits, and its final result code comes last.
FlightInv ==
  ~disturbed =>
    /\ Len(modem) <= 1
    /\ \A i \in DOMAIN modem : modem[i].id = Active.id
    /\ \A i \in DOMAIN rx :
         /\ rx[i].id \in {NoId, Active.id}
         /\ rx[i].id = NoId <=> rx[i].kind = "urc"
         /\ rx[i].kind # "nocarrier"
         /\ rx[i].kind \in Finals =>
              modem = <<>> /\ \A j \in DOMAIN rx : j > i => rx[j].id = NoId
    /\ SomethingInFlight => state \in {"WAITING", "PROMPT"} /\ ~InCallback
    /\ Runs("body") => Top.by = Active.id

\* The preconditions of OwnResponse.
Clean == EchoCancel /\ "urc" \in UrcKinds /\ "data" \notin UrcKinds

\* The echo to come, or received, of the active command finds echo_armed set.
EchoInv ==
  Clean =>
    /\ state # "IDLE" => echo_expect = Active.id
    /\ state = "SENDING" => echo_armed
    /\ ~disturbed =>
         /\ modem # <<>> /\ ~Head(modem).echoed =>
              echo_armed /\ \A i \in DOMAIN rx : rx[i].kind # "echo"
         /\ \A i \in DOMAIN rx : rx[i].kind = "echo" =>
              echo_armed /\ \A j \in DOMAIN rx : rx[j].kind = "echo" => j = i

LeastOf(a, b) == IF a < b THEN a ELSE b

DataIn(l) == IF l.kind = "data" THEN 1 ELSE 0

\* t[i] is how many information lines of the active command came up to and
\* with rx[i], t[0] how many before the receive buffer.
Tally(t) ==
  /\ \A i \in 1 .. Len(rx) : t[i] = t[i-1] + DataIn(rx[i])
  /\ \A i \in 1 .. Len(rx) : rx[i].kind \in Finals => rx[i].n = t[i]
  /\ modem # <<>> => Head(modem).sent = t[Len(rx)]
  /\ state = "SENDING" => \A i \in 0 .. Len(rx) : t[i] = 0
  /\ Len(pool) = LeastOf(t[0], LinesMax)

\* The pool holds the active command's information lines received so far,
\* and the tally goes on in the receive buffer.
Collecting ==
  /\ \A i \in DOMAIN pool : pool[i] = Active.id
  /\ \E t \in [0 .. Len(rx) -> Nat] : Tally(t)

\* The callback has its command's own answer.
Answered ==
  /\ Top.by = Top.id
  /\ \A i \in DOMAIN pool : pool[i] = Top.id
  /\ Len(pool) = LeastOf(Top.n, LinesMax)

AnswerRuns == Runs("callback") /\ Top.status \in {"OK", "ERROR"}

AnswerInv ==
  Clean /\ ~disturbed =>
    /\ state # "IDLE" /\ ~InCallback => Collecting
    /\ AnswerRuns => Answered

-----------------------------------------------------------------------------
\* What the steps do to the innermost call.

Enters(f) == stack' # <<>> /\ Top' = f
Leaves == stack' # <<>> => Top'.pc \in {"drain", "start", "urc", "flush"}
CallbackOf(status, l) ==
  [pc |-> "callback", slot |-> q_tail, id |-> Active.id,
   status |-> status, by |-> l.id, n |-> l.n]
BodyOf(l) == [At("body") EXCEPT !.by = l.id]

\* A frame put on some callers is the innermost call.
LEMMA Entered ==
  ASSUME NEW callers \in Seq(Frame), NEW f \in Frame, stack' = Append(callers, f)
  PROVE  Enters(f)
BY DEF Enters, Top

\* at_process goes on to its next part.
LEMMA GotoTop ==
  ASSUME QueueInv, stack # <<>>, NEW p \in Pcs, stack' = Goto(p)
  PROVE  Enters(At(p))
<1>1. At(p) \in Frame
  BY DepthAssumption DEF Frame, Slots, Statuses
<1>2. stack \in Seq(Frame)
  BY DEF QueueInv, TypeOK
<1>3. Callers \in Seq(Frame)
  BY <1>2, CallersType
<1> QED
  BY <1>1, <1>3, Entered DEF Goto

\* engine_finalize calls back.
LEMMA Finalized ==
  ASSUME QueueInv, NEW callers \in Seq(Frame), NEW status \in Statuses, NEW l \in Line,
         engine_finalize(status, l, callers)
  PROVE  Enters(CallbackOf(status, l))
<1>1. CallbackOf(status, l) \in Frame
  BY CallbackFrame DEF CallbackOf, QueueInv
<1>2. stack' = Append(callers, CallbackOf(status, l))
  BY DEF engine_finalize, CallbackOf
<1> QED
  BY <1>1, <1>2, Entered

\* The API's calls.
LEMMA UserTops ==
  ASSUME QueueInv, CbCalls \subseteq {"send"}
  PROVE  /\ at_abort => ~InCallback /\ Enters(CallbackOf("ABORTED", NoLine))
         /\ at_reset =>
              /\ ~InCallback
              /\ IF state # "IDLE" THEN Enters(CallbackOf("ABORTED", NoLine))
                                   ELSE Enters(At("flush"))
<1>1. stack \in Seq(Frame)
  BY DEF QueueInv, TypeOK
<1>2. At("flush") \in Frame
  BY DepthAssumption DEF Frame, Slots, Statuses, Pcs
<1>3. "ABORTED" \in Statuses
  BY DEF Statuses
<1>4. ASSUME at_abort
      PROVE  ~InCallback /\ Enters(CallbackOf("ABORTED", NoLine))
  <2>1. ~InCallback
    BY <1>4, Caller DEF at_abort
  <2>2. engine_finalize("ABORTED", NoLine, stack)
    BY <1>4 DEF at_abort
  <2> QED
    BY <1>1, <1>3, <2>1, <2>2, Finalized, NoLineType
<1>5. ASSUME at_reset
      PROVE  /\ ~InCallback
             /\ IF state # "IDLE" THEN Enters(CallbackOf("ABORTED", NoLine))
                                  ELSE Enters(At("flush"))
  <2>1. ~InCallback
    BY <1>5, Caller DEF at_reset
  <2>2. CASE state # "IDLE"
    <3>1. q_count > 0
      BY <2>2 DEF QueueInv, QueueWindow
    <3>2. engine_finalize("ABORTED", NoLine, Append(stack, At("flush")))
      BY <1>5, <2>2, <3>1 DEF at_reset
    <3>3. Append(stack, At("flush")) \in Seq(Frame)
      BY <1>1, <1>2
    <3> QED
      BY <1>3, <2>1, <2>2, <3>2, <3>3, Finalized, NoLineType
  <2>3. CASE state = "IDLE"
    <3>1. stack' = Append(stack, At("flush"))
      BY <1>5, <2>3 DEF at_reset
    <3> QED
      BY <1>1, <1>2, <2>1, <2>3, <3>1, Entered
  <2> QED
    BY <2>2, <2>3
<1> QED
  BY <1>4, <1>5

\* The outcomes of engine_dispatch_line.
LEMMA DispatchTops ==
  ASSUME QueueInv
  PROVE  /\ DispatchPrompt => IF Active.sms THEN Enters(BodyOf(Head(rx)))
                                            ELSE UNCHANGED stack
         /\ DispatchFinal =>
              Enters(CallbackOf(IF Head(rx).kind = "ok" THEN "OK" ELSE "ERROR", Head(rx)))
         /\ DispatchUrc => Enters(At("urc"))
<1>1. stack \in Seq(Frame)
  BY DEF QueueInv, TypeOK
<1>2. rx # <<>> => Head(rx) \in Line
  BY DEF QueueInv, TypeOK
<1>3. ASSUME DispatchPrompt
      PROVE  IF Active.sms THEN Enters(BodyOf(Head(rx))) ELSE UNCHANGED stack
  <2>1. stack # <<>> /\ rx # <<>>
    BY <1>3 DEF DispatchPrompt, Drains, Runs
  <2>2. BodyOf(Head(rx)) \in Frame
    BY <1>2, <2>1, DepthAssumption DEF BodyOf, Frame, Line, Slots, Statuses, Pcs
  <2>3. Active.sms => stack' = Append(Callers, BodyOf(Head(rx)))
    BY <1>3 DEF DispatchPrompt, WantsBody, BodyOf
  <2>4. ~Active.sms => UNCHANGED stack
    BY <1>3 DEF DispatchPrompt, WantsBody
  <2> QED
    BY <1>1, <2>1, <2>2, <2>3, <2>4, CallersType, Entered
<1>4. ASSUME DispatchFinal
      PROVE  Enters(CallbackOf(IF Head(rx).kind = "ok" THEN "OK" ELSE "ERROR", Head(rx)))
  <2> DEFINE status == IF Head(rx).kind = "ok" THEN "OK" ELSE "ERROR"
  <2>1. status \in Statuses /\ rx # <<>>
    BY <1>4 DEF Statuses, DispatchFinal, Drains
  <2>2. engine_finalize(status, Head(rx), stack)
    BY <1>4 DEF DispatchFinal
  <2> HIDE DEF status
  <2>3. Enters(CallbackOf(status, Head(rx)))
    BY <1>1, <1>2, <2>1, <2>2, Finalized
  <2> QED
    BY <2>3 DEF status
<1>5. ASSUME DispatchUrc
      PROVE  Enters(At("urc"))
  <2>1. At("urc") \in Frame
    BY DepthAssumption DEF Frame, Slots, Statuses, Pcs
  <2> QED
    BY <1>1, <1>5, <2>1, Entered DEF DispatchUrc
<1> QED
  BY <1>3, <1>4, <1>5

\* The parts of at_process and at_reset.
LEMMA TaskTops ==
  ASSUME QueueInv
  PROVE  /\ at_process => Enters(At("drain"))
         /\ DrainEnd => Enters(At("timeout"))
         /\ CheckTimeout => IF Expired THEN Enters(CallbackOf("TIMEOUT", NoLine))
                                       ELSE Enters(At("start"))
         /\ engine_start_next => Enters(At("write"))
         /\ WriteFailed \/ BodyFailed => Enters(CallbackOf("IO", NoLine))
         /\ BodyDone => Enters(At("drain"))
         /\ reset_flush => stack' # <<>> /\ Top'.pc = "flushed"
<1>1. stack \in Seq(Frame)
  BY DEF QueueInv, TypeOK
<1>2. \A p \in Pcs : At(p) \in Frame
  BY DepthAssumption DEF Frame, Slots, Statuses
<1>3. at_process => Enters(At("drain"))
  BY <1>2 DEF at_process, Enters, Top, Pcs
<1>4. ASSUME DrainEnd PROVE Enters(At("timeout"))
  BY <1>4, GotoTop DEF DrainEnd, Runs, Pcs
<1>5. ASSUME engine_start_next PROVE Enters(At("write"))
  BY <1>5, GotoTop DEF engine_start_next, Runs, Pcs
<1>6. ASSUME BodyDone PROVE Enters(At("drain"))
  BY <1>6, GotoTop DEF BodyDone, Runs, Pcs
<1>7. ASSUME CheckTimeout
      PROVE  IF Expired THEN Enters(CallbackOf("TIMEOUT", NoLine))
                        ELSE Enters(At("start"))
  <2>1. stack # <<>> /\ "start" \in Pcs /\ "TIMEOUT" \in Statuses
    BY <1>7 DEF CheckTimeout, Runs, Pcs, Statuses
  <2>2. CASE Expired
    <3>1. engine_finalize("TIMEOUT", NoLine, Goto("start"))
      BY <1>7, <2>2 DEF CheckTimeout
    <3>2. Goto("start") \in Seq(Frame)
      BY <1>1, <2>1, GotoType
    <3> QED
      BY <2>1, <2>2, <3>1, <3>2, Finalized, NoLineType
  <2>3. CASE ~Expired
    <3>1. stack' = Goto("start")
      BY <1>7, <2>3 DEF CheckTimeout
    <3> QED
      BY <2>1, <2>3, <3>1, GotoTop
  <2> QED
    BY <2>2, <2>3
<1>8. ASSUME WriteFailed \/ BodyFailed
      PROVE  Enters(CallbackOf("IO", NoLine))
  <2>1. stack # <<>> /\ "drain" \in Pcs /\ "IO" \in Statuses
    BY <1>8 DEF WriteFailed, BodyFailed, Runs, Pcs, Statuses
  <2>2. CASE engine_finalize("IO", NoLine, Callers)
    BY <1>1, <2>1, <2>2, CallersType, Finalized, NoLineType
  <2>3. CASE engine_finalize("IO", NoLine, Goto("drain"))
    <3>1. Goto("drain") \in Seq(Frame)
      BY <1>1, <2>1, GotoType
    <3> QED
      BY <2>1, <2>3, <3>1, Finalized, NoLineType
  <2> QED
    BY <1>8, <2>2, <2>3 DEF WriteFailed, BodyFailed
<1>9. ASSUME reset_flush
      PROVE  stack' # <<>> /\ Top'.pc = "flushed"
  <2> DEFINE f == [At("flushed") EXCEPT !.slot = q_tail, !.id = Active.id,
                                        !.status = "ABORTED"]
  <2>1. f \in Frame /\ f.pc = "flushed"
    BY <1>2 DEF QueueInv, TypeOK, Active, Entry, Frame, Pcs, Statuses
  <2>2. stack' = Append(stack, f)
    BY <1>9 DEF reset_flush
  <2> HIDE DEF f
  <2> QED
    BY <1>1, <2>1, <2>2, Entered DEF Enters
<1> QED
  BY <1>3, <1>4, <1>5, <1>6, <1>7, <1>8, <1>9

\* What is returned to.
LEMMA ReturnTops ==
  ASSUME QueueInv,
         Returns \/ process_end \/ WriteDone \/ reset_end
  PROVE  Leaves
<1>1. /\ stack # <<>> /\ stack' = Callers
      /\ Top.pc \in {"callback", "flushed", "urc", "start", "write", "flush"}
  BY DEF Returns, finalize_return, flush_return, urc_return, process_end, WriteDone,
         reset_end, Runs
<1>2. stack' # <<>> => <<Top'.pc, Top.pc>> \in CallSites
  BY <1>1, PopGraph DEF QueueInv
<1> QED
  BY <1>1, <1>2 DEF Leaves, CallSites

\* The active command stays the active one until its callback returns.
LEMMA ActiveStays ==
  ASSUME QueueInv, Depth < 256, [Next]_vars, q_count > 0,
         ~(finalize_return \/ flush_return)
  PROVE  Active' = Active
<1>1. CASE \E t \in Timeouts : at_send(t)
  <2>1. q_tail' = q_tail /\ q_count \in 1 .. Depth - 1 /\ q_tail \in Slots
    BY <1>1, DepthAssumption DEF at_send, QueueFull, QueueInv, TypeOK
  <2>2. q_head # q_tail
    <3>1. 0 \in 0 .. Depth - 1 /\ q_count \in 0 .. Depth - 1 /\ q_count # 0
      BY <2>1, DepthAssumption
    <3>2. (q_tail + q_count) % Depth # (q_tail + 0) % Depth
      BY <2>1, <3>1, SlotsDiffer
    <3>3. (q_tail + 0) % Depth = q_tail
      BY <2>1, DepthAssumption DEF Slots
    <3> QED
      BY <3>2, <3>3 DEF QueueInv, QueueWindow
  <2>3. queue'[q_tail] = queue[q_tail]
    BY <1>1, <2>1, <2>2 DEF at_send, QueueInv, TypeOK
  <2> QED
    BY <2>1, <2>3 DEF Active
<1>2. CASE ~\E t \in Timeouts : at_send(t)
  <2>1. UNCHANGED qvars
    BY <1>2 DEF Next, User, at_abort, at_reset, engine_finalize, at_process, TaskStep,
                Dispatch, DispatchEcho, DispatchPrompt, DispatchFinal, DispatchUrc,
                DispatchOther, CheckTimeout, engine_start_next, process_end, Writes,
                WriteDone, WriteFailed, BodyDone, BodyFailed, reset_flush, reset_end,
                DrainEnd, Returns, urc_return, Tick, at_tick, Modem, ModemEcho, ModemPrompt,
                ModemData, ModemFinal, ModemRestart, ModemUnsolicited, at_feed, vars
  <2> QED
    BY <2>1 DEF Active, qvars
<1> QED
  BY <1>1, <1>2

-----------------------------------------------------------------------------
\* The stage.

\* Steps that leave the state and the stack alone.
LEMMA SameStage ==
  ASSUME QueueInv, Depth < 256, [Next]_vars, StageInv, UNCHANGED <<state, stack>>,
         ~(finalize_return \/ flush_return)
  PROVE  StageInv'
<1>1. Runs("body") => Active' = Active
  BY ActiveStays DEF QueueInv, TopInv
<1> QED
  BY <1>1 DEF StageInv, Runs, Top

\* A callback starts: the engine is busy.
LEMMA CallbackStage ==
  ASSUME NEW status, NEW l, Enters(CallbackOf(status, l)), state' # "IDLE"
  PROVE  StageInv'
<1>1. stack' # <<>> /\ Top'.pc = "callback"
  BY DEF Enters, CallbackOf
<1> QED
  BY <1>1 DEF StageInv, Runs

\* The innermost call is none of those that go with a state of their own.
LEMMA OtherStage ==
  ASSUME stack' # <<>> => Top'.pc \notin {"body", "write", "callback"},
         state' \in {"IDLE", "WAITING"}
  PROVE  StageInv'
BY DEF StageInv, Runs

LEMMA UserStage ==
  ASSUME QueueInv, Depth < 256, CbCalls \subseteq {"send"}, User, StageInv
  PROVE  StageInv'
<1>1. CASE \E t \in Timeouts : at_send(t)
  <2>1. UNCHANGED <<state, stack>>
    BY <1>1 DEF at_send, tvars
  <2>2. ~(finalize_return \/ flush_return)
    BY <1>1 DEF at_send, finalize_return, flush_return, hvars, QueueInv, TypeOK
  <2>3. [Next]_vars
    BY <1>1 DEF Next, User
  <2> QED
    BY <2>1, <2>2, <2>3, SameStage
<1>2. CASE at_abort
  BY <1>2, UserTops, CallbackStage DEF at_abort, tvars
<1>3. CASE at_reset
  <2>1. UNCHANGED state
    BY <1>3 DEF at_reset, tvars
  <2>2. CASE state # "IDLE"
    BY <1>3, <2>1, <2>2, UserTops, CallbackStage
  <2>3. CASE state = "IDLE"
    BY <1>3, <2>1, <2>3, UserTops, OtherStage DEF Enters
  <2> QED
    BY <2>2, <2>3
<1> QED
  BY <1>1, <1>2, <1>3 DEF User

LEMMA DispatchStage ==
  ASSUME QueueInv, Depth < 256, Dispatch, StageInv
  PROVE  StageInv'
<1>1. [Next]_vars /\ ~(finalize_return \/ flush_return)
  BY DEF Next, TaskStep, Dispatch, DispatchEcho, DispatchPrompt, DispatchFinal,
         DispatchUrc, DispatchOther, Drains, finalize_return, flush_return, Runs
<1>2. CASE DispatchEcho \/ DispatchOther
  BY <1>1, <1>2, SameStage DEF DispatchEcho, DispatchOther, tvars
<1>3. CASE DispatchPrompt
  <2>1. q_count > 0
    BY <1>3 DEF DispatchPrompt, IsPrompt, Waiting, QueueInv, QueueWindow
  <2>2. CASE Active.sms
    <3>1. Active' = Active
      BY <1>1, <2>1, ActiveStays
    <3>2. state' = "PROMPT"
      BY <1>3, <2>2 DEF DispatchPrompt, WantsBody
    <3>3. stack' # <<>> /\ Top'.pc = "body"
      BY <1>3, <2>2, DispatchTops DEF Enters, BodyOf
    <3> QED
      BY <2>2, <3>1, <3>2, <3>3 DEF StageInv, Runs
  <2>3. CASE ~Active.sms
    BY <1>1, <1>3, <2>3, SameStage DEF DispatchPrompt, WantsBody, tvars
  <2> QED
    BY <2>2, <2>3
<1>4. CASE DispatchFinal
  <2>1. state' # "IDLE"
    BY <1>4 DEF DispatchFinal, engine_is_final, Waiting, tvars
  <2> QED
    BY <1>4, <2>1, DispatchTops, CallbackStage
<1>5. CASE DispatchUrc
  <2>1. state' \in {"IDLE", "WAITING"}
    <3>1. state' = state /\ Runs("drain")
      BY <1>5 DEF DispatchUrc, tvars, Drains
    <3> QED
      BY <3>1 DEF QueueInv, TypeOK, StageInv, Runs
  <2>2. stack' # <<>> /\ Top'.pc = "urc"
    BY <1>5, DispatchTops DEF Enters
  <2> QED
    BY <2>1, <2>2, OtherStage
<1> QED
  BY <1>2, <1>3, <1>4, <1>5 DEF Dispatch

LEMMA TaskStage ==
  ASSUME QueueInv, Depth < 256, StageInv,
         at_process \/ DrainEnd \/ CheckTimeout \/ engine_start_next \/ Writes
         \/ reset_flush
  PROVE  StageInv'
<1>1. state \in {"IDLE", "SENDING", "WAITING", "PROMPT"}
  BY DEF QueueInv, TypeOK
<1>2. CASE at_process \/ DrainEnd
  <2>1. state' \in {"IDLE", "WAITING"}
    BY <1>1, <1>2 DEF at_process, DrainEnd, tvars, StageInv, Runs
  <2>2. stack' # <<>> => Top'.pc \in {"drain", "timeout"}
    BY <1>2, TaskTops DEF Enters
  <2> QED
    BY <2>1, <2>2, OtherStage
<1>3. CASE CheckTimeout
  <2>1. state' = state
    BY <1>3 DEF CheckTimeout, tvars
  <2>2. CASE Expired
    BY <1>3, <2>1, <2>2, TaskTops, CallbackStage DEF Expired
  <2>3. CASE ~Expired
    <3>1. state' \in {"IDLE", "WAITING"}
      BY <1>1, <1>3, <2>1 DEF CheckTimeout, StageInv, Runs
    <3> QED
      BY <1>3, <2>3, <3>1, TaskTops, OtherStage DEF Enters
  <2> QED
    BY <2>2, <2>3
<1>4. CASE engine_start_next
  <2>1. stack' # <<>> /\ Top'.pc = "write"
    BY <1>4, TaskTops DEF Enters
  <2> QED
    BY <1>4, <2>1 DEF engine_start_next, StageInv, Runs
<1>5. CASE WriteDone
  <2>1. Leaves
    BY <1>5, ReturnTops
  <2> QED
    BY <1>5, <2>1, OtherStage DEF WriteDone, Leaves
<1>6. CASE WriteFailed \/ BodyFailed
  <2>1. state' # "IDLE"
    BY <1>6 DEF WriteFailed, BodyFailed, tvars, StageInv, Runs
  <2> QED
    BY <1>6, <2>1, TaskTops, CallbackStage
<1>7. CASE BodyDone
  BY <1>7, TaskTops, OtherStage DEF BodyDone, Enters
<1>8. CASE reset_flush
  BY <1>8, TaskTops, OtherStage DEF reset_flush, QueueInv, TopInv, tvars
<1> QED
  BY <1>2, <1>3, <1>4, <1>5, <1>6, <1>7, <1>8 DEF Writes

LEMMA ReturnStage ==
  ASSUME QueueInv, StageInv, Returns \/ process_end \/ reset_end
  PROVE  StageInv'
<1>1. Leaves
  BY ReturnTops
<1>2. state' \in {"IDLE", "WAITING"}
  BY DEF Returns, finalize_return, flush_return, urc_return, process_end, reset_end,
         QueueInv, TypeOK, TopInv, StageInv, Runs, tvars
<1> QED
  BY <1>1, <1>2, OtherStage DEF Leaves

\* Every step keeps the stage.
LEMMA StageStep ==
  ASSUME QueueInv, Depth < 256, CbCalls \subseteq {"send"}, [Next]_vars, StageInv
  PROVE  StageInv'
<1>1. CASE Tick \/ Modem \/ UNCHANGED vars
  <2>1. UNCHANGED <<state, stack, qvars>>
    BY <1>1 DEF Tick, at_tick, Modem, ModemEcho, ModemPrompt, ModemData, ModemFinal,
                ModemRestart, ModemUnsolicited, at_feed, vars, tvars
  <2> QED
    BY <2>1 DEF StageInv, Runs, Top, Active, qvars
<1> QED
  BY <1>1, UserStage, DispatchStage, TaskStage, ReturnStage DEF Next, TaskStep

-----------------------------------------------------------------------------
\* The clock.

\* Steps that leave the timer alone and do not end the command.
LEMMA SameClock ==
  ASSUME QueueInv, Depth < 256, [Next]_vars, ClockInv,
         UNCHANGED <<tvars, body_sent>>, ~(finalize_return \/ flush_return),
         (Runs("callback") /\ Top.status = "TIMEOUT")' =>
           timer_ms = 0 \/ (Runs("callback") /\ Top.status = "TIMEOUT")
  PROVE  ClockInv'
<1>1. state # "IDLE" => Active' = Active
  BY ActiveStays DEF QueueInv, QueueWindow
<1> QED
  BY <1>1 DEF ClockInv, tvars

\* Every step keeps the clock.
LEMMA ClockStep ==
  ASSUME QueueInv, Depth < 256, CbCalls \subseteq {"send"}, [Next]_vars,
         StageInv, ClockInv
  PROVE  ClockInv'
<1>1. state # "IDLE" => q_count > 0
  BY DEF QueueInv, QueueWindow
<1>2. timer_ms \in Nat /\ elapsed \in Nat
  BY DEF QueueInv, TypeOK
<1>3. CASE \E t \in Timeouts : at_send(t)
  <2>1. UNCHANGED <<tvars, body_sent, stack>> /\ ~(finalize_return \/ flush_return)
    BY <1>3 DEF at_send, finalize_return, flush_return, Runs, MayCall, hvars
  <2> QED
    BY <2>1, SameClock DEF Runs, Top
<1>4. CASE at_abort \/ at_reset
  <2>1. UNCHANGED <<tvars, body_sent>> /\ ~(finalize_return \/ flush_return)
    BY <1>4, UserTops DEF at_abort, at_reset, finalize_return, flush_return, InCallback
  <2>2. ~(Runs("callback") /\ Top.status = "TIMEOUT")'
    BY <1>4, UserTops DEF Enters, CallbackOf, Runs
  <2> QED
    BY <2>1, <2>2, SameClock
<1>5. CASE Dispatch
  <2>1. ~(finalize_return \/ flush_return) /\ Runs("drain")
    BY <1>5 DEF Dispatch, DispatchEcho, DispatchPrompt, DispatchFinal,
         DispatchUrc, DispatchOther, Drains, finalize_return, flush_return, Runs
  <2>2. CASE DispatchPrompt /\ Active.sms
    <3>1. timer_ms' = PromptTimeout /\ elapsed' = 0 /\ body_sent' = TRUE
      BY <2>2 DEF DispatchPrompt, WantsBody, TimerAtPrompt
    <3>2. ~Runs("callback")'
      BY <2>2, DispatchTops DEF Enters, BodyOf, Runs
    <3> QED
      BY <3>1, <3>2, TimeAssumption DEF ClockInv
  <2>3. CASE ~(DispatchPrompt /\ Active.sms)
    <3>1. UNCHANGED <<tvars, body_sent>>
      BY <1>5, <2>3 DEF Dispatch, DispatchEcho, DispatchPrompt, DispatchFinal,
           DispatchUrc, DispatchOther, WantsBody, hvars
    <3>2. \/ UNCHANGED stack
          \/ Enters(CallbackOf(IF Head(rx).kind = "ok" THEN "OK" ELSE "ERROR", Head(rx)))
          \/ Enters(At("urc"))
      BY <1>5, <2>3, DispatchTops DEF Dispatch, DispatchEcho, DispatchOther
    <3>3. ~(Runs("callback") /\ Top.status = "TIMEOUT")'
      BY <2>1, <3>2 DEF Enters, CallbackOf, Runs, Top
    <3> QED
      BY <2>1, <3>1, <3>3, SameClock
  <2> QED
    BY <2>2, <2>3
<1>6. CASE at_process \/ DrainEnd \/ WriteFailed \/ BodyFailed \/ reset_flush
  <2>1. UNCHANGED <<tvars, body_sent>> /\ ~(finalize_return \/ flush_return)
    BY <1>6 DEF at_process, DrainEnd, WriteFailed, BodyFailed, reset_flush,
         finalize_return, flush_return, Runs, hvars
  <2>2. ~(Runs("callback") /\ Top.status = "TIMEOUT")'
    BY <1>6, TaskTops DEF Enters, CallbackOf, Runs
  <2> QED
    BY <2>1, <2>2, SameClock
<1>7. CASE CheckTimeout
  <2>1. UNCHANGED <<tvars, body_sent>> /\ ~(finalize_return \/ flush_return)
    BY <1>7 DEF CheckTimeout, finalize_return, flush_return, Runs
  <2>2. CASE Expired
    <3>1. timer_ms = 0
      BY <2>2 DEF Expired
    <3>2. (Runs("callback") /\ Top.status = "TIMEOUT")' =>
            timer_ms = 0 \/ (Runs("callback") /\ Top.status = "TIMEOUT")
      BY <3>1
    <3> QED
      BY <2>1, <3>2, SameClock
  <2>3. CASE ~Expired
    <3>1. ~Runs("callback")'
      BY <1>7, <2>3, TaskTops DEF Enters, Runs
    <3> QED
      BY <2>1, <3>1, SameClock
  <2> QED
    BY <2>2, <2>3
<1>8. CASE engine_start_next
  <2>1. timer_ms' = Active.timeout /\ elapsed' = 0 /\ body_sent' = FALSE /\ q_count > 0
    BY <1>8 DEF engine_start_next, MayStart
  <2>2. Active' = Active
    BY <1>8, <2>1, ActiveStays DEF engine_start_next, finalize_return, flush_return, Runs
  <2>3. ~Runs("callback")'
    BY <1>8, TaskTops DEF Enters, Runs
  <2>4. Active.timeout \in Nat
    BY DEF QueueInv, TypeOK, Entry, Active
  <2> QED
    BY <2>1, <2>2, <2>3, <2>4 DEF ClockInv
<1>9. CASE WriteDone \/ BodyDone
  <2>1. UNCHANGED <<timer_ms, elapsed, body_sent>> /\ ~(finalize_return \/ flush_return)
    BY <1>9 DEF WriteDone, BodyDone, finalize_return, flush_return, Runs, hvars
  <2>2. state # "IDLE"
    BY <1>9 DEF WriteDone, BodyDone, StageInv
  <2>3. Active' = Active
    BY <1>1, <2>1, <2>2, ActiveStays
  <2>4. ~Runs("callback")'
    BY <1>9, TaskTops, ReturnTops DEF Enters, Leaves, Runs
  <2> QED
    BY <2>1, <2>2, <2>3, <2>4 DEF ClockInv
<1>10. CASE Returns \/ process_end \/ reset_end
  <2>1. ~Runs("callback")'
    BY <1>10, ReturnTops DEF Leaves, Runs
  <2>2. CASE state' = "IDLE"
    BY <2>1, <2>2 DEF ClockInv
  <2>3. CASE state' # "IDLE"
    <3>1. UNCHANGED <<tvars, body_sent>> /\ ~(finalize_return \/ flush_return)
      BY <1>10, <2>3 DEF Returns, finalize_return, flush_return, urc_return,
           process_end, reset_end, Runs, QueueInv, TopInv, hvars, tvars
    <3> QED
      BY <2>1, <3>1, SameClock
  <2> QED
    BY <2>2, <2>3
<1>11. CASE Tick
  <2>1. PICK ms \in Ticks : at_tick(ms)
    BY <1>11 DEF Tick
  <2>2. /\ timer_ms' \in Nat /\ elapsed' \in Nat /\ timer_ms > 0
        /\ timer_ms' + elapsed' >= timer_ms + elapsed
    BY <1>2, <2>1, TimeAssumption DEF at_tick
  <2>3. UNCHANGED <<state, body_sent, stack, qvars>>
    BY <2>1 DEF Tick, at_tick, hvars
  <2>4. PromptTimeout \in Nat /\ Active.timeout \in Nat
    BY TimeAssumption DEF QueueInv, TypeOK, Active, Entry
  <2> QED
    BY <1>2, <2>2, <2>3, <2>4 DEF ClockInv, Active, Runs, Top, qvars
<1>12. CASE Modem \/ UNCHANGED vars
  <2>1. UNCHANGED <<tvars, body_sent, stack, qvars>>
    BY <1>12 DEF Modem, ModemEcho, ModemPrompt, ModemData, ModemFinal,
                ModemRestart, ModemUnsolicited, at_feed, vars, hvars
  <2> QED
    BY <2>1 DEF ClockInv, Runs, Top, Active, qvars, tvars
<1> QED
  BY <1>3, <1>4, <1>5, <1>6, <1>7, <1>8, <1>9, <1>10, <1>11, <1>12
  DEF Next, User, TaskStep, Writes

-----------------------------------------------------------------------------
\* What is in flight.

\* The oldest line leaves the receive buffer.
LEMMA TailLines ==
  ASSUME QueueInv, rx # <<>>, rx' = Tail(rx)
  PROVE  /\ Len(rx) \in Nat \ {0} /\ DOMAIN rx = 1 .. Len(rx)
         /\ Len(rx') = Len(rx) - 1 /\ DOMAIN rx' = 1 .. Len(rx) - 1
         /\ \A i \in DOMAIN rx' : i + 1 \in DOMAIN rx /\ rx'[i] = rx[i+1]
         /\ 1 \in DOMAIN rx /\ Head(rx) = rx[1] /\ Head(rx) \in Line
<1>1. rx \in Seq(Line) /\ Len(rx) \in Nat \ {0}
  BY DEF QueueInv, TypeOK
<1>2. /\ Tail(rx) \in Seq(Line) /\ Len(Tail(rx)) = Len(rx) - 1
      /\ \A i \in 1 .. Len(rx) - 1 : Tail(rx)[i] = rx[i+1]
  BY <1>1
<1> QED
  BY <1>1, <1>2

\* A line arrives. Unless it is lost or an unsolicited final result code, it
\* is the last in the receive buffer.
LEMMA FedLines ==
  ASSUME QueueInv, NEW l \in Line, at_feed(l), ~disturbed'
  PROVE  /\ ~disturbed /\ l.kind # "nocarrier"
         /\ Len(rx) \in Nat /\ DOMAIN rx = 1 .. Len(rx)
         /\ Len(rx') = Len(rx) + 1 /\ DOMAIN rx' = 1 .. Len(rx) + 1
         /\ \A i \in DOMAIN rx : rx'[i] = rx[i]
         /\ rx'[Len(rx) + 1] = l
<1>1. rx \in Seq(Line) /\ disturbed \in BOOLEAN
  BY DEF QueueInv, TypeOK
<1>2. rx' = Append(rx, l) /\ ~disturbed /\ l.kind # "nocarrier"
  BY <1>1 DEF at_feed
<1> QED
  BY <1>1, <1>2

\* When nothing of a command is in flight there are only unsolicited lines.
LEMMA NothingFlies ==
  ASSUME QueueInv, FlightInv, ~disturbed,
         ~(state \in {"WAITING", "PROMPT"} /\ ~InCallback)
  PROVE  modem = <<>> /\ \A i \in DOMAIN rx : rx[i].id = NoId /\ rx[i].kind = "urc"
BY DEF FlightInv, SomethingInFlight

\* Only unsolicited lines are in flight.
LEMMA OnlyUrcs ==
  ASSUME modem' = <<>>, \A i \in DOMAIN rx' : rx'[i].id = NoId /\ rx'[i].kind = "urc",
         ~Runs("body")'
  PROVE  FlightInv'
BY DEF FlightInv, SomethingInFlight, Finals

\* Steps that leave what is in flight alone.
LEMMA SameFlight ==
  ASSUME QueueInv, FlightInv, UNCHANGED <<modem, rx>>, disturbed => disturbed',
         ~disturbed /\ SomethingInFlight =>
           Active' = Active /\ state' \in {"WAITING", "PROMPT"} /\ ~InCallback',
         ~disturbed /\ Runs("body")' => (Top.by = Active.id)'
  PROVE  FlightInv'
<1> SUFFICES ASSUME ~disturbed'
             PROVE  FlightInv'
  BY DEF FlightInv
<1>1. ~disturbed
  OBVIOUS
<1>2. CASE SomethingInFlight
  BY <1>1, <1>2 DEF FlightInv, SomethingInFlight
<1>3. CASE ~SomethingInFlight
  <2>1. modem = <<>> /\ \A i \in DOMAIN rx : rx[i].id = NoId /\ rx[i].kind = "urc"
    BY <1>1, <1>3 DEF FlightInv, SomethingInFlight
  <2> QED
    BY <1>1, <2>1 DEF FlightInv, SomethingInFlight, Finals
<1> QED
  BY <1>2, <1>3

\* Steps that take the oldest line out.
LEMMA DequeuedFlight ==
  ASSUME QueueInv, FlightInv, rx # <<>>, rx' = Tail(rx), UNCHANGED <<modem, disturbed>>,
         ~disturbed /\ SomethingInFlight' =>
           Active' = Active /\ state' \in {"WAITING", "PROMPT"} /\ ~InCallback',
         ~disturbed /\ Runs("body")' => (Top.by = Active.id)'
  PROVE  FlightInv'
<1> SUFFICES ASSUME ~disturbed'
             PROVE  FlightInv'
  BY DEF FlightInv
<1>1. ~disturbed
  OBVIOUS
<1>2. /\ DOMAIN rx' \subseteq Int /\ DOMAIN rx \subseteq Int
      /\ \A i \in DOMAIN rx' : i + 1 \in DOMAIN rx /\ rx'[i] = rx[i+1]
  BY TailLines
<1>3. ASSUME NEW i \in DOMAIN rx', rx'[i].kind \in Finals
      PROVE  modem' = <<>> /\ \A j \in DOMAIN rx' : j > i => rx'[j].id = NoId
  <2>1. modem = <<>> /\ \A j \in DOMAIN rx : j > i + 1 => rx[j].id = NoId
    BY <1>1, <1>2, <1>3 DEF FlightInv
  <2>2. ASSUME NEW j \in DOMAIN rx', j > i
        PROVE  rx'[j].id = NoId
    BY <1>2, <2>1, <2>2
  <2> QED
    BY <2>1, <2>2
<1>4. \A i \in DOMAIN rx' :
        /\ rx'[i].id \in {NoId, Active.id}
        /\ rx'[i].id = NoId <=> rx'[i].kind = "urc"
        /\ rx'[i].kind # "nocarrier"
  BY <1>1, <1>2 DEF FlightInv
<1>5. Len(modem') <= 1 /\ \A i \in DOMAIN modem' : modem'[i].id = Active.id
  BY <1>1 DEF FlightInv
<1>6. CASE SomethingInFlight'
  <2>1. Active' = Active /\ state' \in {"WAITING", "PROMPT"} /\ ~InCallback'
    BY <1>1, <1>6
  <2> QED
    BY <1>1, <1>3, <1>4, <1>5, <2>1 DEF FlightInv
<1>7. CASE ~SomethingInFlight'
  <2>1. modem' = <<>> /\ \A i \in DOMAIN rx' : rx'[i].id = NoId
    BY <1>7 DEF SomethingInFlight
  <2> QED
    BY <1>1, <1>3, <1>4, <1>5, <1>7, <2>1 DEF FlightInv
<1> QED
  BY <1>6, <1>7

\* A line arrives while the task stands still.
LEMMA FedFlight ==
  ASSUME QueueInv, FlightInv, NEW l \in Line, at_feed(l),
         ~disturbed =>
           /\ Len(modem') <= 1 /\ \A i \in DOMAIN modem' : modem'[i].id = Active.id
           /\ l.id \in {NoId, Active.id}
           /\ l.kind # "nocarrier" => (l.id = NoId <=> l.kind = "urc")
           /\ modem' # <<>> => modem # <<>>
           /\ l.id # NoId => modem # <<>>
           /\ l.kind \in Finals \ {"nocarrier"} => modem' = <<>>
  PROVE  FlightInv'
<1> SUFFICES ASSUME ~disturbed'
             PROVE  FlightInv'
  BY DEF FlightInv
<1> DEFINE n == Len(rx)
<1>1. /\ ~disturbed /\ l.kind # "nocarrier"
      /\ n \in Nat /\ DOMAIN rx = 1 .. n /\ DOMAIN rx' = 1 .. n + 1
      /\ \A i \in DOMAIN rx : rx'[i] = rx[i]
      /\ rx'[n + 1] = l
  BY FedLines
<1>2. UNCHANGED <<state, stack, queue, q_tail>>
  BY DEF at_feed, tvars, qvars
<1>3. UNCHANGED <<Active, state, InCallback, Runs("body"), Top>>
  BY <1>2 DEF Active, InCallback, Runs, Top
<1> HIDE DEF n
<1>4. \A i \in DOMAIN rx' : i \in DOMAIN rx \/ i = n + 1
  BY <1>1
<1>5. \A i \in DOMAIN rx' :
        /\ rx'[i].id \in {NoId, Active.id}
        /\ rx'[i].id = NoId <=> rx'[i].kind = "urc"
        /\ rx'[i].kind # "nocarrier"
  BY <1>1, <1>4 DEF FlightInv
<1>6. ASSUME NEW i \in DOMAIN rx', rx'[i].kind \in Finals
      PROVE  modem' = <<>> /\ \A j \in DOMAIN rx' : j > i => rx'[j].id = NoId
  <2>1. CASE i \in DOMAIN rx
    <3>1. modem = <<>> /\ \A j \in DOMAIN rx : j > i => rx[j].id = NoId
      BY <1>1, <1>6, <2>1 DEF FlightInv
    <3>2. modem' = <<>> /\ l.id = NoId
      BY <1>1, <3>1
    <3> QED
      BY <1>1, <1>4, <3>1, <3>2
  <2>2. CASE i = n + 1
    <3>1. modem' = <<>>
      BY <1>1, <1>6, <2>2
    <3> QED
      BY <1>1, <1>4, <2>2, <3>1
  <2> QED
    BY <1>4, <2>1, <2>2
<1>7. SomethingInFlight' => SomethingInFlight
  <2>1. ASSUME modem' # <<>>
        PROVE  SomethingInFlight
    BY <1>1, <2>1 DEF SomethingInFlight
  <2>2. ASSUME NEW i \in DOMAIN rx', rx'[i].id # NoId
        PROVE  SomethingInFlight
    BY <1>1, <1>4, <2>2 DEF SomethingInFlight
  <2> QED
    BY <2>1, <2>2 DEF SomethingInFlight
<1> QED
  BY <1>1, <1>3, <1>5, <1>6, <1>7 DEF FlightInv

\* The modem answers the command it heard first, which is the active one.
LEMMA Served ==
  ASSUME QueueInv, FlightInv, ~disturbed, modem # <<>>
  PROVE  /\ Len(modem) = 1 /\ Tail(modem) = <<>> /\ Serving = modem[1]
         /\ Serving.id = Active.id /\ Active.id \in Ids /\ Active.id # NoId
         /\ state \in {"WAITING", "PROMPT"} /\ ~InCallback
<1>1. modem \in Seq(Heard)
  BY DEF QueueInv, TypeOK, Heard
<1>2. Len(modem) = 1
  <2> DEFINE n == Len(modem)
  <2>1. n \in Nat /\ n # 0
    BY <1>1
  <2>2. n <= 1
    BY DEF FlightInv
  <2> HIDE DEF n
  <2>3. n = 1
    BY <2>1, <2>2
  <2> QED
    BY <2>3 DEF n
<1>3. Tail(modem) = <<>> /\ Serving = modem[1] /\ 1 \in DOMAIN modem
  <2>1. Tail(modem) \in Seq(Heard) /\ Len(Tail(modem)) = 0
    BY <1>1, <1>2
  <2>2. 1 \in DOMAIN modem /\ Head(modem) = modem[1]
    BY <1>1, <1>2
  <2> QED
    BY <2>1, <2>2, EmptySeq DEF Serving
<1>4. state \in {"WAITING", "PROMPT"} /\ ~InCallback
  BY DEF FlightInv, SomethingInFlight
<1>5. q_count > 0
  BY <1>4 DEF QueueInv, QueueWindow
<1>6. Active.id \in Ids /\ Active.id # NoId
  BY <1>5, ActiveIsOldest DEF Ids
<1> QED
  BY <1>2, <1>3, <1>4, <1>6 DEF FlightInv

\* A modem that has heard nothing holds no beginning of a line either.
LEMMA NothingLeft ==
  ASSUME modem = <<>>
  PROVE  /\ ~LeftOver /\ HeardLines = <<>>
         /\ \A x : Append(HeardLines, x) = <<x>>
         /\ Typed(IF LeftOver THEN NoId ELSE Active.id, Active.sms, TRUE).id = Active.id
<1>1. ~LeftOver /\ HeardLines = <<>>
  BY DEF LeftOver, HeardLines
<1> QED
  BY <1>1 DEF Typed

\* What the modem sends.
LEMMA ModemFlight ==
  ASSUME QueueInv, FlightInv, Modem
  PROVE  FlightInv'
<1>1. CASE ModemEcho \/ ModemPrompt \/ ModemData
  <2>1. modem # <<>> /\ Serving \in Heard
    BY <1>1, ServingType DEF QueueInv, ModemEcho, ModemPrompt, ModemData, MayAnswer
  <2>2. PICK k \in {"echo", "prompt", "data"}, x \in Heard :
          /\ at_feed(LineFor(k, Serving.id, 0))
          /\ modem' = <<x>> \o Tail(modem) /\ x.id = Serving.id
    <3>1. CASE ModemEcho
      <4>1. [Serving EXCEPT !.echoed = TRUE] \in Heard
        BY <2>1 DEF Heard
      <4>2. [Serving EXCEPT !.echoed = TRUE].id = Serving.id
        BY <2>1 DEF Heard
      <4> QED
        BY <3>1, <4>1, <4>2 DEF ModemEcho, MayAnswer, Becomes
    <3>2. CASE ModemPrompt
      <4>1. [Serving EXCEPT !.prompted = TRUE] \in Heard
        BY <2>1 DEF Heard
      <4>2. [Serving EXCEPT !.prompted = TRUE].id = Serving.id
        BY <2>1 DEF Heard
      <4> QED
        BY <3>2, <4>1, <4>2 DEF ModemPrompt, MayAnswer, Becomes
    <3>3. CASE ModemData
      <4>1. [Serving EXCEPT !.sent = @ + 1] \in Heard
        BY <2>1, <3>3, BoundAssumption DEF Heard, ModemData, MayAnswer
      <4>2. [Serving EXCEPT !.sent = @ + 1].id = Serving.id
        BY <2>1 DEF Heard
      <4> QED
        BY <3>3, <4>1, <4>2 DEF ModemData, MayAnswer, Becomes
    <3> QED
      BY <1>1, <3>1, <3>2, <3>3
  <2> DEFINE l == LineFor(k, Serving.id, 0)
  <2>3. l \in Line /\ l.id = Serving.id /\ l.kind = k
    BY <2>1, <2>2 DEF Heard, Line, Kinds
  <2>4. at_feed(l)
    BY <2>2
  <2> HIDE DEF l
  <2>5. ~disturbed => Tail(modem) = <<>> /\ x.id = Active.id /\ l.id = Active.id /\ l.id # NoId
    BY <2>1, <2>2, <2>3, Served
  <2>6. ~disturbed => modem' = <<x>>
    <3>1. <<x>> \o <<>> = <<x>>
      OBVIOUS
    <3> QED
      BY <2>2, <2>5, <3>1
  <2>7. ~disturbed => Len(modem') <= 1 /\ \A i \in DOMAIN modem' : modem'[i].id = Active.id
    <3> SUFFICES ASSUME ~disturbed
                 PROVE  Len(modem') <= 1 /\ \A i \in DOMAIN modem' : modem'[i].id = Active.id
      OBVIOUS
    <3>1. modem' = <<x>> /\ x.id = Active.id
      BY <2>5, <2>6
    <3> QED
      BY <3>1
  <2> QED
    BY <2>1, <2>2, <2>3, <2>4, <2>5, <2>7, FedFlight DEF Finals
<1>2. CASE ModemFinal
  <2>1. PICK k \in {"ok", "error"} : at_feed(LineFor(k, Serving.id, Serving.sent))
    BY <1>2 DEF ModemFinal, MayAnswer
  <2>2. modem # <<>> /\ modem' = Tail(modem)
    BY <1>2 DEF ModemFinal, MayAnswer
  <2> DEFINE l == LineFor(k, Serving.id, Serving.sent)
  <2>3. Serving \in Heard
    BY <2>2, ServingType DEF QueueInv
  <2>4. l \in Line /\ l.id = Serving.id /\ l.kind = k
    BY <2>1, <2>3, BoundAssumption DEF Heard, Line, Kinds, Finals
  <2>5. at_feed(l)
    BY <2>1
  <2> HIDE DEF l
  <2>6. ~disturbed => modem' = <<>> /\ l.id = Active.id /\ l.id # NoId
    BY <2>2, <2>4, Served
  <2>7. ~disturbed => Len(modem') <= 1 /\ \A i \in DOMAIN modem' : FALSE
    BY <2>6
  <2> QED
    BY <2>1, <2>2, <2>4, <2>5, <2>6, <2>7, FedFlight DEF Finals
<1>3. CASE ModemRestart
  <2>1. UNCHANGED <<Active, state, InCallback, Runs("body"), Top, rx, disturbed>> /\ modem' = <<>>
    BY <1>3 DEF ModemRestart, tvars, qvars, Active, InCallback, Runs, Top
  <2> QED
    BY <2>1 DEF FlightInv, SomethingInFlight
<1>4. CASE ModemUnsolicited
  <2>1. PICK k \in {"urc", "nocarrier"} : at_feed(LineFor(k, NoId, 0))
    BY <1>4 DEF ModemUnsolicited
  <2> DEFINE l == LineFor(k, NoId, 0)
  <2>2. l \in Line /\ l.id = NoId /\ l.kind = k
    BY <2>1 DEF Line, Kinds, Finals
  <2>3. at_feed(l) /\ modem' = modem
    BY <1>4, <2>1 DEF ModemUnsolicited
  <2> HIDE DEF l
  <2>4. ~disturbed => Len(modem') <= 1 /\ \A i \in DOMAIN modem' : modem'[i].id = Active.id
    BY <2>3 DEF FlightInv
  <2> QED
    BY <2>1, <2>2, <2>3, <2>4, FedFlight DEF Finals
<1> QED
  BY <1>1, <1>2, <1>3, <1>4 DEF Modem

\* Which line is dispatched, and how, while nothing is disturbed: never in
\* a callback, and a final result code is the last line of its command.
LEMMA DispatchFlight ==
  ASSUME QueueInv, Depth < 256, StageInv, FlightInv, Dispatch
  PROVE  FlightInv'
<1>1. /\ rx # <<>> /\ rx' = Tail(rx) /\ UNCHANGED <<modem, disturbed>> /\ Runs("drain")
      /\ UNCHANGED qvars
  BY DEF Dispatch, DispatchEcho, DispatchPrompt, DispatchFinal, DispatchUrc,
         DispatchOther, Drains, engine_finalize
<1>2. ~InCallback /\ ~Runs("body")
  BY <1>1 DEF InCallback, Runs
<1>3. UNCHANGED Active
  BY <1>1 DEF qvars, Active
<1>4. SomethingInFlight' => SomethingInFlight
  BY <1>1, TailLines DEF SomethingInFlight
<1>5. SomethingInFlight /\ ~disturbed => state = "WAITING"
  BY <1>1 DEF FlightInv, StageInv, Runs
<1>6. CASE DispatchEcho \/ DispatchOther
  <2>1. UNCHANGED <<state, stack>>
    BY <1>6 DEF DispatchEcho, DispatchOther, tvars
  <2>2. ~InCallback' /\ ~Runs("body")'
    BY <1>2, <2>1 DEF InCallback, Runs, Top
  <2> QED
    BY <1>1, <1>3, <1>4, <1>5, <2>1, <2>2, DequeuedFlight
<1>7. CASE DispatchUrc
  <2>1. UNCHANGED state
    BY <1>7 DEF DispatchUrc, tvars
  <2>2. ~InCallback' /\ ~Runs("body")'
    BY <1>7, DispatchTops DEF Enters, InCallback, Runs
  <2> QED
    BY <1>1, <1>3, <1>4, <1>5, <2>1, <2>2, DequeuedFlight
<1>8. CASE DispatchPrompt /\ ~Active.sms
  <2>1. UNCHANGED <<state, stack>>
    BY <1>8 DEF DispatchPrompt, WantsBody, tvars
  <2>2. ~InCallback' /\ ~Runs("body")'
    BY <1>2, <2>1 DEF InCallback, Runs, Top
  <2> QED
    BY <1>1, <1>3, <1>4, <1>5, <2>1, <2>2, DequeuedFlight
<1>9. CASE DispatchPrompt /\ Active.sms
  <2>1. state' = "PROMPT"
    BY <1>9 DEF DispatchPrompt, WantsBody
  <2>2. Enters(BodyOf(Head(rx)))
    BY <1>9, DispatchTops
  <2>3. ~InCallback'
    BY <2>2 DEF Enters, BodyOf, InCallback, Runs
  <2>4. Head(rx).kind = "prompt"
    BY <1>9 DEF DispatchPrompt, IsPrompt
  <2>5. ~disturbed => Head(rx).id = Active.id
    BY <1>1, <2>4, TailLines DEF FlightInv
  <2>6. ~disturbed => (Top.by = Active.id)'
    BY <1>3, <2>2, <2>5 DEF Enters, BodyOf
  <2> QED
    BY <1>1, <1>3, <2>1, <2>3, <2>6, DequeuedFlight
<1>10. CASE DispatchFinal
  <2>1. Enters(CallbackOf(IF Head(rx).kind = "ok" THEN "OK" ELSE "ERROR", Head(rx)))
    BY <1>10, DispatchTops
  <2>2. ~Runs("body")'
    BY <2>1 DEF Enters, CallbackOf, Runs
  <2>3. Head(rx).kind \in Finals
    BY <1>10 DEF DispatchFinal, engine_is_final
  <2>4. ~disturbed => ~SomethingInFlight'
    <3> SUFFICES ASSUME ~disturbed
                 PROVE  ~SomethingInFlight'
      OBVIOUS
    <3>1. modem = <<>> /\ \A j \in DOMAIN rx : j > 1 => rx[j].id = NoId
      BY <1>1, <2>3, TailLines DEF FlightInv
    <3>2. \A i \in DOMAIN rx' : i + 1 \in DOMAIN rx /\ i + 1 > 1 /\ rx'[i] = rx[i+1]
      BY <1>1, TailLines
    <3> QED
      BY <1>1, <3>1, <3>2 DEF SomethingInFlight
  <2> QED
    BY <1>1, <2>2, <2>4, DequeuedFlight
<1> QED
  BY <1>6, <1>7, <1>8, <1>9, <1>10 DEF Dispatch

\* Every step keeps what is in flight.
LEMMA FlightStep ==
  ASSUME QueueInv, Depth < 256, CbCalls \subseteq {"send"}, [Next]_vars,
         StageInv, StageInv', FlightInv
  PROVE  FlightInv'
<1>1. state # "IDLE" => q_count > 0
  BY DEF QueueInv, QueueWindow
<1>2. SomethingInFlight /\ ~disturbed => state \in {"WAITING", "PROMPT"} /\ ~InCallback
  BY DEF FlightInv
<1>3. disturbed \in BOOLEAN /\ state \in {"IDLE", "SENDING", "WAITING", "PROMPT"}
  BY DEF QueueInv, TypeOK
<1>4. CASE \E t \in Timeouts : at_send(t)
  <2>1. UNCHANGED <<modem, rx, disturbed, state, stack>>
    BY <1>4 DEF at_send, tvars
  <2>2. ~(finalize_return \/ flush_return)
    BY <1>4 DEF at_send, finalize_return, flush_return, hvars, QueueInv, TypeOK
  <2>3. q_count > 0 => UNCHANGED Active
    BY <2>2, ActiveStays
  <2>4. UNCHANGED <<InCallback, Runs("body"), Top>>
    BY <2>1 DEF InCallback, Runs, Top
  <2>5. Runs("body") => q_count > 0
    BY DEF QueueInv, TopInv
  <2>6. ~disturbed /\ Runs("body")' => (Top.by = Active.id)'
    BY <2>3, <2>4, <2>5 DEF FlightInv
  <2> QED
    BY <1>1, <1>2, <2>1, <2>3, <2>4, <2>6, SameFlight
<1>5. CASE at_abort \/ (at_reset /\ state # "IDLE") \/ (CheckTimeout /\ Expired) \/ BodyFailed
  <2>1. disturbed' = TRUE
    BY <1>1, <1>5 DEF at_abort, at_reset, CheckTimeout, BodyFailed
  <2> QED
    BY <2>1 DEF FlightInv
<1>6. CASE at_reset /\ state = "IDLE"
  <2>1. UNCHANGED <<modem, rx, disturbed>>
    BY <1>6 DEF at_reset
  <2>2. ~Runs("body")'
    BY <1>6, UserTops DEF Enters, Runs
  <2> QED
    BY <1>2, <1>6, <2>1, <2>2, SameFlight
<1>7. CASE at_process \/ DrainEnd \/ (CheckTimeout /\ ~Expired) \/ BodyDone
  <2>1. UNCHANGED <<modem, rx, disturbed, qvars>> /\ (UNCHANGED state \/ state' = "WAITING")
    BY <1>7 DEF at_process, DrainEnd, CheckTimeout, BodyDone, tvars
  <2>2. UNCHANGED Active
    BY <2>1 DEF Active, qvars
  <2>3. ~Runs("body")' /\ ~InCallback'
    BY <1>7, TaskTops DEF Enters, Runs, InCallback
  <2> QED
    BY <1>2, <2>1, <2>2, <2>3, SameFlight
<1>8. CASE process_end \/ urc_return
  <2>1. UNCHANGED <<modem, rx, disturbed, qvars, state>>
    BY <1>8 DEF process_end, urc_return, tvars
  <2>2. UNCHANGED Active
    BY <2>1 DEF Active, qvars
  <2>3. ~Runs("body")' /\ ~InCallback'
    BY <1>8, ReturnTops DEF Returns, Leaves, Runs, InCallback
  <2> QED
    BY <1>2, <2>1, <2>2, <2>3, SameFlight
<1>9. CASE finalize_return \/ flush_return \/ reset_flush
  <2>1. UNCHANGED <<modem, rx, disturbed>>
    BY <1>9 DEF finalize_return, flush_return, reset_flush
  <2>2. InCallback \/ state = "IDLE"
    BY <1>9 DEF finalize_return, flush_return, reset_flush, InCallback, QueueInv, TopInv, Runs
  <2>3. ~Runs("body")'
    BY <1>9, ReturnTops, TaskTops DEF Returns, Leaves, Runs
  <2> QED
    BY <1>2, <2>1, <2>2, <2>3, SameFlight
<1>10. CASE WriteFailed
  <2>1. UNCHANGED rx /\ state = "SENDING" /\ (UNCHANGED <<modem, disturbed>> \/ disturbed' = TRUE)
    BY <1>10 DEF WriteFailed, StageInv
  <2>2. ~Runs("body")'
    BY <1>10, TaskTops DEF Enters, CallbackOf, Runs
  <2>3. CASE disturbed' = TRUE
    BY <2>3 DEF FlightInv
  <2>4. CASE UNCHANGED <<modem, disturbed>>
    BY <1>2, <2>1, <2>2, <2>4, SameFlight
  <2> QED
    BY <2>1, <2>3, <2>4
<1>11. CASE engine_start_next
  <2>1. UNCHANGED <<modem, rx>> /\ disturbed' = (disturbed /\ ~(modem = <<>> /\ rx = <<>>))
    BY <1>11 DEF engine_start_next
  <2>2. ~Runs("body")'
    BY <1>11, TaskTops DEF Enters, Runs
  <2>3. CASE disturbed'
    BY <2>3 DEF FlightInv
  <2>4. CASE ~disturbed /\ ~disturbed'
    <3>1. state = "IDLE"
      BY <1>11 DEF engine_start_next, MayStart
    <3>2. modem = <<>> /\ \A i \in DOMAIN rx : rx[i].id = NoId /\ rx[i].kind = "urc"
      BY <2>4, <3>1, NothingFlies
    <3> QED
      BY <2>1, <2>2, <3>2, OnlyUrcs
  <2>5. CASE modem = <<>> /\ rx = <<>>
    <3>1. modem' = <<>> /\ \A i \in DOMAIN rx' : FALSE
      BY <2>1, <2>5
    <3> QED
      BY <2>2, <3>1, OnlyUrcs
  <2> QED
    BY <1>3, <2>1, <2>3, <2>4, <2>5
<1>12. CASE reset_end
  <2>1. UNCHANGED <<modem, disturbed>> /\ rx' = <<>> /\ state = "IDLE"
    BY <1>12 DEF reset_end, QueueInv, TopInv
  <2>2. ~Runs("body")'
    BY <1>12, ReturnTops DEF Leaves, Runs
  <2>3. CASE disturbed
    BY <2>1, <2>3 DEF FlightInv
  <2>4. CASE ~disturbed
    <3>1. modem' = <<>> /\ \A i \in DOMAIN rx' : FALSE
      BY <2>1, <2>4, NothingFlies
    <3> QED
      BY <2>2, <3>1, OnlyUrcs
  <2> QED
    BY <2>3, <2>4
<1>13. CASE WriteDone
  <2> DEFINE x == Typed(IF LeftOver THEN NoId ELSE Active.id, Active.sms, TRUE)
  <2>1. /\ UNCHANGED <<rx, disturbed, qvars>> /\ state = "SENDING" /\ state' = "WAITING"
        /\ modem' = Append(HeardLines, x)
    BY <1>13 DEF WriteDone, StageInv
  <2>2. UNCHANGED Active
    BY <2>1 DEF Active, qvars
  <2>3. ~Runs("body")' /\ ~InCallback'
    BY <1>13, ReturnTops DEF Leaves, Runs, InCallback
  <2>4. CASE disturbed
    BY <2>1, <2>4 DEF FlightInv
  <2>5. CASE ~disturbed
    <3>1. modem = <<>> /\ \A i \in DOMAIN rx : rx[i].id = NoId /\ rx[i].kind = "urc"
      BY <2>1, <2>5, NothingFlies
    <3>2. x.id = Active.id
      BY <3>1, NothingLeft DEF Typed
    <3> HIDE DEF x
    <3>3. modem' = <<x>>
      BY <2>1, <3>1, NothingLeft
    <3>4. Len(modem') = 1 /\ \A i \in DOMAIN modem' : modem'[i].id = Active.id
      BY <3>2, <3>3
    <3> QED
      BY <2>1, <2>2, <2>3, <3>1, <3>4 DEF FlightInv, Finals
  <2> QED
    BY <2>4, <2>5
<1>14. CASE Tick \/ UNCHANGED vars
  <2>1. UNCHANGED <<modem, rx, disturbed, qvars, state, stack>>
    BY <1>14 DEF Tick, at_tick, vars, tvars
  <2>2. UNCHANGED <<Active, InCallback, Runs("body"), Top>>
    BY <2>1 DEF Active, InCallback, Runs, Top, qvars
  <2>3. ~disturbed /\ Runs("body")' => (Top.by = Active.id)'
    BY <2>2 DEF FlightInv
  <2> QED
    BY <1>2, <2>1, <2>2, <2>3, SameFlight
<1> QED
  BY <1>3, <1>4, <1>5, <1>6, <1>7, <1>8, <1>9, <1>10, <1>11, <1>12, <1>13, <1>14,
     ModemFlight, DispatchFlight
  DEF Next, User, TaskStep, Writes, Returns

-----------------------------------------------------------------------------
\* The echo.

\* Steps that leave what is in flight alone.
LEMMA SameEcho ==
  ASSUME QueueInv, FlightInv, EchoInv, UNCHANGED <<modem, rx>>, disturbed => disturbed',
         state' # "IDLE" =>
           Active' = Active /\ state # "IDLE" /\ UNCHANGED <<echo_expect, echo_armed>>,
         state' = "SENDING" => state = "SENDING",
         ~disturbed /\ SomethingInFlight => UNCHANGED echo_armed
  PROVE  EchoInv'
<1> SUFFICES ASSUME Clean
             PROVE  EchoInv'
  BY DEF EchoInv, Clean
<1>1. /\ state' # "IDLE" => echo_expect' = Active'.id
      /\ state' = "SENDING" => echo_armed'
  BY DEF EchoInv
<1>2. ASSUME ~disturbed'
      PROVE  /\ modem' # <<>> /\ ~Head(modem').echoed =>
                  echo_armed' /\ \A i \in DOMAIN rx' : rx'[i].kind # "echo"
             /\ \A i \in DOMAIN rx' : rx'[i].kind = "echo" =>
                  echo_armed' /\ \A j \in DOMAIN rx' : rx'[j].kind = "echo" => j = i
  <2>1. ~disturbed
    BY <1>2
  <2>2. CASE SomethingInFlight
    BY <2>1, <2>2 DEF EchoInv
  <2>3. CASE ~SomethingInFlight
    <3>1. modem = <<>> /\ \A i \in DOMAIN rx : rx[i].kind = "urc"
      BY <2>1, <2>3 DEF FlightInv, SomethingInFlight
    <3> QED
      BY <3>1
  <2> QED
    BY <2>2, <2>3
<1> QED
  BY <1>1, <1>2 DEF EchoInv

\* Steps after which there are only unsolicited lines in flight.
LEMMA NoEcho ==
  ASSUME Clean => /\ state' # "IDLE" => echo_expect' = Active'.id
                  /\ state' = "SENDING" => echo_armed',
         ~disturbed' => modem' = <<>> /\ \A i \in DOMAIN rx' : rx'[i].kind # "echo"
  PROVE  EchoInv'
<1>1. Clean' <=> Clean
  BY DEF Clean
<1> QED
  BY <1>1 DEF EchoInv

\* A line arrives.
LEMMA FedEcho ==
  ASSUME QueueInv, EchoInv, NEW l \in Line, at_feed(l),
         ~disturbed =>
           /\ modem' # <<>> /\ ~Head(modem').echoed =>
                modem # <<>> /\ ~Head(modem).echoed /\ l.kind # "echo"
           /\ l.kind = "echo" => modem # <<>> /\ ~Head(modem).echoed
  PROVE  EchoInv'
<1> SUFFICES ASSUME Clean
             PROVE  EchoInv'
  BY DEF EchoInv, Clean
<1>1. UNCHANGED <<state, echo_armed, echo_expect, queue, q_tail>>
  BY DEF at_feed, tvars, qvars, evars
<1>2. /\ state' # "IDLE" => echo_expect' = Active'.id
      /\ state' = "SENDING" => echo_armed'
  BY <1>1 DEF EchoInv, Active
<1>3. ASSUME ~disturbed'
      PROVE  /\ modem' # <<>> /\ ~Head(modem').echoed =>
                  echo_armed' /\ \A i \in DOMAIN rx' : rx'[i].kind # "echo"
             /\ \A i \in DOMAIN rx' : rx'[i].kind = "echo" =>
                  echo_armed' /\ \A j \in DOMAIN rx' : rx'[j].kind = "echo" => j = i
  <2> DEFINE n == Len(rx)
  <2>1. /\ ~disturbed /\ n \in Nat /\ DOMAIN rx = 1 .. n /\ DOMAIN rx' = 1 .. n + 1
        /\ \A i \in DOMAIN rx : rx'[i] = rx[i]
        /\ rx'[n + 1] = l
    BY <1>3, FedLines
  <2> HIDE DEF n
  <2>2. \A i \in DOMAIN rx' : i \in DOMAIN rx \/ i = n + 1
    BY <2>1
  <2>3. ASSUME modem' # <<>> /\ ~Head(modem').echoed
        PROVE  echo_armed' /\ \A i \in DOMAIN rx' : rx'[i].kind # "echo"
    <3>1. modem # <<>> /\ ~Head(modem).echoed /\ l.kind # "echo"
      BY <2>1, <2>3
    <3>2. echo_armed /\ \A i \in DOMAIN rx : rx[i].kind # "echo"
      BY <2>1, <3>1 DEF EchoInv
    <3> QED
      BY <1>1, <2>1, <2>2, <3>1, <3>2
  <2>4. ASSUME NEW i \in DOMAIN rx', rx'[i].kind = "echo"
        PROVE  echo_armed' /\ \A j \in DOMAIN rx' : rx'[j].kind = "echo" => j = i
    <3>1. CASE l.kind = "echo"
      <4>1. echo_armed /\ \A j \in DOMAIN rx : rx[j].kind # "echo"
        BY <2>1, <3>1 DEF EchoInv
      <4> QED
        BY <1>1, <2>1, <2>2, <2>4, <4>1
    <3>2. CASE l.kind # "echo"
      <4>1. i \in DOMAIN rx /\ rx[i].kind = "echo"
        BY <2>1, <2>2, <2>4, <3>2
      <4>2. echo_armed /\ \A j \in DOMAIN rx : rx[j].kind = "echo" => j = i
        BY <2>1, <4>1 DEF EchoInv
      <4> QED
        BY <1>1, <2>1, <2>2, <3>2, <4>2
    <3> QED
      BY <3>1, <3>2
  <2> QED
    BY <2>3, <2>4
<1> QED
  BY <1>2, <1>3 DEF EchoInv

\* What the modem sends.
LEMMA ModemEchoes ==
  ASSUME QueueInv, FlightInv, EchoInv, Modem
  PROVE  EchoInv'
<1>1. ~disturbed /\ modem # <<>> => Tail(modem) = <<>> /\ Serving = Head(modem)
  BY Served DEF Serving
<1>2. modem # <<>> => Serving \in Heard
  BY ServingType DEF QueueInv
<1>3. CASE ModemEcho
  <2> DEFINE l == LineFor("echo", Serving.id, 0)
             x == [Serving EXCEPT !.echoed = TRUE]
  <2>1. modem # <<>> /\ ~Serving.echoed /\ at_feed(l) /\ modem' = <<x>> \o Tail(modem)
    BY <1>3 DEF ModemEcho, MayAnswer, Becomes
  <2>2. x.echoed = TRUE /\ l \in Line
    BY <1>2, <2>1 DEF Heard, Line, Kinds
  <2> HIDE DEF l, x
  <2>3. Tail(modem) \in Seq(Heard)
    BY <2>1, ServingType DEF QueueInv
  <2>4. ~disturbed => Head(modem').echoed
    <3>1. \A y : Head(<<y>> \o <<>>) = y
      OBVIOUS
    <3> QED
      BY <1>1, <2>1, <2>2, <3>1
  <2> QED
    BY <1>1, <2>1, <2>2, <2>4, FedEcho
<1>4. CASE ModemPrompt \/ ModemData
  <2>1. PICK k \in {"prompt", "data"}, x \in Heard :
          /\ modem # <<>> /\ at_feed(LineFor(k, Serving.id, 0))
          /\ modem' = <<x>> \o Tail(modem) /\ x.echoed = Serving.echoed
    <3>1. CASE ModemPrompt
      <4>1. [Serving EXCEPT !.prompted = TRUE] \in Heard
        BY <1>2, <3>1 DEF Heard, ModemPrompt, MayAnswer
      <4>2. [Serving EXCEPT !.prompted = TRUE].echoed = Serving.echoed
        BY <1>2, <3>1 DEF Heard, ModemPrompt, MayAnswer
      <4> QED
        BY <3>1, <4>1, <4>2 DEF ModemPrompt, MayAnswer, Becomes
    <3>2. CASE ModemData
      <4>1. [Serving EXCEPT !.sent = @ + 1] \in Heard
        BY <1>2, <3>2, BoundAssumption DEF Heard, ModemData, MayAnswer
      <4>2. [Serving EXCEPT !.sent = @ + 1].echoed = Serving.echoed
        BY <1>2, <3>2 DEF Heard, ModemData, MayAnswer
      <4> QED
        BY <3>2, <4>1, <4>2 DEF ModemData, MayAnswer, Becomes
    <3> QED
      BY <1>4, <3>1, <3>2
  <2> DEFINE l == LineFor(k, Serving.id, 0)
  <2>2. l \in Line /\ l.kind # "echo" /\ at_feed(l)
    BY <1>2, <2>1 DEF Heard, Line, Kinds
  <2> HIDE DEF l
  <2>3. ~disturbed => Head(modem') = x
    <3>1. Head(<<x>> \o <<>>) = x
      OBVIOUS
    <3> QED
      BY <1>1, <2>1, <3>1
  <2> QED
    BY <1>1, <2>1, <2>2, <2>3, FedEcho
<1>5. CASE ModemFinal
  <2>1. PICK k \in {"ok", "error"} : at_feed(LineFor(k, Serving.id, Serving.sent))
    BY <1>5 DEF ModemFinal, MayAnswer
  <2>2. modem # <<>> /\ modem' = Tail(modem)
    BY <1>5 DEF ModemFinal, MayAnswer
  <2> DEFINE l == LineFor(k, Serving.id, Serving.sent)
  <2>3. l \in Line /\ l.kind # "echo" /\ at_feed(l)
    BY <1>2, <2>1, <2>2, BoundAssumption DEF Heard, Line, Kinds, Finals
  <2> HIDE DEF l
  <2> QED
    BY <1>1, <2>2, <2>3, FedEcho
<1>6. CASE ModemRestart
  <2>1. /\ UNCHANGED <<state, echo_armed, echo_expect, queue, q_tail, rx, disturbed>>
        /\ modem' = <<>>
    BY <1>6 DEF ModemRestart, tvars, qvars, evars
  <2> QED
    BY <2>1 DEF EchoInv, Clean, Active
<1>7. CASE ModemUnsolicited
  <2>1. PICK k \in {"urc", "nocarrier"} : at_feed(LineFor(k, NoId, 0))
    BY <1>7 DEF ModemUnsolicited
  <2> DEFINE l == LineFor(k, NoId, 0)
  <2>2. l \in Line /\ l.kind # "echo" /\ at_feed(l) /\ modem' = modem
    BY <1>7, <2>1 DEF Line, Kinds, Finals, ModemUnsolicited
  <2> HIDE DEF l
  <2> QED
    BY <2>2, FedEcho
<1> QED
  BY <1>3, <1>4, <1>5, <1>6, <1>7 DEF Modem

\* While nothing is disturbed, only the active command's own echo is taken
\* for its echo.
LEMMA EchoIsOwn ==
  ASSUME QueueInv, EchoInv, Clean, rx # <<>>, IsEcho(Head(rx))
  PROVE  Head(rx).kind = "echo"
<1>1. state # "IDLE"
  BY DEF IsEcho, Waiting
<1>2. echo_expect = Active.id /\ Active.id # NoId
  BY <1>1, ActiveIsOldest DEF EchoInv, QueueInv, QueueWindow, Ids
<1> QED
  BY <1>2 DEF IsEcho, EchoText

\* The outcomes of engine_dispatch_line.
LEMMA DispatchEchoes ==
  ASSUME QueueInv, StageInv, FlightInv, EchoInv, Dispatch
  PROVE  EchoInv'
<1> SUFFICES ASSUME Clean
             PROVE  EchoInv'
  BY DEF EchoInv, Clean
<1>1. /\ rx # <<>> /\ rx' = Tail(rx) /\ UNCHANGED <<modem, disturbed, echo_expect>>
      /\ UNCHANGED qvars
  BY DEF Dispatch, DispatchEcho, DispatchPrompt, DispatchFinal, DispatchUrc,
         DispatchOther, Drains, engine_finalize, evars
<1>2. UNCHANGED Active
  BY <1>1 DEF qvars, Active
<1>3. /\ UNCHANGED state \/ (state' = "PROMPT" /\ state = "WAITING")
      /\ DispatchEcho => state = "WAITING"
  BY DEF Dispatch, DispatchEcho, DispatchPrompt, DispatchFinal, DispatchUrc,
         DispatchOther, IsPrompt, IsEcho, Waiting, tvars
<1>4. /\ DOMAIN rx \subseteq Int /\ DOMAIN rx' \subseteq Int
      /\ \A i \in DOMAIN rx' : i + 1 \in DOMAIN rx /\ rx'[i] = rx[i+1] /\ i + 1 # 1
      /\ 1 \in DOMAIN rx /\ Head(rx) = rx[1]
  BY <1>1, TailLines
<1>5. CASE DispatchEcho
  <2>1. Head(rx).kind = "echo" /\ echo_armed' = FALSE /\ UNCHANGED state
    BY <1>1, <1>5, EchoIsOwn DEF DispatchEcho, tvars
  <2>2. ~disturbed =>
          /\ \A i \in DOMAIN rx' : rx'[i].kind # "echo"
          /\ modem # <<>> => Head(modem).echoed
    BY <1>4, <2>1 DEF EchoInv
  <2>3. state' # "IDLE" => echo_expect' = Active'.id
    BY <1>1, <1>2, <2>1 DEF EchoInv
  <2>4. state' # "SENDING"
    BY <1>3, <1>5, <2>1
  <2> QED
    BY <1>1, <2>2, <2>3, <2>4 DEF EchoInv
<1>6. CASE ~DispatchEcho
  <2>1. UNCHANGED echo_armed
    BY <1>6 DEF Dispatch, DispatchPrompt, DispatchFinal, DispatchUrc, DispatchOther, evars
  <2>2. ~disturbed =>
          /\ modem # <<>> /\ ~Head(modem).echoed =>
               echo_armed /\ \A i \in DOMAIN rx' : rx'[i].kind # "echo"
          /\ \A i \in DOMAIN rx' : rx'[i].kind = "echo" =>
               echo_armed /\ \A j \in DOMAIN rx' : rx'[j].kind = "echo" => j + 1 = i + 1
    BY <1>4 DEF EchoInv
  <2>3. \A i, j \in DOMAIN rx' : j + 1 = i + 1 => j = i
    BY <1>4
  <2>4. /\ state' # "IDLE" => echo_expect' = Active'.id
        /\ state' = "SENDING" => echo_armed'
    BY <1>1, <1>2, <1>3, <2>1 DEF EchoInv
  <2> QED
    BY <1>1, <2>1, <2>2, <2>3, <2>4 DEF EchoInv
<1> QED
  BY <1>5, <1>6

\* Every step keeps the echo.
LEMMA EchoStep ==
  ASSUME QueueInv, Depth < 256, CbCalls \subseteq {"send"}, [Next]_vars,
         StageInv, FlightInv, FlightInv', EchoInv
  PROVE  EchoInv'
<1>1. state # "IDLE" => q_count > 0
  BY DEF QueueInv, QueueWindow
<1>2. SomethingInFlight /\ ~disturbed => state \in {"WAITING", "PROMPT"} /\ ~InCallback
  BY DEF FlightInv
<1>3. CASE \E t \in Timeouts : at_send(t)
  <2>1. UNCHANGED <<modem, rx, disturbed, state, echo_armed, echo_expect>>
    BY <1>3 DEF at_send, tvars, evars
  <2>2. ~(finalize_return \/ flush_return)
    BY <1>3 DEF at_send, finalize_return, flush_return, hvars, QueueInv, TypeOK
  <2>3. q_count > 0 => UNCHANGED Active
    BY <2>2, ActiveStays
  <2> QED
    BY <1>1, <2>1, <2>3, SameEcho
<1>4. CASE \/ at_abort \/ at_reset \/ at_process \/ DrainEnd \/ CheckTimeout
           \/ process_end \/ urc_return \/ reset_flush \/ BodyFailed
           \/ (WriteFailed /\ UNCHANGED <<modem, disturbed>>)
           \/ Tick \/ UNCHANGED vars
  <2>1. CASE WriteFailed /\ UNCHANGED <<modem, disturbed>>
    <3>1. UNCHANGED <<rx, state, echo_armed, echo_expect, qvars>>
      BY <2>1 DEF WriteFailed, engine_finalize, tvars, evars
    <3>2. UNCHANGED Active
      BY <3>1 DEF Active, qvars
    <3> QED
      BY <2>1, <3>1, <3>2, SameEcho
  <2>2. CASE ~(WriteFailed /\ UNCHANGED <<modem, disturbed>>)
    <3>1. /\ UNCHANGED <<modem, rx, state, echo_armed, echo_expect, qvars>>
          /\ disturbed => disturbed'
      BY <1>4, <2>2 DEF at_abort, at_reset, at_process, DrainEnd, CheckTimeout, process_end,
                urc_return, reset_flush, BodyFailed, Tick, at_tick, vars, tvars,
                evars, engine_finalize
    <3>2. UNCHANGED Active
      BY <3>1 DEF Active, qvars
    <3> QED
      BY <3>1, <3>2, SameEcho
  <2> QED
    BY <2>1, <2>2
<1>5. CASE BodyDone
  <2>1. /\ UNCHANGED <<modem, rx, echo_armed, echo_expect, qvars, disturbed>>
        /\ state = "PROMPT" /\ state' = "WAITING"
    BY <1>5 DEF BodyDone, StageInv, evars
  <2>2. UNCHANGED Active
    BY <2>1 DEF Active, qvars
  <2> QED
    BY <2>1, <2>2, SameEcho
<1>6. CASE finalize_return \/ flush_return
  <2>1. UNCHANGED <<modem, rx, disturbed>> /\ InCallback
    BY <1>6 DEF finalize_return, flush_return, InCallback
  <2>2. state' = "IDLE"
    BY <1>6 DEF finalize_return, flush_return, QueueInv, TopInv, tvars
  <2> QED
    BY <1>2, <2>1, <2>2, SameEcho
<1>7. CASE engine_start_next
  <2>1. /\ UNCHANGED <<modem, rx>> /\ state' = "SENDING" /\ q_count > 0
        /\ echo_armed' = EchoCancel
        /\ echo_expect' = IF EchoCancel THEN Active.id ELSE echo_expect
    BY <1>7 DEF engine_start_next, MayStart
  <2>2. UNCHANGED Active
    BY <1>7 DEF engine_start_next, Active, qvars
  <2>3. ~disturbed' => modem' = <<>> /\ \A i \in DOMAIN rx' : rx'[i].kind # "echo"
    BY <2>1 DEF FlightInv, SomethingInFlight
  <2>4. Clean => echo_expect' = Active'.id /\ echo_armed'
    BY <2>1, <2>2 DEF Clean
  <2> QED
    BY <2>3, <2>4, NoEcho
<1>8. CASE reset_end
  <2>1. UNCHANGED <<modem, disturbed>> /\ rx' = <<>> /\ state = "IDLE" /\ state' = "IDLE"
    BY <1>8 DEF reset_end, QueueInv, TopInv
  <2>2. ~disturbed' => modem' = <<>> /\ \A i \in DOMAIN rx' : rx'[i].kind # "echo"
    BY <2>1, NothingFlies
  <2> QED
    BY <2>1, <2>2, NoEcho
<1>9. CASE WriteFailed /\ disturbed' = TRUE
  <2>1. UNCHANGED <<state, echo_armed, echo_expect, qvars>>
    BY <1>9 DEF WriteFailed, engine_finalize, tvars, evars
  <2>2. Clean => /\ state' # "IDLE" => echo_expect' = Active'.id
                 /\ state' = "SENDING" => echo_armed'
    BY <2>1 DEF EchoInv, Active, qvars
  <2> QED
    BY <1>9, <2>2, NoEcho
<1>10. CASE WriteDone
  <2> DEFINE x == Typed(IF LeftOver THEN NoId ELSE Active.id, Active.sms, TRUE)
  <2>1. /\ UNCHANGED <<rx, disturbed, qvars, echo_armed, echo_expect>>
        /\ state = "SENDING" /\ state' = "WAITING"
        /\ modem' = Append(HeardLines, x)
    BY <1>10 DEF WriteDone, StageInv, evars
  <2>2. UNCHANGED Active
    BY <2>1 DEF Active, qvars
  <2>3. Clean => echo_expect' = Active'.id /\ echo_armed'
    BY <2>1, <2>2 DEF EchoInv
  <2>4. ~disturbed' => \A i \in DOMAIN rx' : rx'[i].kind # "echo"
    BY <2>1, NothingFlies
  <2>5. Clean' <=> Clean
    BY DEF Clean
  <2> QED
    BY <2>1, <2>3, <2>4, <2>5 DEF EchoInv
<1>11. WriteFailed => UNCHANGED <<modem, disturbed>> \/ disturbed' = TRUE
  BY DEF WriteFailed
<1> QED
  BY <1>3, <1>4, <1>5, <1>6, <1>7, <1>8, <1>9, <1>10, <1>11, ModemEchoes, DispatchEchoes
  DEF Next, User, TaskStep, Writes, Returns

-----------------------------------------------------------------------------
\* The answer.

\* Steps after which no command collects lines and none is answered.
LEMMA NoAnswer ==
  ASSUME state' = "IDLE" \/ InCallback', ~AnswerRuns'
  PROVE  AnswerInv'
BY DEF AnswerInv

\* Steps that leave the lines alone.
LEMMA SameAnswer ==
  ASSUME AnswerInv, UNCHANGED <<modem, rx, pool>>, disturbed => disturbed',
         state' # "IDLE" /\ ~InCallback' =>
           Active' = Active /\ state # "IDLE" /\ ~InCallback,
         state' = "SENDING" => state = "SENDING",
         AnswerRuns' => AnswerRuns /\ Top' = Top
  PROVE  AnswerInv'
<1> SUFFICES ASSUME Clean, ~disturbed'
             PROVE  /\ state' # "IDLE" /\ ~InCallback' => Collecting'
                    /\ AnswerRuns' => Answered'
  BY DEF AnswerInv, Clean
<1>1. ASSUME state' # "IDLE", ~InCallback'
      PROVE  Collecting'
  <2>1. Collecting /\ UNCHANGED Active
    BY <1>1 DEF AnswerInv
  <2>2. PICK t \in [0 .. Len(rx) -> Nat] : Tally(t)
    BY <2>1 DEF Collecting
  <2>3. Tally(t)'
    BY <2>2 DEF Tally
  <2> QED
    BY <2>1, <2>2, <2>3 DEF Collecting
<1>2. ASSUME AnswerRuns'
      PROVE  Answered'
  BY <1>2 DEF AnswerInv, Answered
<1> QED
  BY <1>1, <1>2

\* The oldest line leaves the receive buffer, and with it its share of the
\* tally goes to the pool.
LEMMA TailTally ==
  ASSUME QueueInv, rx # <<>>, rx' = Tail(rx), UNCHANGED modem, state' # "SENDING",
         NEW t \in [0 .. Len(rx) -> Nat], Tally(t), Len(pool') = LeastOf(t[1], LinesMax)
  PROVE  \E u \in [0 .. Len(rx') -> Nat] : Tally(u)'
<1> DEFINE n == Len(rx)
<1>1. /\ n \in Nat \ {0} /\ Len(rx') = n - 1
      /\ \A i \in 1 .. n - 1 : rx'[i] = rx[i+1]
  BY TailLines
<1>2. PICK u : u = [i \in 0 .. n - 1 |-> t[i+1]]
  OBVIOUS
<1>3. /\ \A i \in 1 .. n : t[i] = t[i-1] + DataIn(rx[i])
      /\ \A i \in 1 .. n : rx[i].kind \in Finals => rx[i].n = t[i]
      /\ modem # <<>> => Head(modem).sent = t[n]
  BY DEF Tally
<1>4. t \in [0 .. n -> Nat]
  OBVIOUS
<1> HIDE DEF n
<1>5. u \in [0 .. n - 1 -> Nat] /\ u[0] = t[1] /\ u[n-1] = t[n]
  BY <1>1, <1>2, <1>4
<1>6. ASSUME NEW i \in 1 .. n - 1
      PROVE  u[i] = t[i+1] /\ u[i-1] = t[i] /\ i + 1 \in 1 .. n /\ i + 1 - 1 = i
  BY <1>1, <1>2
<1>7. ASSUME NEW i \in 1 .. n - 1
      PROVE  /\ u[i] = u[i-1] + DataIn(rx'[i])
             /\ rx'[i].kind \in Finals => rx'[i].n = u[i]
  <2>1. rx'[i] = rx[i+1]
    BY <1>1
  <2>2. t[i+1] = t[i+1-1] + DataIn(rx[i+1])
    BY <1>3, <1>6
  <2>3. rx[i+1].kind \in Finals => rx[i+1].n = t[i+1]
    BY <1>3, <1>6
  <2> QED
    BY <1>6, <2>1, <2>2, <2>3 DEF DataIn
<1>8. Tally(u)'
  BY <1>1, <1>3, <1>5, <1>7 DEF Tally, DataIn
<1> QED
  BY <1>1, <1>5, <1>8

\* A line arrives and extends the tally.
LEMMA FedAnswer ==
  ASSUME QueueInv, AnswerInv, NEW l \in Line, at_feed(l),
         ~disturbed /\ state # "IDLE" /\ ~InCallback =>
           /\ modem' # <<>> =>
                modem # <<>> /\ Head(modem').sent = Head(modem).sent + DataIn(l)
           /\ l.kind \in Finals => modem # <<>> /\ l.n = Head(modem).sent
           /\ state = "SENDING" => l.kind # "data"
  PROVE  AnswerInv'
<1> SUFFICES ASSUME Clean, ~disturbed'
             PROVE  /\ state' # "IDLE" /\ ~InCallback' => Collecting'
                    /\ AnswerRuns' => Answered'
  BY DEF AnswerInv, Clean
<1>1. UNCHANGED <<state, stack, pool, queue, q_tail>>
  BY DEF at_feed, tvars, rvars, qvars
<1>2. UNCHANGED <<InCallback, AnswerRuns, Top, Active>>
  BY <1>1 DEF InCallback, AnswerRuns, Runs, Top, Active
<1> DEFINE n == Len(rx)
<1>3. /\ ~disturbed /\ n \in Nat /\ Len(rx') = n + 1
      /\ \A i \in 1 .. n : rx'[i] = rx[i]
      /\ rx'[n+1] = l
  BY FedLines
<1>4. ASSUME state' # "IDLE", ~InCallback'
      PROVE  Collecting'
  <2>1. /\ state # "IDLE" /\ ~InCallback /\ Collecting
        /\ modem' # <<>> =>
             modem # <<>> /\ Head(modem').sent = Head(modem).sent + DataIn(l)
        /\ l.kind \in Finals => modem # <<>> /\ l.n = Head(modem).sent
        /\ state = "SENDING" => l.kind # "data"
    BY <1>1, <1>2, <1>3, <1>4 DEF AnswerInv
  <2>2. PICK t \in [0 .. n -> Nat] : Tally(t)
    BY <2>1 DEF Collecting
  <2>3. /\ \A i \in 1 .. n : t[i] = t[i-1] + DataIn(rx[i])
        /\ \A i \in 1 .. n : rx[i].kind \in Finals => rx[i].n = t[i]
        /\ modem # <<>> => Head(modem).sent = t[n]
        /\ state = "SENDING" => \A i \in 0 .. n : t[i] = 0
        /\ Len(pool) = LeastOf(t[0], LinesMax)
    BY <2>2 DEF Tally
  <2>4. PICK u : u = [i \in 0 .. n + 1 |-> IF i <= n THEN t[i] ELSE t[n] + DataIn(l)]
    OBVIOUS
  <2> HIDE DEF n
  <2>5. DataIn(l) \in Nat /\ t[n] \in Nat /\ (l.kind # "data" => DataIn(l) = 0)
    BY <1>3, <2>2 DEF DataIn
  <2>6. /\ u \in [0 .. n + 1 -> Nat] /\ u[n+1] = t[n] + DataIn(l)
        /\ \A i \in 0 .. n : u[i] = t[i]
    BY <1>3, <2>2, <2>4, <2>5
  <2>7. ASSUME NEW i \in 1 .. n + 1
        PROVE  /\ u[i] = u[i-1] + DataIn(rx'[i])
               /\ rx'[i].kind \in Finals => rx'[i].n = u[i]
    <3>1. CASE i \in 1 .. n
      <4>1. u[i] = t[i] /\ u[i-1] = t[i-1] /\ rx'[i] = rx[i]
        BY <1>3, <2>6, <3>1
      <4> QED
        BY <2>3, <3>1, <4>1
    <3>2. CASE i = n + 1
      <4>1. u[i] = t[n] + DataIn(l) /\ u[i-1] = t[n] /\ rx'[i] = l
        BY <1>3, <2>6, <3>2
      <4>2. l.kind \in Finals => l.n = t[n] + DataIn(l)
        BY <2>1, <2>3, <2>5 DEF Finals
      <4> QED
        BY <4>1, <4>2
    <3> QED
      BY <1>3, <3>1, <3>2
  <2>8. modem' # <<>> => Head(modem').sent = u[n+1]
    BY <2>1, <2>3, <2>6
  <2>9. state = "SENDING" => \A i \in 0 .. n + 1 : u[i] = 0
    <3> SUFFICES ASSUME state = "SENDING", NEW i \in 0 .. n + 1
                 PROVE  u[i] = 0
      OBVIOUS
    <3>1. i \in 0 .. n \/ i = n + 1
      BY <1>3
    <3>2. n \in 0 .. n
      BY <1>3
    <3> QED
      BY <2>1, <2>3, <2>5, <2>6, <3>1, <3>2
  <2>10. Len(pool) = LeastOf(u[0], LinesMax)
    <3>1. u[0] = t[0]
      BY <1>3, <2>6
    <3> QED
      BY <2>3, <3>1
  <2>11. Tally(u)'
    BY <1>1, <1>3, <2>7, <2>8, <2>9, <2>10 DEF Tally, LeastOf
  <2>12. \E v \in [0 .. Len(rx') -> Nat] : Tally(v)'
    BY <1>3, <2>6, <2>11
  <2>13. \A i \in DOMAIN pool' : pool'[i] = Active'.id
    BY <1>1, <1>2, <2>1 DEF Collecting
  <2> QED
    BY <2>12, <2>13 DEF Collecting
<1>5. ASSUME AnswerRuns'
      PROVE  Answered'
  BY <1>1, <1>2, <1>3, <1>5 DEF AnswerInv, Answered
<1> QED
  BY <1>4, <1>5

\* What the modem sends.
LEMMA ModemAnswers ==
  ASSUME QueueInv, FlightInv, AnswerInv, Modem
  PROVE  AnswerInv'
<1>1. ~disturbed /\ modem # <<>> =>
         Tail(modem) = <<>> /\ Serving = Head(modem) /\ state # "SENDING"
  BY Served DEF Serving
<1>2. modem # <<>> => Serving \in Heard
  BY ServingType DEF QueueInv
<1>3. CASE ModemEcho \/ ModemPrompt \/ ModemData
  <2>1. PICK k \in {"echo", "prompt", "data"}, x \in Heard :
          /\ modem # <<>> /\ at_feed(LineFor(k, Serving.id, 0))
          /\ modem' = <<x>> \o Tail(modem)
          /\ x.sent = Serving.sent + IF k = "data" THEN 1 ELSE 0
    <3>1. CASE ModemEcho
      <4>1. [Serving EXCEPT !.echoed = TRUE] \in Heard
        BY <1>2, <3>1 DEF Heard, ModemEcho, MayAnswer
      <4>2. [Serving EXCEPT !.echoed = TRUE].sent = Serving.sent + 0
        BY <1>2, <3>1, BoundAssumption DEF Heard, ModemEcho, MayAnswer
      <4> QED
        BY <3>1, <4>1, <4>2 DEF ModemEcho, MayAnswer, Becomes
    <3>2. CASE ModemPrompt
      <4>1. [Serving EXCEPT !.prompted = TRUE] \in Heard
        BY <1>2, <3>2 DEF Heard, ModemPrompt, MayAnswer
      <4>2. [Serving EXCEPT !.prompted = TRUE].sent = Serving.sent + 0
        BY <1>2, <3>2, BoundAssumption DEF Heard, ModemPrompt, MayAnswer
      <4> QED
        BY <3>2, <4>1, <4>2 DEF ModemPrompt, MayAnswer, Becomes
    <3>3. CASE ModemData
      <4>1. [Serving EXCEPT !.sent = @ + 1] \in Heard
        BY <1>2, <3>3, BoundAssumption DEF Heard, ModemData, MayAnswer
      <4>2. [Serving EXCEPT !.sent = @ + 1].sent = Serving.sent + 1
        BY <1>2, <3>3 DEF Heard, ModemData, MayAnswer
      <4> QED
        BY <3>3, <4>1, <4>2 DEF ModemData, MayAnswer, Becomes
    <3> QED
      BY <1>3, <3>1, <3>2, <3>3
  <2> DEFINE l == LineFor(k, Serving.id, 0)
  <2>2. l \in Line /\ l.kind = k /\ l.kind \notin Finals /\ at_feed(l)
    BY <1>2, <2>1 DEF Heard, Line, Kinds, Finals
  <2> HIDE DEF l
  <2>3. x.sent = Serving.sent + DataIn(l)
    BY <2>1, <2>2 DEF DataIn
  <2>4. ~disturbed => Head(modem') = x
    <3>1. Head(<<x>> \o <<>>) = x
      OBVIOUS
    <3> QED
      BY <1>1, <2>1, <3>1
  <2>5. ~disturbed => Head(modem').sent = Head(modem).sent + DataIn(l)
    BY <1>1, <2>1, <2>3, <2>4
  <2> QED
    BY <1>1, <2>1, <2>2, <2>5, FedAnswer
<1>4. CASE ModemFinal
  <2>1. PICK k \in {"ok", "error"} : at_feed(LineFor(k, Serving.id, Serving.sent))
    BY <1>4 DEF ModemFinal, MayAnswer
  <2>2. modem # <<>> /\ modem' = Tail(modem)
    BY <1>4 DEF ModemFinal, MayAnswer
  <2> DEFINE l == LineFor(k, Serving.id, Serving.sent)
  <2>3. l \in Line /\ l.kind # "data" /\ l.n = Serving.sent /\ at_feed(l)
    BY <1>2, <2>1, <2>2, BoundAssumption DEF Heard, Line, Kinds, Finals
  <2> HIDE DEF l
  <2> QED
    BY <1>1, <2>2, <2>3, FedAnswer
<1>5. CASE ModemRestart
  <2>1. UNCHANGED <<qvars, state, rx, pool, stack, disturbed>> /\ modem' = <<>>
    BY <1>5 DEF ModemRestart, tvars, rvars
  <2>2. UNCHANGED <<InCallback, AnswerRuns, Top, Active>>
    BY <2>1 DEF InCallback, AnswerRuns, Runs, Top, Active, qvars
  <2>3. Collecting => Collecting'
    <3> SUFFICES ASSUME Collecting
                 PROVE  Collecting'
      OBVIOUS
    <3>1. PICK t \in [0 .. Len(rx) -> Nat] : Tally(t)
      BY DEF Collecting
    <3>2. Tally(t)'
      BY <2>1, <3>1 DEF Tally
    <3> QED
      BY <2>1, <2>2, <3>1, <3>2 DEF Collecting
  <2> QED
    BY <2>1, <2>2, <2>3 DEF AnswerInv, Answered, Clean
<1>6. CASE ModemUnsolicited
  <2>1. PICK k \in {"urc", "nocarrier"} : at_feed(LineFor(k, NoId, 0))
    BY <1>6 DEF ModemUnsolicited
  <2> DEFINE l == LineFor(k, NoId, 0)
  <2>2. l \in Line /\ at_feed(l) /\ modem' = modem /\ l.kind = k
    BY <1>6, <2>1 DEF Line, Kinds, Finals, ModemUnsolicited
  <2> HIDE DEF l
  <2>3. CASE disturbed'
    BY <2>3 DEF AnswerInv
  <2>4. CASE ~disturbed'
    <3>1. l.kind = "urc" /\ DataIn(l) = 0
      BY <2>1, <2>2, <2>4, FedLines DEF DataIn
    <3>2. modem # <<>> => Head(modem).sent = Head(modem).sent + 0
      <4>1. modem # <<>> => Serving.sent \in Nat
        BY <1>2, BoundAssumption DEF Heard
      <4> QED
        BY <4>1 DEF Serving
    <3> QED
      BY <2>2, <3>1, <3>2, FedAnswer DEF Finals
  <2> QED
    BY <2>3, <2>4
<1> QED
  BY <1>3, <1>4, <1>5, <1>6 DEF Modem

\* What is neither echo, prompt, final nor unsolicited is an information line
\* of the active command.
LEMMA OtherIsData ==
  ASSUME QueueInv, FlightInv, EchoInv, Clean, ~disturbed, Waiting,
         rx # <<>>, IsOther(Head(rx))
  PROVE  Head(rx).kind = "data" /\ Head(rx).id = Active.id
<1>1. Head(rx) \in Line /\ 1 \in DOMAIN rx /\ Head(rx) = rx[1]
  BY DEF QueueInv, TypeOK
<1>2. Head(rx).kind \in Kinds /\ Head(rx).kind \notin {"prompt", "urc"} \cup Finals
  BY <1>1 DEF Line, IsOther, IsPrompt, engine_is_final, Clean
<1>3. Head(rx).id = Active.id
  BY <1>1, <1>2 DEF FlightInv
<1>4. Head(rx).kind # "echo"
  <2> SUFFICES ASSUME Head(rx).kind = "echo"
               PROVE  FALSE
    OBVIOUS
  <2>1. echo_armed
    BY <1>1 DEF EchoInv
  <2>2. echo_expect = Active.id
    BY DEF EchoInv, Waiting
  <2> QED
    BY <1>3, <2>1, <2>2 DEF IsOther, IsEcho, EchoText
<1> QED
  BY <1>2, <1>3, <1>4 DEF Kinds

\* The outcomes of engine_dispatch_line.
LEMMA DispatchAnswers ==
  ASSUME QueueInv, StageInv, FlightInv, EchoInv, AnswerInv, Dispatch
  PROVE  AnswerInv'
<1> SUFFICES ASSUME Clean, ~disturbed'
             PROVE  AnswerInv'
  BY DEF AnswerInv, Clean
<1>1. /\ rx # <<>> /\ rx' = Tail(rx) /\ UNCHANGED <<modem, qvars>> /\ ~disturbed
      /\ Runs("drain")
  BY DEF Dispatch, DispatchEcho, DispatchPrompt, DispatchFinal, DispatchUrc,
         DispatchOther, Drains, engine_finalize
<1>2. UNCHANGED Active
  BY <1>1 DEF qvars, Active
<1>3. state \in {"IDLE", "WAITING"} /\ ~InCallback
  BY <1>1 DEF StageInv, Runs, InCallback, QueueInv, TypeOK
<1>4. DispatchFinal \/ ~AnswerRuns'
  <2>1. \/ UNCHANGED stack \/ DispatchFinal
        \/ Enters(BodyOf(Head(rx))) \/ Enters(At("urc"))
    BY DispatchTops DEF Dispatch, DispatchEcho, DispatchOther
  <2> QED
    BY <1>1, <2>1 DEF AnswerRuns, Runs, Top, Enters, BodyOf
<1>5. CASE state = "IDLE"
  <2>1. state' = "IDLE" /\ ~DispatchFinal
    BY <1>5 DEF Dispatch, DispatchEcho, DispatchPrompt, DispatchFinal, DispatchUrc,
       DispatchOther, IsPrompt, engine_is_final, Waiting, tvars
  <2> QED
    BY <1>4, <2>1, NoAnswer
<1>6. CASE state = "WAITING"
  <2>1. Collecting
    BY <1>1, <1>3, <1>6 DEF AnswerInv
  <2>2. PICK t \in [0 .. Len(rx) -> Nat] : Tally(t)
    BY <2>1 DEF Collecting
  <2>3. Len(rx) \in Nat \ {0} /\ Head(rx) = rx[1] /\ 1 \in DOMAIN rx /\ Head(rx) \in Line
    BY <1>1, TailLines
  <2>4. /\ t[0] \in Nat /\ t[1] = t[0] + DataIn(Head(rx))
        /\ Head(rx).kind \in Finals => Head(rx).n = t[1]
        /\ Len(pool) = LeastOf(t[0], LinesMax)
    <3>1. 0 \in 0 .. Len(rx) /\ 1 \in 1 .. Len(rx) /\ 1 - 1 = 0
      BY <2>3
    <3>2. /\ t[1] = t[1-1] + DataIn(rx[1])
          /\ rx[1].kind \in Finals => rx[1].n = t[1]
          /\ Len(pool) = LeastOf(t[0], LinesMax)
      BY <2>2, <3>1 DEF Tally
    <3>3. DataIn(Head(rx)) = DataIn(rx[1])
      BY <2>3 DEF DataIn
    <3> QED
      BY <2>2, <2>3, <3>1, <3>2, <3>3
  <2>5. state' # "SENDING"
    BY <1>6 DEF Dispatch, DispatchEcho, DispatchPrompt, DispatchFinal, DispatchUrc,
       DispatchOther, tvars
  <2>6. CASE DispatchEcho \/ DispatchPrompt \/ DispatchUrc
    <3>1. UNCHANGED pool
      BY <2>6 DEF DispatchEcho, DispatchPrompt, DispatchUrc, rvars
    <3>2. Head(rx).kind # "data"
      BY <1>1, <2>6, EchoIsOwn DEF DispatchEcho, DispatchPrompt, IsPrompt, DispatchUrc,
         IsUrc, Clean
    <3>3. t[1] = t[0]
      BY <2>4, <3>2 DEF DataIn
    <3>4. Collecting'
      <4>1. \E u \in [0 .. Len(rx') -> Nat] : Tally(u)'
        BY <1>1, <2>2, <2>4, <2>5, <3>1, <3>3, TailTally
      <4> QED
        BY <1>2, <2>1, <3>1, <4>1 DEF Collecting
    <3>5. ~AnswerRuns'
      BY <2>6, DispatchTops, <1>1
      DEF AnswerRuns, Runs, Top, Enters, BodyOf, DispatchEcho
    <3> QED
      BY <3>4, <3>5 DEF AnswerInv
  <2>7. CASE DispatchOther
    <3>1. Head(rx).kind = "data" /\ Head(rx).id = Active.id
      BY <1>1, <1>6, <2>7, OtherIsData DEF DispatchOther, Waiting
    <3>2. t[1] = t[0] + 1
      BY <2>4, <3>1 DEF DataIn
    <3>3. pool \in Seq(Ids \cup {NoId}) /\ Len(pool) \in Nat
      BY DEF QueueInv, TypeOK
    <3>4. /\ Len(pool') = LeastOf(t[1], LinesMax)
          /\ \A i \in DOMAIN pool' : pool'[i] = Active.id
      <4>1. CASE ~PoolFull
        <5>1. pool' = Append(pool, Active.id)
          BY <1>6, <2>7, <3>1, <4>1 DEF DispatchOther, Waiting
        <5>2. /\ Len(pool') = Len(pool) + 1
              /\ \A i \in DOMAIN pool' : pool'[i] = Active.id
          BY <2>1, <3>3, <5>1 DEF Collecting
        <5> QED
          BY <2>4, <3>2, <3>3, <4>1, <5>2, LinesAssumption DEF PoolFull, LeastOf
      <4>2. CASE PoolFull
        <5>1. UNCHANGED pool
          BY <1>6, <2>7, <4>2 DEF DispatchOther, Waiting, rvars
        <5> QED
          BY <2>1, <2>4, <3>2, <3>3, <4>2, <5>1, LinesAssumption
          DEF PoolFull, LeastOf, Collecting
      <4> QED
        BY <4>1, <4>2
    <3>5. Collecting'
      <4>1. \E u \in [0 .. Len(rx') -> Nat] : Tally(u)'
        BY <1>1, <2>2, <2>5, <3>4, TailTally
      <4> QED
        BY <1>2, <3>4, <4>1 DEF Collecting
    <3>6. ~AnswerRuns'
      BY <1>1, <2>7 DEF AnswerRuns, Runs, Top, DispatchOther
    <3> QED
      BY <3>5, <3>6 DEF AnswerInv
  <2>8. CASE DispatchFinal
    <3>1. UNCHANGED pool /\ Head(rx).kind \in Finals
      BY <2>8 DEF DispatchFinal, engine_finalize, engine_is_final
    <3>2. Enters(CallbackOf(IF Head(rx).kind = "ok" THEN "OK" ELSE "ERROR", Head(rx)))
      BY <2>8, DispatchTops
    <3>3. Top'.id = Active.id /\ Top'.by = Head(rx).id /\ Top'.n = Head(rx).n
      BY <3>2 DEF Enters, CallbackOf
    <3>4. Head(rx).id = Active.id
      BY <1>1, <2>3, <3>1 DEF FlightInv, Finals
    <3>5. Head(rx).n = t[0]
      BY <2>4, <3>1 DEF DataIn, Finals
    <3>6. Answered'
      BY <2>1, <2>4, <3>1, <3>3, <3>4, <3>5 DEF Answered, Collecting, LeastOf
    <3>7. InCallback'
      BY <3>2 DEF Enters, CallbackOf, InCallback, Runs
    <3> QED
      BY <3>6, <3>7 DEF AnswerInv
  <2> QED
    BY <2>6, <2>7, <2>8 DEF Dispatch
<1> QED
  BY <1>3, <1>5, <1>6

\* Every step keeps the answer.
LEMMA AnswerStep ==
  ASSUME QueueInv, Depth < 256, CbCalls \subseteq {"send"}, [Next]_vars,
         StageInv, FlightInv, FlightInv', EchoInv, AnswerInv
  PROVE  AnswerInv'
<1>1. state # "IDLE" => q_count > 0
  BY DEF QueueInv, QueueWindow
<1>2. CASE \E t \in Timeouts : at_send(t)
  <2>1. UNCHANGED <<modem, rx, pool, disturbed, state, stack>>
    BY <1>2 DEF at_send, tvars, rvars
  <2>2. ~(finalize_return \/ flush_return)
    BY <1>2 DEF at_send, finalize_return, flush_return, hvars, QueueInv, TypeOK
  <2>3. q_count > 0 => UNCHANGED Active
    BY <2>2, ActiveStays
  <2>4. UNCHANGED <<InCallback, AnswerRuns, Top>>
    BY <2>1 DEF InCallback, AnswerRuns, Runs, Top
  <2> QED
    BY <1>1, <2>1, <2>3, <2>4, SameAnswer
<1>3. CASE at_abort \/ at_reset
  <2>1. /\ UNCHANGED <<modem, rx, pool, state, qvars>> /\ (disturbed => disturbed')
        /\ ~InCallback
    BY <1>3, UserTops DEF at_abort, at_reset, engine_finalize, tvars, rvars
  <2>2. ~AnswerRuns'
    BY <1>3, UserTops DEF Enters, CallbackOf, AnswerRuns, Runs
  <2>3. UNCHANGED Active
    BY <2>1 DEF qvars, Active
  <2> QED
    BY <2>1, <2>2, <2>3, SameAnswer
<1>4. CASE \/ at_process \/ DrainEnd \/ CheckTimeout \/ BodyFailed \/ reset_flush
           \/ (WriteFailed /\ UNCHANGED <<modem, disturbed>>)
  <2>1. /\ UNCHANGED <<modem, rx, pool, state, qvars>> /\ (disturbed => disturbed')
        /\ ~InCallback
    <3>1. CASE WriteFailed /\ UNCHANGED <<modem, disturbed>>
      <4>1. UNCHANGED <<modem, disturbed, rx, pool, state, qvars>>
        BY <3>1 DEF WriteFailed, engine_finalize, tvars, rvars
      <4>2. ~InCallback
        BY <3>1 DEF WriteFailed, InCallback, Runs
      <4> QED
        BY <4>1, <4>2
    <3>2. CASE ~(WriteFailed /\ UNCHANGED <<modem, disturbed>>)
      BY <1>4, <3>2 DEF at_process, DrainEnd, CheckTimeout, BodyFailed, reset_flush,
         engine_finalize, tvars, rvars, InCallback, Runs
    <3> QED
      BY <3>1, <3>2
  <2>2. ~AnswerRuns'
    BY <1>4, TaskTops DEF Enters, CallbackOf, AnswerRuns, Runs
  <2>3. UNCHANGED Active
    BY <2>1 DEF qvars, Active
  <2> QED
    BY <2>1, <2>2, <2>3, SameAnswer
<1>5. CASE BodyDone
  <2>1. /\ UNCHANGED <<modem, rx, pool, qvars, disturbed>> /\ state = "PROMPT"
        /\ state' = "WAITING" /\ ~InCallback
    BY <1>5 DEF BodyDone, rvars, StageInv, InCallback, Runs
  <2>2. ~AnswerRuns'
    BY <1>5, TaskTops DEF Enters, AnswerRuns, Runs
  <2>3. UNCHANGED Active
    BY <2>1 DEF qvars, Active
  <2> QED
    BY <2>1, <2>2, <2>3, SameAnswer
<1>6. CASE process_end \/ urc_return
  <2>1. /\ UNCHANGED <<modem, rx, pool, state, qvars, disturbed>> /\ ~InCallback
    BY <1>6 DEF process_end, urc_return, rvars, tvars, InCallback, Runs
  <2>2. ~AnswerRuns'
    BY <1>6, ReturnTops DEF Returns, Leaves, AnswerRuns, Runs
  <2>3. UNCHANGED Active
    BY <2>1 DEF qvars, Active
  <2> QED
    BY <2>1, <2>2, <2>3, SameAnswer
<1>7. CASE finalize_return \/ flush_return \/ reset_end
  <2>1. state' = "IDLE"
    BY <1>7 DEF finalize_return, flush_return, reset_end, QueueInv, TopInv, tvars
  <2>2. ~AnswerRuns'
    BY <1>7, ReturnTops DEF Returns, Leaves, AnswerRuns, Runs
  <2> QED
    BY <2>1, <2>2, NoAnswer
<1>8. CASE engine_start_next
  <2>1. UNCHANGED <<modem, rx>> /\ pool' = <<>> /\ state' = "SENDING"
    BY <1>8 DEF engine_start_next
  <2>2. ~AnswerRuns'
    BY <1>8, TaskTops DEF Enters, AnswerRuns, Runs
  <2>3. CASE disturbed'
    BY <2>3 DEF AnswerInv
  <2>4. CASE ~disturbed'
    <3>1. modem' = <<>> /\ \A i \in DOMAIN rx' : rx'[i].kind = "urc"
      BY <2>1, <2>4 DEF FlightInv, SomethingInFlight
    <3>2. rx' \in Seq(Line)
      BY <2>1 DEF QueueInv, TypeOK
    <3>3. PICK u : u = [i \in 0 .. Len(rx') |-> 0]
      OBVIOUS
    <3> DEFINE n == Len(rx')
    <3>4. n \in Nat /\ \A i \in 1 .. n : rx'[i].kind = "urc"
      BY <3>1, <3>2
    <3>5. u = [i \in 0 .. n |-> 0]
      BY <3>3
    <3> HIDE DEF n
    <3>6. u \in [0 .. n -> Nat] /\ \A i \in 0 .. n : u[i] = 0
      BY <3>5
    <3>7. ASSUME NEW i \in 1 .. n
          PROVE  /\ u[i] = u[i-1] + DataIn(rx'[i])
                 /\ rx'[i].kind \notin Finals
      <4>1. u[i] = 0 /\ u[i-1] = 0
        BY <3>4, <3>6
      <4> QED
        BY <3>4, <4>1 DEF DataIn, Finals
    <3>8. Len(pool') = LeastOf(u[0], LinesMax)
      BY <2>1, <3>4, <3>6, LinesAssumption DEF LeastOf
    <3>9. Tally(u)'
      BY <3>1, <3>6, <3>7, <3>8 DEF n, Tally, DataIn, LeastOf
    <3>10. \E v \in [0 .. Len(rx') -> Nat] : Tally(v)'
      BY <3>6, <3>9 DEF n
    <3>11. Collecting'
      BY <2>1, <3>10 DEF Collecting
    <3> QED
      BY <2>2, <3>11 DEF AnswerInv
  <2> QED
    BY <2>3, <2>4
<1>9. CASE WriteDone
  <2> DEFINE x == Typed(IF LeftOver THEN NoId ELSE Active.id, Active.sms, TRUE)
  <2>1. /\ UNCHANGED <<rx, pool, disturbed, qvars>> /\ ~InCallback
        /\ state = "SENDING" /\ state' = "WAITING"
        /\ modem' = Append(HeardLines, x)
    BY <1>9 DEF WriteDone, StageInv, rvars, InCallback, Runs
  <2>2. UNCHANGED Active
    BY <2>1 DEF Active, qvars
  <2>3. ~AnswerRuns'
    BY <1>9, ReturnTops DEF Leaves, AnswerRuns, Runs
  <2>4. CASE disturbed \/ ~Clean
    BY <2>1, <2>4 DEF AnswerInv, Clean
  <2>5. CASE ~disturbed /\ Clean
    <3>1. Collecting
      BY <2>1, <2>5 DEF AnswerInv
    <3>2. PICK t \in [0 .. Len(rx) -> Nat] : Tally(t)
      BY <3>1 DEF Collecting
    <3>3. Len(rx) \in Nat
      BY DEF QueueInv, TypeOK
    <3>4. modem = <<>>
      BY <2>1, <2>5, NothingFlies
    <3>5. Head(modem').sent = 0
      BY <2>1, <3>4, NothingLeft DEF Typed
    <3>6. t[Len(rx)] = 0
      BY <2>1, <3>2, <3>3 DEF Tally
    <3>7. Tally(t)'
      BY <2>1, <3>2, <3>5, <3>6 DEF Tally, DataIn, LeastOf
    <3>8. Collecting'
      BY <2>1, <2>2, <3>1, <3>2, <3>7 DEF Collecting
    <3> QED
      BY <2>3, <3>8 DEF AnswerInv
  <2> QED
    BY <2>4, <2>5
<1>10. CASE Tick \/ UNCHANGED vars
  <2>1. UNCHANGED <<modem, rx, pool, qvars, disturbed, state, stack>>
    BY <1>10 DEF Tick, at_tick, vars, tvars, rvars
  <2>2. UNCHANGED <<InCallback, AnswerRuns, Top, Active>>
    BY <2>1 DEF InCallback, AnswerRuns, Runs, Top, Active, qvars
  <2> QED
    BY <2>1, <2>2, SameAnswer
<1>11. CASE WriteFailed /\ disturbed' = TRUE
  BY <1>11 DEF AnswerInv
<1>12. WriteFailed => UNCHANGED <<modem, disturbed>> \/ disturbed' = TRUE
  BY DEF WriteFailed
<1> QED
  BY <1>2, <1>3, <1>4, <1>5, <1>6, <1>7, <1>8, <1>9, <1>10, <1>11, <1>12,
     ModemAnswers, DispatchAnswers
  DEF Next, User, TaskStep, Writes, Returns

-----------------------------------------------------------------------------
\* The theorems.

LifeInv == StageInv /\ ClockInv /\ FlightInv /\ EchoInv /\ AnswerInv

\* The invariants hold when at_init has run.
LEMMA InitLife ==
  ASSUME Init
  PROVE  LifeInv
<1>1. stack = <<>> /\ state = "IDLE" /\ modem = <<>> /\ rx = <<>>
  BY DEF Init
<1>2. ~InCallback /\ ~AnswerRuns /\ ~SomethingInFlight
  BY <1>1 DEF InCallback, AnswerRuns, Runs, SomethingInFlight
<1>3. StageInv /\ ClockInv
  BY <1>1 DEF StageInv, ClockInv, Runs
<1>4. FlightInv /\ EchoInv /\ AnswerInv
  BY <1>1, <1>2 DEF FlightInv, EchoInv, AnswerInv, Runs
<1> QED
  BY <1>3, <1>4 DEF LifeInv

\* LifeInductive. The layers together are an invariant.
THEOREM LifeInductive ==
  ASSUME Depth < 256, CbCalls \subseteq {"send"}
  PROVE  Spec => []LifeInv
<1>1. Init => LifeInv
  BY InitLife
<1>2. QueueInv /\ LifeInv /\ [Next]_vars => LifeInv'
  <2> SUFFICES ASSUME QueueInv, LifeInv, [Next]_vars
               PROVE  LifeInv'
    OBVIOUS
  <2>1. StageInv'
    BY StageStep DEF LifeInv
  <2>2. ClockInv'
    BY ClockStep DEF LifeInv
  <2>3. FlightInv'
    BY <2>1, FlightStep DEF LifeInv
  <2>4. EchoInv'
    BY <2>3, EchoStep DEF LifeInv
  <2>5. AnswerInv'
    BY <2>3, AnswerStep DEF LifeInv
  <2> QED
    BY <2>1, <2>2, <2>3, <2>4, <2>5 DEF LifeInv
<1> QED
  BY <1>1, <1>2, QueueInductive, PTL DEF Spec

\* TimesOutInTime. No command is reported as timed out before its timeout has
\* passed since it was sent or, once its body was sent, the prompt timeout,
\* whatever at_send, at_abort and at_reset do to the queue meanwhile.
THEOREM TimesOutInTime ==
  ASSUME Depth < 256, CbCalls \subseteq {"send"}
  PROVE  Spec => []NoEarlyTimeout
<1>1. QueueInv /\ LifeInv => NoEarlyTimeout
  <2> SUFFICES ASSUME QueueInv, LifeInv, Runs("callback"), Top.status = "TIMEOUT"
               PROVE  elapsed >= IF body_sent THEN PromptTimeout
                                               ELSE queue[Top.slot].timeout
    BY DEF NoEarlyTimeout
  <2>1. queue[Top.slot] = Active
    BY DEF QueueInv, TopInv, Active
  <2>2. timer_ms = 0 /\ state # "IDLE"
    BY DEF LifeInv, ClockInv, StageInv
  <2>3. timer_ms + elapsed >= IF body_sent THEN PromptTimeout ELSE Active.timeout
    BY <2>2 DEF LifeInv, ClockInv
  <2>4. elapsed \in Nat
    BY DEF QueueInv, TypeOK
  <2>5. elapsed >= IF body_sent THEN PromptTimeout ELSE Active.timeout
    BY <2>2, <2>3, <2>4
  <2>6. PromptTimeout \in Nat /\ Active.timeout \in Nat
    BY TimeAssumption DEF QueueInv, TypeOK, Active, Entry
  <2> QED
    BY <2>1, <2>5, <2>6
<1> QED
  BY <1>1, QueueInductive, LifeInductive, PTL

\* OneAtATime. Unless a command was given up, a line was lost or the modem
\* volunteered a final result code, all that is in flight belongs to the
\* active command, and it waits: the engine never writes a command into the
\* answer of another.
THEOREM OneAtATime ==
  ASSUME Depth < 256, CbCalls \subseteq {"send"}
  PROVE  Spec => []OneOutstanding
<1>1. LifeInv => OneOutstanding
  BY DEF LifeInv, FlightInv, SomethingInFlight, OneOutstanding, InFlight
<1> QED
  BY <1>1, LifeInductive, PTL

\* PromptsAreOwn. A body goes out only for a command that has one and, when
\* nothing older is in flight, in answer to that command's own prompt.
THEOREM PromptsAreOwn ==
  ASSUME Depth < 256, CbCalls \subseteq {"send"}
  PROVE  Spec => []OwnPrompt
<1>1. LifeInv => OwnPrompt
  BY DEF LifeInv, StageInv, FlightInv, OwnPrompt
<1> QED
  BY <1>1, LifeInductive, PTL

\* AnswersAreOwn. A command sent while nothing is in flight is completed by
\* its own final result code with its own information lines, all of them up
\* to the size of the pool, whatever unsolicited lines come between.
THEOREM AnswersAreOwn ==
  ASSUME Depth < 256, CbCalls \subseteq {"send"}
  PROVE  Spec => []OwnResponse
<1>1. LifeInv => OwnResponse
  BY DEF LifeInv, AnswerInv, AnswerRuns, Answered, LeastOf, Clean, OwnResponse
<1> QED
  BY <1>1, LifeInductive, PTL

-----------------------------------------------------------------------------
\* The engine implements CommandService.

\* The commands in a queue that holds the last n of the first a commands.
Newest(a, n) == [k \in 1 .. n |-> a - n + k]

LEMMA PendingNow ==
  QueueInv => Pending = Newest(accepted, q_count)
<1> SUFFICES ASSUME QueueInv
             PROVE  Pending = Newest(accepted, q_count)
  OBVIOUS
<1>1. q_tail \in Nat /\ q_count \in Nat /\ accepted \in Nat
  BY DepthAssumption, BoundAssumption DEF QueueInv, TypeOK, Slots
<1>2. ASSUME NEW k \in 1 .. q_count
      PROVE  queue[(q_tail + k - 1) % Depth].id = accepted - q_count + k
  <2>1. k - 1 \in 0 .. q_count - 1
    BY <1>1
  <2>2. queue[(q_tail + (k - 1)) % Depth].id = accepted - q_count + 1 + (k - 1)
    BY <2>1 DEF QueueInv, QueueWindow
  <2>3. q_tail + (k - 1) = q_tail + k - 1 /\ accepted - q_count + 1 + (k - 1) = accepted - q_count + k
    BY <1>1
  <2> QED
    BY <2>2, <2>3
<1> QED
  BY <1>2 DEF Pending, Newest

LEMMA PendingNext ==
  (QueueInv => Pending = Newest(accepted, q_count))'
BY PendingNow, PTL

\* Newest is a sequence, the oldest first.
LEMMA NewestSeq ==
  ASSUME NEW a \in Nat, NEW n \in Nat, n <= a
  PROVE  /\ Newest(a, n) \in Seq(Nat) /\ Len(Newest(a, n)) = n
         /\ Append(Newest(a, n), a + 1) = Newest(a + 1, n + 1)
         /\ n > 0 => /\ Newest(a, n) # <<>>
                     /\ Head(Newest(a, n)) = a - n + 1
                     /\ Tail(Newest(a, n)) = Newest(a, n - 1)
<1>1. Newest(a, n) \in Seq(Nat) /\ Len(Newest(a, n)) = n
  BY DEF Newest
<1>2. Append(Newest(a, n), a + 1) = Newest(a + 1, n + 1)
  BY <1>1 DEF Newest
<1>3. ASSUME n > 0
      PROVE  /\ Newest(a, n) # <<>>
             /\ Head(Newest(a, n)) = a - n + 1
             /\ Tail(Newest(a, n)) = Newest(a, n - 1)
  <2>1. Newest(a, n) # <<>> /\ Head(Newest(a, n)) = a - n + 1
    BY <1>1, <1>3 DEF Newest
  <2>2. Tail(Newest(a, n)) = Newest(a, n - 1)
    BY <1>1, <1>3 DEF Newest
  <2> QED
    BY <2>1, <2>2
<1> QED
  BY <1>1, <1>2, <1>3

\* The numbers the queue invariant keeps.
LEMMA CallInProgress ==
  ASSUME QueueInv
  PROVE  (InProgress # NoCall) <=> InCallback
<1>1. stack # <<>> => Top \in Frame
  BY DEF QueueInv, TypeOK, Top
<1>2. InCallback => Top.status \in Statuses
  BY <1>1 DEF InCallback, Runs, Frame
<1>3. "none" \notin Statuses
  BY DEF Statuses
<1>4. InProgress.status # "none" <=> InCallback
  BY <1>2, <1>3 DEF InProgress, InCallback, NoCall
<1> QED
  BY <1>4 DEF InProgress, InCallback, NoCall

LEMMA Counts ==
  ASSUME QueueInv
  PROVE  /\ q_count \in 0 .. Depth /\ q_count \in Nat /\ Depth \in Nat \ {0}
         /\ accepted \in Nat /\ q_count <= accepted
         /\ state \in {"IDLE", "SENDING", "WAITING", "PROMPT"}
         /\ state # "IDLE" => q_count > 0
         /\ InCallback => q_count > 0 /\ stack # <<>> /\ Top.status \in Statuses
<1>1. stack # <<>> => Top \in Frame
  BY DEF QueueInv, TypeOK, Top
<1> QED
  BY <1>1, DepthAssumption, BoundAssumption
     DEF QueueInv, QueueWindow, TypeOK, FiresInv, TopInv, InCallback, Runs, Frame

-----------------------------------------------------------------------------
\* A step the application does not see.
LEMMA ServiceStutters ==
  ASSUME QueueInv, QueueInv', UNCHANGED <<accepted, q_count, state>>,
         ~InCallback, ~InCallback'
  PROVE  UNCHANGED Service!svars
<1>1. Pending' = Pending
  BY PendingNow, PendingNext
<1>2. Phase' = Phase
  BY DEF Phase
<1>3. InProgress' = InProgress
  BY DEF InProgress, InCallback
<1> QED
  BY <1>1, <1>2, <1>3 DEF Service!svars

\* A step of interrupts, modem or stack that concerns no callback.
LEMMA ServiceIdles ==
  ASSUME QueueInv, QueueInv', UNCHANGED <<accepted, q_count, state, stack>>
  PROVE  UNCHANGED Service!svars
<1>1. Pending' = Pending
  BY PendingNow, PendingNext
<1>2. Phase' = Phase
  BY DEF Phase
<1>3. InProgress' = InProgress
  BY DEF InProgress, Runs, Top
<1> QED
  BY <1>1, <1>2, <1>3 DEF Service!svars

\* at_send is Accept.
LEMMA ServiceAccepts ==
  ASSUME QueueInv, QueueInv', Depth < 256, NEW t \in Timeouts, at_send(t)
  PROVE  Service!Accept
<1>1. /\ q_count \in 0 .. Depth - 1 /\ q_count < 255
      /\ accepted' = accepted + 1 /\ UNCHANGED <<state, stack>>
  BY Counts DEF at_send, QueueFull, tvars
<1>2. q_count' = q_count + 1
  BY <1>1 DEF at_send, U8
<1>3. Pending = Newest(accepted, q_count) /\ Pending' = Newest(accepted + 1, q_count + 1)
  BY <1>1, <1>2, PendingNow, PendingNext
<1>4. Len(Pending) < Depth /\ Pending' = Append(Pending, accepted + 1)
  <2>1. q_count \in Nat /\ accepted \in Nat /\ q_count <= accepted /\ Depth \in Nat
    BY Counts
  <2>2. /\ Len(Newest(accepted, q_count)) = q_count
        /\ Append(Newest(accepted, q_count), accepted + 1) = Newest(accepted + 1, q_count + 1)
    BY <2>1, NewestSeq
  <2> QED
    BY <1>1, <1>3, <2>1, <2>2
<1>5. Phase' = Phase /\ InProgress' = InProgress
  BY <1>1 DEF Phase, InProgress, Runs, Top
<1> QED
  BY <1>1, <1>4, <1>5 DEF Service!Accept

\* The start of a callback is Complete, if its status fits the stage.
LEMMA ServiceCompletes ==
  ASSUME QueueInv, QueueInv', ~InCallback, q_count > 0,
         UNCHANGED <<accepted, q_count, state>>,
         NEW f, f.pc \in {"callback", "flushed"}, f.id = Active.id,
         f.status \in Service!Says(Phase), Enters(f)
  PROVE  Service!Complete
<1>1. Pending' = Pending /\ Pending = Newest(accepted, q_count)
  BY PendingNow, PendingNext
<1>2. Phase' = Phase
  BY DEF Phase
<1>3. Pending # <<>> /\ Head(Pending) = Active.id
  BY <1>1, Counts, NewestSeq, ActiveIsOldest
<1>4. InProgress = NoCall
  BY CallInProgress
<1>5. InProgress' = [id |-> Head(Pending), status |-> f.status]
  BY <1>3 DEF InProgress, Enters, Runs
<1> QED
  BY <1>1, <1>2, <1>3, <1>4, <1>5 DEF Service!Complete

\* The next part of the oldest command is written, or has been.
LEMMA ServiceWrites ==
  ASSUME QueueInv, QueueInv', ~InCallback, ~InCallback', q_count > 0,
         UNCHANGED <<accepted, q_count>>,
         <<state, state'>> \in {<<"IDLE", "SENDING">>, <<"SENDING", "WAITING">>,
                               <<"WAITING", "PROMPT">>, <<"PROMPT", "WAITING">>}
  PROVE  Service!Write
<1>1. Pending' = Pending /\ Pending = Newest(accepted, q_count)
  BY PendingNow, PendingNext
<1>2. Pending # <<>>
  BY <1>1, Counts, NewestSeq
<1>3. InProgress = NoCall /\ InProgress' = NoCall
  BY DEF InProgress, InCallback
<1>4. \/ Phase = "queued" /\ Phase' = "writing"
      \/ Phase = "writing" /\ Phase' = "sent"
      \/ Phase = "sent" /\ Phase' = "body"
      \/ Phase = "body" /\ Phase' = "sent"
  BY DEF Phase
<1> QED
  BY <1>1, <1>2, <1>3, <1>4 DEF Service!Write

\* The return of a callback is Return.
LEMMA ServiceReturns ==
  ASSUME QueueInv, QueueInv', InCallback, ~InCallback',
         q_count' = Dequeued, UNCHANGED accepted, state' = "IDLE"
  PROVE  Service!Return
<1>1. InProgress # NoCall /\ InProgress' = NoCall
  BY CallInProgress DEF InProgress, InCallback
<1>2. q_count \in 1 .. 255 /\ q_count <= accepted /\ accepted \in Nat
  BY Counts DEF QueueInv, TypeOK
<1>3. q_count' = q_count - 1
  BY <1>2 DEF Dequeued, U8
<1>4. Pending = Newest(accepted, q_count) /\ Pending' = Newest(accepted, q_count - 1)
  BY <1>3, PendingNow, PendingNext
<1>5. Pending' = Tail(Pending)
  <2>1. q_count \in Nat /\ q_count > 0 /\ q_count <= accepted /\ accepted \in Nat
    BY <1>2
  <2>2. Tail(Newest(accepted, q_count)) = Newest(accepted, q_count - 1)
    BY <2>1, NewestSeq
  <2> QED
    BY <1>4, <2>2
<1>6. Phase' = "queued"
  BY DEF Phase
<1> QED
  BY <1>1, <1>5, <1>6 DEF Service!Return

-----------------------------------------------------------------------------
\* One lemma per group of actions.

Serves == Service!Next \/ UNCHANGED Service!svars

\* The calls at the top that are no callbacks.
LEMMA NoCallback ==
  /\ Leaves => ~InCallback'
  /\ \A p : p \notin {"callback", "flushed"} /\ Enters(At(p)) => ~InCallback'
  /\ \A l : Enters(BodyOf(l)) => ~InCallback'
BY DEF Leaves, Enters, BodyOf, InCallback, Runs

\* engine_finalize has called back with a status that fits the stage.
LEMMA CallbackServes ==
  ASSUME QueueInv, QueueInv', ~InCallback, state # "IDLE",
         UNCHANGED <<accepted, q_count, state>>,
         NEW status \in Service!Says(Phase), NEW l, Enters(CallbackOf(status, l))
  PROVE  Serves
<1>1. q_count > 0
  BY Counts
<1>2. /\ CallbackOf(status, l).pc \in {"callback", "flushed"}
      /\ CallbackOf(status, l).id = Active.id
      /\ CallbackOf(status, l).status = status
  BY DEF CallbackOf
<1>3. Service!Complete
  BY <1>1, <1>2, ServiceCompletes
<1> QED
  BY <1>3 DEF Serves, Service!Next

LEMMA UserServes ==
  ASSUME QueueInv, QueueInv', StageInv, Depth < 256, CbCalls \subseteq {"send"}, User
  PROVE  Serves
<1>1. CASE \E t \in Timeouts : at_send(t)
  BY <1>1, ServiceAccepts DEF Serves, Service!Next
<1>2. CASE at_abort
  <2>1. /\ UNCHANGED <<accepted, q_count, state>> /\ state \in {"WAITING", "PROMPT"}
        /\ ~InCallback /\ Enters(CallbackOf("ABORTED", NoLine))
    BY <1>2, UserTops DEF at_abort, engine_finalize, tvars, qvars
  <2>2. state = "WAITING"
    <3>1. ~Runs("body")
      BY <1>2 DEF at_abort, MayCall, Runs
    <3> QED
      BY <2>1, <3>1 DEF StageInv, InCallback
  <2>3. "ABORTED" \in Service!Says(Phase)
    BY <2>2 DEF Service!Says, Phase
  <2> QED
    BY <2>1, <2>2, <2>3, CallbackServes
<1>3. CASE at_reset
  <2>1. UNCHANGED <<accepted, q_count, state>> /\ ~InCallback
    BY <1>3, UserTops DEF at_reset, engine_finalize, tvars, qvars
  <2>2. CASE state = "IDLE"
    <3>1. ~InCallback'
      BY <1>3, <2>2, UserTops, NoCallback
    <3> QED
      BY <2>1, <3>1, ServiceStutters DEF Serves
  <2>3. CASE state # "IDLE"
    <3>1. state = "WAITING"
      <4>1. ~Runs("body") /\ ~Runs("write")
        BY <1>3 DEF at_reset, MayCall, Runs
      <4> QED
        BY <2>1, <2>3, <4>1, Counts DEF StageInv, InCallback
    <3>2. "ABORTED" \in Service!Says(Phase)
      BY <3>1 DEF Service!Says, Phase
    <3> QED
      BY <1>3, <2>1, <2>3, <3>2, UserTops, CallbackServes
  <2> QED
    BY <2>2, <2>3
<1> QED
  BY <1>1, <1>2, <1>3 DEF User

LEMMA DispatchServes ==
  ASSUME QueueInv, QueueInv', Dispatch
  PROVE  Serves
<1>1. ~InCallback /\ UNCHANGED <<accepted, q_count>>
  BY DEF Dispatch, DispatchEcho, DispatchPrompt, DispatchFinal, DispatchUrc,
         DispatchOther, Drains, InCallback, Runs, engine_finalize, qvars, hvars
<1>2. CASE DispatchEcho \/ DispatchOther
  BY <1>1, <1>2, ServiceIdles DEF DispatchEcho, DispatchOther, tvars, Serves
<1>3. CASE DispatchPrompt
  <2>1. state = "WAITING"
    BY <1>3 DEF DispatchPrompt, IsPrompt, Waiting
  <2>2. CASE Active.sms
    <3>1. ~InCallback'
      BY <1>3, <2>2, DispatchTops, NoCallback
    <3>2. state' = "PROMPT"
      BY <1>3, <2>2 DEF DispatchPrompt, WantsBody
    <3> QED
      BY <1>1, <2>1, <3>1, <3>2, Counts, ServiceWrites DEF Serves, Service!Next
  <2>3. CASE ~Active.sms
    BY <1>1, <1>3, <2>3, ServiceIdles DEF DispatchPrompt, WantsBody, tvars, Serves
  <2> QED
    BY <2>2, <2>3
<1>4. CASE DispatchFinal
  <2> DEFINE status == IF Head(rx).kind = "ok" THEN "OK" ELSE "ERROR"
  <2>1. state = "WAITING" /\ UNCHANGED state
    BY <1>4 DEF DispatchFinal, engine_is_final, Waiting, tvars
  <2>2. status \in Service!Says(Phase)
    BY <2>1 DEF Service!Says, Phase
  <2>3. Enters(CallbackOf(status, Head(rx)))
    BY <1>4, DispatchTops
  <2> HIDE DEF status
  <2> QED
    BY <1>1, <2>1, <2>2, <2>3, CallbackServes
<1>5. CASE DispatchUrc
  <2>1. UNCHANGED state /\ ~InCallback'
    BY <1>5, DispatchTops, NoCallback DEF DispatchUrc, tvars
  <2> QED
    BY <1>1, <2>1, ServiceStutters DEF Serves
<1> QED
  BY <1>2, <1>3, <1>4, <1>5 DEF Dispatch

LEMMA TaskServes ==
  ASSUME QueueInv, QueueInv', StageInv,
         at_process \/ DrainEnd \/ CheckTimeout \/ engine_start_next \/ process_end
         \/ Writes
  PROVE  Serves
<1>1. ~InCallback /\ UNCHANGED <<accepted, q_count>>
  BY DEF at_process, DrainEnd, CheckTimeout, engine_start_next, process_end, Writes,
         WriteDone, WriteFailed, BodyDone, BodyFailed, InCallback, Runs,
         engine_finalize, qvars, hvars
<1>2. CASE at_process \/ DrainEnd \/ process_end
  <2>1. UNCHANGED state /\ ~InCallback'
    BY <1>2, TaskTops, ReturnTops, NoCallback DEF at_process, DrainEnd, process_end, tvars
  <2> QED
    BY <1>1, <2>1, ServiceStutters DEF Serves
<1>3. CASE CheckTimeout
  <2>1. UNCHANGED state
    BY <1>3 DEF CheckTimeout, tvars
  <2>2. CASE Expired
    <3>1. state = "WAITING"
      BY <1>3, <2>2 DEF CheckTimeout, Expired, StageInv, Runs
    <3>2. "TIMEOUT" \in Service!Says(Phase)
      BY <3>1 DEF Service!Says, Phase
    <3> QED
      BY <1>1, <1>3, <2>1, <2>2, <3>1, <3>2, TaskTops, CallbackServes
  <2>3. CASE ~Expired
    <3>1. ~InCallback'
      BY <1>3, <2>3, TaskTops, NoCallback
    <3> QED
      BY <1>1, <2>1, <3>1, ServiceStutters DEF Serves
  <2> QED
    BY <2>2, <2>3
<1>4. CASE engine_start_next
  <2>1. ~InCallback'
    BY <1>4, TaskTops, NoCallback
  <2>2. state = "IDLE" /\ q_count > 0 /\ state' = "SENDING"
    BY <1>4 DEF engine_start_next, MayStart
  <2> QED
    BY <1>1, <2>1, <2>2, ServiceWrites DEF Serves, Service!Next
<1>5. CASE WriteDone \/ BodyDone
  <2>1. ~InCallback'
    BY <1>5, TaskTops, ReturnTops, NoCallback
  <2>2. state \in {"SENDING", "PROMPT"} /\ state' = "WAITING"
    BY <1>5 DEF WriteDone, BodyDone, StageInv
  <2> QED
    BY <1>1, <2>1, <2>2, Counts, ServiceWrites DEF Serves, Service!Next
<1>6. CASE WriteFailed \/ BodyFailed
  <2>1. state \in {"SENDING", "PROMPT"} /\ UNCHANGED state
    BY <1>6 DEF WriteFailed, BodyFailed, StageInv, tvars
  <2>2. "IO" \in Service!Says(Phase)
    BY <2>1 DEF Service!Says, Phase
  <2> QED
    BY <1>1, <1>6, <2>1, <2>2, TaskTops, CallbackServes
<1> QED
  BY <1>2, <1>3, <1>4, <1>5, <1>6 DEF Writes

\* at_reset's loop and what returns.
LEMMA ReturnServes ==
  ASSUME QueueInv, QueueInv', reset_flush \/ reset_end \/ Returns
  PROVE  Serves
<1>1. CASE reset_flush
  <2> DEFINE f == [At("flushed") EXCEPT !.slot = q_tail, !.id = Active.id,
                                        !.status = "ABORTED"]
  <2>1. /\ UNCHANGED <<accepted, q_count, state>> /\ q_count > 0 /\ ~InCallback
        /\ state = "IDLE"
    BY <1>1 DEF reset_flush, qvars, tvars, QueueInv, TopInv, InCallback, Runs
  <2>2. f \in Frame /\ f.pc = "flushed" /\ f.id = Active.id /\ f.status = "ABORTED"
    BY DEF QueueInv, TypeOK, Active, Entry, Frame, Pcs, Statuses
  <2>3. stack' = Append(stack, f) /\ stack \in Seq(Frame)
    BY <1>1 DEF reset_flush, QueueInv, TypeOK
  <2>4. f.status \in Service!Says(Phase)
    BY <2>1, <2>2 DEF Service!Says, Phase
  <2> HIDE DEF f
  <2>5. Enters(f)
    BY <2>2, <2>3, Entered
  <2>6. f.pc \in {"callback", "flushed"}
    BY <2>2
  <2>7. Service!Complete
    BY <2>1, <2>2, <2>4, <2>5, <2>6, ServiceCompletes
  <2> QED
    BY <2>7 DEF Serves, Service!Next
<1>2. CASE reset_end \/ urc_return
  <2>1. UNCHANGED <<accepted, q_count, state>> /\ ~InCallback
    BY <1>2 DEF reset_end, urc_return, qvars, tvars, hvars, QueueInv, TopInv,
                InCallback, Runs
  <2>2. ~InCallback'
    BY <1>2, ReturnTops, NoCallback DEF Returns
  <2> QED
    BY <2>1, <2>2, ServiceStutters DEF Serves
<1>3. CASE finalize_return \/ flush_return
  <2>1. InCallback /\ q_count' = Dequeued /\ UNCHANGED accepted /\ state' = "IDLE"
    BY <1>3 DEF finalize_return, flush_return, InCallback, hvars, tvars, QueueInv, TopInv
  <2>2. ~InCallback'
    BY <1>3, ReturnTops, NoCallback DEF Returns
  <2> QED
    BY <2>1, <2>2, ServiceReturns DEF Serves, Service!Next
<1> QED
  BY <1>1, <1>2, <1>3 DEF Returns

\* Every step is one of the service or none.
LEMMA ServiceStep ==
  ASSUME QueueInv, QueueInv', StageInv, Depth < 256, CbCalls \subseteq {"send"},
         [Next]_vars
  PROVE  Serves
<1>1. CASE Tick \/ Modem \/ UNCHANGED vars
  <2>1. UNCHANGED <<accepted, q_count, state, stack>>
    BY <1>1 DEF Tick, at_tick, Modem, ModemEcho, ModemPrompt, ModemData, ModemFinal,
                ModemRestart, ModemUnsolicited, at_feed, vars, tvars, qvars, hvars
  <2> QED
    BY <2>1, ServiceIdles DEF Serves
<1> QED
  BY <1>1, UserServes, DispatchServes, TaskServes, ReturnServes DEF Next, TaskStep

\* ServiceImplemented. The engine implements CommandService: every accepted
\* command is written in its turn, answered once with a status that fits how
\* far it got, and leaves the queue when its callback has returned.
THEOREM ServiceImplemented ==
  ASSUME Depth < 256, CbCalls \subseteq {"send"}
  PROVE  Spec => ImplementsService
<1>1. Init => Service!Init
  <2> SUFFICES ASSUME Init
               PROVE  Service!Init
    OBVIOUS
  <2>1. accepted + 1 = 1 /\ Phase = "queued" /\ InProgress = NoCall /\ q_count = 0
    BY DEF Init, Phase, InProgress, Runs
  <2>2. Pending = <<>>
    BY <2>1 DEF Pending
  <2> QED
    BY <2>1, <2>2 DEF Service!Init
<1>2. QueueInv /\ QueueInv' /\ LifeInv /\ [Next]_vars => [Service!Next]_(Service!svars)
  BY ServiceStep DEF Serves, LifeInv
<1> QED
  BY <1>1, <1>2, QueueInductive, LifeInductive, PTL DEF Spec, ImplementsService, Service!Spec
===========================================================================

------------------------------ MODULE AtEngine ------------------------------
(***************************************************************************)
(* The command engine of src/at.c: the command queue, the life of the      *)
(* active command, timeouts, final result codes, the SMS prompt, echo      *)
(* cancellation, the response pool and the callbacks, with what the        *)
(* callbacks may call back into.                                           *)
(*                                                                         *)
(* Three actors interleave. The task runs at_process and the API; its call *)
(* stack is explicit, because at_process calls engine_finalize, which      *)
(* calls the user, who may call at_send, at_abort or at_reset. Interrupts  *)
(* run at_feed and at_tick at any moment. The modem (not code of this      *)
(* repository) hears what is written and answers when it likes.            *)
(*                                                                         *)
(* The receive ring and the line assembler appear as rx, the queue of the  *)
(* lines they will yield; RxRing and LineFsm model them.                   *)
(***************************************************************************)
EXTENDS Integers, Sequences

CONSTANTS
  Depth,           \* AT_CFG_CMD_QUEUE_DEPTH
  LinesMax,        \* AT_CFG_RESP_LINES_MAX
  DefaultTimeout,  \* AT_CFG_DEFAULT_TIMEOUT_MS
  PromptTimeout,   \* AT_CFG_PROMPT_TIMEOUT_MS
  EchoCancel,      \* AT_CFG_ECHO_CANCEL
  Timeouts,        \* values of at_cmd_desc_t.timeout_ms
  SmsCmds,         \* the commands sent with AT_PROMPT_SMS and a body
  UrcKinds,        \* the kinds of line the URC table's prefixes match
  TaskCalls,       \* what the task calls between two at_process
  Ticks,           \* values of ms_elapsed
  CbCalls,         \* what completion callbacks call
  UrcCalls,        \* what URC handlers call
  MaxCmds,         \* bound: commands accepted
  MaxData,         \* bound: information lines the modem sends for a command
  RxCap,           \* bound: lines the receive buffer holds
  MaxStack         \* bound: nesting of calls

Calls == {"send", "abort", "reset"}

ASSUME DepthAssumption == Depth \in Nat \ {0}
ASSUME LinesAssumption == LinesMax \in Nat
ASSUME TimeAssumption ==
  /\ DefaultTimeout \in Nat /\ PromptTimeout \in Nat /\ Timeouts \subseteq Nat
  /\ Ticks \subseteq Nat
ASSUME UserAssumption ==
  /\ TaskCalls \subseteq Calls /\ CbCalls \subseteq Calls /\ UrcCalls \subseteq Calls
  /\ EchoCancel \in BOOLEAN
ASSUME BoundAssumption ==
  {MaxCmds, MaxData, RxCap, MaxStack} \subseteq Nat

VARIABLES
  \* g_at
  queue, q_head, q_tail, q_count,
  state, timer_ms,
  pool,         \* owners of the lines in g_at.pool
  response,     \* g_at.response.status
  echo_armed, echo_expect,
  rx,           \* lines received and not yet dispatched
  \* the task
  stack,        \* calls in progress, the innermost last
  \* outside
  modem,        \* lines the modem has heard and not answered; the last may
                \* still lack its CR
  \* history
  accepted,     \* commands at_send accepted: they are 1 .. accepted
  fires,        \* fires[c]: callbacks of command c, 2 standing for more
  body_sent,    \* a body was sent for the active command
  elapsed,      \* ms ticked since timer_ms was last loaded
  dropped,      \* a line was dropped from the response being built
  disturbed     \* something in flight may not belong to the active command

qvars == <<queue, q_head, q_tail, q_count>>
tvars == <<state, timer_ms, elapsed>>
rvars == <<pool, response, dropped>>
evars == <<echo_armed, echo_expect>>
hvars == <<accepted, fires, body_sent>>
vars == <<qvars, tvars, rvars, evars, rx, stack, modem, hvars, disturbed>>

Slots == 0 .. Depth - 1
Ids == 1 .. MaxCmds
NoId == 0
Finals == {"ok", "error", "nocarrier"}
Kinds == {"echo", "data", "prompt", "urc"} \cup Finals
Statuses == {"PENDING", "OVERFLOW", "OK", "ERROR", "TIMEOUT", "ABORTED", "IO"}

\* cmd_entry_t. The command string and the user's pointer are the id, texts
\* of different commands being different; a zeroed entry has an empty string.
Entry == [id : Ids \cup {NoId}, sms : BOOLEAN, timeout : Nat]
Zeroed == [id |-> NoId, sms |-> FALSE, timeout |-> 0]

\* A line: its kind, the command the modem sent it for (NoId: unsolicited)
\* and, for a final result code, how many information lines preceded it.
Line == [kind : Kinds, id : Ids \cup {NoId}, n : Nat]
LineFor(k, c, m) == [kind |-> k, id |-> c, n |-> m]

\* A call: what runs and, for a callback, the slot, the command and the
\* status it was called with, and the line that completed the command.
Pcs == {"drain", "timeout", "start", "write", "body",
        "callback", "urc", "flush", "flushed"}
Frame == [pc : Pcs, slot : Slots, id : Ids \cup {NoId},
          status : Statuses, by : Ids \cup {NoId}, n : Nat]
At(p) == [pc |-> p, slot |-> 0, id |-> NoId, status |-> "PENDING", by |-> NoId, n |-> 0]

Top == stack[Len(stack)]
Callers == SubSeq(stack, 1, Len(stack) - 1)
Runs(p) == stack # <<>> /\ Top.pc = p
Goto(p) == Append(Callers, At(p))

Active == queue[q_tail]
NextSlot(s) == (s + 1) % Depth
\* uint8_t arithmetic of q_count
U8(i) == i % 256

Init ==
  /\ queue = [s \in Slots |-> Zeroed]
  /\ q_head = 0 /\ q_tail = 0 /\ q_count = 0
  /\ state = "IDLE" /\ timer_ms = 0 /\ elapsed = 0
  /\ pool = <<>> /\ response = "OK" /\ dropped = FALSE
  /\ echo_armed = FALSE /\ echo_expect = NoId
  /\ rx = <<>> /\ stack = <<>> /\ modem = <<>>
  /\ accepted = 0 /\ fires = [c \in Ids |-> 0] /\ body_sent = FALSE
  /\ disturbed = FALSE

-----------------------------------------------------------------------------
\* The user's calls, from the task between two at_process or from a callback.

MayCall(c) ==
  \/ stack = <<>> /\ c \in TaskCalls
  \/ (Runs("callback") \/ Runs("flushed")) /\ Top.id # NoId /\ c \in CbCalls
  \/ Runs("urc") /\ c \in UrcCalls

\* Slip: one command too many.
QueueFullLoose == q_count > Depth
QueueFull == q_count >= Depth

\* at_send. When the queue is full it returns AT_ERR_BUSY and changes nothing.
at_send(t) ==
  /\ MayCall("send")
  /\ accepted < MaxCmds
  /\ ~QueueFull
  /\ queue' = [queue EXCEPT ![q_head] =
                 [id |-> accepted + 1, sms |-> accepted + 1 \in SmsCmds,
                  timeout |-> IF t = 0 THEN DefaultTimeout % 65536 ELSE t]]
  /\ q_head' = NextSlot(q_head)
  /\ q_count' = U8(q_count + 1)
  /\ accepted' = accepted + 1
  /\ UNCHANGED <<q_tail, tvars, rvars, evars, rx, stack, modem, fires, body_sent, disturbed>>

\* A callback of command c starts; a zeroed entry has none.
Fire(c) ==
  fires' = IF c \in Ids /\ fires[c] < 2 THEN [fires EXCEPT ![c] = @ + 1] ELSE fires

\* engine_finalize up to the callback: the oldest command gets its response.
\* callers are the calls it returns to, l the line that completed it.
engine_finalize(status, l, callers) ==
  /\ response' = status
  /\ stack' = Append(callers,
                [pc |-> "callback", slot |-> q_tail, id |-> Active.id,
                 status |-> status, by |-> l.id, n |-> l.n])
  /\ Fire(Active.id)
  /\ UNCHANGED <<qvars, pool, dropped>>

NoLine == LineFor("ok", NoId, 0)

\* Slip: the command is not counted out.
DequeuedForgotten == q_count
Dequeued == U8(q_count - 1)

\* The rest of engine_finalize, when the callback returns: dequeue, go idle.
\* e still points to the slot the command was in.
finalize_return ==
  /\ Runs("callback")
  /\ queue' = [queue EXCEPT ![Top.slot] = Zeroed]
  /\ q_tail' = NextSlot(q_tail)
  /\ q_count' = Dequeued
  /\ UNCHANGED q_head
  /\ state' = "IDLE" /\ timer_ms' = 0 /\ elapsed' = 0
  /\ echo_armed' = FALSE /\ UNCHANGED echo_expect
  /\ stack' = Callers
  /\ UNCHANGED <<rvars, rx, modem, hvars, disturbed>>

at_abort ==
  /\ MayCall("abort")
  /\ state \in {"WAITING", "PROMPT"}
  /\ Len(stack) < MaxStack
  /\ engine_finalize("ABORTED", NoLine, stack)
  /\ disturbed' = TRUE
  /\ UNCHANGED <<tvars, evars, rx, modem, accepted, body_sent>>

\* at_reset: abort the active command, then run the flush loop.
at_reset ==
  /\ MayCall("reset")
  /\ Len(stack) + 1 < MaxStack
  /\ IF state # "IDLE" /\ q_count > 0
       THEN /\ engine_finalize("ABORTED", NoLine, Append(stack, At("flush")))
            /\ disturbed' = TRUE
       ELSE /\ stack' = Append(stack, At("flush"))
            /\ UNCHANGED <<qvars, rvars, fires, disturbed>>
  /\ UNCHANGED <<tvars, evars, rx, modem, accepted, body_sent>>

\* One turn of the flush loop: the callback runs before the pop.
reset_flush ==
  /\ Runs("flush") /\ q_count > 0
  /\ stack' = Append(stack,
                [At("flushed") EXCEPT !.slot = q_tail, !.id = Active.id,
                                      !.status = "ABORTED"])
  /\ Fire(Active.id)
  /\ UNCHANGED <<qvars, tvars, rvars, evars, rx, modem, accepted, body_sent, disturbed>>

flush_return ==
  /\ Runs("flushed")
  /\ q_tail' = NextSlot(q_tail)
  /\ q_count' = Dequeued
  /\ stack' = Callers
  /\ UNCHANGED <<queue, q_head, tvars, rvars, evars, rx, modem, hvars, disturbed>>

\* The end of at_reset. What it leaves in the receive buffer is lost.
reset_end ==
  /\ Runs("flush") /\ q_count = 0
  /\ rx' = <<>>
  /\ state' = "IDLE" /\ UNCHANGED <<timer_ms, elapsed>>
  /\ echo_armed' = FALSE /\ UNCHANGED echo_expect
  /\ pool' = <<>> /\ UNCHANGED <<response, dropped>>
  /\ stack' = Callers
  /\ UNCHANGED <<qvars, modem, hvars, disturbed>>

-----------------------------------------------------------------------------
\* at_process

at_process ==
  /\ stack = <<>>
  /\ stack' = <<At("drain")>>
  /\ UNCHANGED <<qvars, tvars, rvars, evars, rx, modem, hvars, disturbed>>

\* engine_dispatch_line on the oldest line of rx, one action per outcome.
\* The conditions are tried in this order; each action's guard refuses the
\* lines that an earlier one takes.

Drains == Runs("drain") /\ rx # <<>>
Waiting == state = "WAITING"

\* strncmp(line, echo_expect, echo_len): an empty echo_expect is a prefix
\* of every line.
EchoText(l) == echo_expect = NoId \/ (l.kind = "echo" /\ l.id = echo_expect)
\* Slip: the echo is looked for while the command is being written.
IsEchoSending(l) == echo_armed /\ state = "SENDING" /\ EchoText(l)
IsEcho(l) == echo_armed /\ Waiting /\ EchoText(l)
IsPrompt(l) == ~IsEcho(l) /\ Waiting /\ l.kind = "prompt"
engine_is_final(l) == ~IsEcho(l) /\ Waiting /\ l.kind \in Finals
IsUrc(l) ==
  ~IsEcho(l) /\ ~IsPrompt(l) /\ ~engine_is_final(l) /\ l.kind \in UrcKinds
IsOther(l) ==
  ~IsEcho(l) /\ ~IsPrompt(l) /\ ~engine_is_final(l) /\ l.kind \notin UrcKinds

DispatchEcho ==
  /\ Drains /\ IsEcho(Head(rx))
  /\ rx' = Tail(rx)
  /\ echo_armed' = FALSE
  /\ UNCHANGED <<qvars, tvars, rvars, echo_expect, stack, modem, hvars, disturbed>>

\* Slip: any command is taken for an SMS.
WantsBodyAlways == TRUE
WantsBody == Active.sms

\* Slip: the command's own timeout goes on.
TimerAtPromptKept == timer_ms
TimerAtPrompt == PromptTimeout

\* Every prompt for a command with a body is answered with the body, also one
\* that comes again; a prompt for a command without one is discarded.
DispatchPrompt ==
  /\ Drains /\ IsPrompt(Head(rx))
  /\ rx' = Tail(rx)
  /\ IF WantsBody
       THEN /\ state' = "PROMPT" /\ timer_ms' = TimerAtPrompt /\ elapsed' = 0
            /\ body_sent' = TRUE
            /\ stack' = Append(Callers, [At("body") EXCEPT !.by = Head(rx).id])
       ELSE UNCHANGED <<tvars, body_sent, stack>>
  /\ UNCHANGED <<qvars, rvars, evars, modem, accepted, fires, disturbed>>

DispatchFinal ==
  /\ Drains /\ engine_is_final(Head(rx))
  /\ rx' = Tail(rx)
  /\ engine_finalize(IF Head(rx).kind = "ok" THEN "OK" ELSE "ERROR", Head(rx), stack)
  /\ UNCHANGED <<tvars, evars, modem, accepted, body_sent, disturbed>>

DispatchUrc ==
  /\ Drains /\ IsUrc(Head(rx))
  /\ rx' = Tail(rx)
  /\ stack' = Append(stack, At("urc"))
  /\ UNCHANGED <<qvars, tvars, rvars, evars, modem, hvars, disturbed>>

urc_return ==
  /\ Runs("urc")
  /\ stack' = Callers
  /\ UNCHANGED <<qvars, tvars, rvars, evars, rx, modem, hvars, disturbed>>

\* Slip: one line more than the pool has.
PoolFullLoose == Len(pool) > LinesMax
PoolFull == Len(pool) >= LinesMax

\* resp_pool_append while a command waits; otherwise nobody wants the line.
DispatchOther ==
  /\ Drains /\ IsOther(Head(rx))
  /\ rx' = Tail(rx)
  /\ CASE ~Waiting -> UNCHANGED rvars
       [] Waiting /\ ~PoolFull ->
            pool' = Append(pool, Head(rx).id) /\ UNCHANGED <<response, dropped>>
       [] OTHER -> response' = "OVERFLOW" /\ dropped' = TRUE /\ UNCHANGED pool
  /\ UNCHANGED <<qvars, tvars, evars, stack, modem, hvars, disturbed>>

\* rxring_empty: the drain loop ends.
DrainEnd ==
  /\ Runs("drain") /\ rx = <<>>
  /\ stack' = Goto("timeout")
  /\ UNCHANGED <<qvars, tvars, rvars, evars, rx, modem, hvars, disturbed>>

\* Slip: whatever the state.
ExpiredAnyState == timer_ms = 0
\* Slip: only the prompt expires.
ExpiredPrompt == state = "PROMPT" /\ timer_ms = 0
Expired == state \in {"WAITING", "PROMPT"} /\ timer_ms = 0

CheckTimeout ==
  /\ Runs("timeout")
  /\ IF Expired
       THEN engine_finalize("TIMEOUT", NoLine, Goto("start")) /\ disturbed' = TRUE
       ELSE stack' = Goto("start") /\ UNCHANGED <<qvars, rvars, fires, disturbed>>
  /\ UNCHANGED <<tvars, evars, rx, modem, accepted, body_sent>>

\* Slip: a command is sent whatever the state.
MayStartBusy == q_count > 0
MayStart == state = "IDLE" /\ q_count > 0

\* engine_start_next up to at_platform_write. A command sent when nothing is
\* in flight can trust what it receives.
engine_start_next ==
  /\ Runs("start") /\ MayStart
  /\ pool' = <<>> /\ response' = "PENDING" /\ dropped' = FALSE
  /\ echo_armed' = EchoCancel
  /\ echo_expect' = IF EchoCancel THEN Active.id ELSE echo_expect
  /\ timer_ms' = Active.timeout /\ elapsed' = 0
  /\ state' = "SENDING"
  /\ body_sent' = FALSE
  /\ disturbed' = (disturbed /\ ~(modem = <<>> /\ rx = <<>>))
  /\ stack' = Goto("write")
  /\ UNCHANGED <<qvars, rx, modem, accepted, fires>>

process_end ==
  /\ Runs("start") /\ ~MayStart
  /\ stack' = Callers
  /\ UNCHANGED <<qvars, tvars, rvars, evars, rx, modem, hvars, disturbed>>

\* What an earlier write left at the modem without a CR: the beginning of its
\* next line, which then is no command of the engine's.
LeftOver == modem # <<>> /\ ~modem[Len(modem)].ended
HeardLines == IF LeftOver THEN SubSeq(modem, 1, Len(modem) - 1) ELSE modem
Typed(c, sms, end) ==
  [id |-> c, sms |-> sms, sent |-> 0, echoed |-> FALSE, prompted |-> FALSE, ended |-> end]

\* at_platform_write took the command and its CR: the modem has heard it.
WriteDone ==
  /\ Runs("write")
  /\ state' = "WAITING" /\ UNCHANGED <<timer_ms, elapsed>>
  /\ modem' = Append(HeardLines, Typed(IF LeftOver THEN NoId ELSE Active.id, Active.sms, TRUE))
  /\ stack' = Callers
  /\ UNCHANGED <<qvars, rvars, evars, rx, hvars, disturbed>>

\* A short write of the command or of its CR: the modem has got nothing, or
\* text that waits for its CR.
WriteFailed ==
  /\ Runs("write")
  /\ engine_finalize("IO", NoLine, Callers)
  /\ \/ UNCHANGED <<modem, disturbed>>
     \/ modem' = Append(HeardLines, Typed(NoId, FALSE, FALSE)) /\ disturbed' = TRUE
  /\ UNCHANGED <<tvars, evars, rx, accepted, body_sent>>

\* The body and its Ctrl-Z were written.
BodyDone ==
  /\ Runs("body")
  /\ state' = "WAITING" /\ UNCHANGED <<timer_ms, elapsed>>
  /\ stack' = Goto("drain")
  /\ UNCHANGED <<qvars, rvars, evars, rx, modem, hvars, disturbed>>

\* A short write of the body: the modem still waits for the Ctrl-Z.
BodyFailed ==
  /\ Runs("body")
  /\ engine_finalize("IO", NoLine, Goto("drain"))
  /\ disturbed' = TRUE
  /\ UNCHANGED <<tvars, evars, rx, modem, accepted, body_sent>>

-----------------------------------------------------------------------------
\* Interrupts

\* Further ticks of an expired timer change nothing.
at_tick(ms) ==
  /\ state \in {"WAITING", "PROMPT"} /\ timer_ms > 0
  /\ timer_ms' = IF timer_ms <= ms THEN 0 ELSE timer_ms - ms
  /\ elapsed' = elapsed + ms
  /\ UNCHANGED <<qvars, state, rvars, evars, rx, stack, modem, hvars, disturbed>>

\* at_feed of a line. When the buffer is full bytes of it are dropped, and
\* the line with them.
at_feed(l) ==
  /\ IF Len(rx) < RxCap
       THEN rx' = Append(rx, l) /\ disturbed' = (disturbed \/ l.kind = "nocarrier")
       ELSE disturbed' = TRUE /\ UNCHANGED rx
  /\ UNCHANGED <<qvars, tvars, rvars, evars, stack, hvars>>

-----------------------------------------------------------------------------
\* The modem: answers the commands in the order it heard them.

Serving == Head(modem)
MayAnswer == modem # <<>> /\ Serving.ended
Becomes(s) == modem' = <<s>> \o Tail(modem)

ModemEcho ==
  /\ MayAnswer /\ ~Serving.echoed /\ ~Serving.prompted /\ Serving.sent = 0
  /\ at_feed(LineFor("echo", Serving.id, 0))
  /\ Becomes([Serving EXCEPT !.echoed = TRUE])

\* For each line of a body it may prompt again.
ModemPrompt ==
  /\ MayAnswer /\ Serving.sms /\ Serving.sent = 0
  /\ at_feed(LineFor("prompt", Serving.id, 0))
  /\ Becomes([Serving EXCEPT !.prompted = TRUE])

ModemData ==
  /\ MayAnswer /\ Serving.sent < MaxData
  /\ at_feed(LineFor("data", Serving.id, 0))
  /\ Becomes([Serving EXCEPT !.sent = @ + 1])

ModemFinal ==
  /\ MayAnswer
  /\ \E k \in {"ok", "error"} : at_feed(LineFor(k, Serving.id, Serving.sent))
  /\ modem' = Tail(modem)

\* It restarts: what it had heard is forgotten.
ModemRestart ==
  /\ modem # <<>>
  /\ modem' = <<>>
  /\ UNCHANGED <<qvars, tvars, rvars, evars, rx, stack, hvars, disturbed>>

ModemUnsolicited ==
  /\ \E k \in {"urc", "nocarrier"} : at_feed(LineFor(k, NoId, 0))
  /\ UNCHANGED modem

-----------------------------------------------------------------------------
User == (\E t \in Timeouts : at_send(t)) \/ at_abort \/ at_reset

Dispatch == DispatchEcho \/ DispatchPrompt \/ DispatchFinal \/ DispatchUrc \/ DispatchOther

Writes == WriteDone \/ WriteFailed \/ BodyDone \/ BodyFailed

Returns == finalize_return \/ flush_return \/ urc_return

\* What the task does by itself once a call is under way.
TaskStep ==
  Dispatch \/ CheckTimeout \/ engine_start_next \/ process_end \/ Writes
  \/ reset_flush \/ reset_end

Tick == \E ms \in Ticks : at_tick(ms)

Modem == ModemEcho \/ ModemPrompt \/ ModemData \/ ModemFinal \/ ModemRestart
         \/ ModemUnsolicited

Next ==
  User \/ at_process \/ TaskStep \/ DrainEnd \/ Returns \/ Tick \/ Modem

Spec == Init /\ [][Next]_vars

-----------------------------------------------------------------------------
\* TypeOK. The variables keep their types: the indices stay inside the queue,
\* q_count inside its byte, the pool inside AT_CFG_RESP_LINES_MAX lines.
TypeOK ==
  /\ queue \in [Slots -> Entry]
  /\ q_head \in Slots /\ q_tail \in Slots /\ q_count \in 0 .. 255
  /\ state \in {"IDLE", "SENDING", "WAITING", "PROMPT"}
  /\ timer_ms \in Nat /\ elapsed \in Nat
  /\ pool \in Seq(Ids \cup {NoId}) /\ Len(pool) <= LinesMax
  /\ response \in Statuses /\ dropped \in BOOLEAN
  /\ echo_armed \in BOOLEAN /\ echo_expect \in Ids \cup {NoId}
  /\ rx \in Seq(Line) /\ Len(rx) <= RxCap
  /\ stack \in Seq(Frame)
  /\ modem \in Seq([id : Ids \cup {NoId}, sms : BOOLEAN, sent : 0 .. MaxData,
                    echoed : BOOLEAN, prompted : BOOLEAN, ended : BOOLEAN])
  /\ accepted \in 0 .. MaxCmds
  /\ fires \in [Ids -> 0 .. 2] /\ body_sent \in BOOLEAN
  /\ disturbed \in BOOLEAN

\* QueueWindow. The q_count slots from q_tail on hold, in the order at_send
\* accepted them, exactly the commands not yet dequeued: none is overwritten
\* or skipped, whatever the wraps of q_head and q_tail; and the engine is
\* busy only with a command in the queue.
QueueWindow ==
  /\ q_count <= Depth
  /\ q_head = (q_tail + q_count) % Depth
  /\ \A k \in 0 .. q_count - 1 :
       queue[(q_tail + k) % Depth].id = accepted - q_count + 1 + k
  /\ state # "IDLE" => q_count > 0

CallbackRuns(c) ==
  \E i \in DOMAIN stack : stack[i].pc \in {"callback", "flushed"} /\ stack[i].id = c

\* CompletedOnce. Every command at_send accepts gets its callback once, in
\* the order of the at_send calls: those dequeued have had it, the one whose
\* callback runs has, those that wait have not ("Pending callbacks receive
\* AT_ERR_ABORTED", "The active command's callback receives AT_ERR_ABORTED").
CompletedOnce ==
  \A c \in 1 .. accepted :
    fires[c] = IF c <= accepted - q_count \/ CallbackRuns(c) THEN 1 ELSE 0

InFlight ==
  {modem[i].id : i \in DOMAIN modem} \cup ({rx[i].id : i \in DOMAIN rx} \ {NoId})

\* OneOutstanding. The engine writes a command only when the previous one is
\* over: unless a command was given up or written in part, a line was lost or
\* the modem volunteered a final result code, all that is in flight, in the
\* modem or in the receive buffer, belongs to the active command.
OneOutstanding ==
  ~disturbed =>
    /\ Len(modem) <= 1
    /\ InFlight \subseteq {Active.id}
    /\ InFlight # {} => state \in {"WAITING", "PROMPT"}

\* OwnResponse. A command sent while nothing is in flight, and no text of an
\* earlier one waits at the modem for its CR, is completed by its own final
\* result code, with all its information lines and no other line, up to the
\* size of the pool. (Precondition: the modem's echo is cancelled,
\* its URCs are registered, and no URC prefix matches an information line.)
OwnResponse ==
  /\ EchoCancel /\ "urc" \in UrcKinds /\ "data" \notin UrcKinds
  /\ Runs("callback") /\ Top.status \in {"OK", "ERROR"} /\ ~disturbed
  => /\ Top.by = Top.id
     /\ \A i \in DOMAIN pool : pool[i] = Top.id
     /\ Len(pool) = IF Top.n < LinesMax THEN Top.n ELSE LinesMax

\* OwnPrompt. A body goes out only for a command that has one and, when
\* nothing older is in flight, in answer to that very command's prompt, however
\* often the modem prompts.
OwnPrompt ==
  /\ Runs("body") => Active.sms
  /\ Runs("body") /\ ~disturbed => Top.by = Active.id

\* NoEarlyTimeout. A command is reported as timed out only after its timeout
\* has passed since it was sent or, once its body was sent, the prompt timeout.
NoEarlyTimeout ==
  Runs("callback") /\ Top.status = "TIMEOUT" =>
    elapsed >= IF body_sent THEN PromptTimeout ELSE queue[Top.slot].timeout

\* The commands in the slots, how far the oldest has got, and the callback
\* that runs.
Pending == [k \in 1 .. q_count |-> queue[(q_tail + k - 1) % Depth].id]
Phase ==
  CASE state = "IDLE" -> "queued" [] state = "SENDING" -> "writing"
    [] state = "WAITING" -> "sent" [] state = "PROMPT" -> "body"
NoCall == [id |-> NoId, status |-> "none"]
InProgress ==
  IF Runs("callback") \/ Runs("flushed") THEN [id |-> Top.id, status |-> Top.status] ELSE NoCall

Service ==
  INSTANCE CommandService WITH
    Capacity <- Depth, next <- accepted + 1, pending <- Pending, phase <- Phase, told <- InProgress

\* ImplementsService. Whatever interrupts, answers, failures and calls from
\* URC handlers come between: the commands are written one by one in the
\* order of the at_send calls; a callback gets the status that belongs to how
\* far its command got - no answer completes a command not yet written, no
\* timeout one that is being written; and the place in the queue, and the
\* right to be written, passes on only when the callback has returned.
ImplementsService == Service!Spec

\* OverflowReported. A response that lost lines because the pool was full
\* says so ("AT_ERR_OVERFLOW: Response buffer overflowed").
OverflowReported ==
  Runs("callback") /\ dropped => response = "OVERFLOW"
=============================================================================

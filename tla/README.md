# libat-c: models, checks and proofs

libat-c is an AT-command engine for GSM modems: one static instance, no
allocation, fed by a UART interrupt and driven by a main loop. This directory
holds TLA+ models of it, TLC configurations that check them on small
instances, and TLAPS proofs about them for all instances.

## Inventory

Three actors share `g_at` (`src/at.c`): the **task**, which calls
`at_process()` and the API; the **interrupts**, which call `at_feed()` and
`at_tick()`; and, outside, the **modem**. The task's calls nest: `at_process`
calls `engine_finalize`, which calls the application's callback, which calls
the API again.

| Component (source) | State | Operations | What makes it correct |
|---|---|---|---|
| Receive ring (`rxring_t`, at.c:33-59, 229-238) | `head`, `tail`, `buf` | push (interrupt), pop (task), zeroing by `at_reset` | a bounded FIFO across index wraps; slot accesses never meet |
| Line assembler (at.c:260-314) | `lfsm`, `line_buf`, `line_len` | one byte, reset | a well-formed line is dispatched once and intact whatever preceded it; the buffer is not overrun; the SMS prompt is seen |
| Command engine (at.c:181-208, 244-381, 456-634) | `queue`, `q_head/q_tail/q_count`, `state`, `timer_ms`, `pool`, `response`, `echo_*` | `at_send`, `at_abort`, `at_reset`, `at_process`, `at_tick`, callbacks | FIFO order, one callback per command, one command outstanding, answers reach their own command, no early timeout, everything completes |
| URC table (at.c:387-425, 640-653) | `urc_table` | register, deregister, dispatch | registration order, first match, re-registration |
| GSM commands (at_gsm.c:223-762) | none of its own: a buffer on the stack per call | some 70 builders: guards, assembly of the text, `at_send` | a command is queued whole or refused, never cut; the buffers have room for what the header documents |
| GSM responses (at_gsm.c:41-217, 776-820) | none: a response in, a structure out | nine parsers | what the modem printed is what the structure says; a missing field is refused |
| GSM-7 and PDU (at_gsm.c:833-1227) | none | encode, decode, number encoding, PDU of a message and of a part | a receiver reads number and text; lengths agree with `AT+CMGS=` |
| Long messages (at_gsm.c:1107-1261) | none across calls; the parts are in the engine's queue | `at_gsm_part_count`, `at_gsm_send_long` | all parts or an error; the parts are the whole text; the modem never gets all of a refused message |
| Formatting (`at_fmt.h`) | cursor of a builder or a parser | append, parse | room for the NUL, overflow is sticky, saturation without wrap |
| Several tasks (at.h:187-211, ARCHITECTURE.md) | `q_head`, `q_tail`, `q_count` shared | `at_send` under a mutex beside `at_process` | no accepted command is forgotten |
| Platform (`at_platform.h`) | none | `at_platform_write`, hooks | a short write is reported |

The behaviours that are hard to test, each with its line and the properties
aimed at it, are the `hazards` of `PROJECT.json`. The main ones: user code
called in the middle of `engine_finalize`; answers that arrive late, after the
command was given up; a ring with free-running indices that a second writer
(`at_reset`) zeroes; write failures in the middle of a command; the drain loop
that delays the timeout check; a message queued part by part into a queue that
fills up, or that others use, in the middle; septets that straddle octets;
optional and quoted fields read by one cursor.

## Modules

* **`ByteFifo`** - the abstract specification of the receive ring: accept,
  refuse when full, deliver in order, and a flush that takes time.
* **`RxRing`** - the ring, one action per access to shared memory (occupancy
  test, slot write, read of `head`, publication; likewise for pop and for the
  two stores of `at_reset`). `build` chooses a producer that runs to
  completion (`"isr"`) or one that interleaves (`"thread"`).
  `ImplementsFifo` is refinement of `ByteFifo`: `fifo` is the window of slots
  between the indices. *MC: `MCRxRing`.*
* **`LineFsm`** - one action per case and branch of the switch. A byte is CR,
  LF, space, `>` or a text byte. `segment`, the bytes since the last line end,
  is a history variable. *MC: `MCLineFsm`.*
* **`CommandService`** - abstract: what the engine promises its application.
  Commands are accepted in order, up to a capacity; the oldest is written, and
  only then answered; it gets one callback, with a status that fits how far it
  got; its place is free, and the next one may be written, when that callback
  has returned.
* **`AtEngine`** - the queue and the life of a command. `stack` holds the
  calls in progress of the task, so that a callback that calls back, and a URC
  handler that resets, return where the code returns. `ImplementsService` is
  refinement of `CommandService`: the commands in the slots from `q_tail` on
  (`Pending`), `state` (`Phase`) and the callback frame (`InProgress`).
  *MC: `MCAtEngine`.*
* **`AtEngineFair`** - `AtEngine` with fairness and without an end: commands
  that have left the queue are forgotten and the others renumbered (`Forget`),
  so that callbacks may send for ever and the state space stays finite.
  *Config: `AtEngineFair.cfg`.*
* **`UrcRegistry`** - abstract: a set of at most `Capacity` registrations, one
  per prefix; a line goes to a registration whose prefix it starts with.
* **`UrcTable`** - the slots, with the two searches of `at_register_urc` and
  the truncation to the size of the field; `order`, the prefixes in the order
  of registration, is history. `ImplementsRegistry` is refinement of
  `UrcRegistry`. *MC: `MCUrcTable`.*
* **`AtFmt`** - the bounded builder, of which only the fill level and the
  overflow flag matter, and the number parsers, digit by digit (a recursive
  function over the value). A text being parsed is a sequence of tokens.
* **`GsmCommands`** - a builder is a row of a table: head of the command, size
  of its buffer, arguments with the traits its guards look at. `Call` is the
  guards and `AB_INIT`, `AppendNext` one `AB_` macro, `Send` the end.
* **`GsmResponses`** - the parsers, as operators on lines of tokens.
* **`Gsm7`**, **`SmsPdu`** - the codec on septets and octets; the two PDU
  builders, octet by octet, and a receiver that reads a TPDU by 3GPP 23.040.
* **`GsmLayer`** - composes the five: a user builds a command, the modem
  answers (`ReportsTo` prints a report and remembers what it tells), the parser
  reads the lines; or a PDU is built. The reports are the sets of all lines of
  a form, over constants: values of one-byte fields (`Fields`), signal levels
  (`Levels`), lengths of texts (`TextLens`), numbers that fit no field
  (`BigNumbers`). *MC: `MCGsmLayer`.*
* **`SmsOutbox`** - abstract, from the caller to the modem: a message is
  accepted, and only then its text is handed to the modem, at most once.
* **`SmsLong`** - `at_gsm_send_long` over the queue, one turn of its loop per
  step; in between the queue is emptied and used by others, and the modem takes
  a part or fails it. The user calls again after `AT_ERR_BUSY`. A part is the
  range of characters it is cut from with the numbers of its header: the ranges
  are what this module is about, not what `send_concat_part` makes of them in
  the PDU, which no receiver can read (`concat_layout`). `ImplementsOutbox` is
  refinement of `SmsOutbox`. *MC: `MCSmsLong`.*
* **`MtSend`** - `at_send` in several tasks under the mutex and `at_process` in
  one, one action per access to the queue's indices. *Config: `MtSend.cfg`.*
* **`AtEngineProofs`**, **`RxRingProofs`**, **`LineFsmProofs`**,
  **`UrcTableProofs`**, **`SmsLongProofs`**, **`GsmLayerProofs`** - theorems about
  the modules they are named after. **`AtEngineAnswerProofs`** has those about
  the life of a command and the refinement of `CommandService`,
  **`SmsPduProofs`** those about the codec and the PDU of a message of one part.

Definitions carry the names of the source; `map` in `PROJECT.json` gives the
lines of each. An operator marked *Slip* in a module is a plausible error of
its neighbour; nothing uses it, and replacing the neighbour by it makes a
property fail (the `mutants` of `PROJECT.json`).

### How AtEngine corresponds to the code

| Code | Model |
|---|---|
| `at_process`: drain loop, timeout check, start of the next command | frames `drain`, `timeout`, `start`; `at_process`, `Dispatch*`, `DrainEnd`, `CheckTimeout`, `engine_start_next`, `process_end` |
| `at_platform_write` inside `engine_start_next` and for the body | frames `write`, `body`; `WriteDone/Failed`, `BodyDone/Failed` |
| `engine_finalize` | `engine_finalize` up to the callback, frame `callback`, `finalize_return` after it |
| flush loop of `at_reset` | frames `flush`, `flushed`; `reset_flush`, `flush_return`, `reset_end` |
| order of the tests in `engine_dispatch_line` | `IsEcho`, `IsPrompt`, `engine_is_final`, `IsUrc`, `IsOther`, each refusing what an earlier one takes |
| `cmd_entry_t` | `[id, sms, timeout]`; the text is the id, and two commands have different texts |
| a line | `[kind, id, n]`: what the tests tell apart, the command it answers and, for a final code, how many lines preceded it |

Abstractions. The receive ring and the assembler appear in `AtEngine` as a
queue `rx` of lines, so a drop loses a whole line; lines cut short or merged by
a drop are the subject of `LineFsm`. Command texts differ and none is a prefix
of an information line. A NULL callback is a callback that returns at once.
A call of `at_tick` brings any of the `Ticks` in milliseconds. `at_process` is
not called from a callback. A failed write leaves the modem with nothing, or
with text that has no CR yet (`LeftOver`); the next line that is written is
joined to that text and is then no command of the engine's. The modem
answers in order, echoes at most once per command, prompts for a body as often
as it likes - every prompt of a waiting command is answered with the body again,
as in the code - and may be silent, slow, restart, send URCs and volunteer
`NO CARRIER`.
`disturbed` is a history variable: a command was given up (timeout, abort,
reset, failed body), text of one was left at the modem by a failed write, a
line was lost, or the modem volunteered a final code,
and since then no command has been started with nothing in flight. The
protocol has no identification of answers, so what the engine promises about
whose answer is whose it promises while `disturbed` is false.

## Runs

| Run | Shows | Bounds |
|---|---|---|
| `rx_ring` | `TypeOK`, `NoSlotRace`, `ImplementsFifo` | 4 slots, indices modulo 8: full, empty and both wraps occur; two byte values tell order and duplication apart. Both builds; `at_reset` in the `isr` build |
| `line_fsm` | `TypeOK`, `LineIntact` | buffer of 4 (3 and the NUL), lines of up to 6 bytes: shorter than, equal to and beyond the buffer, CRs anywhere |
| `prompt` | violation: `"> "` without newline is not dispatched | same |
| `urc_table` | `TypeOK`, `ImplementsRegistry`, `FirstRegisteredWins` | 3 slots, 5 prefixes: the empty one, one that is a prefix of another, one longer than its field; 2 handlers |
| `engine_safety` | `TypeOK`, `QueueWindow`, `CompletedOnce`, `OneOutstanding`, `OwnResponse`, `OwnPrompt`, `NoEarlyTimeout`, `ImplementsService` | 2 slots and 3 commands: full queue, wrap, re-send from callbacks; an SMS between plain commands; pool of 1 line with 2 sent; 2 lines in the buffer; default timeout 1, prompt timeout 2, ticks of 1 and 2 ms, longer than what is left too; 4 nested calls |
| `engine_liveness` | `AcceptedCompletes`, `TaskReturns` | 2 slots and any number of commands: two at a time have a number (`MaxCmds`), the oldest of them being forgotten when they have left the queue; a command has a body if the queue was empty when it was sent (`SmsCmds`); the modem keeps 1 line to answer (`MaxHeard`; one more pushes it out), no information lines; buffer of 1 line; both timeouts 1; callbacks send, URC handlers abort and reset |
| `abort_in_callback` | violation: a callback that calls `at_abort` completes its command twice | as `engine_safety`, 3 nested calls |
| `overflow_lost` | violation: a truncated response is delivered as OK | as `engine_safety` |
| `gsm_layer` | `GsmTypeOK`, `SentWhole`, `DocumentedFits`, `ReadsBack`, `ParseSaturates`, `PduReadsBack` | every builder with numbers of one and three digits, texts empty, missing, unfit, as long as their documented size, one more, and longer than any buffer; reports with every combination of optional fields, of fields of 0, 2, 8, 99 and 255, levels of -5, 34 and 255, and texts of lengths around the sizes of the fields they go to (16, 20, 24 and 161 characters with the NUL); the limits of the two parsers scaled to 2^15-1 and 2^16-1, as TLC's integers have 32 bits, with numbers on both sides of each; texts of every length through two groups of eight septets and around 160, with all-zero, all-one and alternating bits, and the whole alphabet |
| `concat_layout` | violation: a receiver does not read a part of a long message | same |
| `sms_long` | `TypeOK`, `OkMeansAll`, `BusyMeansPart`, `ImplementsOutbox` | 3 characters in one part, 2 in a part of several, part numbers modulo 8, at most 4 parts documented, queue of 2: texts empty, of one part, one more, exact multiples, one beyond; messages of more parts than the queue has room for; counts that wrap to none, one and two; two that are refused for their number or a character; two messages with different references |
| `mt_send` | violation: an accepted command is never sent | two senders, queue of 2, 4 commands: more than the shortest overlap of an increment and a decrement |

Deadlock is checked in every run: `at_process` can always be called again.
In `engine_safety` completion callbacks call `at_send` only - what the comment
at at.c:621 is about - while URC handlers and the task also abort and reset;
`abort_in_callback` shows why the callbacks must not.

The five violations are the `findings` of `PROJECT.json`: four errors of the
code (prompt, abort in a callback, overflow, layout of a part) and one place
where the documentation promises more than the code does (a mutex around
`at_send` alone does not protect `q_count`).

`FirstRegisteredWins` is about histories in which no slot was freed before one
in use (`~gap`); otherwise see *Known divergences*. `OkMeansAll` and
`ImplementsOutbox` are about messages of the documented length, `ReadsBack`
about reports that are not marked `Faulty`; each exception is listed below.

### Fairness

`FairSpec` (`AtEngineFair`) assumes: `at_process` is called again and again -
strong fairness, because the loop may be busy with other calls in between; a
call in progress proceeds (weak fairness of `TaskStep`, which runs whenever its
frame is innermost); every callback and handler returns, after as many calls as
it likes, and the drain loop sees an empty buffer when it is empty often enough
(strong fairness, as calls may be made and lines may arrive in between); the
tick interrupt keeps coming. `Forget` and `Overheard`, which only keep the
state space finite, are taken when they can be. `LineSlow` says that a drain
loop that runs again and again finds the receive buffer empty again and again: a
UART is slower than the loop that drains it. It says nothing of how deep the
calls are or whether they return. Without it the timeout check, which is below
the drain loop, is never reached. Nothing is assumed of the modem.

Two things the code does not bring to an end, and both properties name theirs
as the only exception: a modem that prompts for ever is sent the body for ever,
and the timer is loaded again each time (`AcceptedCompletes`); and `at_reset`
flushes for ever when the callbacks that it calls send again (`TaskReturns`).
Without the exceptions TLC reports just these two.

## Proofs

`AtEngineProofs`: **`TypeCorrect`**, `Spec => []TypeOK` for all constants that
satisfy the named assumptions and every use of the API by callbacks. `TypeOK`
is inductive; the proof has a lemma per group of actions.

The queue, in the same module: **`QueueSafe`** (`QueueWindow`) and **`CompletesOnce`**
(`CompletedOnce`), for every depth below 256 when callbacks only send. Neither
is inductive: `finalize_return` dequeues whatever is at `q_tail`, so the proof
must know that the frame that returns is that of the oldest command.
`QueueInv` adds three facts:

* `CallGraph` - consecutive frames of the stack are call sites of the code; as
  nothing is called from a callback that itself calls back, at most one
  callback frame exists and it is innermost;
* `TopInv` - the innermost frame's slot is `q_tail` and its command the
  oldest, the flush loop runs in the idle state, a write has a command;
* `FiresInv` - the callbacks so far are those of the dequeued commands and the
  one in progress.

**`QueueInductive`** proves that `QueueInv` is an invariant: a lemma per kind
of stack step (push, pop, move on) and per queue step (send, start of a
callback, dequeue), then one case per action. Both hypotheses are needed:
`abort_in_callback` refutes the first, and at a depth of 256 `q_count` wraps.

`AtEngineAnswerProofs`: **`TimesOutInTime`** (`NoEarlyTimeout`), **`OneAtATime`**
(`OneOutstanding`), **`PromptsAreOwn`** (`OwnPrompt`) and **`AnswersAreOwn`**
(`OwnResponse`), under the same two hypotheses, for every timeout, pool, buffer
and set of unsolicited codes. They speak of the task, the modem and the lines
between them at once, and a step of either may spoil what the other relies on.
`LifeInv` (**`LifeInductive`**) is five layers on top of `QueueInv`, each proved
from those below it:

* `StageInv` - which frame of the task goes with which state;
* `ClockInv` - the timer and the ticks since it was loaded make up at least what
  it was loaded with (a tick may be longer than what is left); `at_tick` and the
  check may come in any order;
* `FlightInv` - until something is given up or lost, all that the modem works
  on and all that is in the buffer is the active command's, and nothing of it
  follows its final code. This is what the task relies on when it starts a
  command, and why `disturbed` is needed: after a timeout, or with half a
  command at the modem, it is false;
* `EchoInv` - the echo of the active command, in the modem, on the line or in
  the buffer, finds `echo_armed` set, and no other line does;
* `AnswerInv` - a tally: the lines in the pool, those that wait and those still
  to be printed add up to the number that the final code carries, whatever URCs
  come between and wherever the pool is full.

`OwnResponse` has the preconditions of the property (echo cancelled, the
modem's URCs registered, no prefix that also begins an information line); without
the first two or the third the layers `EchoInv` and `AnswerInv` fail as the
code does.

**`ServiceImplemented`** (`ImplementsService`), in the same module and under
the same two hypotheses: every step of the task, the interrupts and the modem is
a step of `CommandService` or leaves what it sees alone. By `QueueWindow`,
`Pending` is the newest `q_count` of the commands accepted (`PendingNow`), so
that only the two counts matter: `at_send` raises both and appends,
`finalize_return` lowers one and takes the head, and nothing else changes them -
`at_reset` empties the queue by its flush loop, and the two indices it then stores
zero to are those of the receive ring. That a status fits the phase is `StageInv`: the final codes
and the timeout find the command sent, a failed write finds it being written.

`RxRingProofs`: **`TypeCorrect`** needs no hypothesis. **`NoRace`**
(`NoSlotRace`) and **`FifoImplemented`** (`ImplementsFifo`) are proved for every
size, every width of the indices that the size divides, and every interleaving,
provided that `at_reset` is not called where the producer is a thread
(`"thread" \notin ResetBuilds`); with it the push in progress undoes the
reset, and neither holds. The properties look at two program counters at a
time, so they are not inductive: `RingInv` adds how full the ring is (`Level`,
also between the two stores of a reset), that a push in progress has room and
its byte in the slot (`Pushing`), and that a pop in progress has a byte and read
the one that is there (`Popping`). **`RingInductive`** proves it from one fact
about modular distance: a step of an index changes the distance by one,
whether or not it wraps. For the refinement, the window of slots between the
indices is shown to be appended to by a publication, shortened by an advance,
and left alone by a store into the slot behind it.

`SmsLongProofs`: **`TypeCorrect`**, **`OkCorrect`** (`OkMeansAll`),
**`BusyCorrect`** (`BusyMeansPart`) and **`OutboxImplemented`**
(`ImplementsOutbox`), for all texts, part sizes, queue depths and widths of the
part number. First, about the split alone: within the documented length the
count does not wrap and the parts laid end to end are the text (`CountFacts`,
`PartFacts`, `WholeMakesUp`). Then **`SmsInductive`**: the loop has queued every
part before the next (`LoopInv`), `AT_OK` means all parts (`OkInv`), and the
last part is queued only by a call that returns `AT_OK` (`LastInv`), which is
what makes the queueing of the last part the moment of acceptance in
`SmsOutbox`. The other users of the queue only add entries that are no parts. All of
this is about ranges of the text and the numbers of the headers, which
`at_gsm_send_long` is responsible for; that a receiver can put the parts
together does not follow, and is not so.

`LineFsmProofs`: **`TypeCorrect`**, and **`LinesIntact`** (`LineIntact`), for
every size of the buffer, every alphabet and lines of any length.
**`LineInductive`** relates the three parts of the state (`Progress`): between
lines only CRs were seen; within a line there is a first byte k that is no CR,
and either a CR stands in the middle of the text, of which nothing is claimed,
or the buffer holds what fits of the bytes from k on.

`UrcTableProofs`: **`TypeCorrect`**, if prefixes are texts, and
**`RegistryImplemented`** (`ImplementsRegistry`). The invariant is that no
prefix is in two slots (**`UrcInductive`**); then a search finds at most one
slot, the slots in use and the registrations are in bijection, and so the table
is full exactly when the registry is. **`FirstWins`** (`FirstRegisteredWins`) needs more: `OrderInv`
(**`OrderInductive`**) says that `order` lists the prefixes in use, each once,
and that, until a slot was freed before one in use, the slots are in use from
the first on and in that order. A removal from `order` closes the gap as the
slots do.

`GsmLayerProofs`: **`TypeCorrect`** (`GsmTypeOK`), **`SentInFull`**
(`SentWhole`) and **`RoomForDocumented`** (`DocumentedFits`), for numbers and
texts of every length. `GsmInv` (**`GsmInductive`**) says that unless an append
has failed the buffer holds all that was asked for; the proof goes over the
rows of all builders once, to type their arguments (`RowsAre`), and then over
the six kinds of argument.

That the buffers are large enough is then a sum for each row (`RowsRoomy`): the
head, and for every argument its separator and what it adds at most (`Weight`:
the digits of its largest documented value, or its longest documented text with
its quotes), is less than the buffer. `RoomInv` carries this through the call:
as long as the arguments are within what is documented nothing has failed, and
the appends that are left, run one after the other, end below the size of the
buffer (`Runs`). It quantifies over the prefix sums of the appends, functions
into the naturals, so TLC checks the property only. The same sums bound the
buffers by 160, and so `SentInFull` has one hypothesis, `TxBuf >= 160`:
`AT_CFG_TX_BUF_SIZE` is at least the largest buffer of a builder. It is where
the two sizes meet: with a smaller field `at_send` cuts without an error. The
default is 512.

**`AnswersReadBack`** (`ReadsBack`): for every value of the fields and every
length of the texts, what a parser returns is what the modem told, apart from
the reports marked `Faulty`. `AnswerInv` says that the lines are a report to
the command that asked, and that what was parsed was parsed from them; then
there is a lemma per parser, by form of the report: which of its optional fields
are there, whether a text is quoted, and on which side of the structure's size
its length is (`ParsesBack` puts them together).

**`Saturates`** (`ParseSaturates`) is about the recursive functions of `AtFmt`,
for every width of the integers. That a function with the equations of
`at__parse_int` exists is proved by hand (`Recursion`: from the least argument
for which there is none), and so is that it stays at the digits read so far
until it saturates (`AccumulatedIs`).

`SmsPduProofs`: **`PduRoundTrip`** (`PduReadsBack`), for every service centre,
every number and every text. At each of the seven bit offsets an octet is the
end of one septet and the beginning of the next (`BitsAre`, `OctetIs`), and both
ways to take a septet out of the octets that share it give it back
(`FirstBack`, `LastBack`, `MiddleBack`); so `at_gsm7_decode` undoes
`at_gsm7_encode` for every text that it accepts (`DecodesBack`), and a receiver
finds the same septets (`SeptetsBack`). Around the text, the digits come back
from their halves (`DigitsBack`), the octets are where a receiver looks for them
(`Layout`, `Received`), and neither the twenty digits of an address nor the 400
characters of the buffer ever cut an accepted message (`PduIs`).

The assumptions on constants are named, and TLC evaluates them in the runs.
Those of the GSM layer, in `gsm_layer`, are more than types. The provers know
nothing of the characters of a string, so `HeadsAssumption` gives the longest
lengths of the heads of the commands (20; 12 with arguments; 9 or 8 for the
shortest buffers) and `PrefixesAssumption` says that none of the words in a
report is the beginning of another, `Faulty` ones aside. `ReportsAssumption`:
fields of a report have the range of their types, and texts any length.
`TextsAssumption`: texts are sequences of character codes. `FmtAssumption`: the
integers have 16 bits at least.

Only model-checked, and why: `AcceptedCompletes` and `TaskReturns` are liveness
under fairness, which is out of the prover's reach; the five violations are
counterexamples of TLC. Every other property of a passing run is stated by a
theorem. Within them two things stay at what the constants list: the clock
reports (`CclkReports` enumerates timestamps at the limits of their fields, as
the parser reads them character by character), and the words of `+CPIN` and
`+CMGR`, which are those of the two enumerations.

## Known divergences

What the models show of the code beyond the findings, where no property can
hold, or only with the exception that its module states:

* `at_gsm_cmgs_pdu` and `send_concat_part` pass `cmd` to `at_send` without
  `AB_DONE()` (at_gsm.c:1083, 1214); the text has no NUL, and what the stack
  held after the digits is queued and sent (`dirty` in `SmsPdu`).
* The number of parts is computed in eight bits (at_gsm.c:1119). From 256 parts
  on it wraps: to 0 or 1 and the text is refused, otherwise `AT_OK` is returned
  for its first parts. The documented limit is 8 parts.
* `+CPIN: SIM PIN2` and `SIM PUK2` are read as `SIM PIN` and `SIM PUK`, whose
  texts are prefixes tried before (at_gsm.c:121); nine codes of `at_cpin_t` are
  never returned.
* `at_parse_sms_read` takes line 0 for the header and line 1 for the text: an
  unsolicited line before makes it fail, a text of several lines is cut to the
  first, a comma in the sender's name loses the timestamp.
* An operator name without quotes of 24 characters or more hides the access
  technology that follows (at_gsm.c:146-152).
* `at_parse_scts` refuses zones beyond twelve hours, which exist, and second 60.
* A `#`, `,` or `;` in a number passes `validate_phone_number` and becomes
  another digit in a PDU (at_gsm.c:976).
* `at_gsm_cnmi` has no room for five values of three digits; `at_gsm_cpms`
  checks only its first storage; `at_gsm_cmgs` takes an empty text, for which
  the engine has no body, so that the modem's prompt is never answered and the
  command times out.
* The number parsers saturate one digit early: values within 9 of the largest
  are read as the largest (at_fmt.h:167, 184).
* A command longer than `AT_CFG_TX_BUF_SIZE` would be cut by `at_send` without
  an error; with the default no builder reaches it (`SentWhole`).
* `at_reset` flushes until the queue is empty (at.c:188): with callbacks that
  send whenever they are flushed it never returns.
* Every prompt of a waiting command is answered with its body, and loads the
  timer again (at.c:514-535): a modem that prompts twice gets the body twice, and
  one that goes on prompting keeps the command from ever timing out.
* After a write that failed between the command and its CR (at.c:479-480) the
  next command is joined to the text that the modem has; its echo does not match
  and becomes a line of its response.
* `at_reset` is a second writer of the ring's `head`: with a producer that is a
  thread, not an interrupt, a push in progress undoes it. `RxRing` has resets
  in the interrupt build only.
* A prefix registered in a slot that was freed is tried before older ones
  (at.c:401), although at.h:278 promises the order of registration.
* A URC prefix that also begins an information line takes it from the waiting
  command (at.c:550).

## Plan

Done: ring, assembler, engine, URC table, GSM layer, long messages, several
tasks; the theorems above. What would come next:

1. A run of `AtEngine` with a URC prefix that matches information lines, and a
   composition of `RxRing` and `LineFsm` with a byte stream: drops in the middle
   of lines.
2. `MtSend`: registration of URCs under the same mutex; a preempted `at_tick`.

## Not modelled

Logging, the trace hook and `at_result_str` only report. The platform hooks
other than `at_platform_write` are not called by the engine. `at__ab_i32` has no
caller. In the GSM layer the timeouts of the commands, which decide nothing
there, and the characters of texts beyond the checks made on them are left out;
parsers given NULL or a status other than `AT_OK` refuse at once. Calls with a
NULL argument, which `at_register_urc` (at.c:389), `at_deregister_urc`
(at.c:416) and `at_gsm_cgdcont` (at_gsm.c:483) refuse as their first statement,
before any change, are not made in the models. Examples and
tests were read for how the library is used. Memory ordering between cores is
excluded by the documentation (ARCHITECTURE.md, receive ring).

------------------------------- MODULE RxRing -------------------------------
(***************************************************************************)
(* The receive ring (rxring_t of src/at.c): at_feed, in the UART interrupt *)
(* or in a reader thread, pushes; at_process, in the task, pops; at_reset, *)
(* in the task, zeroes both indices. Every read and every write of a       *)
(* shared index or of a slot is a step of its own.                         *)
(*                                                                         *)
(* head and tail are free-running integers of IdxMod values (uint16_t: IdxMod *)
(* is 65536); a slot is an index masked to Size, i.e. modulo Size.         *)
(***************************************************************************)
EXTENDS Integers, Sequences

CONSTANTS
  Size,        \* AT_CFG_RX_BUF_SIZE
  IdxMod,      \* number of values of an index
  Bytes,       \* the byte values fed
  NoByte,      \* content of a slot never written
  Builds,      \* subset of {"isr", "thread"}: who may call at_feed
  ResetBuilds  \* the builds whose application calls at_reset

ASSUME SizeAssumption ==
  /\ Size \in Nat \ {0}
  /\ IdxMod \in Nat
  /\ Size < IdxMod
  /\ IdxMod % Size = 0
ASSUME ByteAssumption == NoByte \notin Bytes
ASSUME BuildAssumption ==
  Builds \subseteq {"isr", "thread"} /\ ResetBuilds \subseteq Builds

VARIABLES
  build,   \* fixed: "isr" (at_feed runs to completion) or "thread"
  head,    \* rx.head
  tail,    \* rx.tail
  buf,     \* rx.buf
  ppc,     \* where the producer is in rxring_push
  pb,      \* the byte rxring_push was called with
  ph,      \* the value of head that head++ read
  refused, \* rxring_push returned false last time
  cpc,     \* where the consumer is in rxring_pop or at_reset
  cb,      \* *out of rxring_pop
  got      \* the byte rxring_pop returned last

pvars == <<ppc, pb, ph, refused>>
cvars == <<cpc, cb, got>>
vars == <<build, head, tail, buf, pvars, cvars>>

Slots == 0 .. Size - 1
Indices == 0 .. IdxMod - 1

\* Slip: the occupancy found by comparing the indices.
UsedCompared == IF head >= tail THEN head - tail ELSE 0
\* (uint16_t)(r->head - r->tail)
Used == (head - tail) % IdxMod
Slot(i) == i % Size

Init ==
  /\ build \in Builds
  /\ head = 0 /\ tail = 0
  /\ buf = [s \in Slots |-> NoByte]
  /\ ppc = "idle" /\ pb = NoByte /\ ph = 0 /\ refused = FALSE
  /\ cpc = "idle" /\ cb = NoByte /\ got = NoByte

-----------------------------------------------------------------------------
\* The producer: rxring_push, one call per byte of at_feed.

\* Slip: the test lets one byte too many in.
PushCheckLoose(b) ==
  /\ ppc = "idle"
  /\ IF Used > Size
       THEN refused' = TRUE /\ UNCHANGED <<ppc, pb>>
       ELSE ppc' = "store" /\ pb' = b /\ UNCHANGED refused
  /\ UNCHANGED <<build, head, tail, buf, ph, cvars>>

\* The occupancy test. head is the producer's own, so the two volatile reads
\* act as one at the moment tail is read.
PushCheck(b) ==
  /\ ppc = "idle"
  /\ IF Used >= Size
       THEN refused' = TRUE /\ UNCHANGED <<ppc, pb>>
       ELSE ppc' = "store" /\ pb' = b /\ UNCHANGED refused
  /\ UNCHANGED <<build, head, tail, buf, ph, cvars>>

PushStore ==
  /\ ppc = "store"
  /\ buf' = [buf EXCEPT ![Slot(head)] = pb]
  /\ ppc' = "load"
  /\ UNCHANGED <<build, head, tail, pb, ph, refused, cvars>>

\* head++ is a read and a write.
PushLoad ==
  /\ ppc = "load"
  /\ ph' = head
  /\ ppc' = "publish"
  /\ UNCHANGED <<build, head, tail, buf, pb, refused, cvars>>

\* Slip: an index wider than the mask arithmetic expects.
PushPublishWide ==
  /\ ppc = "publish"
  /\ head' = ph + 1
  /\ refused' = FALSE
  /\ ppc' = "idle"
  /\ UNCHANGED <<build, tail, buf, pb, ph, cvars>>

PushPublish ==
  /\ ppc = "publish"
  /\ head' = (ph + 1) % IdxMod
  /\ refused' = FALSE
  /\ ppc' = "idle"
  /\ UNCHANGED <<build, tail, buf, pb, ph, cvars>>

Producer == (\E b \in Bytes : PushCheck(b)) \/ PushStore \/ PushLoad \/ PushPublish

-----------------------------------------------------------------------------
\* The consumer: rxring_pop and at_reset. An interrupt handler is not
\* preempted by the task, so in the "isr" build the task runs only between
\* pushes.

TaskRuns == build = "isr" => ppc = "idle"

PopCheck ==
  /\ cpc = "idle" /\ TaskRuns
  /\ head # tail
  /\ cpc' = "load"
  /\ UNCHANGED <<build, head, tail, buf, pvars, cb, got>>

PopLoad ==
  /\ cpc = "load" /\ TaskRuns
  /\ cb' = buf[Slot(tail)]
  /\ cpc' = "advance"
  /\ UNCHANGED <<build, head, tail, buf, pvars, got>>

PopAdvance ==
  /\ cpc = "advance" /\ TaskRuns
  /\ tail' = (tail + 1) % IdxMod
  /\ got' = cb
  /\ cpc' = "idle"
  /\ UNCHANGED <<build, head, buf, pvars, cb>>

\* g_at.rx.head = g_at.rx.tail = 0U: two stores, which the language leaves
\* unordered.
ResetBegin ==
  /\ cpc = "idle" /\ TaskRuns
  /\ build \in ResetBuilds
  /\ \/ head' = 0 /\ UNCHANGED tail /\ cpc' = "zeroTail"
     \/ tail' = 0 /\ UNCHANGED head /\ cpc' = "zeroHead"
  /\ UNCHANGED <<build, buf, pvars, cb, got>>

ResetEnd ==
  /\ TaskRuns
  /\ \/ cpc = "zeroTail" /\ tail' = 0 /\ UNCHANGED head
     \/ cpc = "zeroHead" /\ head' = 0 /\ UNCHANGED tail
  /\ cpc' = "idle"
  /\ UNCHANGED <<build, buf, pvars, cb, got>>

Consumer == PopCheck \/ PopLoad \/ PopAdvance \/ ResetBegin \/ ResetEnd

Next == Producer \/ Consumer

Spec == Init /\ [][Next]_vars

-----------------------------------------------------------------------------
\* TypeOK. The indices stay in the range of their type, whoever writes them.
TypeOK ==
  /\ build \in Builds
  /\ head \in Indices /\ tail \in Indices /\ ph \in Indices
  /\ buf \in [Slots -> Bytes \cup {NoByte}]
  /\ {pb, cb, got} \subseteq Bytes \cup {NoByte}
  /\ refused \in BOOLEAN
  /\ ppc \in {"idle", "store", "load", "publish"}
  /\ cpc \in {"idle", "load", "advance", "zeroTail", "zeroHead"}

\* NoSlotRace. The plain accesses to rx.buf, the only ones that are not
\* volatile, never meet: when rxring_push is about to write a slot and
\* rxring_pop is about to read one, the slots differ.
NoSlotRace == ppc = "store" /\ cpc = "load" => Slot(head) # Slot(tail)

\* The FIFO the ring stands for, between the index of its first byte and the
\* one behind its last. While at_reset is between its two stores, the index it
\* has yet to zero counts as zeroed.
First == IF cpc = "zeroTail" THEN 0 ELSE tail
Behind == IF cpc = "zeroHead" THEN 0 ELSE head
Window == [k \in 1 .. (Behind - First) % IdxMod |-> buf[Slot(First + (k - 1))]]

Flushing ==
  CASE cpc = "zeroTail" -> "keep"
    [] cpc = "zeroHead" -> "lose"
    [] OTHER -> "no"

Fifo == INSTANCE ByteFifo WITH Capacity <- Size, fifo <- Window, flushing <- Flushing

\* ImplementsFifo. The ring is a bounded FIFO: a byte is refused only when
\* Size bytes wait, accepted bytes are returned by rxring_pop in order, each
\* once, across every wrap of the indices; and at_reset, interrupted by
\* pushes between its two stores, never brings back a byte it flushed.
ImplementsFifo == Fifo!Spec
=============================================================================

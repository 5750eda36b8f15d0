---------------------------- MODULE SmsLongProofs ----------------------------
(***************************************************************************)
(* What SmsLong promises, for all lengths, part sizes, queue depths and    *)
(* widths of the part number that satisfy its assumptions.                 *)
(***************************************************************************)
EXTENDS SmsLong, TLAPS

-----------------------------------------------------------------------------
(* The split of a text into parts.                                         *)

\* A quotient rounded up: it covers the length, and one less does not.
LEMMA Ceiling ==
  ASSUME NEW len \in Nat \ {0}, NEW c \in Nat \ {0}
  PROVE  /\ (len + c - 1) \div c \in Nat
         /\ len <= ((len + c - 1) \div c) * c
         /\ (((len + c - 1) \div c) - 1) * c < len
  OBVIOUS

\* A remainder is a natural number below the modulus, and no more than the dividend.
LEMMA Wrapped ==
  ASSUME NEW q \in Nat, NEW w \in Nat \ {0}
  PROVE  q % w \in 0 .. w - 1 /\ q % w <= q /\ (q < w => q % w = q)
  OBVIOUS

\* Multiples of a natural number are in the order of their factors.
LEMMA Monotone ==
  ASSUME NEW a \in Int, NEW b \in Int, NEW c \in Nat, a <= b
  PROVE  a * c <= b * c
  OBVIOUS

-----------------------------------------------------------------------------
\* The parts of a message: none if the split refuses it.
Count(m) == at_gsm_part_count(m.len)
Sendable(m) == m.valid /\ (Count(m) > 1 \/ (Count(m) = 1 /\ m.len <= SingleMax))
PartAt(m, k) == IF Count(m) = 1 THEN WholeText(m) ELSE Part(m, Count(m), k - 1)
PartsOf(m) == IF Sendable(m) THEN {PartAt(m, k) : k \in 1 .. Count(m)} ELSE {}

\* The number of parts fits its type; with several of them each but the last
\* is full, the last is not empty, and within the contract nothing is left.
LEMMA CountFacts ==
  ASSUME NEW m \in Messages
  PROVE  /\ Count(m) \in 0 .. PartWidth - 1
         /\ Count(m) > 1 => (Count(m) - 1) * ConcatMax < m.len
         /\ Count(m) > 1 /\ Documented(m) => m.len <= Count(m) * ConcatMax
         /\ Documented(m) /\ m.valid => Sendable(m)
<1> DEFINE q == (m.len + ConcatMax - 1) \div ConcatMax
<1>0. /\ m.len \in Nat /\ ConcatMax \in Nat \ {0} /\ SingleMax \in Nat /\ ConcatMax <= SingleMax
      /\ MaxParts \in Nat /\ PartWidth \in Nat /\ MaxParts < PartWidth
  BY SplitAssumption, MessagesAssumption
<1>1. CASE m.len <= SingleMax
  <2>1. Count(m) = 1
    BY <1>1 DEF Count, at_gsm_part_count
  <2>2. MaxParts # 0
    BY <1>0, SplitAssumption
  <2> QED
    BY <1>0, <1>1, <2>1, <2>2 DEF Sendable
<1>2. CASE m.len > SingleMax
  <2>1. Count(m) = q % PartWidth
    BY <1>0, <1>2 DEF Count, at_gsm_part_count
  <2>2. q \in Nat /\ m.len <= q * ConcatMax /\ (q - 1) * ConcatMax < m.len
    <3>1. m.len \in Nat \ {0}
      BY <1>0, <1>2
    <3> QED  BY <1>0, <3>1, Ceiling
  <2>3. Count(m) \in 0 .. PartWidth - 1 /\ Count(m) <= q /\ (q < PartWidth => Count(m) = q)
    <3> HIDE DEF q
    <3>1. PartWidth \in Nat \ {0}
      BY <1>0
    <3> QED  BY <2>1, <2>2, <3>1, Wrapped
  <2>4. (Count(m) - 1) * ConcatMax <= (q - 1) * ConcatMax
    <3> HIDE DEF q
    <3> QED  BY <1>0, <2>2, <2>3, Monotone
  <2>5. (Count(m) - 1) * ConcatMax < m.len
    <3> HIDE DEF q
    <3>1. (Count(m) - 1) * ConcatMax \in Int /\ (q - 1) * ConcatMax \in Int
      BY <1>0, <2>2, <2>3
    <3> QED  BY <1>0, <2>2, <2>4, <3>1
  <2>6. ASSUME Documented(m) PROVE Count(m) = q /\ q > 1
    <3> HIDE DEF q
    <3>1. q <= MaxParts
      <4>1. SUFFICES ASSUME MaxParts + 1 <= q PROVE FALSE
        BY <1>0, <2>2
      <4>2. MaxParts * ConcatMax <= (q - 1) * ConcatMax
        BY <1>0, <2>2, <4>1, Monotone
      <4>3. m.len <= MaxParts * ConcatMax
        BY <2>6 DEF Documented
      <4>4. MaxParts * ConcatMax \in Int /\ (q - 1) * ConcatMax \in Int
        BY <1>0, <2>2
      <4> QED  BY <1>0, <2>2, <4>2, <4>3, <4>4
    <3>2. q > 1
      <4>1. SUFFICES ASSUME q <= 1 PROVE FALSE
        BY <2>2
      <4>2. q * ConcatMax <= 1 * ConcatMax
        BY <1>0, <2>2, <4>1, Monotone
      <4>3. 1 * ConcatMax = ConcatMax /\ q * ConcatMax \in Int
        BY <1>0, <2>2
      <4> QED  BY <1>0, <1>2, <2>2, <4>2, <4>3
    <3> QED  BY <1>0, <2>2, <2>3, <3>1, <3>2
  <2> QED
    <3> HIDE DEF q
    <3> QED  BY <1>0, <2>2, <2>3, <2>5, <2>6 DEF Sendable
<1> QED  BY <1>0, <1>1, <1>2

\* A part carries its message, the number of parts and its own number, is not
\* longer than one part may be, begins where the one before it ends, and the
\* last one ends where the text ends.
LEMMA PartFacts ==
  ASSUME NEW m \in Messages, Sendable(m), NEW k \in 1 .. Count(m)
  PROVE  /\ PartAt(m, k).m = m /\ PartAt(m, k).total = Count(m) /\ PartAt(m, k).part = k
         /\ PartAt(m, k).to - PartAt(m, k).from \in 0 .. SingleMax
         /\ k = 1 => PartAt(m, k).from = 0
         /\ k # 1 => PartAt(m, k - 1).to = PartAt(m, k).from
         /\ Documented(m) /\ k = Count(m) => PartAt(m, k).to = m.len
<1>0. /\ m.len \in Nat /\ ConcatMax \in Nat \ {0} /\ SingleMax \in Nat /\ ConcatMax <= SingleMax
      /\ Count(m) \in Nat
  BY SplitAssumption, MessagesAssumption, CountFacts
<1>1. CASE Count(m) = 1
  BY <1>0, <1>1 DEF Sendable, PartAt, WholeText
<1>2. CASE Count(m) > 1
  <2>1. (k - 1) * ConcatMax \in Nat /\ (k - 2) * ConcatMax \in Int /\ (Count(m) - 1) * ConcatMax \in Int
    BY <1>0, <1>2
  <2>2. (k - 1) * ConcatMax < m.len
    <3>1. (k - 1) * ConcatMax <= (Count(m) - 1) * ConcatMax
      BY <1>0, Monotone
    <3> QED  BY <1>0, <1>2, <2>1, <3>1, CountFacts
  <2>3. (k - 1) * ConcatMax = ((k - 2) * ConcatMax) + ConcatMax
    BY <1>0
  <2>4. ASSUME Documented(m), k = Count(m)
        PROVE  m.len - ((k - 1) * ConcatMax) <= ConcatMax
    <3>1. k * ConcatMax = ((k - 1) * ConcatMax) + ConcatMax
      BY <1>0
    <3>2. m.len <= k * ConcatMax
      BY <1>2, <2>4, CountFacts
    <3> QED  BY <1>0, <2>1, <3>1, <3>2
  <2>5. \A i \in 1 .. Count(m) :
          PartAt(m, i) = [m |-> m, total |-> Count(m), part |-> i, from |-> (i - 1) * ConcatMax,
                          to |-> ((i - 1) * ConcatMax) + Lesser(m.len - ((i - 1) * ConcatMax), ConcatMax)]
    BY <1>0, <1>2 DEF PartAt, Part, Offset
  <2>6. /\ PartAt(m, k).m = m /\ PartAt(m, k).total = Count(m) /\ PartAt(m, k).part = k
        /\ PartAt(m, k).from = (k - 1) * ConcatMax
        /\ PartAt(m, k).to = ((k - 1) * ConcatMax) + Lesser(m.len - ((k - 1) * ConcatMax), ConcatMax)
    BY <2>5
  <2>7. k # 1 => PartAt(m, k - 1).to = ((k - 2) * ConcatMax) + Lesser(m.len - ((k - 2) * ConcatMax), ConcatMax)
    <3>1. SUFFICES ASSUME k # 1 PROVE k - 1 \in 1 .. Count(m) /\ (k - 1) - 1 = k - 2
      BY <2>5
    <3> QED  BY <1>0, <3>1
  <2>8. PartAt(m, k).to - PartAt(m, k).from \in 0 .. SingleMax
    BY <1>0, <2>1, <2>2, <2>6 DEF Lesser
  <2>9. k # 1 => PartAt(m, k - 1).to = PartAt(m, k).from
    BY <1>0, <2>1, <2>2, <2>3, <2>6, <2>7 DEF Lesser
  <2>10. Documented(m) /\ k = Count(m) => PartAt(m, k).to = m.len
    BY <1>0, <2>1, <2>2, <2>4, <2>6 DEF Lesser
  <2>11. k = 1 => PartAt(m, k).from = 0
    BY <1>0, <2>6
  <2> QED  BY <2>6, <2>8, <2>9, <2>10, <2>11
<1> QED  BY <1>0, <1>1, <1>2

\* All parts of a message within the contract make up its text.
LEMMA WholeMakesUp ==
  ASSUME NEW m \in Messages, Documented(m), Sendable(m)
  PROVE  MakesUp(PartsOf(m), m)
<1>1. Sendable(m) /\ Count(m) \in Nat /\ Count(m) >= 1
  BY CountFacts DEF Sendable
<1>2. PartsOf(m) = {PartAt(m, k) : k \in 1 .. Count(m)}
  BY <1>1 DEF PartsOf
<1>3. Count(m) \in {p.total : p \in PartsOf(m)}
  BY <1>1, <1>2, PartFacts
<1>4. \A k \in 1 .. Count(m) : \E p \in PartsOf(m) : p.total = Count(m) /\ p.part = k
  BY <1>1, <1>2, PartFacts
<1>5. ASSUME NEW p \in PartsOf(m)
      PROVE  /\ p.part \in 1 .. Count(m)
             /\ IF p.part = 1 THEN p.from = 0
                ELSE \E q \in PartsOf(m) : q.part = p.part - 1 /\ q.to = p.from
             /\ p.part = Count(m) => p.to = m.len
  <2>1. PICK k \in 1 .. Count(m) : p = PartAt(m, k)
    BY <1>2
  <2>2. k # 1 => PartAt(m, k - 1) \in PartsOf(m) /\ PartAt(m, k - 1).part = k - 1
    <3>1. k # 1 => k - 1 \in 1 .. Count(m)
      BY <1>1
    <3> QED  BY <1>1, <1>2, <3>1, PartFacts
  <2> QED  BY <1>1, <2>1, <2>2, PartFacts
<1> QED  BY <1>3, <1>4, <1>5 DEF MakesUp

\* What makes up a text has its last part.
LEMMA MakesUpHasLast ==
  ASSUME NEW m \in Messages, NEW parts \in SUBSET PartsOf(m), MakesUp(parts, m)
  PROVE  Sendable(m) /\ PartAt(m, Count(m)) \in parts
<1>1. PICK total \in {p.total : p \in parts} :
        \A k \in 1 .. total : \E p \in parts : p.total = total /\ p.part = k
  BY DEF MakesUp
<1>2. Sendable(m)
  BY <1>1 DEF PartsOf
<1>3. Count(m) \in 1 .. Count(m)
  BY <1>2, CountFacts DEF Sendable
<1>4. \A p \in parts : \E k \in 1 .. Count(m) : p = PartAt(m, k) /\ p.total = Count(m) /\ p.part = k
  BY <1>2, PartFacts DEF PartsOf
<1>5. total = Count(m)
  BY <1>1, <1>4
<1> QED  BY <1>1, <1>2, <1>3, <1>4, <1>5

\* Parts of a message are assembled when they are all of them.
LEMMA AssembledIsWhole ==
  ASSUME NEW m \in Messages, NEW parts \in SUBSET PartsOf(m)
  PROVE  Assembled(parts) <=> Sendable(m) /\ parts = PartsOf(m)
<1>1. ASSUME Sendable(m)
      PROVE  /\ 1 \in 1 .. Count(m) /\ PartsOf(m) = {PartAt(m, k) : k \in 1 .. Count(m)}
             /\ \A p \in PartsOf(m) : p.total = Count(m) /\ p.part \in 1 .. Count(m) /\ p = PartAt(m, p.part)
             /\ \A k \in 1 .. Count(m) : PartAt(m, k).part = k
  <2>1. 1 \in 1 .. Count(m) /\ PartsOf(m) = {PartAt(m, k) : k \in 1 .. Count(m)}
    BY <1>1, CountFacts DEF Sendable, PartsOf
  <2> QED  BY <1>1, <2>1, PartFacts
<1>2. ASSUME Sendable(m), parts = PartsOf(m) PROVE Assembled(parts)
  <2>1. {p.total : p \in parts} # {}
    BY <1>1, <1>2
  <2>2. {q.part : q \in parts} = 1 .. Count(m)
    BY <1>1, <1>2
  <2> QED  BY <1>1, <1>2, <2>1, <2>2 DEF Assembled
<1>3. ASSUME Assembled(parts) PROVE Sendable(m) /\ parts = PartsOf(m)
  <2>1. PICK p \in parts : TRUE
    BY <1>3 DEF Assembled
  <2>2. Sendable(m)
    BY <2>1 DEF PartsOf
  <2>3. {q.part : q \in parts} = 1 .. Count(m)
    BY <1>1, <1>3, <2>1, <2>2 DEF Assembled
  <2>4. \A k \in 1 .. Count(m) : PartAt(m, k) \in parts
    BY <1>1, <2>2, <2>3
  <2> QED  BY <1>1, <2>2, <2>4
<1> QED  BY <1>2, <1>3

-----------------------------------------------------------------------------
(* The inductive invariant.                                                *)

AllParts == UNION {PartsOf(m) : m \in Messages}
Calls ==
  {c \in [m : Messages, n : Nat, i : Nat] :
     c.m.valid /\ c.n = Count(c.m) /\ c.n > 1 /\ c.i <= c.n}

LongType ==
  /\ queue \in Seq(AllParts \cup {NoPart}) /\ Len(queue) <= Depth
  /\ call \in Calls \cup {NoCall}
  /\ returned \in [Messages -> {"none", "AT_OK", "AT_ERR_BUSY", "AT_ERR_PARAM"}]
  /\ queued \in [Messages -> SUBSET AllParts] /\ taken \in [Messages -> SUBSET AllParts]
  /\ \A m \in Messages : queued[m] \subseteq PartsOf(m) /\ taken[m] \subseteq queued[m]

\* A part in the queue has been recorded.
QueueInv == \A k \in 1 .. Len(queue) : queue[k] # NoPart => queue[k] \in queued[queue[k].m]

\* The loop has queued the parts before the next one, and its message has not
\* been sent before.
LoopInv ==
  call # NoCall =>
    /\ \A k \in 1 .. call.i : PartAt(call.m, k) \in queued[call.m]
    /\ returned[call.m] \in {"none", "AT_ERR_BUSY"}

OkInv == \A m \in Messages : returned[m] = "AT_OK" => Sendable(m) /\ queued[m] = PartsOf(m)

\* The last part is queued only by a call that returns AT_OK.
LastInv ==
  \A m \in Messages :
    Sendable(m) /\ PartAt(m, Count(m)) \in queued[m] =>
      returned[m] = "AT_OK" \/ (InProgress(m) /\ call.i = call.n)

SmsInv == LongType /\ QueueInv /\ LoopInv /\ OkInv /\ LastInv

LEMMA InvInit == Init => SmsInv
<1> SUFFICES ASSUME Init PROVE SmsInv
  OBVIOUS
<1>1. LongType
  BY DepthAssumption DEF Init, LongType
<1>2. QueueInv /\ LoopInv /\ OkInv /\ LastInv
  BY DEF Init, QueueInv, LoopInv, OkInv, LastInv
<1> QED  BY <1>1, <1>2 DEF SmsInv

\* A part put into a queue with room keeps what concerns the queue.
LEMMA EnqueueKeeps ==
  ASSUME SmsInv, ~Full, NEW m \in Messages, NEW p \in PartsOf(m), p.m = m, Enqueue(p)
  PROVE  /\ queue' \in Seq(AllParts \cup {NoPart}) /\ Len(queue') <= Depth
         /\ queued' = [queued EXCEPT ![m] = @ \cup {p}]
         /\ queued' \in [Messages -> SUBSET AllParts]
         /\ \A k \in Messages : queued'[k] \subseteq PartsOf(k) /\ queued[k] \subseteq queued'[k]
         /\ QueueInv'
<1>0. LongType /\ QueueInv /\ Depth \in Nat
  BY DepthAssumption DEF SmsInv
<1>1. p \in AllParts
  BY DEF AllParts
<1>2. queue' = Append(queue, p) /\ queued' = [queued EXCEPT ![m] = @ \cup {p}]
  BY DEF Enqueue
<1>3. queue' \in Seq(AllParts \cup {NoPart}) /\ Len(queue') <= Depth
  BY <1>0, <1>1, <1>2 DEF LongType, Full
<1>4. /\ queued' \in [Messages -> SUBSET AllParts]
      /\ \A k \in Messages : queued'[k] \subseteq PartsOf(k) /\ queued[k] \subseteq queued'[k]
  BY <1>0, <1>1, <1>2 DEF LongType
<1>5. QueueInv'
  <2>1. SUFFICES ASSUME NEW k \in 1 .. Len(queue'), queue'[k] # NoPart
                 PROVE  queue'[k] \in queued'[queue'[k].m]
    BY DEF QueueInv
  <2>2. CASE k = Len(queue) + 1
    BY <1>0, <1>2, <2>2 DEF LongType
  <2>3. CASE k \in 1 .. Len(queue)
    <3>1. queue'[k] = queue[k]
      BY <1>0, <1>2, <2>3 DEF LongType
    <3>2. queue[k] \in AllParts /\ queue[k] \in queued[queue[k].m]
      BY <1>0, <2>1, <2>3, <3>1 DEF LongType, QueueInv
    <3>3. queue[k].m \in Messages
      <4>1. PICK n \in Messages : queue[k] \in PartsOf(n)
        BY <3>2 DEF AllParts
      <4> QED  BY <4>1, PartFacts DEF PartsOf
    <3> QED  BY <1>4, <3>1, <3>2, <3>3
  <2> QED  BY <1>0, <1>2, <2>2, <2>3 DEF LongType
<1> QED  BY <1>2, <1>3, <1>4, <1>5

LEMMA InvSendLong ==
  ASSUME SmsInv, NEW m \in Messages, at_gsm_send_long(m)
  PROVE  SmsInv'
<1>0. LongType /\ QueueInv /\ LoopInv /\ OkInv /\ LastInv /\ call = NoCall /\ taken' = taken
      /\ returned[m] \in {"none", "AT_ERR_BUSY"}
  BY DEF SmsInv, at_gsm_send_long
<1>1. CASE /\ Return(m, "AT_ERR_PARAM") /\ UNCHANGED <<queue, call, queued>>
           /\ ~m.valid \/ Count(m) = 0 \/ (Count(m) = 1 /\ m.len > SingleMax)
  <2>1. ~Sendable(m)
    BY <1>1, MessagesAssumption, SplitAssumption DEF Sendable
  <2> QED  BY <1>0, <1>1, <2>1 DEF Return, SmsInv, LongType, QueueInv, LoopInv, OkInv, LastInv, InProgress
<1>2. CASE Return(m, "AT_ERR_BUSY") /\ UNCHANGED <<queue, call, queued>>
  BY <1>0, <1>2 DEF Return, SmsInv, LongType, QueueInv, LoopInv, OkInv, LastInv, InProgress
<1>3. CASE /\ m.valid /\ Count(m) = 1 /\ m.len <= SingleMax /\ ~Full
           /\ Enqueue(WholeText(m)) /\ Return(m, "AT_OK") /\ UNCHANGED call
  <2>1. Sendable(m) /\ WholeText(m) = PartAt(m, 1) /\ PartsOf(m) = {WholeText(m)} /\ WholeText(m).m = m
    <3>1. Sendable(m) /\ WholeText(m) = PartAt(m, 1) /\ WholeText(m).m = m
      BY <1>3 DEF Sendable, PartAt, WholeText
    <3>2. 1 .. Count(m) = {1}
      BY <1>3
    <3> QED  BY <3>1, <3>2 DEF PartsOf
  <2>2. /\ queue' \in Seq(AllParts \cup {NoPart}) /\ Len(queue') <= Depth
        /\ queued' = [queued EXCEPT ![m] = @ \cup {WholeText(m)}]
        /\ queued' \in [Messages -> SUBSET AllParts]
        /\ \A k \in Messages : queued'[k] \subseteq PartsOf(k) /\ queued[k] \subseteq queued'[k]
        /\ QueueInv'
    BY <1>3, <2>1, EnqueueKeeps
  <2>3. returned' = [returned EXCEPT ![m] = "AT_OK"]
    BY <1>3 DEF Return
  <2>4. LongType'
    BY <1>0, <1>3, <2>2, <2>3 DEF LongType
  <2>5. LoopInv'
    BY <1>0, <1>3 DEF LoopInv
  <2>6. queued'[m] = PartsOf(m) /\ \A k \in Messages \ {m} : queued'[k] = queued[k] /\ returned'[k] = returned[k]
    BY <1>0, <2>1, <2>2, <2>3 DEF LongType
  <2>7. OkInv'
    BY <1>0, <2>1, <2>6 DEF OkInv
  <2>8. LastInv'
    BY <1>0, <1>3, <2>3, <2>6 DEF LastInv, LongType, InProgress
  <2> QED  BY <2>2, <2>4, <2>5, <2>7, <2>8 DEF SmsInv
<1>4. CASE /\ m.valid /\ Count(m) > 1
           /\ call' = [m |-> m, n |-> Count(m), i |-> 0] /\ UNCHANGED <<queue, returned, queued>>
  <2>1. call' \in Calls /\ call' # NoCall /\ call'.m = m /\ call'.i = 0
    BY <1>4, CountFacts DEF Calls, NoCall
  <2>2. LongType' /\ QueueInv' /\ OkInv'
    BY <1>0, <1>4, <2>1 DEF LongType, QueueInv, OkInv
  <2>3. LoopInv'
    BY <1>0, <1>4, <2>1 DEF LoopInv
  <2>4. LastInv'
    BY <1>0, <1>4 DEF LastInv, InProgress
  <2> QED  BY <2>2, <2>3, <2>4 DEF SmsInv
<1> QED  BY <1>1, <1>2, <1>3, <1>4 DEF at_gsm_send_long, Count

LEMMA InvPart ==
  ASSUME SmsInv, send_concat_part
  PROVE  SmsInv'
<1> DEFINE m == call.m
           k == call.i + 1
<1>0. LongType /\ QueueInv /\ LoopInv /\ OkInv /\ LastInv /\ call.i < call.n /\ taken' = taken
  BY DEF SmsInv, send_concat_part
<1>1. call \in Calls /\ call # NoCall
  BY <1>0 DEF LongType, NoCall
<1>2. /\ m \in Messages /\ call.n = Count(m) /\ Count(m) > 1 /\ call.i \in Nat
      /\ Count(m) \in Nat /\ Sendable(m) /\ k \in 1 .. Count(m)
  BY <1>0, <1>1 DEF Calls, Sendable
<1>3. returned[m] \in {"none", "AT_ERR_BUSY"}
  BY <1>0, <1>1 DEF LoopInv
<1>4. CASE Full
  <2>1. /\ call' = NoCall /\ returned' = [returned EXCEPT ![m] = "AT_ERR_BUSY"]
        /\ queue' = queue /\ queued' = queued
    BY <1>4 DEF send_concat_part, GivesUp, Return
  <2>2. LongType' /\ QueueInv' /\ LoopInv' /\ OkInv'
    BY <1>0, <2>1 DEF LongType, QueueInv, LoopInv, OkInv
  <2>3. LastInv'
    BY <1>0, <1>1, <1>2, <1>3, <2>1 DEF LastInv, InProgress, LongType
  <2> QED  BY <2>2, <2>3 DEF SmsInv
<1>5. CASE ~Full
  <2> DEFINE p == PartAt(m, k)
  <2>1. Part(m, call.n, call.i) = p
    BY <1>2 DEF PartAt
  <2>2. p \in PartsOf(m) /\ p.m = m
    BY <1>2, PartFacts DEF PartsOf
  <2>3. call' = [call EXCEPT !.i = @ + 1] /\ returned' = returned /\ Enqueue(p)
    BY <1>5, <2>1 DEF send_concat_part, GivesUp
  <2>4. /\ queue' \in Seq(AllParts \cup {NoPart}) /\ Len(queue') <= Depth
        /\ queued' = [queued EXCEPT ![m] = @ \cup {p}]
        /\ queued' \in [Messages -> SUBSET AllParts]
        /\ \A j \in Messages : queued'[j] \subseteq PartsOf(j) /\ queued[j] \subseteq queued'[j]
        /\ QueueInv'
    BY <1>2, <1>5, <2>2, <2>3, EnqueueKeeps
  <2>5. call' \in Calls /\ call'.m = m /\ call'.n = call.n /\ call'.i = k /\ call' # NoCall
    BY <1>1, <1>2, <2>3 DEF Calls, NoCall
  <2>6. LongType'
    BY <1>0, <2>3, <2>4, <2>5 DEF LongType
  <2>7. p \in queued'[m] /\ \A j \in Messages \ {m} : queued'[j] = queued[j]
    BY <1>0, <1>2, <2>4 DEF LongType
  <2>8. LoopInv'
    <3>1. \A j \in 1 .. call'.i : j = k \/ j \in 1 .. call.i
      BY <1>2, <2>5
    <3> QED  BY <1>0, <1>1, <1>2, <1>3, <2>3, <2>4, <2>5, <2>7, <3>1 DEF LoopInv
  <2>9. OkInv'
    <3>1. SUFFICES ASSUME NEW j \in Messages, returned[j] = "AT_OK"
                   PROVE  Sendable(j) /\ queued'[j] = PartsOf(j)
      BY <2>3 DEF OkInv
    <3> QED  BY <1>0, <1>3, <2>7, <3>1 DEF OkInv
  <2>10. LastInv'
    <3>1. SUFFICES ASSUME NEW j \in Messages, Sendable(j), PartAt(j, Count(j)) \in queued'[j],
                          returned[j] # "AT_OK"
                   PROVE  call' # NoCall /\ call'.m = j /\ call'.i = call'.n
      BY <2>3 DEF LastInv, InProgress
    <3>2. CASE j # m
      BY <1>0, <2>7, <3>1, <3>2 DEF LastInv, InProgress
    <3>3. CASE j = m
      <4>1. Count(m) \in 1 .. Count(m) /\ PartAt(m, Count(m)).part = Count(m) /\ p.part = k
        BY <1>2, PartFacts
      <4>2. PartAt(m, Count(m)) \notin queued[m]
        BY <1>0, <1>2, <3>1, <3>3 DEF LastInv
      <4>3. PartAt(m, Count(m)) = p
        BY <1>0, <1>2, <2>4, <3>1, <3>3, <4>2 DEF LongType
      <4> QED  BY <1>2, <2>5, <3>3, <4>1, <4>3
    <3> QED  BY <3>2, <3>3
  <2> QED  BY <2>4, <2>6, <2>8, <2>9, <2>10 DEF SmsInv
<1> QED  BY <1>4, <1>5

LEMMA InvReturn ==
  ASSUME SmsInv, send_long_return
  PROVE  SmsInv'
<1> DEFINE m == call.m
<1>0. /\ LongType /\ QueueInv /\ LoopInv /\ OkInv /\ LastInv /\ call # NoCall /\ call.i = call.n
      /\ UNCHANGED <<queue, queued, taken>> /\ call' = NoCall
      /\ returned' = [returned EXCEPT ![m] = "AT_OK"]
  BY DEF SmsInv, send_long_return, Return
<1>1. m \in Messages /\ call.n = Count(m) /\ Count(m) > 1 /\ Sendable(m)
  BY <1>0 DEF LongType, Calls, Sendable
<1>2. queued[m] = PartsOf(m)
  BY <1>0, <1>1 DEF LoopInv, LongType, PartsOf
<1>3. LongType' /\ QueueInv' /\ LoopInv'
  BY <1>0 DEF LongType, QueueInv, LoopInv
<1>4. OkInv'
  BY <1>0, <1>1, <1>2 DEF LongType, OkInv
<1>5. LastInv'
  BY <1>0, <1>1 DEF LongType, LastInv, InProgress
<1> QED  BY <1>3, <1>4, <1>5 DEF SmsInv

LEMMA InvOtherSend ==
  ASSUME SmsInv, at_send
  PROVE  SmsInv'
<1>0. /\ LongType /\ QueueInv /\ LoopInv /\ OkInv /\ LastInv /\ ~Full
      /\ queue' = Append(queue, NoPart) /\ UNCHANGED <<call, returned, queued, taken>>
  BY DEF SmsInv, at_send
<1>1. queue' \in Seq(AllParts \cup {NoPart}) /\ Len(queue') <= Depth
  BY <1>0, DepthAssumption DEF LongType, Full
<1>2. LongType' /\ LoopInv' /\ OkInv' /\ LastInv'
  BY <1>0, <1>1 DEF LongType, LoopInv, OkInv, LastInv, InProgress
<1>3. QueueInv'
  <2>1. SUFFICES ASSUME NEW k \in 1 .. Len(queue'), queue'[k] # NoPart
                 PROVE  k \in 1 .. Len(queue) /\ queue'[k] = queue[k]
    BY <1>0 DEF QueueInv
  <2> QED  BY <1>0, <2>1 DEF LongType
<1> QED  BY <1>2, <1>3 DEF SmsInv

\* What leaves the queue as a part belongs to a message and was recorded for it.
LEMMA HeadOfQueue ==
  ASSUME SmsInv, queue # <<>>, Head(queue) # NoPart
  PROVE  Head(queue).m \in Messages /\ Head(queue) \in queued[Head(queue).m]
<1>1. Head(queue) \in AllParts /\ Head(queue) \in queued[Head(queue).m]
  BY DEF SmsInv, LongType, QueueInv
<1>2. PICK n \in Messages : Head(queue) \in PartsOf(n)
  BY <1>1 DEF AllParts
<1> QED  BY <1>1, <1>2, PartFacts DEF PartsOf

LEMMA InvComplete ==
  ASSUME SmsInv, Complete
  PROVE  SmsInv'
<1>0. /\ LongType /\ QueueInv /\ LoopInv /\ OkInv /\ LastInv
      /\ queue # <<>> /\ queue' = Tail(queue) /\ UNCHANGED <<call, returned, queued>>
  BY DEF SmsInv, Complete
<1>1. queue' \in Seq(AllParts \cup {NoPart}) /\ Len(queue') <= Depth
  BY <1>0, DepthAssumption DEF LongType
<1>2. /\ taken' \in [Messages -> SUBSET AllParts]
      /\ \A m \in Messages : taken'[m] \subseteq queued[m]
  <2>1. CASE taken' = taken
    BY <1>0, <2>1 DEF LongType
  <2>2. CASE Head(queue) # NoPart /\ taken' = [taken EXCEPT ![Head(queue).m] = @ \cup {Head(queue)}]
    BY <1>0, <2>2, HeadOfQueue DEF LongType
  <2> QED  BY <2>1, <2>2 DEF Complete
<1>3. LongType' /\ LoopInv' /\ OkInv' /\ LastInv'
  BY <1>0, <1>1, <1>2 DEF LongType, LoopInv, OkInv, LastInv, InProgress
<1>4. QueueInv'
  BY <1>0 DEF LongType, QueueInv
<1> QED  BY <1>3, <1>4 DEF SmsInv

\* The invariant holds of every behaviour: the queue is typed and bounded, the
\* loop never skips or repeats a part, and the last part is queued only by a
\* call that returns AT_OK.
THEOREM SmsInductive == Spec => []SmsInv
<1>1. Init => SmsInv
  BY InvInit
<1>2. SmsInv /\ [Next]_vars => SmsInv'
  <2> SUFFICES ASSUME SmsInv, [Next]_vars PROVE SmsInv'
    OBVIOUS
  <2>1. ASSUME NEW m \in Messages, at_gsm_send_long(m) PROVE SmsInv'
    BY <2>1, InvSendLong
  <2>2. CASE send_concat_part
    BY <2>2, InvPart
  <2>3. CASE send_long_return
    BY <2>3, InvReturn
  <2>4. CASE at_send
    BY <2>4, InvOtherSend
  <2>5. CASE Complete
    BY <2>5, InvComplete
  <2>6. CASE UNCHANGED vars
    BY <2>6 DEF vars, SmsInv, LongType, QueueInv, LoopInv, OkInv, LastInv, InProgress
  <2> QED  BY <2>1, <2>2, <2>3, <2>4, <2>5, <2>6 DEF Next
<1> QED  BY <1>1, <1>2, PTL DEF Spec

-----------------------------------------------------------------------------
(* What follows from it.                                                   *)

\* The queue never holds more than its depth, no part is longer than one may
\* be, its number is within the count, and the modem takes no part that was not
\* queued.
THEOREM TypeCorrect == Spec => []TypeOK
<1>1. SmsInv => TypeOK
  <2> SUFFICES ASSUME SmsInv PROVE TypeOK
    OBVIOUS
  <2>1. call.n \in 0 .. PartWidth - 1 /\ call.i \in 0 .. call.n
    <3>1. CASE call = NoCall
      BY <3>1, SplitAssumption DEF NoCall
    <3>2. CASE call \in Calls
      BY <3>2, CountFacts DEF Calls
    <3> QED  BY <3>1, <3>2 DEF SmsInv, LongType
  <2>2. ASSUME NEW m \in Messages, NEW p \in queued[m]
        PROVE  p.part \in 1 .. p.total /\ p.to - p.from \in 0 .. SingleMax
    <3>1. PICK k \in 1 .. Count(m) : Sendable(m) /\ p = PartAt(m, k)
      BY DEF SmsInv, LongType, PartsOf
    <3> QED  BY <3>1, PartFacts
  <2> QED  BY <2>1, <2>2 DEF SmsInv, LongType, TypeOK
<1> QED  BY <1>1, SmsInductive, PTL

\* AT_OK is returned only when parts have been queued that make up the text,
\* whatever at_send refused before and whoever used the queue in between.
THEOREM OkCorrect == Spec => []OkMeansAll
<1>1. SmsInv => OkMeansAll
  BY WholeMakesUp DEF SmsInv, OkInv, OkMeansAll
<1> QED  BY <1>1, SmsInductive, PTL

\* What a refused call has queued never completes its message.
THEOREM BusyCorrect == Spec => []BusyMeansPart
<1>1. SmsInv => BusyMeansPart
  <2> SUFFICES ASSUME SmsInv, NEW m \in Messages, returned[m] = "AT_ERR_BUSY", ~InProgress(m),
                      MakesUp(taken[m], m)
               PROVE  FALSE
    BY DEF BusyMeansPart
  <2>1. taken[m] \in SUBSET PartsOf(m) /\ taken[m] \subseteq queued[m]
    BY DEF SmsInv, LongType
  <2>2. Sendable(m) /\ PartAt(m, Count(m)) \in queued[m]
    BY <2>1, MakesUpHasLast
  <2> QED  BY <2>2 DEF SmsInv, LastInv
<1> QED  BY <1>1, SmsInductive, PTL

-----------------------------------------------------------------------------
(* SmsLong implements SmsOutbox.                                           *)

Docs == {m \in Messages : Documented(m) /\ Sendable(m)}
Accepted == {m \in Docs : queued[m] = PartsOf(m)}
Handed == {m \in Docs : taken[m] = PartsOf(m)}

\* What the refinement mapping makes of a state of the invariant.
LEMMA Mapping ==
  SmsInv =>
    /\ {m \in Messages : Documented(m) /\ Assembled(queued[m])} = Accepted
    /\ {HandedOver(m) : m \in {n \in Messages : Documented(n) /\ Assembled(taken[n])}} = Handed
<1> SUFFICES ASSUME SmsInv
             PROVE  /\ {m \in Messages : Documented(m) /\ Assembled(queued[m])} = Accepted
                    /\ {HandedOver(m) : m \in {n \in Messages : Documented(n) /\ Assembled(taken[n])}} = Handed
  OBVIOUS
<1>1. \A m \in Messages : queued[m] \in SUBSET PartsOf(m) /\ taken[m] \in SUBSET PartsOf(m)
                          /\ taken[m] \subseteq queued[m]
  BY DEF SmsInv, LongType
<1>2. \A m \in Messages : /\ Assembled(queued[m]) <=> Sendable(m) /\ queued[m] = PartsOf(m)
                          /\ Assembled(taken[m]) <=> Sendable(m) /\ taken[m] = PartsOf(m)
  BY <1>1, AssembledIsWhole
<1>3. \A m \in Docs : taken[m] = PartsOf(m) => HandedOver(m) = m
  BY WholeMakesUp DEF Docs, HandedOver
<1>4. {n \in Messages : Documented(n) /\ Assembled(taken[n])} = Handed
  BY <1>2 DEF Docs, Handed
<1>5. \A m \in Handed : HandedOver(m) = m
  BY <1>3 DEF Handed
<1>6. {HandedOver(m) : m \in Handed} = Handed
  BY <1>5
<1>7. {m \in Messages : Documented(m) /\ Assembled(queued[m])} = Accepted
  BY <1>2 DEF Docs, Accepted
<1> QED  BY <1>4, <1>6, <1>7

\* A step that records parts of one message accepts it or stutters.
LEMMA RecordStep ==
  ASSUME SmsInv, SmsInv', taken' = taken, NEW m \in Messages, queued[m] \subseteq queued'[m],
         \A k \in Messages \ {m} : queued'[k] = queued[k]
  PROVE  /\ Handed' = Handed
         /\ \/ Accepted' = Accepted
            \/ m \in Docs \ Accepted /\ Accepted' = Accepted \cup {m}
<1>1. queued'[m] \subseteq PartsOf(m)
  BY DEF SmsInv, LongType
<1>2. queued[m] = PartsOf(m) => queued'[m] = PartsOf(m)
  BY <1>1
<1> QED  BY <1>2 DEF Docs, Accepted, Handed

\* A step that hands over parts of one message completes it or stutters.
LEMMA HandStep ==
  ASSUME SmsInv, SmsInv', queued' = queued, NEW m \in Messages, taken[m] \subseteq taken'[m],
         \A k \in Messages \ {m} : taken'[k] = taken[k]
  PROVE  /\ Accepted' = Accepted
         /\ \/ Handed' = Handed
            \/ m \in Accepted \ Handed /\ Handed' = Handed \cup {m}
<1>1. taken'[m] \subseteq queued[m] /\ queued[m] \subseteq PartsOf(m)
  BY DEF SmsInv, LongType
<1>2. taken[m] = PartsOf(m) => taken'[m] = PartsOf(m)
  BY <1>1
<1>3. taken'[m] = PartsOf(m) => queued[m] = PartsOf(m)
  BY <1>1
<1> QED  BY <1>2, <1>3 DEF Docs, Accepted, Handed

\* Each step accepts a message, hands one over, or leaves both sets as they are.
OutboxStep ==
  \/ Accepted' = Accepted /\ Handed' = Handed
  \/ \E m \in Docs :
       \/ m \notin Accepted /\ Accepted' = Accepted \cup {m} /\ Handed' = Handed
       \/ m \in Accepted \ Handed /\ Handed' = Handed \cup {m} /\ Accepted' = Accepted

LEMMA StepMaps ==
  ASSUME SmsInv, SmsInv', [Next]_vars
  PROVE  OutboxStep
<1>1. CASE queued' = queued /\ taken' = taken
  BY <1>1 DEF Docs, Accepted, Handed, OutboxStep
<1>2. ASSUME NEW p, NEW m \in Messages, p.m = m, Enqueue(p), taken' = taken PROVE OutboxStep
  <2>1. queued' = [queued EXCEPT ![m] = @ \cup {p}] /\ queued \in [Messages -> SUBSET AllParts]
    BY <1>2 DEF Enqueue, SmsInv, LongType
  <2>2. queued[m] \subseteq queued'[m] /\ \A k \in Messages \ {m} : queued'[k] = queued[k]
    BY <2>1
  <2> QED  BY <1>2, <2>2, RecordStep DEF OutboxStep
<1>3. ASSUME NEW m \in Messages, at_gsm_send_long(m) PROVE OutboxStep
  <2>1. CASE queued' = queued
    BY <1>1, <1>3, <2>1 DEF at_gsm_send_long
  <2>2. CASE Enqueue(WholeText(m))
    BY <1>2, <1>3, <2>2 DEF at_gsm_send_long, WholeText
  <2> QED  BY <1>3, <2>1, <2>2 DEF at_gsm_send_long
<1>4. CASE send_concat_part
  <2>1. CASE queued' = queued
    BY <1>1, <1>4, <2>1 DEF send_concat_part
  <2>2. CASE Enqueue(Part(call.m, call.n, call.i))
    <3>1. call.m \in Messages
      <4>1. call.i < call.n /\ call \in Calls \cup {NoCall}
        BY <1>4 DEF send_concat_part, SmsInv, LongType
      <4> QED  BY <4>1 DEF Calls, NoCall
    <3>2. Part(call.m, call.n, call.i).m = call.m /\ taken' = taken
      BY <1>4 DEF Part, send_concat_part
    <3> QED  BY <1>2, <2>2, <3>1, <3>2
  <2> QED  BY <1>4, <2>1, <2>2 DEF send_concat_part
<1>5. CASE Complete
  <2>1. CASE taken' = taken
    BY <1>1, <1>5, <2>1 DEF Complete
  <2>2. CASE /\ queue # <<>> /\ Head(queue) # NoPart
             /\ taken' = [taken EXCEPT ![Head(queue).m] = @ \cup {Head(queue)}]
    <3>1. Head(queue).m \in Messages
      BY <2>2, HeadOfQueue
    <3>2. taken \in [Messages -> SUBSET AllParts] /\ queued' = queued
      BY <1>5 DEF SmsInv, LongType, Complete
    <3>3. /\ taken[Head(queue).m] \subseteq taken'[Head(queue).m]
          /\ \A k \in Messages \ {Head(queue).m} : taken'[k] = taken[k]
      BY <2>2, <3>1, <3>2
    <3> QED  BY <3>1, <3>2, <3>3, HandStep DEF Accepted, OutboxStep
  <2> QED  BY <1>5, <2>1, <2>2 DEF Complete
<1>6. CASE send_long_return \/ at_send \/ UNCHANGED vars
  BY <1>1, <1>6 DEF send_long_return, at_send, vars
<1> QED  BY <1>3, <1>4, <1>5, <1>6 DEF Next

\* A message within the documented length is accepted with the part that
\* completes it, and what the modem takes as all parts of a reference are ranges
\* of an accepted message's text that make it up. What a receiver reads in the
\* parts is another matter.
THEOREM OutboxImplemented == Spec => ImplementsOutbox
<1>1. Init => Outbox!Init
  BY DEF Init, Outbox!Init, Assembled
<1>2. (SmsInv =>
         /\ {m \in Messages : Documented(m) /\ Assembled(queued[m])} = Accepted
         /\ {HandedOver(m) : m \in {n \in Messages : Documented(n) /\ Assembled(taken[n])}} = Handed)'
  BY Mapping, PTL
<1>3. SmsInv /\ SmsInv' /\ [Next]_vars =>
        [Outbox!Next]_<<{m \in Messages : Documented(m) /\ Assembled(queued[m])},
                        {HandedOver(m) : m \in {n \in Messages : Documented(n) /\ Assembled(taken[n])}}>>
  <2> SUFFICES ASSUME SmsInv, SmsInv', [Next]_vars
               PROVE  [Outbox!Next]_<<{m \in Messages : Documented(m) /\ Assembled(queued[m])},
                        {HandedOver(m) : m \in {n \in Messages : Documented(n) /\ Assembled(taken[n])}}>>
    OBVIOUS
  <2>1. /\ {m \in Messages : Documented(m) /\ Assembled(queued[m])} = Accepted
        /\ {HandedOver(m) : m \in {n \in Messages : Documented(n) /\ Assembled(taken[n])}} = Handed
    BY Mapping
  <2>2. /\ {m \in Messages : Documented(m) /\ Assembled(queued[m])}' = Accepted'
        /\ {HandedOver(m) : m \in {n \in Messages : Documented(n) /\ Assembled(taken[n])}}' = Handed'
    BY <1>2
  <2>3. Docs \subseteq {m \in Messages : Documented(m)}
    BY DEF Docs
  <2> QED  BY <2>1, <2>2, <2>3, StepMaps DEF OutboxStep, Outbox!Next, Outbox!Accept, Outbox!HandOver
<1> QED  BY <1>1, <1>3, SmsInductive, PTL DEF Spec, ImplementsOutbox, Outbox!Spec
=============================================================================

---------------------------- MODULE RxRingProofs ----------------------------
(***************************************************************************)
(* The receive ring for every size, every width of the indices that the    *)
(* size divides, and every interleaving of producer and consumer: types,   *)
(* the absence of races on the slots, and the FIFO it implements.          *)
(***************************************************************************)
EXTENDS RxRing, TLAPS

-----------------------------------------------------------------------------
(* Free-running indices.                                                   *)

LEMMA Sizes == Size \in Nat \ {0} /\ IdxMod \in Nat \ {0} /\ Size < IdxMod /\ IdxMod % Size = 0
  BY SizeAssumption

\* The distance from one index up to another.
Dist(h, t) == (h - t) % IdxMod
Succ(i) == (i + 1) % IdxMod

\* Quotient and remainder.
LEMMA Division ==
  ASSUME NEW x \in Nat, NEW s \in Nat \ {0}
  PROVE  x \div s \in Nat /\ x % s \in 0 .. s - 1 /\ x = ((x \div s) * s) + (x % s)
  OBVIOUS

\* They are the only ones.
LEMMA DivisionUnique ==
  ASSUME NEW x \in Nat, NEW s \in Nat \ {0}, NEW q \in Int, NEW r \in 0 .. s - 1, x = (q * s) + r
  PROVE  x % s = r
<1> DEFINE a == x \div s
           b == x % s
<1>1. a \in Nat /\ b \in 0 .. s - 1 /\ x = (a * s) + b
  BY Division
<1>2. (a - q) * s = r - b
  <2> HIDE DEF a, b
  <2> QED  BY <1>1
<1>3. PICK d \in Int : d = a - q
  BY <1>1
<1>4. d * s = r - b
  BY <1>2, <1>3
<1>5. d <= -1 \/ d = 0 \/ d >= 1
  OBVIOUS
<1>6. (d <= -1 => d * s <= -s) /\ (d >= 1 => d * s >= s) /\ (d = 0 => d * s = 0)
  OBVIOUS
<1>7. r = b
  <2> HIDE DEF a, b
  <2> QED  BY <1>1, <1>4, <1>5, <1>6
<1> QED  BY <1>7

\* The distance is the difference, or the difference across the wrap.
LEMMA DistIs ==
  ASSUME NEW h \in Indices, NEW t \in Indices
  PROVE  Dist(h, t) = IF h >= t THEN h - t ELSE (h - t) + IdxMod
<1>1. h \in Int /\ t \in Int /\ h - t < IdxMod /\ (h - t) + IdxMod < IdxMod + IdxMod /\ (h - t) + IdxMod > 0
  BY Sizes DEF Indices
<1>2. \A d \in 0 .. IdxMod - 1 : d % IdxMod = d
  BY Sizes
<1>3. ASSUME h < t PROVE (h - t) % IdxMod = (h - t) + IdxMod
  <2>1. \A d \in Int : d < 0 /\ d + IdxMod > 0 => d % IdxMod = d + IdxMod
    BY Sizes
  <2> QED  BY <1>1, <1>3, <2>1
<1> QED  BY <1>1, <1>2, <1>3, Sizes DEF Dist

LEMMA SuccIs ==
  ASSUME NEW i \in Indices
  PROVE  Succ(i) \in Indices /\ Succ(i) = IF i = IdxMod - 1 THEN 0 ELSE i + 1
<1>1. \A d \in 0 .. IdxMod - 1 : d % IdxMod = d
  BY Sizes
<1>2. IdxMod % IdxMod = 0
  BY Sizes
<1> QED  BY <1>1, <1>2, Sizes DEF Succ, Indices

\* One more byte is one more of distance, one less one less.
LEMMA DistSucc ==
  ASSUME NEW h \in Indices, NEW t \in Indices
  PROVE  /\ Dist(h, t) \in 0 .. IdxMod - 1 /\ (Dist(h, t) = 0 <=> h = t)
         /\ Dist(h, t) < IdxMod - 1 => Dist(Succ(h), t) = Dist(h, t) + 1
         /\ h # t => Dist(h, Succ(t)) = Dist(h, t) - 1
         /\ Dist(h, 0) = h
<1>1. Succ(h) \in Indices /\ Succ(t) \in Indices /\ 0 \in Indices
  BY SuccIs, Sizes DEF Indices
<1>2. /\ h \in Int /\ t \in Int /\ 0 <= h /\ h < IdxMod /\ 0 <= t /\ t < IdxMod
      /\ IdxMod \in Int /\ IdxMod > 1
  BY Sizes DEF Indices
<1>3. Dist(h, t) = IF h >= t THEN h - t ELSE (h - t) + IdxMod
  BY DistIs
<1>4. Dist(Succ(h), t) = IF Succ(h) >= t THEN Succ(h) - t ELSE (Succ(h) - t) + IdxMod
  BY <1>1, DistIs
<1>5. Dist(h, Succ(t)) = IF h >= Succ(t) THEN h - Succ(t) ELSE (h - Succ(t)) + IdxMod
  BY <1>1, DistIs
<1>6. Dist(h, 0) = IF h >= 0 THEN h - 0 ELSE (h - 0) + IdxMod
  BY <1>1, DistIs
<1>7. /\ Succ(h) = IF h = IdxMod - 1 THEN 0 ELSE h + 1
      /\ Succ(t) = IF t = IdxMod - 1 THEN 0 ELSE t + 1
  BY SuccIs
<1>8. Dist(h, t) \in 0 .. IdxMod - 1 /\ (Dist(h, t) = 0 <=> h = t) /\ Dist(h, 0) = h
  BY <1>2, <1>3, <1>6
<1>9. Dist(h, t) < IdxMod - 1 => Dist(Succ(h), t) = Dist(h, t) + 1
  BY <1>2, <1>3, <1>4, <1>7
<1>10. h # t => Dist(h, Succ(t)) = Dist(h, t) - 1
  BY <1>2, <1>3, <1>5, <1>7
<1> QED  BY <1>8, <1>9, <1>10

\* The size divides the number of indices: the slot of an index does not
\* depend on how often it wrapped.
LEMMA SlotWraps ==
  ASSUME NEW x \in Nat
  PROVE  Slot(x) \in Slots /\ Slot(x + IdxMod) = Slot(x)
<1>1. PICK q \in Nat : IdxMod = q * Size
  BY Sizes
<1>2. Slot(x) \in Slots
  BY Sizes DEF Slot, Slots
<1>3. (x + (q * Size)) % Size = x % Size
  <2>1. x % Size \in 0 .. Size - 1 /\ x = ((x \div Size) * Size) + (x % Size) /\ x \div Size \in Nat
    BY Division, Sizes
  <2>2. PICK a \in Nat, b \in 0 .. Size - 1 : a = x \div Size /\ b = x % Size
    BY <2>1
  <2>3. x + (q * Size) = ((a + q) * Size) + b /\ x + (q * Size) \in Nat
    BY <2>1, <2>2, Sizes
  <2>4. a + q \in Int /\ Size \in Nat \ {0}
    BY <2>2, Sizes
  <2>5. (x + (q * Size)) % Size = b
    BY <2>3, <2>4, DivisionUnique
  <2> QED  BY <2>2, <2>5
<1> QED  BY <1>1, <1>2, <1>3 DEF Slot

\* Indices less than a ring apart have different slots.
LEMMA SlotsDiffer ==
  ASSUME NEW x \in Nat, NEW y \in Nat, y < x, x < y + Size
  PROVE  Slot(x) # Slot(y)
<1>1. SUFFICES ASSUME x % Size = y % Size PROVE FALSE
  BY DEF Slot
<1>2. /\ x = ((x \div Size) * Size) + (x % Size) /\ y = ((y \div Size) * Size) + (y % Size)
      /\ x \div Size \in Nat /\ y \div Size \in Nat /\ x % Size \in Nat
  BY Division, Sizes
<1>3. PICK d \in Int : d = (x \div Size) - (y \div Size)
  BY <1>2
<1>4. x - y = d * Size
  BY <1>1, <1>2, <1>3, Sizes
<1>5. d <= 0 \/ d >= 1
  OBVIOUS
<1>6. d <= 0 => d * Size <= 0
  BY Sizes
<1>7. d >= 1 => d * Size >= Size
  BY Sizes
<1> QED  BY <1>4, <1>5, <1>6, <1>7, Sizes

-----------------------------------------------------------------------------
(* Types, for every use of the ring.                                       *)

LEMMA TypeStep == TypeOK /\ [Next]_vars => TypeOK'
<1> SUFFICES ASSUME TypeOK, [Next]_vars PROVE TypeOK'
  OBVIOUS
<1> USE DEF TypeOK
<1>1. 0 \in Indices /\ \A i \in Indices : (i + 1) % IdxMod \in Indices
  BY SuccIs, Sizes DEF Indices, Succ
<1>2. Slot(head) \in Slots /\ Slot(tail) \in Slots
  BY SlotWraps DEF Indices
<1>3. ASSUME NEW b \in Bytes, PushCheck(b) PROVE TypeOK'
  BY <1>3 DEF PushCheck, cvars
<1>4. CASE PushStore
  BY <1>2, <1>4 DEF PushStore, cvars
<1>5. CASE PushLoad
  BY <1>5 DEF PushLoad, cvars
<1>6. CASE PushPublish
  BY <1>1, <1>6 DEF PushPublish, cvars
<1>7. CASE PopCheck
  BY <1>7 DEF PopCheck, pvars
<1>8. CASE PopLoad
  BY <1>2, <1>8 DEF PopLoad, pvars
<1>9. CASE PopAdvance
  BY <1>1, <1>9 DEF PopAdvance, pvars
<1>10. CASE ResetBegin
  BY <1>1, <1>10 DEF ResetBegin, pvars
<1>11. CASE ResetEnd
  BY <1>1, <1>11 DEF ResetEnd, pvars
<1>12. CASE UNCHANGED vars
  BY <1>12 DEF vars, pvars, cvars
<1> QED
  BY <1>3, <1>4, <1>5, <1>6, <1>7, <1>8, <1>9, <1>10, <1>11, <1>12 DEF Next, Producer, Consumer

\* The indices stay in the range of their type, whoever writes them.
THEOREM TypeCorrect == Spec => []TypeOK
<1>1. Init => TypeOK
  <2>1. 0 \in Indices
    BY Sizes DEF Indices
  <2> QED  BY <2>1 DEF Init, TypeOK
<1> QED  BY <1>1, TypeStep, PTL DEF Spec

-----------------------------------------------------------------------------
(* The inductive invariant of a ring that is reset only between pushes.    *)

Zeroing == {"zeroTail", "zeroHead"}

\* How full the ring is: never more than its size, except that at_reset, once
\* it has zeroed one index, leaves the distance to what the other was; then
\* head counts the bytes pushed meanwhile.
Level ==
  /\ cpc \notin Zeroing => Dist(head, tail) <= Size
  /\ cpc = "zeroTail" => head = 0 \/ (head <= Dist(head, tail) /\ Dist(head, tail) <= Size)
  /\ cpc = "zeroHead" => tail = 0
  /\ build = "thread" => cpc \notin Zeroing

\* The push in progress has room, and its byte is in its slot once stored.
Pushing ==
  /\ ppc # "idle" => Dist(head, tail) < Size /\ pb \in Bytes
  /\ ppc \in {"load", "publish"} => buf[Slot(head)] = pb
  /\ ppc = "publish" => ph = head

\* The pop in progress has a byte, and the byte it has read is still there.
Popping ==
  /\ cpc \in {"load", "advance"} => head # tail
  /\ cpc = "advance" => cb = buf[Slot(tail)]

RingInv == TypeOK /\ Level /\ Pushing /\ Popping

\* Between two indices of the ring, the producer's slot is none of the others.
LEMMA OtherSlots ==
  ASSUME NEW h \in Indices, NEW t \in Indices, NEW k \in Nat, k < Dist(h, t), Dist(h, t) < Size
  PROVE  Slot(h) # Slot(t + k)
<1>1. h \in Nat /\ t \in Nat /\ IdxMod \in Nat /\ Size \in Nat
  BY Sizes DEF Indices
<1>2. CASE h >= t
  BY <1>1, <1>2, DistIs, SlotsDiffer
<1>3. CASE h < t
  <2>1. Slot(h + IdxMod) # Slot(t + k)
    BY <1>1, <1>3, DistIs, SlotsDiffer
  <2> QED  BY <1>1, <2>1, SlotWraps
<1> QED  BY <1>1, <1>2, <1>3

LEMMA RingInit == Init => RingInv
<1> SUFFICES ASSUME Init PROVE RingInv
  OBVIOUS
<1>1. 0 \in Indices /\ Dist(0, 0) = 0
  BY Sizes, DistSucc DEF Indices
<1>2. TypeOK
  BY <1>1 DEF Init, TypeOK
<1>3. Level /\ Pushing /\ Popping
  BY <1>1, Sizes DEF Init, Level, Pushing, Popping, Zeroing
<1> QED  BY <1>2, <1>3 DEF RingInv

LEMMA RingStep ==
  ASSUME "thread" \notin ResetBuilds, RingInv, [Next]_vars
  PROVE  RingInv'
<1>0. /\ TypeOK /\ TypeOK' /\ Level /\ Pushing /\ Popping
      /\ head \in Indices /\ tail \in Indices /\ head \in Nat /\ tail \in Nat /\ 0 \in Indices
      /\ Used = Dist(head, tail) /\ Dist(head, tail) \in Nat
      /\ Size \in Nat /\ Size > 0 /\ Size < IdxMod /\ IdxMod \in Nat
      /\ build \in {"isr", "thread"}
  <2>1. /\ TypeOK /\ TypeOK' /\ Level /\ Pushing /\ Popping /\ build \in Builds
        /\ head \in Indices /\ tail \in Indices /\ Used = Dist(head, tail)
    BY TypeStep DEF RingInv, TypeOK, Used, Dist
  <2>2. /\ head \in Nat /\ tail \in Nat /\ 0 \in Indices
        /\ Size \in Nat /\ Size > 0 /\ Size < IdxMod /\ IdxMod \in Nat
    BY <2>1, Sizes DEF Indices
  <2>3. Dist(head, tail) \in Nat
    BY <2>1, DistSucc
  <2> QED  BY <2>1, <2>2, <2>3, BuildAssumption
<1>1. ASSUME NEW b \in Bytes, PushCheck(b) PROVE RingInv'
  BY <1>0, <1>1 DEF PushCheck, cvars, RingInv, Level, Pushing, Popping
<1>2. CASE PushStore
  <2>1. /\ ppc = "store" /\ ppc' = "load" /\ pb' = pb /\ UNCHANGED <<build, head, tail, cvars>>
        /\ buf' = [buf EXCEPT ![Slot(head)] = pb] /\ buf \in [Slots -> Bytes \cup {NoByte}]
    BY <1>0, <1>2 DEF PushStore, TypeOK
  <2>2. Slot(head) \in Slots /\ Slot(tail) \in Slots
    BY <1>0, SlotWraps
  <2>3. Level' /\ Pushing'
    BY <1>0, <2>1, <2>2 DEF cvars, Level, Pushing
  <2>4. ASSUME cpc = "advance" PROVE Slot(head) # Slot(tail)
    <3>1. head # tail /\ Dist(head, tail) < Size
      BY <1>0, <2>1, <2>4 DEF Popping, Pushing
    <3>2. 0 < Dist(head, tail) /\ tail + 0 = tail
      BY <1>0, <3>1, DistSucc
    <3> QED  BY <1>0, <3>1, <3>2, OtherSlots
  <2>5. Popping'
    BY <1>0, <2>1, <2>2, <2>4 DEF cvars, Popping
  <2> QED  BY <1>0, <2>3, <2>5 DEF RingInv
<1>3. CASE PushLoad
  BY <1>0, <1>3 DEF PushLoad, cvars, RingInv, Level, Pushing, Popping
<1>4. CASE PushPublish
  <2>1. /\ ppc = "publish" /\ ppc' = "idle" /\ head' = Succ(head) /\ UNCHANGED <<build, tail, buf, cvars>>
        /\ Dist(head, tail) < Size
    BY <1>0, <1>4 DEF PushPublish, Pushing, Succ
  <2>2. Dist(head', tail') = Dist(head, tail) + 1 /\ head' \in Indices
    BY <1>0, <2>1, DistSucc, SuccIs
  <2>3. head' = head + 1 \/ head' = 0
    BY <1>0, <2>1, SuccIs
  <2>4. Level'
    BY <1>0, <2>1, <2>2, <2>3 DEF Level, cvars
  <2>5. Pushing'
    BY <2>1 DEF Pushing
  <2>6. head' # tail'
    BY <1>0, <2>1, <2>2, DistSucc
  <2>7. Popping'
    BY <1>0, <2>1, <2>6 DEF Popping, cvars
  <2> QED  BY <1>0, <2>4, <2>5, <2>7 DEF RingInv
<1>5. CASE PopCheck
  BY <1>0, <1>5 DEF PopCheck, pvars, RingInv, Level, Pushing, Popping, Zeroing
<1>6. CASE PopLoad
  BY <1>0, <1>6 DEF PopLoad, pvars, RingInv, Level, Pushing, Popping, Zeroing
<1>7. CASE PopAdvance
  <2>1. /\ cpc = "advance" /\ cpc' = "idle" /\ tail' = Succ(tail) /\ UNCHANGED <<build, head, buf, pvars>>
        /\ head # tail
    BY <1>0, <1>7 DEF PopAdvance, Popping, Succ
  <2>2. Dist(head', tail') = Dist(head, tail) - 1
    BY <1>0, <2>1, DistSucc
  <2>3. Level' /\ Popping'
    BY <1>0, <2>1, <2>2 DEF Level, Popping, Zeroing
  <2>4. Pushing'
    BY <1>0, <2>1, <2>2 DEF Pushing, pvars
  <2> QED  BY <1>0, <2>3, <2>4 DEF RingInv
<1>8. CASE ResetBegin
  <2>1. build = "isr" /\ ppc = "idle" /\ UNCHANGED <<build, buf, pvars>>
    BY <1>0, <1>8 DEF ResetBegin, TaskRuns
  <2>2. \/ head' = 0 /\ tail' = tail /\ cpc' = "zeroTail"
        \/ tail' = 0 /\ head' = head /\ cpc' = "zeroHead"
    BY <1>8 DEF ResetBegin
  <2>3. Level' /\ Pushing' /\ Popping'
    BY <1>0, <2>1, <2>2 DEF Level, Pushing, Popping, pvars, Zeroing
  <2> QED  BY <1>0, <2>3 DEF RingInv
<1>9. CASE ResetEnd
  <2>1. build = "isr" /\ ppc = "idle" /\ cpc' = "idle" /\ UNCHANGED <<build, buf, pvars>>
    BY <1>0, <1>9 DEF ResetEnd, TaskRuns, Level, Zeroing
  <2>2. \/ cpc = "zeroTail" /\ tail' = 0 /\ head' = head
        \/ cpc = "zeroHead" /\ head' = 0 /\ tail' = 0
    BY <1>0, <1>9 DEF ResetEnd, Level
  <2>3. Dist(head', tail') <= Size
    <3>1. Dist(head, 0) = head /\ Dist(0, 0) = 0
      BY <1>0, DistSucc
    <3>2. cpc = "zeroTail" => head <= Size
      BY <1>0 DEF Level
    <3> QED  BY <1>0, <2>2, <3>1, <3>2
  <2>4. Level' /\ Pushing' /\ Popping'
    BY <2>1, <2>3 DEF Level, Pushing, Popping, pvars, Zeroing
  <2> QED  BY <1>0, <2>4 DEF RingInv
<1>10. CASE UNCHANGED vars
  BY <1>0, <1>10 DEF vars, pvars, cvars, RingInv, Level, Pushing, Popping
<1> QED
  BY <1>1, <1>2, <1>3, <1>4, <1>5, <1>6, <1>7, <1>8, <1>9, <1>10 DEF Next, Producer, Consumer

\* The invariant holds of every behaviour in which no second producer exists:
\* at_reset is not called while a thread may be in the middle of a push.
THEOREM RingInductive ==
  ASSUME "thread" \notin ResetBuilds
  PROVE  Spec => []RingInv
<1>1. RingInv /\ [Next]_vars => RingInv'
  BY RingStep
<1> QED  BY <1>1, RingInit, PTL DEF Spec

\* The plain accesses of the two sides to the slots never meet.
THEOREM NoRace ==
  ASSUME "thread" \notin ResetBuilds
  PROVE  Spec => []NoSlotRace
<1>1. RingInv => NoSlotRace
  <2> SUFFICES ASSUME RingInv, ppc = "store", cpc = "load" PROVE Slot(head) # Slot(tail)
    BY DEF NoSlotRace
  <2>1. head \in Indices /\ tail \in Indices /\ tail \in Nat /\ head # tail /\ Dist(head, tail) < Size
    BY DEF RingInv, TypeOK, Pushing, Popping, Indices
  <2>2. 0 < Dist(head, tail) /\ tail + 0 = tail
    BY <2>1, DistSucc
  <2> QED  BY <2>1, <2>2, OtherSlots
<1> QED  BY <1>1, RingInductive, PTL

-----------------------------------------------------------------------------
(* The ring implements ByteFifo.                                           *)

\* The n bytes from slot t on.
Win(b, t, n) == [k \in 1 .. n |-> b[Slot(t + (k - 1))]]

LEMMA WinSlots ==
  ASSUME NEW b \in [Slots -> Bytes \cup {NoByte}], NEW t \in Nat, NEW n \in Nat
  PROVE  /\ Win(b, t, n) \in Seq(Bytes \cup {NoByte}) /\ Len(Win(b, t, n)) = n
         /\ Win(b, t, n + 1) = Append(Win(b, t, n), b[Slot(t + n)])
         /\ n > 0 => Head(Win(b, t, n)) = b[Slot(t)] /\ Tail(Win(b, t, n)) = Win(b, t + 1, n - 1)
         /\ Win(b, t + IdxMod, n) = Win(b, t, n)
<1>1. \A k \in 1 .. n + 1 : t + (k - 1) \in Nat /\ Slot(t + (k - 1)) \in Slots
  BY SlotWraps
<1>2. Win(b, t, n) \in Seq(Bytes \cup {NoByte}) /\ Len(Win(b, t, n)) = n
  BY <1>1 DEF Win
<1>3. Win(b, t, n + 1) = Append(Win(b, t, n), b[Slot(t + n)])
  <2>1. t + ((n + 1) - 1) = t + n
    OBVIOUS
  <2>2. Append(Win(b, t, n), b[Slot(t + n)])
          = [k \in 1 .. n + 1 |-> IF k <= n THEN b[Slot(t + (k - 1))] ELSE b[Slot(t + n)]]
    BY <1>2 DEF Win
  <2> QED  BY <2>1, <2>2 DEF Win
<1>4. ASSUME n > 0
      PROVE  Head(Win(b, t, n)) = b[Slot(t)] /\ Tail(Win(b, t, n)) = Win(b, t + 1, n - 1)
  <2>1. Head(Win(b, t, n)) = b[Slot(t + (1 - 1))] /\ t + (1 - 1) = t
    BY <1>2, <1>4 DEF Win
  <2>2. Tail(Win(b, t, n)) = [k \in 1 .. n - 1 |-> b[Slot(t + ((k + 1) - 1))]]
    BY <1>2, <1>4 DEF Win
  <2>3. \A k \in 1 .. n - 1 : t + ((k + 1) - 1) = (t + 1) + (k - 1)
    OBVIOUS
  <2> QED  BY <2>1, <2>2, <2>3 DEF Win
<1>5. Win(b, t + IdxMod, n) = Win(b, t, n)
  <2>1. \A k \in 1 .. n : Slot((t + IdxMod) + (k - 1)) = Slot(t + (k - 1))
    <3>1. SUFFICES ASSUME NEW k \in 1 .. n PROVE Slot((t + IdxMod) + (k - 1)) = Slot(t + (k - 1))
      OBVIOUS
    <3>2. t + (k - 1) \in Nat /\ (t + IdxMod) + (k - 1) = (t + (k - 1)) + IdxMod
      BY Sizes
    <3> QED  BY <3>2, SlotWraps
  <2> QED  BY <2>1 DEF Win
<1> QED  BY <1>2, <1>3, <1>4, <1>5

\* Moving the beginning by one, across the wrap or not.
LEMMA WinSucc ==
  ASSUME NEW b \in [Slots -> Bytes \cup {NoByte}], NEW t \in Indices, NEW n \in Nat
  PROVE  Win(b, Succ(t), n) = Win(b, t + 1, n)
<1>1. t \in Nat /\ 0 \in Nat /\ IdxMod \in Nat /\ 0 + IdxMod = IdxMod
  BY Sizes DEF Indices
<1>2. Win(b, 0 + IdxMod, n) = Win(b, 0, n)
  BY <1>1, WinSlots
<1>3. Succ(t) = IF t = IdxMod - 1 THEN 0 ELSE t + 1
  BY SuccIs
<1>4. t = IdxMod - 1 => t + 1 = 0 + IdxMod
  BY <1>1
<1> QED  BY <1>2, <1>3, <1>4

\* The end of a window is the slot of the index at its end.
LEMMA EndSlot ==
  ASSUME NEW h \in Indices, NEW t \in Indices
  PROVE  Slot(t + Dist(h, t)) = Slot(h)
<1>1. h \in Nat /\ t \in Nat /\ IdxMod \in Nat
  BY Sizes DEF Indices
<1>2. t + Dist(h, t) = h \/ t + Dist(h, t) = h + IdxMod
  BY <1>1, DistIs
<1> QED  BY <1>1, <1>2, SlotWraps

\* A slot outside it does not change a window.
LEMMA WinOther ==
  ASSUME NEW b \in [Slots -> Bytes \cup {NoByte}], NEW t \in Nat, NEW n \in Nat, NEW s \in Slots,
         NEW x \in Bytes \cup {NoByte}, \A k \in Nat : k < n => s # Slot(t + k)
  PROVE  Win([b EXCEPT ![s] = x], t, n) = Win(b, t, n)
<1>1. ASSUME NEW k \in 1 .. n PROVE [b EXCEPT ![s] = x][Slot(t + (k - 1))] = b[Slot(t + (k - 1))]
  <2>1. k - 1 \in Nat /\ k - 1 < n /\ t + (k - 1) = t + (k - 1) /\ t + (k - 1) \in Nat
    OBVIOUS
  <2>2. s # Slot(t + (k - 1)) /\ Slot(t + (k - 1)) \in Slots
    BY <2>1, SlotWraps
  <2> QED  BY <2>2
<1> QED  BY <1>1 DEF Win

\* How many bytes are in the window.
Waiting == Dist(Behind, First)

LEMMA WindowIs ==
  ASSUME RingInv
  PROVE  /\ Window = Win(buf, First, Waiting) /\ Len(Window) = Waiting
         /\ First \in Indices /\ First \in Nat /\ Behind \in Indices /\ Waiting \in Nat
         /\ buf \in [Slots -> Bytes \cup {NoByte}]
         /\ cpc \notin Zeroing => Waiting = Dist(head, tail) /\ Flushing = "no"
         /\ cpc = "zeroTail" => Waiting = head /\ Flushing = "keep"
         /\ cpc = "zeroHead" => Waiting = 0 /\ Flushing = "lose"
<1>1. /\ head \in Indices /\ tail \in Indices /\ 0 \in Indices /\ buf \in [Slots -> Bytes \cup {NoByte}]
      /\ cpc = "zeroHead" => tail = 0
  BY Sizes DEF RingInv, TypeOK, Level, Indices
<1>2. First \in Indices /\ First \in Nat /\ Behind \in Indices
  BY <1>1 DEF First, Behind, Indices
<1>3. Waiting \in Nat /\ Dist(head, 0) = head /\ Dist(0, 0) = 0
  BY <1>1, <1>2, DistSucc DEF Waiting
<1>4. Window = Win(buf, First, Waiting)
  BY DEF Window, Win, Waiting, Dist
<1>5. Len(Window) = Waiting
  BY <1>1, <1>2, <1>3, <1>4, WinSlots
<1>6. /\ cpc \notin Zeroing => Waiting = Dist(head, tail) /\ Flushing = "no"
      /\ cpc = "zeroTail" => Waiting = head /\ Flushing = "keep"
      /\ cpc = "zeroHead" => Waiting = 0 /\ Flushing = "lose"
  BY <1>1, <1>3 DEF Waiting, First, Behind, Flushing, Zeroing
<1> QED  BY <1>1, <1>2, <1>3, <1>4, <1>5, <1>6

\* A push that has room by the ring's count has it in the FIFO.
LEMMA RoomInFifo ==
  ASSUME RingInv, ppc # "idle"
  PROVE  Waiting < Size
<1>1. Dist(head, tail) < Size /\ head \in Nat /\ Dist(head, tail) \in Nat
  BY DistSucc DEF RingInv, TypeOK, Pushing, Indices
<1>2. cpc = "zeroTail" => head = 0 \/ head <= Dist(head, tail)
  BY DEF RingInv, Level
<1> QED  BY <1>1, <1>2, WindowIs, Sizes DEF Zeroing

LEMMA NoneWaiting ==
  ASSUME NEW b, NEW t \in Nat
  PROVE  Win(b, t, 0) = << >>
  BY DEF Win

\* Between the test and the publication nothing is seen of a push.
LEMMA StoreStutters ==
  ASSUME RingInv, PushStore
  PROVE  UNCHANGED <<Window, refused, got, Flushing>>
<1>1. /\ ppc = "store" /\ buf' = [buf EXCEPT ![Slot(head)] = pb]
      /\ UNCHANGED <<head, tail, refused, cpc, got>>
      /\ head \in Indices /\ head \in Nat /\ tail \in Indices /\ pb \in Bytes \cup {NoByte}
  BY DEF PushStore, cvars, RingInv, TypeOK, Indices
<1>2. /\ buf \in [Slots -> Bytes \cup {NoByte}] /\ First \in Indices /\ First \in Nat
      /\ Behind \in Indices /\ Waiting \in Nat /\ Waiting < Size
  BY <1>1, WindowIs, RoomInFifo
<1>3. ASSUME NEW k \in Nat, k < Waiting PROVE Slot(head) # Slot(First + k)
  <2>1. Behind = head
    BY <1>3, WindowIs DEF Behind
  <2> QED  BY <1>2, <1>3, <2>1, OtherSlots DEF Waiting
<1>4. Slot(head) \in Slots
  BY <1>1, SlotWraps
<1>5. Win([buf EXCEPT ![Slot(head)] = pb], First, Waiting) = Win(buf, First, Waiting)
  BY <1>1, <1>2, <1>3, <1>4, WinOther
<1>6. Window' = Win(buf', First, Waiting)
  <2>1. First' = First /\ Behind' = Behind
    BY <1>1 DEF First, Behind
  <2> QED  BY <2>1 DEF Window, Win, Waiting, Dist
<1> QED  BY <1>1, <1>5, <1>6, WindowIs DEF Flushing

\* The publication appends the byte, or has it lost by the reset around it.
LEMMA PublishMaps ==
  ASSUME RingInv, PushPublish
  PROVE  Fifo!Next
<1>1. /\ ppc = "publish" /\ head' = Succ(head) /\ refused' = FALSE
      /\ UNCHANGED <<buf, tail, cpc, got>>
      /\ head \in Indices /\ buf[Slot(head)] = pb /\ pb \in Bytes
  BY DEF PushPublish, cvars, RingInv, TypeOK, Pushing, Succ
<1>2. /\ buf \in [Slots -> Bytes \cup {NoByte}] /\ First \in Indices /\ First \in Nat
      /\ Behind \in Indices /\ Waiting \in Nat /\ Waiting < Size /\ Len(Window) = Waiting
      /\ Window = Win(buf, First, Waiting)
  BY <1>1, WindowIs, RoomInFifo
<1>3. Flushing' = Flushing /\ Window' = Win(buf, First, Dist(Behind', First))
  <2>1. First' = First /\ buf' = buf
    BY <1>1 DEF First
  <2> QED  BY <1>1, <2>1 DEF Flushing, Window, Win, Dist
<1>4. CASE cpc = "zeroHead"
  <2>1. Window' = Window /\ Flushing = "lose"
    BY <1>1, <1>2, <1>3, <1>4, WindowIs DEF Behind, Waiting
  <2> QED  BY <1>1, <1>3, <2>1 DEF Fifo!Next, Fifo!AcceptAndLose
<1>5. CASE cpc # "zeroHead"
  <2>1. Behind = head /\ Behind' = Succ(head) /\ Flushing # "lose"
    BY <1>1, <1>5 DEF Behind, Flushing
  <2>2. Waiting < IdxMod - 1
    BY <1>2, Sizes
  <2>3. Dist(Behind', First) = Waiting + 1
    BY <1>1, <1>2, <2>1, <2>2, DistSucc DEF Waiting
  <2>4. Slot(First + Waiting) = Slot(head)
    BY <1>1, <1>2, <2>1, EndSlot DEF Waiting
  <2>5. Window' = Append(Window, pb)
    <3>1. Win(buf, First, Waiting + 1) = Append(Win(buf, First, Waiting), buf[Slot(First + Waiting)])
      BY <1>2, WinSlots
    <3> QED  BY <1>1, <1>2, <1>3, <2>3, <2>4, <3>1
  <2>6. Fifo!Accept(pb)
    BY <1>1, <1>2, <1>3, <2>1, <2>5 DEF Fifo!Accept
  <2> QED  BY <1>1, <2>6 DEF Fifo!Next
<1> QED  BY <1>4, <1>5

\* The end of a pop delivers the oldest byte.
LEMMA AdvanceMaps ==
  ASSUME RingInv, PopAdvance
  PROVE  Fifo!Next
<1>1. /\ cpc = "advance" /\ cpc' = "idle" /\ tail' = Succ(tail) /\ got' = buf[Slot(tail)] /\ head # tail
      /\ UNCHANGED <<buf, head, refused>> /\ head \in Indices /\ tail \in Indices /\ tail \in Nat
  BY DEF PopAdvance, pvars, RingInv, TypeOK, Popping, Succ, Indices
<1>2. /\ buf \in [Slots -> Bytes \cup {NoByte}] /\ Len(Window) = Waiting /\ Waiting = Dist(head, tail)
      /\ Window = Win(buf, tail, Waiting) /\ Flushing = "no" /\ Waiting \in Nat
  BY <1>1, WindowIs DEF Zeroing, First
<1>3. Waiting > 0 /\ Dist(head, Succ(tail)) = Waiting - 1
  BY <1>1, <1>2, DistSucc
<1>4. Flushing' = "no" /\ Window' = Win(buf, Succ(tail), Dist(head, Succ(tail)))
  <2>1. First' = Succ(tail) /\ Behind' = head
    BY <1>1 DEF First, Behind
  <2> QED  BY <1>1, <2>1 DEF Flushing, Window, Win, Dist
<1>5. Window' = Win(buf, tail + 1, Waiting - 1)
  BY <1>1, <1>2, <1>3, <1>4, WinSucc
<1>6. Head(Window) = buf[Slot(tail)] /\ Tail(Window) = Win(buf, tail + 1, Waiting - 1)
  BY <1>1, <1>2, <1>3, WinSlots
<1>7. Window # << >>
  BY <1>2, <1>3
<1> QED  BY <1>1, <1>2, <1>4, <1>5, <1>6, <1>7 DEF Fifo!Next, Fifo!Deliver

\* The two stores of a reset are a flush that takes time.
LEMMA ResetMaps ==
  ASSUME RingInv, ResetBegin \/ ResetEnd
  PROVE  Fifo!Next
<1>1. 0 \in Indices /\ 0 \in Nat /\ Dist(0, 0) = 0 /\ head \in Indices /\ tail \in Indices
      /\ buf \in [Slots -> Bytes \cup {NoByte}]
  BY Sizes, DistSucc DEF Indices, RingInv, TypeOK
<1>2. CASE ResetBegin
  <2>1. /\ cpc = "idle" /\ UNCHANGED <<buf, refused, got>>
        /\ \/ head' = 0 /\ cpc' = "zeroTail"
           \/ tail' = 0 /\ cpc' = "zeroHead"
    BY <1>2 DEF ResetBegin, pvars
  <2>2. Window' = Win(buf, 0, Dist(0, 0)) /\ Flushing' \in {"keep", "lose"} /\ Flushing = "no"
    <3>1. First' = 0 /\ Behind' = 0
      BY <2>1 DEF First, Behind
    <3> QED  BY <2>1, <3>1 DEF Window, Win, Dist, Flushing
  <2>3. Window' = << >>
    BY <1>1, <2>2, NoneWaiting
  <2> QED  BY <2>1, <2>2, <2>3 DEF Fifo!Next, Fifo!FlushBegin
<1>3. CASE ResetEnd
  <2>1. /\ cpc' = "idle" /\ UNCHANGED <<buf, refused, got>>
        /\ \/ cpc = "zeroTail" /\ tail' = 0 /\ head' = head
           \/ cpc = "zeroHead" /\ head' = 0 /\ tail' = 0 /\ tail = 0
    BY <1>3 DEF ResetEnd, pvars, RingInv, Level
  <2>2. Window' = Window /\ Flushing # "no" /\ Flushing' = "no"
    <3>1. First' = First /\ Behind' = Behind
      BY <2>1 DEF First, Behind
    <3> QED  BY <2>1, <3>1 DEF Window, Flushing
  <2> QED  BY <2>1, <2>2 DEF Fifo!Next, Fifo!FlushEnd
<1> QED  BY <1>2, <1>3

\* A full ring refuses; a byte to be pushed is not seen yet.
LEMMA CheckMaps ==
  ASSUME RingInv, NEW b \in Bytes, PushCheck(b)
  PROVE  Fifo!Next \/ UNCHANGED <<Window, refused, got, Flushing>>
<1>1. UNCHANGED <<Window, Flushing, got>>
  BY DEF PushCheck, cvars, Window, First, Behind, Flushing
<1>2. CASE Used >= Size
  <2>1. refused' = TRUE
    BY <1>2 DEF PushCheck
  <2>2. Flushing = "no" => Len(Window) = Size
    <3>1. SUFFICES ASSUME Flushing = "no" PROVE Len(Window) = Size
      OBVIOUS
    <3>2. cpc \notin Zeroing
      BY <3>1 DEF Flushing, Zeroing
    <3>3. Len(Window) = Dist(head, tail) /\ Dist(head, tail) \in Nat /\ Dist(head, tail) <= Size
      BY <3>2, WindowIs DEF RingInv, Level
    <3> QED  BY <1>2, <3>3, Sizes DEF Used, Dist
  <2> QED  BY <1>1, <2>1, <2>2 DEF Fifo!Next, Fifo!Refuse
<1>3. CASE ~(Used >= Size)
  BY <1>1, <1>3 DEF PushCheck
<1> QED  BY <1>2, <1>3

\* The ring is a bounded FIFO, across every wrap of its indices, whatever the
\* interleaving of a push, a pop and, between pushes, a reset.
THEOREM FifoImplemented ==
  ASSUME "thread" \notin ResetBuilds
  PROVE  Spec => ImplementsFifo
<1>1. Init => Fifo!Init
  <2> SUFFICES ASSUME Init PROVE Fifo!Init
    OBVIOUS
  <2>1. 0 \in Indices /\ Dist(0, 0) = 0 /\ 0 \in Nat
    BY Sizes, DistSucc DEF Indices
  <2>2. Window = Win(buf, 0, Dist(0, 0)) /\ Flushing = "no" /\ refused = FALSE /\ got = NoByte
    <3>1. First = 0 /\ Behind = 0
      BY DEF Init, First, Behind
    <3> QED  BY <3>1 DEF Init, Window, Win, Dist, Flushing
  <2> QED  BY <2>1, <2>2, NoneWaiting DEF Fifo!Init
<1>2. RingInv /\ [Next]_vars => [Fifo!Next]_<<Window, refused, got, Flushing>>
  <2> SUFFICES ASSUME RingInv, [Next]_vars
               PROVE  Fifo!Next \/ UNCHANGED <<Window, refused, got, Flushing>>
    OBVIOUS
  <2>1. CASE PushLoad \/ PopCheck \/ PopLoad \/ UNCHANGED vars
    BY <2>1 DEF PushLoad, PopCheck, PopLoad, vars, pvars, cvars, Window, First, Behind, Flushing
  <2> QED
    BY <2>1, CheckMaps, StoreStutters, PublishMaps, AdvanceMaps, ResetMaps DEF Next, Producer, Consumer
<1> QED  BY <1>1, <1>2, RingInductive, PTL DEF Spec, ImplementsFifo, Fifo!Spec, Fifo!fvars
=============================================================================

---------------------------- MODULE LineFsmProofs ---------------------------
(***************************************************************************)
(* The line assembler for every size of the buffer, every alphabet and     *)
(* lines of every length.                                                  *)
(***************************************************************************)
EXTENDS LineFsm, TLAPS

-----------------------------------------------------------------------------
(* Types.                                                                  *)

LEMMA Constants ==
  /\ LineMax \in Nat /\ LineMax >= 3
  /\ {CR, LF, SP, GT} \subseteq Bytes /\ CR # LF /\ SP # LF /\ SP # CR /\ GT # LF /\ GT # CR
BY LineMaxAssumption DEF Bytes, CR, LF, SP, GT

\* A byte is kept only if there is room.
LEMMA KeepFits ==
  ASSUME TypeOK, NEW b \in Bytes \ {LF}, Keep(b), lfsm # "START"
  PROVE  line_buf' \in Seq(Bytes \ {LF}) /\ Len(line_buf') <= LineMax - 1 /\ line_buf' # <<>>
<1>1. /\ line_buf \in Seq(Bytes \ {LF}) /\ Len(line_buf) \in Nat
      /\ Len(line_buf) <= LineMax - 1 /\ line_buf # <<>>
  BY DEF TypeOK
<1>2. CASE Len(line_buf) < LineMax - 1
  <2>1. line_buf' = Append(line_buf, b)
    BY <1>2 DEF Keep
  <2>2. /\ Append(line_buf, b) \in Seq(Bytes \ {LF})
        /\ Len(Append(line_buf, b)) = Len(line_buf) + 1
    BY <1>1
  <2>3. Len(line_buf') \in Nat /\ Len(line_buf') # 0 /\ Len(line_buf') <= LineMax - 1
    BY <1>1, <1>2, <2>1, <2>2, Constants
  <2> QED  BY <2>1, <2>2, <2>3
<1>3. CASE ~(Len(line_buf) < LineMax - 1)
  BY <1>1, <1>3 DEF Keep
<1> QED  BY <1>2, <1>3

LEMMA TypeStep == TypeOK /\ [Next]_vars => TypeOK'
<1> SUFFICES ASSUME TypeOK, [Next]_vars PROVE TypeOK'
  OBVIOUS
<1> DEFINE T == Bytes \ {LF}
<1>0. /\ line_buf \in Seq(T) /\ Len(line_buf) <= LineMax - 1 /\ (lfsm = "START" <=> line_buf = <<>>)
      /\ segment \in Seq(Bytes) /\ lfsm \in {"START", "DATA", "CR"} /\ 0 <= LineMax - 1
  BY Constants DEF TypeOK
<1>1. <<>> \in Seq(T) /\ Len(<<>>) = 0 /\ <<>> \in Seq(Bytes)
  OBVIOUS
<1>2. ASSUME NEW b \in Bytes, Note(b) PROVE segment' \in Seq(Bytes)
  BY <1>0, <1>2 DEF Note
<1>3. ASSUME NEW l \in Seq(T), Len(l) <= LineMax - 1, Dispatch(l) PROVE TypeOK'
  BY <1>0, <1>1, <1>3 DEF Dispatch, TypeOK
<1>4. ASSUME NEW b \in Bytes, Receive(b) PROVE TypeOK'
  <2>1. CASE SkipLineEnd(b)
    BY <1>0, <1>1, <1>2, <2>1 DEF SkipLineEnd, TypeOK
  <2>2. CASE FirstByte(b)
    <3>1. <<b>> \in Seq(T) /\ Len(<<b>>) = 1 /\ <<b>> # <<>>
      BY <2>2 DEF FirstByte
    <3> QED  BY <1>1, <1>2, <2>2, <3>1, Constants DEF FirstByte, TypeOK
  <2>3. CASE b = CR /\ DataCR
    BY <1>0, <1>1, <1>2, <2>3 DEF DataCR, TypeOK
  <2>4. CASE DataLF \/ CrLF
    BY <1>0, <1>3, <2>4 DEF DataLF, CrLF
  <2>5. CASE DataByte(b)
    <3>1. b \in T /\ lfsm = "DATA" /\ lfsm' = "DATA" /\ Keep(b) /\ Note(b) /\ line' = <<>>
      BY <2>5 DEF DataByte
    <3> QED  BY <1>0, <1>1, <1>2, <3>1, KeepFits DEF TypeOK
  <2>6. CASE CrPrompt
    <3>1. GT \in T /\ SP \in T /\ 2 <= LineMax - 1
      BY Constants
    <3>2. <<GT, SP>> \in Seq(T) /\ Len(<<GT, SP>>) <= LineMax - 1
      BY <3>1
    <3> QED  BY <1>3, <2>6, <3>2 DEF CrPrompt
  <2>7. CASE CrOther(b)
    <3>1. b \in T /\ lfsm = "CR" /\ lfsm' = "DATA" /\ Keep(b) /\ Note(b) /\ line' = <<>>
      BY <2>7 DEF CrOther
    <3> QED  BY <1>0, <1>1, <1>2, <3>1, KeepFits DEF TypeOK
  <2> QED  BY <1>4, <2>1, <2>2, <2>3, <2>4, <2>5, <2>6, <2>7 DEF Receive
<1>5. CASE Reset
  BY <1>0, <1>1, <1>5 DEF Reset, TypeOK
<1>6. CASE UNCHANGED vars
  BY <1>6 DEF vars, TypeOK
<1> QED  BY <1>4, <1>5, <1>6 DEF Next

LEMMA TypeInit == Init => TypeOK
BY Constants DEF Init, TypeOK

\* The buffer always has room for the NUL, and is empty only between lines.
THEOREM TypeCorrect == Spec => []TypeOK
BY TypeInit, TypeStep, PTL DEF Spec

-----------------------------------------------------------------------------
(* The text of a line within the bytes since the last line end.            *)

\* s has nothing but CRs; its text starts at k; from k to n it has no CR.
NoText(s) == \A j \in 1 .. Len(s) : s[j] = CR
Starts(s, k) == k \in 1 .. Len(s) /\ s[k] # CR /\ \A j \in 1 .. k - 1 : s[j] = CR
Plain(s, k, n) == \A j \in k .. n : s[j] # CR

\* buf holds the bytes of s from k to n, as many as fit.
Room(k, n) == IF (n - k) + 1 <= LineMax - 1 THEN (n - k) + 1 ELSE LineMax - 1
Holds(buf, s, k, n) == Len(buf) = Room(k, n) /\ \A i \in 1 .. Room(k, n) : buf[i] = s[(k + i) - 1]

\* How the state of the machine, the buffer and the bytes of the line belong
\* together: once a CR was in the middle of the line, nothing is claimed.
Progress ==
  \/ lfsm = "START" /\ NoText(segment)
  \/ /\ lfsm = "DATA"
     /\ \E k \in 1 .. Len(segment) :
          /\ Starts(segment, k)
          /\ \/ Plain(segment, k, Len(segment)) /\ Holds(line_buf, segment, k, Len(segment))
             \/ \E j \in k .. Len(segment) - 1 : segment[j] = CR
  \/ /\ lfsm = "CR"
     /\ \E k \in 1 .. Len(segment) - 1 :
          /\ Starts(segment, k) /\ segment[Len(segment)] = CR
          /\ \/ /\ Plain(segment, k, Len(segment) - 1)
                /\ Holds(line_buf, segment, k, Len(segment) - 1)
             \/ \E j \in k .. Len(segment) - 1 : segment[j] = CR

LineInv == TypeOK /\ Progress

\* The smaller of two numbers.
LEMMA MinIs ==
  ASSUME NEW a \in Nat, NEW b \in Nat
  PROVE  Min({a, b}) = IF a <= b THEN a ELSE b
<1> DEFINE m == IF a <= b THEN a ELSE b
<1>1. m \in {a, b} /\ \A y \in {a, b} : m <= y
  OBVIOUS
<1>2. \A x \in {a, b} : (\A y \in {a, b} : x <= y) => x = m
  OBVIOUS
<1> QED  BY <1>1, <1>2 DEF Min

LEMMA NoTextIs ==
  ASSUME NEW s \in Seq(Bytes), NoText(s)
  PROVE  AfterCRs(s) = <<>>
<1>1. {i \in DOMAIN s : s[i] # CR} = {}
  BY DEF NoText
<1> QED  BY <1>1 DEF AfterCRs

LEMMA StartsIs ==
  ASSUME NEW s \in Seq(Bytes), NEW k, Starts(s, k)
  PROVE  AfterCRs(s) = SubSeq(s, k, Len(s))
<1> DEFINE text == {i \in DOMAIN s : s[i] # CR}
<1>1. k \in text /\ \A j \in text : k <= j
  BY DEF Starts
<1>2. \A i \in text : (\A j \in text : i <= j) => i = k
  BY <1>1
<1>3. (CHOOSE i \in text : \A j \in text : i <= j) = k
  <2> HIDE DEF text
  <2> QED  BY <1>1, <1>2
<1>4. text # {}
  BY <1>1
<1> QED  BY <1>3, <1>4 DEF AfterCRs

\* A text that ends before n + 1 and has no CR is what the buffer holds of it.
LEMMA FittingIs ==
  ASSUME NEW s \in Seq(Bytes), NEW k \in 1 .. Len(s), NEW n \in k .. Len(s),
         NEW buf \in Seq(Bytes), Holds(buf, s, k, n)
  PROVE  Fitting(SubSeq(s, k, n)) = buf
<1> DEFINE t == SubSeq(s, k, n)
           r == Room(k, n)
<1>1. /\ t \in Seq(Bytes) /\ Len(t) = (n - k) + 1
      /\ \A i \in 1 .. (n - k) + 1 : t[i] = s[(k + i) - 1]
  OBVIOUS
<1>2. r \in 1 .. Len(t) /\ Min({Len(t), LineMax - 1}) = r
  <2>1. Len(t) \in Nat /\ LineMax - 1 \in Nat /\ Len(t) >= 1 /\ LineMax - 1 >= 1
    BY <1>1, Constants
  <2>2. Min({Len(t), LineMax - 1}) = IF Len(t) <= LineMax - 1 THEN Len(t) ELSE LineMax - 1
    BY <2>1, MinIs
  <2>3. r = IF Len(t) <= LineMax - 1 THEN Len(t) ELSE LineMax - 1
    BY <1>1 DEF Room
  <2> HIDE DEF t, r
  <2> QED  BY <2>1, <2>2, <2>3
<1>3. Fitting(t) = SubSeq(t, 1, r)
  BY <1>2 DEF Fitting
<1>4. /\ SubSeq(t, 1, r) \in Seq(Bytes) /\ Len(SubSeq(t, 1, r)) = r
      /\ \A i \in 1 .. r : SubSeq(t, 1, r)[i] = t[i]
  <2> HIDE DEF t, r
  <2> QED  BY <1>1, <1>2
<1>5. Len(buf) = r /\ \A i \in 1 .. r : buf[i] = t[i]
  BY <1>1, <1>2 DEF Holds
<1>6. Fitting(t) = buf
  <2> HIDE DEF t, r
  <2> QED  BY <1>3, <1>4, <1>5
<1> QED  BY <1>6

-----------------------------------------------------------------------------
(* A byte more.                                                            *)

LEMMA OneMore ==
  ASSUME NEW s \in Seq(Bytes), NEW b \in Bytes
  PROVE  /\ Append(s, b) \in Seq(Bytes) /\ Len(Append(s, b)) = Len(s) + 1
         /\ Append(s, b)[Len(s) + 1] = b
         /\ \A j \in 1 .. Len(s) : Append(s, b)[j] = s[j]
  OBVIOUS

LEMMA StartsKept ==
  ASSUME NEW s \in Seq(Bytes), NEW b \in Bytes, NEW k \in 1 .. Len(s), Starts(s, k)
  PROVE  Starts(Append(s, b), k)
BY OneMore DEF Starts

LEMMA PlainKept ==
  ASSUME NEW s \in Seq(Bytes), NEW b \in Bytes, NEW k \in 1 .. Len(s), Plain(s, k, Len(s))
  PROVE  Plain(Append(s, b), k, Len(s))
<1>1. \A j \in k .. Len(s) : j \in 1 .. Len(s)
  OBVIOUS
<1>2. \A j \in 1 .. Len(s) : Append(s, b)[j] = s[j]
  BY OneMore
<1> QED  BY <1>1, <1>2 DEF Plain

LEMMA HoldsKept ==
  ASSUME NEW s \in Seq(Bytes), NEW b \in Bytes, NEW k \in 1 .. Len(s), NEW buf \in Seq(Bytes),
         Holds(buf, s, k, Len(s))
  PROVE  /\ Holds(buf, Append(s, b), k, Len(s))
         /\ Len(buf) >= LineMax - 1 => Holds(buf, Append(s, b), k, Len(s) + 1)
         /\ Len(buf) < LineMax - 1 => Holds(Append(buf, b), Append(s, b), k, Len(s) + 1)
<1> DEFINE S == Append(s, b)
           r == Room(k, Len(s))
<1>1. /\ \A i \in 1 .. Len(s) : S[i] = s[i]
      /\ S[Len(s) + 1] = b
  BY OneMore
<1>2. Len(buf) = r /\ \A i \in 1 .. r : buf[i] = s[(k + i) - 1]
  BY DEF Holds
<1>3. r \in 1 .. (Len(s) - k) + 1 /\ k \in Nat /\ Len(s) \in Nat /\ LineMax \in Nat
  BY Constants DEF Room
<1>4. \A i \in 1 .. r : (k + i) - 1 \in 1 .. Len(s)
  BY <1>3
<1>5. \A i \in 1 .. r : buf[i] = S[(k + i) - 1]
  <2> HIDE DEF S, r
  <2> QED  BY <1>1, <1>2, <1>4
<1>6. Holds(buf, S, k, Len(s))
  <2> HIDE DEF S
  <2> QED  BY <1>2, <1>5 DEF Holds
<1>7. ASSUME Len(buf) >= LineMax - 1 PROVE Room(k, Len(s) + 1) = r
  BY <1>2, <1>3, <1>7 DEF Room
<1>8. ASSUME Len(buf) < LineMax - 1 PROVE Room(k, Len(s) + 1) = r + 1 /\ (k + (r + 1)) - 1 = Len(s) + 1
  BY <1>2, <1>3, <1>8 DEF Room
<1>9. /\ Len(Append(buf, b)) = Len(buf) + 1 /\ Append(buf, b)[Len(buf) + 1] = b
      /\ \A i \in 1 .. Len(buf) : Append(buf, b)[i] = buf[i]
  BY OneMore
<1> HIDE DEF S, r
<1>10. ASSUME Len(buf) >= LineMax - 1 PROVE Holds(buf, S, k, Len(s) + 1)
  BY <1>2, <1>5, <1>7, <1>10 DEF Holds
<1>11. ASSUME Len(buf) < LineMax - 1 PROVE Holds(Append(buf, b), S, k, Len(s) + 1)
  <2>1. \A i \in 1 .. r + 1 : i \in 1 .. r \/ i = r + 1
    BY <1>3
  <2>2. \A i \in 1 .. r + 1 : Append(buf, b)[i] = S[(k + i) - 1]
    BY <1>1, <1>2, <1>5, <1>8, <1>9, <1>11, <2>1
  <2> QED  BY <1>2, <1>8, <1>9, <1>11, <2>2 DEF Holds
<1> QED  BY <1>6, <1>10, <1>11 DEF S

\* A CR that is not the last byte stays one.
LEMMA CRKept ==
  ASSUME NEW s \in Seq(Bytes), NEW b \in Bytes, NEW k \in 1 .. Len(s), NEW j \in k .. Len(s), s[j] = CR
  PROVE  \E i \in k .. Len(Append(s, b)) - 1 : Append(s, b)[i] = CR
BY OneMore

LEMMA ByteStep ==
  ASSUME LineInv, NEW b \in Bytes, Receive(b)
  PROVE  Progress'
<1> DEFINE s == segment
           n == Len(segment)
<1>0. /\ segment \in Seq(Bytes) /\ line_buf \in Seq(Bytes) /\ lfsm \in {"START", "DATA", "CR"}
      /\ n \in Nat /\ Progress /\ LineMax \in Nat
  BY Constants DEF LineInv, TypeOK
<1>1. ASSUME Note(b) PROVE /\ segment' = Append(s, b) /\ Len(segment') = n + 1 /\ segment'[n + 1] = b
                           /\ \A j \in 1 .. n : segment'[j] = s[j]
  BY <1>0, <1>1, OneMore DEF Note
<1>2. ASSUME NEW l, Dispatch(l) PROVE Progress'
  BY <1>2 DEF Dispatch, Progress, NoText
<1>3. CASE SkipLineEnd(b)
  <2>1. lfsm = "START" /\ lfsm' = "START" /\ NoText(s)
    BY <1>0, <1>3 DEF SkipLineEnd, Progress
  <2>2. NoText(segment')
    <3>1. CASE b = LF
      BY <1>3, <3>1 DEF SkipLineEnd, NoText
    <3>2. CASE b # LF
      <4>1. b = CR /\ Note(b)
        BY <1>3, <3>2 DEF SkipLineEnd
      <4>2. \A j \in 1 .. n + 1 : j \in 1 .. n \/ j = n + 1
        BY <1>0
      <4> QED  BY <1>1, <2>1, <4>1, <4>2 DEF NoText
    <3> QED  BY <3>1, <3>2
  <2> QED  BY <2>1, <2>2 DEF Progress
<1>4. CASE FirstByte(b)
  <2>1. lfsm = "START" /\ NoText(s) /\ b # CR /\ line_buf' = <<b>> /\ lfsm' = "DATA" /\ Note(b)
    BY <1>0, <1>4 DEF FirstByte, Progress
  <2>2. n + 1 \in 1 .. Len(segment') /\ Starts(segment', n + 1)
    <3>1. Len(segment') = n + 1 /\ segment'[n + 1] = b /\ \A j \in 1 .. n : segment'[j] = s[j]
      BY <1>1, <2>1
    <3>2. \A j \in 1 .. n : s[j] = CR
      BY <2>1 DEF NoText
    <3>3. n + 1 \in 1 .. n + 1 /\ (n + 1) - 1 = n
      BY <1>0
    <3> QED  BY <2>1, <3>1, <3>2, <3>3 DEF Starts
  <2>3. Plain(segment', n + 1, n + 1)
    BY <1>0, <1>1, <2>1 DEF Plain
  <2>4. Holds(line_buf', segment', n + 1, n + 1)
    <3>1. Room(n + 1, n + 1) = 1
      BY <1>0, Constants DEF Room
    <3>2. Len(<<b>>) = 1 /\ <<b>>[1] = b /\ ((n + 1) + 1) - 1 = n + 1
      BY <1>0
    <3> QED  BY <1>1, <2>1, <3>1, <3>2 DEF Holds
  <2>5. Len(segment') = n + 1
    BY <1>1, <2>1
  <2> QED  BY <2>1, <2>2, <2>3, <2>4, <2>5 DEF Progress
<1>5. CASE b = CR /\ DataCR
  <2>1. lfsm = "DATA" /\ lfsm' = "CR" /\ Note(b) /\ line_buf' = line_buf
    BY <1>5 DEF DataCR
  <2>2. PICK k \in 1 .. n : /\ Starts(s, k)
                            /\ \/ Plain(s, k, n) /\ Holds(line_buf, s, k, n)
                               \/ \E j \in k .. n - 1 : s[j] = CR
    BY <1>0, <2>1 DEF Progress
  <2>3. k \in 1 .. Len(segment') - 1 /\ Starts(segment', k) /\ segment'[Len(segment')] = CR
    <3>1. segment' = Append(segment, b) /\ Len(segment') = n + 1 /\ segment'[n + 1] = CR
      BY <1>1, <1>5, <2>1
    <3>2. Starts(segment', k)
      BY <1>0, <2>2, <3>1, StartsKept
    <3> QED  BY <1>0, <2>2, <3>1, <3>2
  <2>4. CASE Plain(s, k, n) /\ Holds(line_buf, s, k, n)
    <3>1. Plain(segment', k, Len(segment') - 1)
      <4>1. segment' = Append(segment, b) /\ Len(segment') - 1 = n
        BY <1>0, <1>1, <2>1
      <4>2. Plain(Append(segment, b), k, n)
        BY <1>0, <2>2, <2>4, PlainKept
      <4> QED  BY <4>1, <4>2
    <3>2. Holds(line_buf', segment', k, Len(segment') - 1)
      <4>1. segment' = Append(segment, b) /\ Len(segment') - 1 = n /\ line_buf' = line_buf
        BY <1>0, <1>1, <2>1
      <4>2. Holds(line_buf, Append(segment, b), k, n)
        BY <1>0, <2>2, <2>4, HoldsKept
      <4> QED  BY <4>1, <4>2
    <3> QED  BY <2>1, <2>3, <3>1, <3>2 DEF Progress
  <2>5. CASE \E j \in k .. n - 1 : s[j] = CR
    <3>1. \E j \in k .. Len(segment') - 1 : segment'[j] = CR
      <4>1. segment' = Append(segment, b)
        BY <1>1, <2>1
      <4>2. PICK j \in k .. n - 1 : segment[j] = CR
        BY <2>5
      <4>3. j \in k .. Len(segment)
        BY <1>0, <2>2, <4>2
      <4> QED  BY <1>0, <2>2, <4>1, <4>2, <4>3, CRKept
    <3> QED  BY <2>1, <2>3, <3>1 DEF Progress
  <2> QED  BY <2>2, <2>4, <2>5
<1>6. CASE DataByte(b)
  <2>1. lfsm = "DATA" /\ lfsm' = "DATA" /\ Note(b) /\ Keep(b) /\ b # CR
    BY <1>6 DEF DataByte
  <2>2. PICK k \in 1 .. n : /\ Starts(s, k)
                            /\ \/ Plain(s, k, n) /\ Holds(line_buf, s, k, n)
                               \/ \E j \in k .. n - 1 : s[j] = CR
    BY <1>0, <2>1 DEF Progress
  <2>3. k \in 1 .. Len(segment') /\ Starts(segment', k)
    <3>1. segment' = Append(segment, b) /\ Len(segment') = n + 1
      BY <1>1, <2>1
    <3>2. Starts(segment', k)
      BY <1>0, <2>2, <3>1, StartsKept
    <3> QED  BY <1>0, <2>2, <3>1, <3>2
  <2>4. CASE Plain(s, k, n) /\ Holds(line_buf, s, k, n)
    <3>1. Plain(segment', k, Len(segment'))
      <4>1. \A j \in k .. n + 1 : j \in k .. n \/ j = n + 1
        BY <1>0, <2>2
      <4> QED  BY <1>0, <1>1, <2>1, <2>2, <2>4, <4>1 DEF Plain
    <3>2. Holds(line_buf', segment', k, Len(segment'))
      <4>1. CASE Len(line_buf) < LineMax - 1
        BY <1>0, <1>1, <2>1, <2>2, <2>4, <4>1, HoldsKept DEF Keep
      <4>2. CASE Len(line_buf) >= LineMax - 1
        BY <1>0, <1>1, <2>1, <2>2, <2>4, <4>2, HoldsKept DEF Keep
      <4>3. Len(line_buf) \in Nat
        BY <1>0
      <4> QED  BY <1>0, <4>1, <4>2, <4>3
    <3> QED  BY <2>1, <2>3, <3>1, <3>2 DEF Progress
  <2>5. CASE \E j \in k .. n - 1 : s[j] = CR
    <3>1. \E j \in k .. Len(segment') - 1 : segment'[j] = CR
      <4>1. segment' = Append(segment, b)
        BY <1>1, <2>1
      <4>2. PICK j \in k .. n - 1 : segment[j] = CR
        BY <2>5
      <4>3. j \in k .. Len(segment)
        BY <1>0, <2>2, <4>2
      <4> QED  BY <1>0, <2>2, <4>1, <4>2, <4>3, CRKept
    <3> QED  BY <2>1, <2>3, <3>1 DEF Progress
  <2> QED  BY <2>2, <2>4, <2>5
<1>7. CASE CrOther(b)
  <2>1. lfsm = "CR" /\ lfsm' = "DATA" /\ Note(b)
    BY <1>7 DEF CrOther
  <2>2. PICK k \in 1 .. n - 1 : Starts(s, k) /\ s[n] = CR
    BY <1>0, <2>1 DEF Progress
  <2>3. k \in 1 .. Len(segment') /\ Starts(segment', k)
    <3>1. segment' = Append(segment, b) /\ Len(segment') = n + 1
      BY <1>1, <2>1
    <3>2. Starts(segment', k)
      BY <1>0, <2>2, <3>1, StartsKept
    <3> QED  BY <1>0, <2>2, <3>1, <3>2
  <2>4. \E j \in k .. Len(segment') - 1 : segment'[j] = CR
    BY <1>0, <1>1, <2>1, <2>2
  <2> QED  BY <2>1, <2>3, <2>4 DEF Progress
<1>8. CASE DataLF \/ CrLF \/ CrPrompt
  BY <1>2, <1>8 DEF DataLF, CrLF, CrPrompt
<1> QED  BY <1>3, <1>4, <1>5, <1>6, <1>7, <1>8 DEF Receive

\* State, buffer and bytes belong together in every reachable state.
THEOREM LineInductive == Spec => []LineInv
<1>1. Init => LineInv
  BY TypeInit DEF LineInv, Init, Progress, NoText
<1>2. LineInv /\ [Next]_vars => LineInv'
  <2> SUFFICES ASSUME LineInv, [Next]_vars PROVE Progress'
    BY TypeStep DEF LineInv
  <2>1. CASE Reset
    BY <2>1 DEF Reset, Progress, NoText
  <2>2. CASE UNCHANGED vars
    BY <2>2 DEF vars, LineInv, Progress, NoText, Starts, Plain, Holds
  <2> QED  BY <2>1, <2>2, ByteStep DEF Next
<1> QED  BY <1>1, <1>2, PTL DEF Spec

-----------------------------------------------------------------------------
(* Lines are dispatched intact.                                            *)

\* The text of a line that ends without a CR, and of one that ends with it.
LEMMA TextIs ==
  ASSUME NEW s \in Seq(Bytes), NEW k \in 1 .. Len(s), Starts(s, k)
  PROVE  /\ s[Len(s)] # CR => TextOf(s) = SubSeq(s, k, Len(s))
         /\ s[Len(s)] = CR => TextOf(s) = SubSeq(s, k, Len(s) - 1)
<1> DEFINE t == SubSeq(s, k, Len(s))
<1>1. AfterCRs(s) = t
  BY StartsIs
<1>2. /\ t \in Seq(Bytes) /\ Len(t) = (Len(s) - k) + 1 /\ t # <<>>
      /\ \A i \in 1 .. (Len(s) - k) + 1 : t[i] = s[(k + i) - 1]
  <2>1. /\ t \in Seq(Bytes) /\ Len(t) = (Len(s) - k) + 1
        /\ \A i \in 1 .. (Len(s) - k) + 1 : t[i] = s[(k + i) - 1]
    OBVIOUS
  <2>2. Len(t) # 0
    <3> HIDE DEF t
    <3> QED  BY <2>1
  <2>3. t # <<>>
    <3> HIDE DEF t
    <3> QED  BY <2>2
  <2> QED  BY <2>1, <2>3
<1>3. Last(t) = s[Len(s)]
  BY <1>2 DEF Last
<1>4. Front(t) = SubSeq(s, k, Len(s) - 1)
  <2> DEFINE u == SubSeq(s, k, Len(s) - 1)
             v == SubSeq(t, 1, Len(t) - 1)
  <2>1. /\ u \in Seq(Bytes) /\ Len(u) = Len(s) - k
        /\ \A i \in 1 .. Len(s) - k : u[i] = s[(k + i) - 1]
    OBVIOUS
  <2>2. /\ v \in Seq(Bytes) /\ Len(v) = Len(s) - k
        /\ \A i \in 1 .. Len(s) - k : v[i] = t[i]
    <3> HIDE DEF t
    <3> QED  BY <1>2
  <2>3. \A i \in 1 .. Len(s) - k : u[i] = v[i]
    BY <1>2, <2>1, <2>2
  <2>4. u = v
    <3> HIDE DEF u, v
    <3> QED  BY <2>1, <2>2, <2>3
  <2> QED  BY <2>4 DEF Front
<1> HIDE DEF t
<1>5. TextOf(s) = IF t # <<>> /\ Last(t) = CR THEN Front(t) ELSE t
  BY <1>1 DEF TextOf
<1> QED  BY <1>2, <1>3, <1>4, <1>5 DEF t

\* What a CR before the last byte of the line makes of it.
LEMMA Broken ==
  ASSUME NEW s \in Seq(Bytes), NEW k \in 1 .. Len(s), Starts(s, k),
         NEW j \in k .. Len(s) - 1, s[j] = CR
  PROVE  ~WellFormed(s)
<1>1. CASE s[Len(s)] # CR
  <2>1. TextOf(s) = SubSeq(s, k, Len(s))
    BY <1>1, TextIs
  <2>2. (j - k) + 1 \in DOMAIN SubSeq(s, k, Len(s)) /\ SubSeq(s, k, Len(s))[(j - k) + 1] = CR
    OBVIOUS
  <2> QED  BY <2>1, <2>2 DEF WellFormed, ToSet
<1>2. CASE s[Len(s)] = CR
  <2>1. TextOf(s) = SubSeq(s, k, Len(s) - 1)
    BY <1>2, TextIs
  <2>2. (j - k) + 1 \in DOMAIN SubSeq(s, k, Len(s) - 1) /\ SubSeq(s, k, Len(s) - 1)[(j - k) + 1] = CR
    OBVIOUS
  <2> QED  BY <2>1, <2>2 DEF WellFormed, ToSet
<1> QED  BY <1>1, <1>2

\* At the end of a line, the buffer is what fits of its text.
LEMMA Intact ==
  ASSUME LineInv, WellFormed(segment)
  PROVE  IF lfsm = "START" THEN Fitting(TextOf(segment)) = <<>>
                           ELSE line_buf = Fitting(TextOf(segment))
<1>0. segment \in Seq(Bytes) /\ line_buf \in Seq(Bytes) /\ lfsm \in {"START", "DATA", "CR"}
  BY DEF LineInv, TypeOK
<1>1. CASE lfsm = "START"
  <2>1. TextOf(segment) = <<>>
    BY <1>0, <1>1, NoTextIs DEF LineInv, Progress, TextOf
  <2>2. Len(<<>>) = 0 /\ Min({0, LineMax - 1}) = 0
    <3>1. LineMax - 1 \in Nat
      BY Constants
    <3> QED  BY <3>1, MinIs
  <2> QED  BY <1>1, <2>1, <2>2 DEF Fitting
<1>2. CASE lfsm = "DATA"
  <2>1. PICK k \in 1 .. Len(segment) :
          /\ Starts(segment, k)
          /\ \/ Plain(segment, k, Len(segment)) /\ Holds(line_buf, segment, k, Len(segment))
             \/ \E j \in k .. Len(segment) - 1 : segment[j] = CR
    BY <1>2 DEF LineInv, Progress
  <2>2. Plain(segment, k, Len(segment)) /\ Holds(line_buf, segment, k, Len(segment))
    BY <1>0, <2>1, Broken
  <2>3. Len(segment) \in k .. Len(segment) /\ segment[Len(segment)] # CR
    BY <1>0, <2>1, <2>2 DEF Plain
  <2>4. TextOf(segment) = SubSeq(segment, k, Len(segment))
    BY <1>0, <2>1, <2>3, TextIs
  <2> QED  BY <1>0, <1>2, <2>2, <2>3, <2>4, FittingIs
<1>3. CASE lfsm = "CR"
  <2>1. PICK k \in 1 .. Len(segment) - 1 :
          /\ Starts(segment, k) /\ segment[Len(segment)] = CR
          /\ \/ /\ Plain(segment, k, Len(segment) - 1)
                /\ Holds(line_buf, segment, k, Len(segment) - 1)
             \/ \E j \in k .. Len(segment) - 1 : segment[j] = CR
    BY <1>3 DEF LineInv, Progress
  <2>2. k \in 1 .. Len(segment) /\ Len(segment) - 1 \in k .. Len(segment)
    BY <1>0, <2>1
  <2>3. Holds(line_buf, segment, k, Len(segment) - 1)
    BY <1>0, <2>1, <2>2, Broken
  <2>4. TextOf(segment) = SubSeq(segment, k, Len(segment) - 1)
    BY <1>0, <2>1, <2>2, TextIs
  <2> QED  BY <1>0, <1>3, <2>2, <2>3, <2>4, FittingIs
<1> QED  BY <1>0, <1>1, <1>2, <1>3

\* A well-formed line is dispatched at its LF, once and unchanged but for what
\* is beyond the buffer, whatever came before it; nothing else is dispatched
\* but a prompt.
THEOREM LinesIntact == Spec => LineIntact
<1> DEFINE Step == \A b \in Bytes :
                     Receive(b) =>
                       IF b = LF
                         THEN WellFormed(segment) => line' = Fitting(TextOf(segment))
                         ELSE line' # <<>> => line' = <<GT, SP>>
<1>1. LineInv /\ [Next]_vars => [Step]_vars
  <2> SUFFICES ASSUME LineInv, NEW b \in Bytes, Receive(b)
               PROVE  IF b = LF
                        THEN WellFormed(segment) => line' = Fitting(TextOf(segment))
                        ELSE line' # <<>> => line' = <<GT, SP>>
    OBVIOUS
  <2>1. CASE b = LF
    <3> SUFFICES ASSUME WellFormed(segment) PROVE line' = Fitting(TextOf(segment))
      BY <2>1
    <3>1. CASE SkipLineEnd(b)
      BY <3>1, Intact DEF SkipLineEnd
    <3>2. CASE DataLF \/ CrLF
      BY <3>2, Intact DEF DataLF, CrLF, Dispatch
    <3> QED  BY <2>1, <3>1, <3>2, Constants DEF Receive, FirstByte, DataByte, CrOther
  <2>2. CASE b # LF
    <3>1. CrPrompt => line' = <<GT, SP>>
      BY DEF CrPrompt, Dispatch
    <3> QED  BY <2>2, <3>1 DEF Receive, SkipLineEnd, FirstByte, DataCR, DataByte, CrOther
  <2> QED  BY <2>1, <2>2
<1>2. [][Step]_vars => LineIntact
  BY DEF LineIntact
<1> QED  BY <1>1, <1>2, LineInductive, PTL DEF Spec
=============================================================================

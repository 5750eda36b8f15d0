--------------------------- MODULE GsmLayerProofs ---------------------------
(***************************************************************************)
(* The GSM layer for every table of values, every range of the integers    *)
(* and every text.                                                         *)
(***************************************************************************)
EXTENDS GsmLayer, SequenceTheorems, WellFoundedInduction, TLAPS

-----------------------------------------------------------------------------
(* Recursive functions over numbers.                                       *)

LEMMA Least ==
  ASSUME NEW S \in SUBSET Nat, S # {}
  PROVE  \E x \in S : \A y \in S : x <= y
<1>1. PICK x \in S : \A y \in S : ~(<<y, x>> \in OpToRel(<, Nat))
  BY NatLessThanWellFounded, WFMin
<1>2. \A y \in S : x <= y
  <2> SUFFICES ASSUME NEW y \in S PROVE x <= y
    OBVIOUS
  <2>1. ~(y < x)
    BY <1>1 DEF OpToRel
  <2> QED  BY <2>1
<1> QED  BY <1>2

\* f[i] from the value of f at an earlier place, down to places where it is
\* given: f follows for the places below m.
Follows(f, N, base, end, pred, step, m) ==
  \A i \in N : i < m => f[i] = IF i \in end THEN base[i] ELSE step[<<f[pred[i]], i>>]

Obeys(f, N, base, end, pred, step) ==
  \A i \in N : f[i] = IF i \in end THEN base[i] ELSE step[<<f[pred[i]], i>>]
Earlier(N, end, pred) == \A i \in N \ end : pred[i] < i

\* There is such a function.
LEMMA Recursion ==
  ASSUME NEW N \in SUBSET Nat, NEW S, NEW base \in [N -> S], NEW end \in SUBSET N,
         NEW pred \in [N -> N], NEW step \in [S \X N -> S],
         Earlier(N, end, pred)
  PROVE  \E f \in [N -> S] : Obeys(f, N, base, end, pred, step)
<1>0. \A i \in N \ end : pred[i] < i
  BY DEF Earlier
<1> DEFINE Ok(f, m) == Follows(f, N, base, end, pred, step, m)
<1>1. \A m \in Nat : \E f \in [N -> S] : Ok(f, m)
  <2> DEFINE Bad == {m \in Nat : ~\E f \in [N -> S] : Ok(f, m)}
  <2> SUFFICES ASSUME Bad # {} PROVE FALSE
    OBVIOUS
  <2>1. PICK m \in Bad : \A y \in Bad : m <= y
    BY Least
  <2>2. m # 0
    <3>1. Ok(base, 0)
      BY DEF Follows
    <3> QED  BY <2>1, <3>1
  <2>3. m - 1 \in Nat /\ m - 1 \notin Bad /\ m \in Nat
    BY <2>1, <2>2
  <2>4. PICK g \in [N -> S] : Ok(g, m - 1)
    BY <2>3
  <2>5. CASE m - 1 \notin N
    <3>1. Ok(g, m)
      BY <2>3, <2>4, <2>5 DEF Follows
    <3> QED  BY <2>1, <3>1
  <2>6. CASE m - 1 \in N
    <3> DEFINE v == IF m - 1 \in end THEN base[m - 1] ELSE step[<<g[pred[m - 1]], m - 1>>]
    <3>1. v \in S
      BY <2>6
    <3> HIDE DEF v
    <3>2. PICK f : f = [g EXCEPT ![m - 1] = v]
      OBVIOUS
    <3>3. f \in [N -> S] /\ f[m - 1] = v /\ \A i \in N : i # m - 1 => f[i] = g[i]
      BY <2>6, <3>1, <3>2
    <3>4. ASSUME NEW i \in N, i < m
          PROVE  f[i] = IF i \in end THEN base[i] ELSE step[<<f[pred[i]], i>>]
      <4>1. i \in end \/ (pred[i] \in N /\ pred[i] # m - 1 /\ f[pred[i]] = g[pred[i]])
        <5> SUFFICES ASSUME i \notin end
                     PROVE  pred[i] \in N /\ pred[i] # m - 1 /\ f[pred[i]] = g[pred[i]]
          OBVIOUS
        <5>1. pred[i] \in N /\ pred[i] < i /\ pred[i] \in Nat /\ i \in Nat
          BY <1>0
        <5>2. pred[i] # m - 1
          BY <2>3, <3>4, <5>1
        <5> QED  BY <3>3, <5>1, <5>2
      <4>2. CASE i = m - 1
        BY <3>3, <4>1, <4>2 DEF v
      <4>3. CASE i # m - 1
        <5>1. g[i] = IF i \in end THEN base[i] ELSE step[<<g[pred[i]], i>>]
          BY <2>3, <2>4, <3>4, <4>3 DEF Follows
        <5> QED  BY <3>3, <4>1, <4>3, <5>1
      <4> QED  BY <4>2, <4>3
    <3>5. Ok(f, m)
      BY <3>4 DEF Follows
    <3> QED  BY <2>1, <3>3, <3>5
  <2> QED  BY <2>5, <2>6
<1>2. ASSUME NEW m \in Nat, NEW f \in [N -> S], NEW g \in [N -> S], NEW k \in Nat,
             Ok(f, m), Ok(g, k)
      PROVE  \A i \in N : i < m /\ i < k => f[i] = g[i]
  <2> DEFINE Bad == {i \in N : i < m /\ i < k /\ f[i] # g[i]}
  <2> SUFFICES ASSUME Bad # {} PROVE FALSE
    OBVIOUS
  <2>1. PICK i \in Bad : \A y \in Bad : i <= y
    <3>1. Bad \in SUBSET Nat
      OBVIOUS
    <3> QED  BY <3>1, Least
  <2>2. /\ f[i] = IF i \in end THEN base[i] ELSE step[<<f[pred[i]], i>>]
        /\ g[i] = IF i \in end THEN base[i] ELSE step[<<g[pred[i]], i>>]
    BY <1>2, <2>1 DEF Follows
  <2>3. i \notin end => pred[i] \in N /\ pred[i] < i /\ pred[i] \in Nat
    BY <1>0, <2>1
  <2>4. i \notin end => pred[i] \notin Bad /\ f[pred[i]] = g[pred[i]]
    BY <1>2, <2>1, <2>3
  <2> QED  BY <2>1, <2>2, <2>4
<1>3. PICK F : F = [i \in N |-> (CHOOSE h \in [N -> S] : Ok(h, i + 1))[i]]
  OBVIOUS
<1>4. ASSUME NEW i \in N
      PROVE  \E f \in [N -> S] : Ok(f, i + 1) /\ F[i] = f[i]
  <2>1. \E f \in [N -> S] : Ok(f, i + 1)
    BY <1>1
  <2>2. PICK f : f = CHOOSE h \in [N -> S] : Ok(h, i + 1)
    OBVIOUS
  <2>3. f \in [N -> S] /\ Ok(f, i + 1)
    BY <2>1, <2>2
  <2>4. F[i] = f[i]
    BY <1>3, <2>2
  <2> QED  BY <2>3, <2>4
<1>5. F \in [N -> S]
  BY <1>3, <1>4
<1>6. ASSUME NEW i \in N
      PROVE  F[i] = IF i \in end THEN base[i] ELSE step[<<F[pred[i]], i>>]
  <2>1. PICK f \in [N -> S] : Ok(f, i + 1) /\ F[i] = f[i]
    BY <1>4
  <2>2. f[i] = IF i \in end THEN base[i] ELSE step[<<f[pred[i]], i>>]
    BY <2>1 DEF Follows
  <2>3. CASE i \notin end
    <3>1. pred[i] \in N /\ pred[i] < i /\ pred[i] \in Nat /\ i \in Nat
      BY <1>0, <2>3
    <3>2. PICK g \in [N -> S] : Ok(g, pred[i] + 1) /\ F[pred[i]] = g[pred[i]]
      BY <1>4, <3>1
    <3>3. i + 1 \in Nat /\ pred[i] + 1 \in Nat /\ pred[i] < i + 1 /\ pred[i] < pred[i] + 1
      BY <3>1
    <3>4. f[pred[i]] = g[pred[i]]
      BY <1>2, <2>1, <3>1, <3>2, <3>3
    <3> QED  BY <2>1, <2>2, <2>3, <3>2, <3>4
  <2> QED  BY <2>1, <2>2, <2>3
<1> QED  BY <1>5, <1>6 DEF Obeys

-----------------------------------------------------------------------------
(* The parser's arithmetic.                                                *)

\* The digits of v, accumulated up to max.
LEMMA AccumulatedIs ==
  ASSUME NEW max \in Nat, max > 9, NEW v \in Nat
  PROVE  /\ Accumulated(max, v) \in {v, max} /\ Accumulated(max, v) <= max
         /\ v + 9 <= max => Accumulated(max, v) = v
         /\ v > max => Accumulated(max, v) = max
<1> DEFINE Sum(before, w) == IF MayShift(max, before) THEN (before * 10) + (w % 10) ELSE max
           Rec(acc) == acc = [w \in Nat |-> IF w < 10 THEN w ELSE Sum(acc[w \div 10], w)]
           Right(w, a) == /\ a \in {w, max} /\ a <= max
                          /\ w + 9 <= max => a = w
                          /\ w > max => a = max
<1>1. ASSUME NEW before \in Nat, NEW w \in Nat PROVE Sum(before, w) \in Nat
  BY DEF MayShift
<1>2. \A w \in Nat : w \div 10 \in Nat /\ (w \notin 0 .. 9 => w \div 10 < w)
  OBVIOUS
<1>3. \E acc \in [Nat -> Nat] : Rec(acc)
  <2>1. PICK base : base = [w \in Nat |-> w]
    OBVIOUS
  <2>2. PICK end : end = 0 .. 9
    OBVIOUS
  <2>3. PICK pred : pred = [w \in Nat |-> w \div 10]
    OBVIOUS
  <2>4. PICK step : step = [x \in Nat \X Nat |-> Sum(x[1], x[2])]
    OBVIOUS
  <2>5. /\ base \in [Nat -> Nat] /\ end \in SUBSET Nat /\ pred \in [Nat -> Nat]
        /\ Nat \in SUBSET Nat /\ Earlier(Nat, end, pred)
    BY <1>2, <2>1, <2>2, <2>3 DEF Earlier
  <2>6. step \in [Nat \X Nat -> Nat]
    <3> HIDE DEF Sum
    <3> QED  BY <1>1, <2>4
  <2>7. PICK f \in [Nat -> Nat] : Obeys(f, Nat, base, end, pred, step)
    BY <2>5, <2>6, Recursion
  <2> HIDE DEF Sum
  <2>8. ASSUME NEW w \in Nat
        PROVE  f[w] = IF w < 10 THEN w ELSE Sum(f[w \div 10], w)
    <3>1. f[w] = IF w \in end THEN base[w] ELSE step[<<f[pred[w]], w>>]
      BY <2>7 DEF Obeys
    <3>2. w \in end <=> w < 10
      BY <2>2
    <3>3. base[w] = w /\ pred[w] = w \div 10 /\ f[w \div 10] \in Nat
      BY <1>2, <2>1, <2>3
    <3>4. step[<<f[w \div 10], w>>] = Sum(f[w \div 10], w)
      BY <2>4, <3>3
    <3> QED  BY <3>1, <3>2, <3>3, <3>4
  <2>9. f = [w \in Nat |-> IF w < 10 THEN w ELSE Sum(f[w \div 10], w)]
    BY <2>8
  <2> QED  BY <2>9
<1>4. PICK acc : acc = CHOOSE f : Rec(f)
  OBVIOUS
<1>5. Accumulated(max, v) = acc[v]
  BY <1>4 DEF Accumulated
<1>6. Rec(acc)
  BY <1>3, <1>4
<1>7. \A w \in Nat : acc[w] = IF w < 10 THEN w ELSE Sum(acc[w \div 10], w)
  BY <1>6
<1>8. \A w \in Nat : Right(w, acc[w])
  <2> DEFINE Bad == {w \in Nat : ~Right(w, acc[w])}
  <2> SUFFICES ASSUME Bad # {} PROVE FALSE
    OBVIOUS
  <2>1. PICK w \in Bad : \A y \in Bad : w <= y
    BY Least
  <2>2. w >= 10
    BY <1>7, <2>1
  <2>3. w \div 10 \in Nat /\ w \div 10 < w /\ w = 10 * (w \div 10) + (w % 10) /\ w % 10 \in 0 .. 9
    BY <2>1, <2>2
  <2>4. Right(w \div 10, acc[w \div 10])
    BY <2>1, <2>3
  <2>5. acc[w] = Sum(acc[w \div 10], w)
    BY <1>7, <2>1, <2>2
  <2> DEFINE b == w \div 10
             r == w % 10
             c == acc[b]
             d == (max - 9) \div 10
  <2>6. b \in Nat /\ r \in 0 .. 9 /\ w = 10 * b + r /\ Right(b, c)
    BY <2>3, <2>4
  <2>7. acc[w] = IF c <= d THEN (c * 10) + r ELSE max
    BY <2>5 DEF MayShift
  <2>8. d \in Nat /\ 10 * d <= max - 9 /\ max - 9 < 10 * d + 10
    OBVIOUS
  <2>9. ~Right(w, acc[w])
    BY <2>1
  <2> HIDE DEF b, r, c, d
  <2>10. c \in Nat /\ (c = b \/ c = max)
    BY <2>6
  <2>11. CASE c <= d
    <3>1. c # max
      BY <2>8, <2>11
    <3>2. c = b /\ acc[w] = w /\ w <= max
      BY <2>6, <2>7, <2>8, <2>10, <2>11, <3>1
    <3> QED  BY <2>6, <2>9, <3>2
  <2>12. CASE ~(c <= d)
    <3>1. acc[w] = max
      BY <2>7, <2>12
    <3>2. ~(w + 9 <= max)
      BY <2>6, <2>8, <2>10, <2>12
    <3> QED  BY <2>6, <2>9, <3>1, <3>2
  <2> QED  BY <2>11, <2>12
<1> QED  BY <1>5, <1>8

\* A number is parsed as it is unless it comes within one digit of the largest
\* value, and is never parsed as a smaller one than that allows: for every
\* range of the integers and every number, however long.
THEOREM Saturates == Spec => []ParseSaturates
<1>1. ParseSaturates
  <2> SUFFICES ASSUME NEW v \in Nat
               PROVE  LET i == at__parse_int(<<Num(v)>>)
                          u == at__parse_uint(<<Num(v)>>)
                      IN  /\ i \in 0 .. IntMax /\ (v + 9 <= IntMax => i = v) /\ (v > IntMax => i = IntMax)
                          /\ u \in 0 .. UintMax /\ (v + 9 <= UintMax => u = v)
                          /\ (v > UintMax => u = UintMax)
    BY DEF ParseSaturates
  <2>1. PICK p : p = <<Num(v)>>
    OBVIOUS
  <2>2. p # <<>> /\ Head(p).t = "num" /\ Head(p).v = v
    <3>1. PICK t : t = Num(v)
      OBVIOUS
    <3>2. t.t = "num" /\ t.v = v
      BY <3>1 DEF Num
    <3> QED  BY <2>1, <3>1, <3>2
  <2>3. at__parse_int(p) = Accumulated(IntMax, v) /\ at__parse_uint(p) = Accumulated(UintMax, v)
    BY <2>2 DEF at__parse_int, at__parse_uint, Starts
  <2> QED  BY <2>1, <2>3, AccumulatedIs, FmtAssumption
<1> QED  BY <1>1, PTL

-----------------------------------------------------------------------------
(* The table of the builders.                                              *)

Kinds == {"number", "bool", "suffix", "flag", "text", "field", "body"}
Reasons == {"zero", "null", "empty", "unfit"}
ArgTypes ==
  [kind : Kinds, max : Nat, refuses : SUBSET Reasons, skips : SUBSET Reasons, quotes : {0, 1}, fits : Nat]

LEMMA ArgsTyped ==
  ASSUME NEW n \in Nat
  PROVE  /\ Number(n) \in ArgTypes /\ Suffix(n) \in ArgTypes /\ FlagSuffix(n) \in ArgTypes
         /\ Plain(n) \in ArgTypes /\ Checked(n) \in ArgTypes /\ Unquoted(n) \in ArgTypes
         /\ Optional(n) \in ArgTypes /\ Field(n) \in ArgTypes /\ Body(n) \in ArgTypes
         /\ UpTo(Plain(n), n) \in ArgTypes /\ UpTo(Checked(n), n) \in ArgTypes
         /\ Byte \in ArgTypes /\ Code \in ArgTypes /\ Bool \in ArgTypes /\ NonZero \in ArgTypes
<1>1. Number(n) \in ArgTypes /\ Byte \in ArgTypes /\ Number(1) \in ArgTypes
  BY DEF Kinds, Reasons, Number, Byte, ArgTypes
<1>2. Code \in ArgTypes /\ Bool \in ArgTypes /\ NonZero \in ArgTypes
  BY <1>1 DEF Kinds, Reasons, Code, Bool, NonZero, ArgTypes
<1>3. Suffix(n) \in ArgTypes
  BY <1>1 DEF Kinds, Reasons, Suffix, ArgTypes
<1>4. FlagSuffix(n) \in ArgTypes
  BY <1>3 DEF Kinds, Reasons, FlagSuffix, ArgTypes
<1>5. Plain(n) \in ArgTypes
  BY SizesAssumption DEF Kinds, Reasons, Plain, ArgTypes
<1>6. Checked(n) \in ArgTypes /\ Optional(n) \in ArgTypes /\ Field(n) \in ArgTypes /\ Body(n) \in ArgTypes
  BY <1>5 DEF Kinds, Reasons, Checked, Optional, Field, Body, ArgTypes
<1>7. Unquoted(n) \in ArgTypes
  BY <1>6 DEF Kinds, Reasons, Unquoted, ArgTypes
<1>8. UpTo(Plain(n), n) \in ArgTypes /\ UpTo(Checked(n), n) \in ArgTypes
  BY <1>5, <1>6 DEF Kinds, Reasons, UpTo, ArgTypes
<1> QED  BY <1>1, <1>2, <1>3, <1>4, <1>5, <1>6, <1>7, <1>8

\* A row has arguments and a buffer.
Row(c) == c.args \in Seq(ArgTypes) /\ c.buf \in Nat \ {0}

\* The arguments of the table.
LEMMA NumbersUsed ==
  /\ Byte \in ArgTypes /\ Code \in ArgTypes /\ Bool \in ArgTypes /\ NonZero \in ArgTypes
  /\ Number(1) \in ArgTypes /\ Number(2) \in ArgTypes /\ Number(4) \in ArgTypes
  /\ FileId \in ArgTypes /\ Suffix(2) \in ArgTypes /\ FlagSuffix(1) \in ArgTypes
BY ArgsTyped DEF FileId

LEMMA TextsUsed ==
  /\ Plain(0) \in ArgTypes /\ Plain(2) \in ArgTypes /\ Plain(6) \in ArgTypes
  /\ Plain(8) \in ArgTypes /\ Plain(20) \in ArgTypes /\ UpTo(Plain(8), 8) \in ArgTypes
  /\ Checked(2) \in ArgTypes /\ Checked(7) \in ArgTypes /\ Checked(23) \in ArgTypes
  /\ UpTo(Checked(15), 15) \in ArgTypes /\ Unquoted(20) \in ArgTypes
BY ArgsTyped

LEMMA OthersUsed ==
  /\ Optional(2) \in ArgTypes /\ Optional(8) \in ArgTypes /\ OptionalData \in ArgTypes
  /\ Field(7) \in ArgTypes /\ Field(63) \in ArgTypes /\ OptionalField(39) \in ArgTypes
  /\ Body(160) \in ArgTypes
<1>1. Optional(0) \in ArgTypes /\ Field(39) \in ArgTypes
  BY ArgsTyped
<1>2. OptionalData \in ArgTypes /\ OptionalField(39) \in ArgTypes
  BY <1>1 DEF Kinds, Reasons, ArgTypes, OptionalData, OptionalField
<1>3. /\ Optional(2) \in ArgTypes /\ Optional(8) \in ArgTypes
      /\ Field(7) \in ArgTypes /\ Field(63) \in ArgTypes /\ Body(160) \in ArgTypes
  BY ArgsTyped
<1> QED  BY <1>2, <1>3

LEMMA Cmd1 ==
  ASSUME NEW h, NEW n \in Nat \ {0}, NEW a \in ArgTypes
  PROVE  Row(Cmd(h, n, <<a>>))
BY DEF Cmd, Row

LEMMA Cmd2 ==
  ASSUME NEW h, NEW n \in Nat \ {0}, NEW a \in ArgTypes, NEW b \in ArgTypes
  PROVE  Row(Cmd(h, n, <<a, b>>))
BY DEF Cmd, Row

LEMMA Cmd3 ==
  ASSUME NEW h, NEW n \in Nat \ {0}, NEW a \in ArgTypes, NEW b \in ArgTypes, NEW d \in ArgTypes
  PROVE  Row(Cmd(h, n, <<a, b, d>>))
BY DEF Cmd, Row

LEMMA Cmd4 ==
  ASSUME NEW h, NEW n \in Nat \ {0}, NEW a \in ArgTypes, NEW b \in ArgTypes, NEW d \in ArgTypes, NEW e \in ArgTypes
  PROVE  Row(Cmd(h, n, <<a, b, d, e>>))
BY DEF Cmd, Row

LEMMA Cmd5 ==
  ASSUME NEW h, NEW n \in Nat \ {0}, NEW a \in ArgTypes, NEW b \in ArgTypes, NEW d \in ArgTypes, NEW e \in ArgTypes, NEW f \in ArgTypes
  PROVE  Row(Cmd(h, n, <<a, b, d, e, f>>))
BY DEF Cmd, Row

LEMMA Cmd6 ==
  ASSUME NEW h, NEW n \in Nat \ {0}, NEW a \in ArgTypes, NEW b \in ArgTypes, NEW d \in ArgTypes, NEW e \in ArgTypes, NEW f \in ArgTypes, NEW g \in ArgTypes
  PROVE  Row(Cmd(h, n, <<a, b, d, e, f, g>>))
BY DEF Cmd, Row

LEMMA FixedAre ==
  ASSUME NEW c \in Commands, NEW heads, c \in Fixed(heads)
  PROVE  Row(c)
<1>1. PICK h \in heads : c = Cmd(h, Len(h) + 1, <<>>)
  BY DEF Fixed
<1>2. c.head = h /\ c.buf = Len(h) + 1 /\ c.args = <<>>
  BY <1>1 DEF Cmd
<1>3. Len(h) \in 1 .. 20
  BY <1>2, HeadsAssumption
<1>4. c.buf \in Nat \ {0} /\ <<>> \in Seq(ArgTypes)
  BY <1>2, <1>3
<1> QED  BY <1>2, <1>4 DEF Row

LEMMA RowsAre ==
  ASSUME NEW c \in Commands
  PROVE  Row(c)
<1>1. CASE c \in General
  BY <1>1, NumbersUsed, FixedAre, Cmd1 DEF General
<1>2. CASE c \in Identification
  BY <1>2, FixedAre DEF Identification
<1>3. CASE c \in CharacterSets
  BY <1>3, TextsUsed, FixedAre, Cmd1 DEF CharacterSets
<1>4. CASE c \in Power
  BY <1>4, NumbersUsed, Cmd2 DEF Power
<1>5. CASE c \in Sim
  BY <1>5, NumbersUsed, TextsUsed, OthersUsed, FixedAre, Cmd1, Cmd2, Cmd3 DEF Sim
<1>6. CASE c \in Registration
  BY <1>6, NumbersUsed, FixedAre, Cmd1 DEF Registration
<1>7. CASE c \in Operators
  <2>1. /\ Byte \in ArgTypes /\ Number(2) \in ArgTypes
        /\ Plain(6) \in ArgTypes /\ Checked(23) \in ArgTypes
        /\ 40 \in Nat \ {0} /\ 48 \in Nat \ {0}
    BY NumbersUsed, TextsUsed
  <2>2. \/ c \in Fixed({"AT+COPS?", "AT+COPS=0", "AT+CPOL?"})
        \/ c = Cmd("AT+COPS=1,2,", 40, <<Plain(6), Byte>>)
        \/ c = Cmd("AT+CPOL=", 48, <<Byte, Number(2), Checked(23)>>)
    BY <1>7, Zenon DEF Operators
  <2>3. Row(Cmd("AT+COPS=1,2,", 40, <<Plain(6), Byte>>))
    BY <2>1, Cmd2, Zenon
  <2>4. Row(Cmd("AT+CPOL=", 48, <<Byte, Number(2), Checked(23)>>))
    BY <2>1, Cmd3, Zenon
  <2> QED  BY <2>2, <2>3, <2>4, FixedAre, Zenon
<1>8. CASE c \in Signal
  BY <1>8, FixedAre DEF Signal
<1>9. CASE c \in Clock
  BY <1>9, NumbersUsed, TextsUsed, FixedAre, Cmd1 DEF Clock
<1>10. CASE c \in PacketData
  BY <1>10, NumbersUsed, OthersUsed, FixedAre, Cmd1, Cmd2, Cmd4 DEF PacketData
<1>11. CASE c \in Sms
  <2>1. /\ Byte \in ArgTypes /\ Code \in ArgTypes /\ Number(4) \in ArgTypes
        /\ Checked(2) \in ArgTypes /\ Optional(2) \in ArgTypes
        /\ UpTo(Checked(15), 15) \in ArgTypes /\ Body(160) \in ArgTypes
    BY NumbersUsed, TextsUsed, OthersUsed
  <2> QED  BY <1>11, <2>1, Cmd1, Cmd2, Cmd3, Cmd5 DEF Sms
<1>12. CASE c \in Calls
  BY <1>12, NumbersUsed, TextsUsed, FixedAre, Cmd1, Cmd2 DEF Calls
<1>13. CASE c \in Supplementary
  BY <1>13, NumbersUsed, FixedAre, Cmd1, Cmd3 DEF Supplementary
<1>14. CASE c \in SimFilesAndUssd
  <2>1. /\ Byte \in ArgTypes /\ FileId \in ArgTypes
        /\ Plain(0) \in ArgTypes /\ OptionalData \in ArgTypes
    BY NumbersUsed, TextsUsed, OthersUsed
  <2>2. /\ \A h : Row(Cmd(h, 96, <<Byte, FileId, Byte, Byte, Byte, OptionalData>>))
        /\ \A h : Row(Cmd(h, 80, <<Plain(0), Byte>>))
    BY <2>1, Cmd2, Cmd6
  <2>3. CASE ~\E heads : c \in Fixed(heads)
    BY <1>14, <2>2, <2>3, Zenon DEF SimFilesAndUssd
  <2> QED  BY <2>3, FixedAre
<1> QED  BY <1>1, <1>2, <1>3, <1>4, <1>5, <1>6, <1>7, <1>8, <1>9, <1>10, <1>11, <1>12, <1>13, <1>14 DEF Commands

-----------------------------------------------------------------------------
(* What a builder appends.                                                 *)

\* How many digits a number has.
LEMMA DigitsAre ==
  ASSUME NEW v \in Nat
  PROVE  /\ Digits(v) \in Nat
         /\ v < 10 => Digits(v) <= 1
         /\ v < 1000 => Digits(v) <= 3
         /\ v < 100000 => Digits(v) <= 5
<1> DEFINE Rec(f) == f = [w \in Nat |-> IF w < 10 THEN 1 ELSE 1 + f[w \div 10]]
<1>1. \A w \in Nat : w \div 10 \in Nat /\ (w \notin 0 .. 9 => w \div 10 < w)
  OBVIOUS
<1>2. \E f \in [Nat -> Nat] : Rec(f)
  <2>1. PICK base : base = [w \in Nat |-> 1]
    OBVIOUS
  <2>2. PICK end : end = 0 .. 9
    OBVIOUS
  <2>3. PICK pred : pred = [w \in Nat |-> w \div 10]
    OBVIOUS
  <2>4. PICK step : step = [x \in Nat \X Nat |-> 1 + x[1]]
    OBVIOUS
  <2>5. /\ base \in [Nat -> Nat] /\ end \in SUBSET Nat /\ pred \in [Nat -> Nat]
        /\ Nat \in SUBSET Nat /\ Earlier(Nat, end, pred) /\ step \in [Nat \X Nat -> Nat]
    BY <1>1, <2>1, <2>2, <2>3, <2>4 DEF Earlier
  <2>6. PICK f \in [Nat -> Nat] : Obeys(f, Nat, base, end, pred, step)
    BY <2>5, Recursion
  <2>7. ASSUME NEW w \in Nat
        PROVE  f[w] = IF w < 10 THEN 1 ELSE 1 + f[w \div 10]
    <3>1. f[w] = IF w \in end THEN base[w] ELSE step[<<f[pred[w]], w>>]
      BY <2>6 DEF Obeys
    <3>2. w \in end <=> w < 10
      BY <2>2
    <3>3. base[w] = 1 /\ pred[w] = w \div 10 /\ f[w \div 10] \in Nat
      BY <1>1, <2>1, <2>3
    <3>4. step[<<f[w \div 10], w>>] = 1 + f[w \div 10]
      BY <2>4, <3>3
    <3> QED  BY <3>1, <3>2, <3>3, <3>4
  <2>8. Rec(f)
    BY <2>7
  <2> QED  BY <2>8
<1>3. PICK count : count = CHOOSE f : Rec(f)
  OBVIOUS
<1>4. Digits(v) = count[v]
  BY <1>3 DEF Digits
<1>5. Rec(count)
  BY <1>2, <1>3
<1>6. \A w \in Nat : count[w] = IF w < 10 THEN 1 ELSE 1 + count[w \div 10]
  BY <1>5
<1>7. \A w \in Nat : count[w] \in Nat
  <2> DEFINE Bad == {w \in Nat : count[w] \notin Nat}
  <2> SUFFICES ASSUME Bad # {} PROVE FALSE
    OBVIOUS
  <2>1. PICK w \in Bad : \A y \in Bad : w <= y
    BY Least
  <2>2. w \notin 0 .. 9 /\ w \in Nat
    BY <1>6, <2>1
  <2>3. w \div 10 \in Nat /\ w \div 10 < w
    BY <1>1, <2>2
  <2>4. count[w \div 10] \in Nat
    BY <2>1, <2>3
  <2> QED  BY <1>6, <2>1, <2>4
<1>8. \A w \in Nat : w < 10 => count[w] <= 1
  BY <1>6
<1>9. \A w \in Nat : w < 100 => count[w] <= 2
  BY <1>1, <1>6, <1>7, <1>8
<1>10. \A w \in Nat : w < 1000 => count[w] <= 3
  BY <1>1, <1>6, <1>7, <1>9
<1>11. \A w \in Nat : w < 10000 => count[w] <= 4
  BY <1>1, <1>6, <1>7, <1>10
<1>12. \A w \in Nat : w < 100000 => count[w] <= 5
  BY <1>1, <1>6, <1>7, <1>11
<1> QED  BY <1>4, <1>7, <1>8, <1>10, <1>12

\* A value given to a builder.
Values == [is : {"number", "fit", "null", "unfit"}, n : Nat]

LEMMA ValuesTyped ==
  ASSUME NEW a \in ArgTypes
  PROVE  ValuesOf(a) \subseteq Values
<1>1. \A n \in Nat : /\ Value("number", n) \in Values /\ Value("fit", n) \in Values
                     /\ Value("null", n) \in Values /\ Value("unfit", n) \in Values
  BY DEF Value, Values
<1>2. Texts \subseteq Values
  BY <1>1, SizesAssumption DEF Texts
<1>3. \A n \in Bytes : n \in Nat
  BY SizesAssumption
<1>4. a.max \in Nat /\ a.kind \in Kinds
  BY DEF ArgTypes
<1>5. CASE a.kind = "number"
  BY <1>1, <1>3, <1>4, <1>5 DEF ValuesOf
<1>6. CASE a.kind \in {"bool", "flag"}
  BY <1>1, <1>6 DEF ValuesOf
<1>7. CASE a.kind = "suffix"
  BY <1>1, <1>7 DEF ValuesOf
<1>8. CASE a.kind = "field"
  BY <1>2, <1>8 DEF ValuesOf
<1>9. CASE a.kind \in {"text", "body"}
  BY <1>2, <1>9 DEF ValuesOf
<1> QED  BY <1>4, <1>5, <1>6, <1>7, <1>8, <1>9 DEF Kinds

LEMMA AppendsTyped ==
  ASSUME NEW a \in ArgTypes, NEW v \in Values, NEW first \in BOOLEAN
  PROVE  Appends(a, v, first) \in Seq(Nat)
<1> DEFINE sep == IF first THEN <<>> ELSE <<1>>
<1>1. a.fits \in Nat /\ v.n \in Nat /\ Digits(v.n) \in Nat
  BY DigitsAre DEF ArgTypes, Values
<1>2. sep \in Seq(Nat)
  OBVIOUS
<1>3. /\ <<>> \in Seq(Nat) /\ <<a.fits>> \in Seq(Nat) /\ <<Digits(v.n)>> \in Seq(Nat)
      /\ <<1, v.n, 1>> \in Seq(Nat) /\ <<v.n>> \in Seq(Nat)
  BY <1>1
<1>4. \A s \in Seq(Nat) : sep \o s \in Seq(Nat)
  <2> HIDE DEF sep
  <2> QED  BY <1>2
<1>5. \/ Appends(a, v, first) \in {<<>>, <<a.fits>>}
      \/ Appends(a, v, first) = sep \o <<Digits(v.n)>>
      \/ Appends(a, v, first) = sep \o <<1, v.n, 1>>
      \/ Appends(a, v, first) = sep \o <<v.n>>
  BY DEF Appends
<1> HIDE DEF sep
<1> QED  BY <1>3, <1>4, <1>5

\* A builder is called with a value for each argument.
LEMMA ArgsOfTyped ==
  ASSUME NEW c, Row(c), NEW vs \in ArgsOf(c)
  PROVE  vs \in Seq(Values) /\ Len(vs) = Len(c.args)
<1> DEFINE N == 0 .. Len(c.args)
           S == SUBSET Seq(Values)
           More(set, i) == {Append(us, v) : us \in set, v \in ValuesOf(c.args[i])}
           Rec(f) == f = [i \in N |-> IF i = 0 THEN {<<>>} ELSE More(f[i - 1], i)]
<1>1. Len(c.args) \in Nat /\ \A i \in 1 .. Len(c.args) : c.args[i] \in ArgTypes
  BY DEF Row
<1>2. N \in SUBSET Nat /\ 0 \in N /\ Len(c.args) \in N
      /\ \A i \in N : i # 0 => i \in 1 .. Len(c.args) /\ i - 1 \in N /\ i - 1 < i
  BY <1>1
<1> HIDE DEF N
<1>3. ASSUME NEW set \in S, NEW i \in N, i # 0
      PROVE  More(set, i) \in S
  <2>1. ValuesOf(c.args[i]) \subseteq Values
    BY <1>1, <1>2, <1>3, ValuesTyped
  <2>2. \A us \in set, v \in ValuesOf(c.args[i]) : Append(us, v) \in Seq(Values)
    BY <2>1
  <2> QED  BY <2>2
<1>4. \E f : Rec(f)
  <2>1. PICK base : base = [i \in N |-> {<<>>}]
    OBVIOUS
  <2>2. PICK end : end = {0}
    OBVIOUS
  <2>3. PICK pred : pred = [i \in N |-> IF i = 0 THEN 0 ELSE i - 1]
    OBVIOUS
  <2> HIDE DEF More
  <2>4. PICK step : step = [x \in S \X N |-> IF x[2] = 0 THEN {} ELSE More(x[1], x[2])]
    OBVIOUS
  <2>5. base \in [N -> S]
    <3>1. <<>> \in Seq(Values)
      OBVIOUS
    <3> QED  BY <2>1, <3>1
  <2>6. end \in SUBSET N /\ pred \in [N -> N] /\ Earlier(N, end, pred)
    BY <1>2, <2>2, <2>3 DEF Earlier
  <2>7. step \in [S \X N -> S]
    <3>1. {} \in S
      OBVIOUS
    <3> HIDE DEF S
    <3> QED  BY <1>3, <2>4, <3>1
  <2>8. PICK f \in [N -> S] : Obeys(f, N, base, end, pred, step)
    <3> HIDE DEF S
    <3> QED  BY <1>2, <2>5, <2>6, <2>7, Recursion
  <2> HIDE DEF S
  <2>9. ASSUME NEW i \in N
        PROVE  f[i] = IF i = 0 THEN {<<>>} ELSE More(f[i - 1], i)
    <3>1. f[i] = IF i \in end THEN base[i] ELSE step[<<f[pred[i]], i>>]
      BY <2>8 DEF Obeys
    <3>2. CASE i = 0
      BY <2>1, <2>2, <3>1, <3>2
    <3>3. CASE i # 0
      <4>1. pred[i] = i - 1 /\ i - 1 \in N /\ f[i - 1] \in S
        BY <1>2, <2>3, <3>3
      <4>2. step[<<f[i - 1], i>>] = More(f[i - 1], i)
        BY <2>4, <3>3, <4>1
      <4> QED  BY <2>2, <3>1, <3>3, <4>1, <4>2
    <3> QED  BY <3>2, <3>3
  <2>10. Rec(f)
    BY <2>9
  <2> QED  BY <2>10
<1>5. PICK first : first = CHOOSE f : Rec(f)
  OBVIOUS
<1>6. vs \in first[Len(c.args)]
  BY <1>5 DEF ArgsOf, N
<1>7. Rec(first)
  <2> HIDE DEF Rec
  <2> QED  BY <1>4, <1>5
<1>8. \A i \in N : first[i] = IF i = 0 THEN {<<>>} ELSE More(first[i - 1], i)
  <2> HIDE DEF More
  <2> QED  BY <1>7
<1> DEFINE Good(i) == \A us \in first[i] : us \in Seq(Values) /\ Len(us) = i
           Bad == {i \in N : ~Good(i)}
<1>9. Bad = {}
  <2> SUFFICES ASSUME Bad # {} PROVE FALSE
    OBVIOUS
  <2>1. PICK i \in Bad : \A y \in Bad : i <= y
    <3>1. Bad \in SUBSET Nat
      BY <1>2
    <3> QED  BY <3>1, Least
  <2>2. CASE i = 0
    <3>1. first[i] = {<<>>}
      <4> HIDE DEF More
      <4> QED  BY <1>2, <1>8, <2>2
    <3>2. <<>> \in Seq(Values) /\ Len(<<>>) = 0
      OBVIOUS
    <3> QED  BY <2>1, <2>2, <3>1, <3>2
  <2>3. CASE i # 0
    <3>1. i \in N /\ i - 1 \in N /\ i - 1 < i /\ i \in Nat
      BY <1>2, <2>1, <2>3
    <3>2. Good(i - 1)
      BY <1>2, <2>1, <3>1
    <3>3. ValuesOf(c.args[i]) \subseteq Values
      BY <1>1, <1>2, <2>3, <3>1, ValuesTyped
    <3>4. ASSUME NEW us \in first[i] PROVE us \in Seq(Values) /\ Len(us) = i
      <4>1. PICK ws \in first[i - 1], v \in ValuesOf(c.args[i]) : us = Append(ws, v)
        <5>1. us \in More(first[i - 1], i)
          <6> HIDE DEF More
          <6> QED  BY <1>8, <2>3, <3>1, <3>4
        <5> QED  BY <5>1
      <4>2. ws \in Seq(Values) /\ Len(ws) = i - 1 /\ v \in Values
        BY <3>2, <3>3
      <4> QED  BY <3>1, <4>1, <4>2
    <3> QED  BY <2>1, <3>4
  <2> QED  BY <2>2, <2>3
<1> QED  BY <1>2, <1>6, <1>9

\* The appends of a command are its beginning and those of its arguments.
LEMMA AppendsOfAre ==
  ASSUME NEW c \in Commands, NEW vs \in ArgsOf(c)
  PROVE  \E upto : /\ \A i \in 0 .. Len(vs) :
                        /\ upto[i] \in Seq(Nat)
                        /\ upto[i] = IF i = 0 THEN <<Len(c.head)>>
                                    ELSE upto[i - 1] \o Appends(c.args[i], vs[i], i = 1)
                  /\ AppendsOf(c, vs) = upto[Len(vs)]
<1> DEFINE N == 0 .. Len(vs)
           S == Seq(Nat)
           head == <<Len(c.head)>>
           Part(i) == Appends(c.args[i], vs[i], i = 1)
           Rec(f) == f = [i \in N |-> IF i = 0 THEN head ELSE f[i - 1] \o Part(i)]
<1>1. /\ vs \in Seq(Values) /\ Len(vs) = Len(c.args) /\ Len(vs) \in Nat
      /\ \A i \in 1 .. Len(vs) : vs[i] \in Values /\ c.args[i] \in ArgTypes
  BY RowsAre, ArgsOfTyped DEF Row
<1>2. N \in SUBSET Nat /\ 0 \in N /\ Len(vs) \in N
      /\ \A i \in N : i # 0 => i \in 1 .. Len(vs) /\ i - 1 \in N /\ i - 1 < i
  BY <1>1
<1>3. head \in S
  <2>1. Len(c.head) \in Nat
    BY HeadsAssumption
  <2> QED  BY <2>1
<1> HIDE DEF N
<1>4. \A i \in N : i # 0 => Part(i) \in S
  BY <1>1, <1>2, AppendsTyped
<1> HIDE DEF Part, head
<1>5. \A a, b \in S : a \o b \in S
  OBVIOUS
<1>6. \E f : Rec(f)
  <2>1. PICK base : base = [i \in N |-> head]
    OBVIOUS
  <2>2. PICK end : end = {0}
    OBVIOUS
  <2>3. PICK pred : pred = [i \in N |-> IF i = 0 THEN 0 ELSE i - 1]
    OBVIOUS
  <2>4. PICK step : step = [x \in S \X N |-> IF x[2] = 0 THEN head ELSE x[1] \o Part(x[2])]
    OBVIOUS
  <2> HIDE DEF S
  <2>5. base \in [N -> S]
    BY <1>3, <2>1
  <2>6. end \in SUBSET N /\ pred \in [N -> N] /\ Earlier(N, end, pred)
    BY <1>2, <2>2, <2>3 DEF Earlier
  <2>7. step \in [S \X N -> S]
    BY <1>3, <1>4, <1>5, <2>4
  <2>8. PICK f \in [N -> S] : Obeys(f, N, base, end, pred, step)
    BY <1>2, <2>5, <2>6, <2>7, Recursion
  <2>9. ASSUME NEW i \in N
        PROVE  f[i] = IF i = 0 THEN head ELSE f[i - 1] \o Part(i)
    <3>1. f[i] = IF i \in end THEN base[i] ELSE step[<<f[pred[i]], i>>]
      BY <2>8 DEF Obeys
    <3>2. CASE i = 0
      BY <2>1, <2>2, <3>1, <3>2
    <3>3. CASE i # 0
      <4>1. pred[i] = i - 1 /\ i - 1 \in N /\ f[i - 1] \in S
        BY <1>2, <2>3, <3>3
      <4>2. step[<<f[i - 1], i>>] = f[i - 1] \o Part(i)
        BY <2>4, <3>3, <4>1
      <4> QED  BY <2>2, <3>1, <3>3, <4>1, <4>2
    <3> QED  BY <3>2, <3>3
  <2>10. Rec(f)
    BY <2>9
  <2> QED  BY <2>10
<1>7. PICK upto : upto = CHOOSE f : Rec(f)
  OBVIOUS
<1>8. AppendsOf(c, vs) = upto[Len(vs)]
  BY <1>7 DEF AppendsOf, N, Part, head
<1>9. Rec(upto)
  <2> HIDE DEF Rec
  <2> QED  BY <1>6, <1>7
<1>10. \A i \in N : upto[i] = IF i = 0 THEN head ELSE upto[i - 1] \o Part(i)
  BY <1>9
<1> DEFINE Bad == {i \in N : upto[i] \notin S}
<1>11. Bad = {}
  <2> SUFFICES ASSUME Bad # {} PROVE FALSE
    OBVIOUS
  <2>1. PICK i \in Bad : \A y \in Bad : i <= y
    <3>1. Bad \in SUBSET Nat
      BY <1>2
    <3> QED  BY <3>1, Least
  <2> HIDE DEF S
  <2>2. i # 0 /\ i \in N
    BY <1>3, <1>10, <2>1
  <2>3. i - 1 \in N /\ i - 1 < i /\ i \in Nat
    BY <1>2, <2>2
  <2>4. upto[i - 1] \in S
    BY <1>2, <2>1, <2>3
  <2>5. upto[i] = upto[i - 1] \o Part(i)
    BY <1>10, <2>2
  <2> QED  BY <1>4, <1>5, <2>1, <2>2, <2>4, <2>5
<1>12. \A i \in N : upto[i] \in S
  BY <1>11
<1> QED  BY <1>8, <1>10, <1>12 DEF N, Part, head

LEMMA AppendsOfTyped ==
  ASSUME NEW c \in Commands, NEW vs \in ArgsOf(c)
  PROVE  AppendsOf(c, vs) \in Seq(Nat)
<1>1. Len(vs) \in 0 .. Len(vs)
  BY RowsAre, ArgsOfTyped DEF Row
<1> QED  BY <1>1, AppendsOfAre

-----------------------------------------------------------------------------
(* The invariant: what is in the buffer is what was asked for, as long as  *)
(* nothing has failed.                                                     *)

GsmInv ==
  /\ GsmTypeOK
  /\ outcome = "building" /\ ab.ok => ab.len = wanted

LEMMA NoCmdIs == NoCmd.buf = 1
<1>1. \A h : Cmd(h, 1, <<>>).buf = 1
  BY DEF Cmd
<1> QED  BY <1>1, Zenon DEF NoCmd

LEMMA CmdTyped ==
  ASSUME GsmTypeOK
  PROVE  cmd.buf \in Nat \ {0}
BY RowsAre, NoCmdIs DEF GsmTypeOK, Row

LEMMA StartTyped ==
  ASSUME NEW c \in Commands \cup {NoCmd}
  PROVE  AB_INIT \in [len : 0 .. c.buf - 1, ok : BOOLEAN]
<1>1. c.buf \in Nat \ {0}
  BY RowsAre, NoCmdIs DEF Row
<1> QED  BY <1>1 DEF AB_INIT

LEMMA CallKeeps ==
  ASSUME GsmInv, NEW c \in Commands, Call(c)
  PROVE  GsmInv' /\ outcome' # "AT_OK"
<1>1. PICK vs \in ArgsOf(c) :
        IF \E i \in DOMAIN vs : Refused(c.args[i], vs[i])
          THEN outcome' = "AT_ERR_PARAM" /\ UNCHANGED todo
          ELSE outcome' = "building" /\ todo' = AppendsOf(c, vs)
  BY DEF Call
<1>2. outcome' \in {"building", "AT_ERR_PARAM"} /\ todo' \in Seq(Nat)
  BY <1>1, AppendsOfTyped DEF GsmInv, GsmTypeOK
<1>3. cmd' = c /\ ab' = AB_INIT /\ wanted' = 0 /\ stored' = 0
  BY DEF Call
<1>4. ab' \in [len : 0 .. cmd'.buf - 1, ok : BOOLEAN] /\ ab'.len = 0
  <2>1. AB_INIT \in [len : 0 .. c.buf - 1, ok : BOOLEAN] /\ AB_INIT.len = 0
    BY StartTyped DEF AB_INIT
  <2> QED  BY <1>3, <2>1
<1> QED  BY <1>2, <1>3, <1>4 DEF GsmInv, GsmTypeOK

LEMMA AppendKeeps ==
  ASSUME GsmInv, AppendNext
  PROVE  GsmInv' /\ UNCHANGED <<outcome, stored>>
<1> DEFINE n == Head(todo)
           size == cmd.buf
<1>1. /\ outcome = "building" /\ UNCHANGED <<cmd, args, outcome, stored>>
      /\ ab' = AB(size, ab, n) /\ wanted' = wanted + n
  BY DEF AppendNext
<1>2. n \in Nat /\ todo' \in Seq(Nat)
  BY DEF AppendNext, GsmInv, GsmTypeOK
<1>3. /\ size \in Nat \ {0} /\ ab \in [len : 0 .. size - 1, ok : BOOLEAN] /\ wanted \in Nat
      /\ ab.ok => ab.len = wanted
  BY <1>1, CmdTyped DEF GsmInv, GsmTypeOK
<1> HIDE DEF n, size
<1>4. /\ AB(size, ab, n) \in [len : 0 .. size - 1, ok : BOOLEAN]
      /\ AB(size, ab, n).ok => AB(size, ab, n).len = wanted + n
  <2>1. CASE ~ab.ok
    BY <1>3, <2>1 DEF AB
  <2>2. CASE ab.ok /\ n <= Room(size, ab.len)
    <3>1. AB(size, ab, n) = [ab EXCEPT !.len = ab.len + n]
      BY <2>2 DEF AB, at__ab
    <3>2. ab.len + n \in 0 .. size - 1
      BY <1>2, <1>3, <2>2 DEF Room
    <3> QED  BY <1>3, <2>2, <3>1, <3>2
  <2>3. CASE ab.ok /\ ~(n <= Room(size, ab.len))
    <3>1. AB(size, ab, n) = [len |-> ab.len + Room(size, ab.len), ok |-> FALSE]
      BY <2>3 DEF AB, at__ab
    <3>2. ab.len + Room(size, ab.len) \in 0 .. size - 1
      BY <1>3 DEF Room
    <3> QED  BY <3>1, <3>2
  <2> QED  BY <2>1, <2>2, <2>3
<1>5. wanted' \in Nat
  BY <1>1, <1>2, <1>3
<1>6. ab' \in [len : 0 .. cmd'.buf - 1, ok : BOOLEAN] /\ (ab'.ok => ab'.len = wanted')
  BY <1>1, <1>4 DEF size
<1> QED  BY <1>1, <1>2, <1>5, <1>6 DEF GsmInv, GsmTypeOK

LEMMA SendKeeps ==
  ASSUME GsmInv, Send
  PROVE  GsmInv'
<1>1. UNCHANGED <<cmd, args, todo, ab, wanted>>
  BY DEF Send
<1>2. outcome' \in {"AT_OK", "AT_ERR_BUSY", "AT_ERR_PARAM"} /\ stored' \in Nat
  <2>1. ab.len \in Nat /\ stored \in Nat
    BY CmdTyped DEF GsmInv, GsmTypeOK
  <2> QED  BY <2>1, SizesAssumption DEF Send
<1> QED  BY <1>1, <1>2 DEF GsmInv, GsmTypeOK

\* What every builder and every append maintains: the types, and that a text
\* under construction is all that was asked for unless an append has failed.
THEOREM GsmInductive == Spec => []GsmInv
<1>1. Init => GsmInv
  <2> SUFFICES ASSUME Init PROVE GsmInv
    OBVIOUS
  <2>1. ab \in [len : 0 .. cmd.buf - 1, ok : BOOLEAN]
    BY StartTyped DEF Init, GsmInit
  <2> QED  BY <2>1 DEF Init, GsmInit, GsmInv, GsmTypeOK
<1>2. GsmInv /\ [Next]_vars => GsmInv'
  <2> SUFFICES ASSUME GsmInv, [Next]_vars PROVE GsmInv'
    OBVIOUS
  <2>1. ASSUME NEW c \in Commands, Build(c) PROVE GsmInv'
    BY <2>1, CallKeeps DEF Build
  <2>2. CASE AppendOne
    BY <2>2, AppendKeeps DEF AppendOne
  <2>3. CASE SendBuilt
    BY <2>3, SendKeeps DEF SendBuilt
  <2>4. CASE Answer
    BY <2>4 DEF Answer, gvars, GsmInv, GsmTypeOK
  <2>5. CASE Parse
    BY <2>5 DEF Parse, gvars, GsmInv, GsmTypeOK
  <2>6. CASE SendPdu
    BY <2>6 DEF SendPdu, gvars, GsmInv, GsmTypeOK
  <2>7. CASE SendPart
    BY <2>7 DEF SendPart, gvars, GsmInv, GsmTypeOK
  <2>8. CASE Done
    <3>1. ab' \in [len : 0 .. cmd'.buf - 1, ok : BOOLEAN]
      BY <2>8, StartTyped DEF Done
    <3> QED  BY <2>8, <3>1 DEF Done, GsmInv, GsmTypeOK
  <2>9. CASE UNCHANGED vars
    BY <2>9 DEF vars, gvars, GsmInv, GsmTypeOK
  <2> QED  BY <2>1, <2>2, <2>3, <2>4, <2>5, <2>6, <2>7, <2>8, <2>9 DEF Next
<1> QED  BY <1>1, <1>2, PTL DEF Spec

\* The types of the builders: whatever is appended to it, the text under
\* construction leaves room for the NUL that AB_DONE writes.
THEOREM TypeCorrect == Spec => []GsmTypeOK
<1>1. GsmInv => GsmTypeOK
  BY DEF GsmInv
<1> QED  BY <1>1, GsmInductive, PTL

-----------------------------------------------------------------------------
(* Room for the documented arguments.                                      *)

\* The sums of a and the numbers of s, one after the other, end in b and do
\* not exceed it.
Runs(a, s, b) ==
  \E P \in [0 .. Len(s) -> Nat] :
    P[0] = a /\ P[Len(s)] = b /\ \A i \in 1 .. Len(s) : P[i] = P[i - 1] + s[i] /\ P[i] <= b

LEMMA RunsShort ==
  ASSUME NEW a \in Nat
  PROVE  /\ Runs(a, <<>>, a)
         /\ \A n \in Nat : Runs(a, <<n>>, a + n)
<1>1. Runs(a, <<>>, a)
  <2>1. PICK P : P = [i \in {0} |-> a]
    OBVIOUS
  <2>2. P \in [0 .. 0 -> Nat] /\ P[0] = a /\ Len(<<>>) = 0
    BY <2>1
  <2> QED  BY <2>2 DEF Runs
<1>2. ASSUME NEW n \in Nat
      PROVE  Runs(a, <<n>>, a + n)
  <2>1. PICK P : P = [i \in 0 .. 1 |-> IF i = 0 THEN a ELSE a + n]
    OBVIOUS
  <2>2. PICK s : s = <<n>>
    OBVIOUS
  <2>3. P \in [0 .. 1 -> Nat] /\ P[0] = a /\ P[1] = a + n /\ Len(s) = 1 /\ s[1] = n
    BY <2>1, <2>2
  <2>4. \A i \in 1 .. 1 : P[i] = P[i - 1] + s[i] /\ P[i] <= a + n
    BY <2>3
  <2>5. Runs(a, s, a + n)
    BY <2>3, <2>4 DEF Runs
  <2> QED  BY <2>2, <2>5
<1> QED  BY <1>1, <1>2

LEMMA RunsThen ==
  ASSUME NEW s \in Seq(Nat), NEW t \in Seq(Nat), NEW a \in Nat, NEW b \in Nat, NEW e \in Nat,
         Runs(a, s, b), Runs(b, t, e)
  PROVE  Runs(a, s \o t, e)
<1>1. PICK P \in [0 .. Len(s) -> Nat] :
        P[0] = a /\ P[Len(s)] = b /\ \A i \in 1 .. Len(s) : P[i] = P[i - 1] + s[i] /\ P[i] <= b
  BY DEF Runs
<1>2. PICK Q \in [0 .. Len(t) -> Nat] :
        Q[0] = b /\ Q[Len(t)] = e /\ \A i \in 1 .. Len(t) : Q[i] = Q[i - 1] + t[i] /\ Q[i] <= e
  BY DEF Runs
<1>3. PICK m \in Nat : m = Len(s)
  OBVIOUS
<1>14. PICK n \in Nat : n = Len(t)
  OBVIOUS
<1>4. b <= e
  <2>1. CASE n = 0
    BY <1>2, <1>14, <2>1
  <2>2. CASE n > 0
    <3>1. 1 \in 1 .. n /\ t[1] \in Nat
      BY <1>14, <2>2
    <3>2. Q[1] = Q[0] + t[1] /\ Q[1] <= e
      BY <1>2, <1>14, <3>1
    <3> QED  BY <1>2, <3>1, <3>2
  <2> QED  BY <1>3, <1>14, <2>1, <2>2
<1>5. PICK st : st = s \o t
  OBVIOUS
<1>6. /\ Len(st) = m + n
      /\ \A i \in 1 .. m : st[i] = s[i]
      /\ \A i \in m + 1 .. m + n : st[i] = t[i - m]
  BY <1>3, <1>14, <1>5
<1>7. PICK R : R = [i \in 0 .. m + n |-> IF i <= m THEN P[i] ELSE Q[i - m]]
  OBVIOUS
<1>8. /\ \A i \in 0 .. m : P[i] \in Nat
      /\ \A i \in 0 .. n : Q[i] \in Nat
  BY <1>1, <1>2, <1>3, <1>14
<1>9. /\ \A i \in 0 .. m : R[i] = P[i]
      /\ \A i \in m .. m + n : R[i] = Q[i - m]
  BY <1>1, <1>2, <1>3, <1>14, <1>7
<1>10. R \in [0 .. m + n -> Nat]
  <2>1. \A i \in 0 .. m + n : (IF i <= m THEN P[i] ELSE Q[i - m]) \in Nat
    BY <1>3, <1>14, <1>8
  <2> QED  BY <1>7, <2>1
<1>11. R[0] = a /\ R[m + n] = e
  <2>1. 0 \in 0 .. m /\ m + n \in m .. m + n /\ (m + n) - m = n
    BY <1>3, <1>14
  <2>2. R[0] = P[0] /\ R[m + n] = Q[n]
    BY <1>9, <2>1
  <2> QED  BY <1>1, <1>2, <1>14, <2>2
<1>12. ASSUME NEW i \in 1 .. m + n
       PROVE  R[i] = R[i - 1] + st[i] /\ R[i] <= e
  <2>1. CASE i <= m
    <3>1. i \in 1 .. m /\ i \in 0 .. m /\ i - 1 \in 0 .. m
      BY <1>3, <1>14, <2>1
    <3>2. P[i] = P[i - 1] + s[i] /\ P[i] <= b
      BY <1>1, <1>3, <1>14, <3>1
    <3>3. P[i] \in Nat
      BY <1>8, <3>1
    <3> QED  BY <1>4, <1>6, <1>9, <3>1, <3>2, <3>3
  <2>2. CASE i > m
    <3>1. i - m \in 1 .. n /\ i \in m .. m + n /\ i - 1 \in m .. m + n /\ i \in m + 1 .. m + n
      BY <1>3, <1>14, <2>2
    <3>2. Q[i - m] = Q[i - m - 1] + t[i - m] /\ Q[i - m] <= e
      BY <1>2, <1>3, <1>14, <3>1
    <3>3. (i - 1) - m = i - m - 1
      BY <1>3, <1>14
    <3> QED  BY <1>6, <1>9, <3>1, <3>2, <3>3
  <2> QED  BY <1>3, <1>14, <2>1, <2>2
<1>13. Runs(a, st, e)
  BY <1>6, <1>10, <1>11, <1>12 DEF Runs
<1> QED  BY <1>5, <1>13

LEMMA RunsOn ==
  ASSUME NEW s \in Seq(Nat), s # <<>>, NEW a \in Nat, NEW b \in Nat, Runs(a, s, b)
  PROVE  a + Head(s) <= b /\ Runs(a + Head(s), Tail(s), b)
<1>1. PICK P \in [0 .. Len(s) -> Nat] :
        P[0] = a /\ P[Len(s)] = b /\ \A i \in 1 .. Len(s) : P[i] = P[i - 1] + s[i] /\ P[i] <= b
  BY DEF Runs
<1>2. PICK n, t : n = Len(s) /\ t = Tail(s)
  OBVIOUS
<1>3. /\ n \in Nat \ {0} /\ s[1] = Head(s) /\ Len(t) = n - 1
      /\ \A i \in 1 .. n - 1 : t[i] = s[i + 1]
  BY <1>2
<1>4. P[1] = a + Head(s) /\ P[1] <= b
  BY <1>1, <1>2, <1>3
<1>5. PICK Q : Q = [i \in 0 .. n - 1 |-> P[i + 1]]
  OBVIOUS
<1>6. Q \in [0 .. n - 1 -> Nat] /\ \A i \in 0 .. n - 1 : Q[i] = P[i + 1]
  BY <1>1, <1>2, <1>3, <1>5
<1>7. Q[0] = a + Head(s) /\ Q[n - 1] = b
  BY <1>1, <1>2, <1>3, <1>4, <1>6
<1>8. ASSUME NEW i \in 1 .. n - 1
      PROVE  Q[i] = Q[i - 1] + t[i] /\ Q[i] <= b
  <2>1. i \in 0 .. n - 1 /\ i - 1 \in 0 .. n - 1 /\ i + 1 \in 1 .. n /\ (i - 1) + 1 = i /\ (i + 1) - 1 = i
    BY <1>3
  <2>2. P[i + 1] = P[i] + s[i + 1] /\ P[i + 1] <= b
    BY <1>1, <1>2, <2>1
  <2> QED  BY <1>3, <1>6, <2>1, <2>2
<1>9. Runs(a + Head(s), t, b)
  BY <1>3, <1>6, <1>7, <1>8 DEF Runs
<1> QED  BY <1>2, <1>4, <1>9

\* The characters that an argument adds at most, and the largest number.
Limit(a) == IF a.kind = "number" /\ a.fits > 0 THEN a.fits ELSE a.max
Weight(a) ==
  CASE a.kind = "body" -> 0
    [] a.kind \in {"suffix", "flag"} -> a.fits
    [] a.kind \in {"number", "bool"} -> IF Limit(a) < 10 THEN 1 ELSE IF Limit(a) < 1000 THEN 3 ELSE 5
    [] OTHER -> (IF a.kind = "text" THEN a.fits ELSE a.max) + 2 * a.quotes
Weighed(a) == a \in ArgTypes /\ (a.kind \in {"number", "bool"} => Limit(a) < 100000)

LEMMA AppendsRun ==
  ASSUME NEW a, Weighed(a), NEW v \in Values, Within(a, v), NEW first \in BOOLEAN, NEW x \in Nat
  PROVE  \E y \in Nat : /\ y <= x + (IF first THEN 0 ELSE 1) + Weight(a)
                        /\ Runs(x, Appends(a, v, first), y)
<1> DEFINE sep == IF first THEN <<>> ELSE <<1>>
           k == IF first THEN 0 ELSE 1
           w == Weight(a)
           s == Appends(a, v, first)
<1>1. /\ a.fits \in Nat /\ a.max \in Nat /\ a.quotes \in {0, 1} /\ a.kind \in Kinds /\ v.n \in Nat
      /\ k \in Nat
  BY DEF Weighed, ArgTypes, Values
<1>12. x + k \in Nat
  BY <1>1
<1>2. Runs(x, sep, x + k)
  <2>1. CASE first
    <3>1. sep = <<>> /\ k = 0 /\ x + 0 = x
      BY <2>1
    <3> HIDE DEF sep, k
    <3> QED  BY <3>1, RunsShort
  <2>2. CASE ~first
    <3>1. sep = <<1>> /\ k = 1 /\ 1 \in Nat
      BY <2>2
    <3> HIDE DEF sep, k
    <3>2. Runs(x, <<1>>, x + 1)
      BY <3>1, RunsShort, Zenon
    <3> QED  BY <3>1, <3>2
  <2> QED  BY <2>1, <2>2
<1>3. sep \in Seq(Nat)
  OBVIOUS
<1>4. w \in Nat
  BY <1>1 DEF Weight
<1>5. v.n <= a.max
  BY <1>1 DEF Within, Refused
<1> SUFFICES \E y \in Nat : y <= x + k + w /\ Runs(x, s, y)
  OBVIOUS
<1> HIDE DEF sep, k, w, s
<1>6. ASSUME NEW t \in Seq(Nat), NEW n \in Nat, n <= w, s = sep \o t, Runs(x + k, t, x + k + n)
      PROVE  \E y \in Nat : y <= x + k + w /\ Runs(x, s, y)
  <2>1. x + k \in Nat /\ x + k + n \in Nat
    BY <1>1
  <2>2. Runs(x, sep \o t, x + k + n)
    BY <1>2, <1>3, <1>6, <2>1, RunsThen
  <2>3. x + k + n <= x + k + w
    BY <1>1, <1>4, <1>6
  <2> QED  BY <1>6, <2>1, <2>2, <2>3
<1>7. CASE s = <<>>
  <2>1. Runs(x, <<>>, x) /\ x <= x + k + w
    BY <1>1, <1>4, RunsShort
  <2> QED  BY <1>7, <2>1
<1>8. CASE a.kind \in {"suffix", "flag"} /\ s # <<>>
  <2>1. s = <<a.fits>>
    BY <1>8 DEF s, Appends
  <2>2. w = a.fits
    BY <1>8 DEF w, Weight
  <2>3. Runs(x, <<a.fits>>, x + a.fits)
    BY <1>1, RunsShort, Zenon
  <2>4. x + a.fits <= x + k + w /\ x + a.fits \in Nat
    BY <1>1, <1>4, <2>2
  <2> QED  BY <2>1, <2>3, <2>4
<1>9. CASE a.kind \in {"number", "bool"} /\ s # <<>>
  <2>1. s = sep \o <<Digits(v.n)>>
    BY <1>9 DEF s, Appends, sep
  <2>2. Digits(v.n) \in Nat
    BY <1>1, DigitsAre
  <2>3. v.n <= Limit(a) /\ Limit(a) < 100000 /\ Limit(a) \in Nat
    BY <1>1, <1>5, <1>9 DEF Within, Weighed, Limit
  <2>4. w = IF Limit(a) < 10 THEN 1 ELSE IF Limit(a) < 1000 THEN 3 ELSE 5
    BY <1>9 DEF w, Weight
  <2>5. Digits(v.n) <= w
    BY <1>1, <2>3, <2>4, DigitsAre
  <2>6. Runs(x + k, <<Digits(v.n)>>, x + k + Digits(v.n))
    BY <1>12, <2>2, RunsShort, Zenon
  <2>7. PICK t : t = <<Digits(v.n)>>
    OBVIOUS
  <2>8. t \in Seq(Nat) /\ s = sep \o t /\ Runs(x + k, t, x + k + Digits(v.n))
    BY <2>1, <2>2, <2>6, <2>7
  <2> QED  BY <1>6, <2>2, <2>5, <2>8
<1>10. CASE a.kind \in {"text", "field"} /\ s # <<>>
  <2>1. s = sep \o (IF a.quotes = 1 THEN <<1, v.n, 1>> ELSE <<v.n>>)
    BY <1>10 DEF s, Appends, sep
  <2>2. v.n + 2 * a.quotes <= w
    <3>1. w = (IF a.kind = "text" THEN a.fits ELSE a.max) + 2 * a.quotes
      BY <1>10 DEF w, Weight
    <3>2. v.n <= IF a.kind = "text" THEN a.fits ELSE a.max
      BY <1>5 DEF Within
    <3> QED  BY <1>1, <3>1, <3>2
  <2>3. CASE a.quotes = 1
    <3>0. x + k + 1 \in Nat /\ x + k + 1 + v.n \in Nat /\ 1 \in Nat
      BY <1>1
    <3>1. /\ Runs(x + k, <<1>>, x + k + 1) /\ Runs(x + k + 1, <<v.n>>, x + k + 1 + v.n)
          /\ Runs(x + k + 1 + v.n, <<1>>, x + k + 1 + v.n + 1)
      BY <1>1, <1>12, <3>0, RunsShort, Zenon
    <3>2. /\ x + k \in Nat /\ x + k + 1 \in Nat /\ x + k + 1 + v.n \in Nat /\ x + k + 1 + v.n + 1 \in Nat
          /\ x + k + 1 + v.n + 1 = x + k + (v.n + 2)
      BY <1>1
    <3>3. /\ <<1>> \in Seq(Nat) /\ <<v.n>> \in Seq(Nat) /\ <<v.n>> \o <<1>> \in Seq(Nat)
          /\ <<1, v.n, 1>> = <<1>> \o (<<v.n>> \o <<1>>)
      BY <1>1
    <3>4. Runs(x + k + 1, <<v.n>> \o <<1>>, x + k + 1 + v.n + 1)
      BY <3>1, <3>2, <3>3, RunsThen
    <3>5. Runs(x + k, <<1>> \o (<<v.n>> \o <<1>>), x + k + 1 + v.n + 1)
      BY <3>1, <3>2, <3>3, <3>4, RunsThen
    <3>6. PICK t : t = <<1, v.n, 1>>
      OBVIOUS
    <3>7. t \in Seq(Nat) /\ s = sep \o t /\ v.n + 2 \in Nat /\ v.n + 2 <= w
      BY <1>1, <2>1, <2>2, <2>3, <3>6
    <3>8. Runs(x + k, t, x + k + (v.n + 2))
      BY <3>2, <3>3, <3>5, <3>6
    <3> QED  BY <1>6, <3>7, <3>8
  <2>4. CASE a.quotes = 0
    <3>1. s = sep \o <<v.n>> /\ v.n <= w /\ <<v.n>> \in Seq(Nat)
      BY <1>1, <2>1, <2>2, <2>4
    <3>2. Runs(x + k, <<v.n>>, x + k + v.n)
      BY <1>1, <1>12, RunsShort, Zenon
    <3> QED  BY <1>1, <1>6, <3>1, <3>2
  <2> QED  BY <1>1, <2>3, <2>4
<1>11. CASE a.kind = "body"
  <2>1. s = <<>>
    BY <1>11 DEF s, Appends
  <2> QED  BY <1>7, <2>1
<1> QED  BY <1>1, <1>7, <1>8, <1>9, <1>10, <1>11 DEF Kinds

\* What the argument at i adds at most; a row has room for all of its six.
Added(as, i) == IF i > Len(as) THEN 0 ELSE (IF i = 1 THEN 0 ELSE 1) + Weight(as[i])
Longest(h, as) ==
  Len(h) + Added(as, 1) + Added(as, 2) + Added(as, 3) + Added(as, 4) + Added(as, 5) + Added(as, 6)
Light(as) == Len(as) <= 6 /\ \A i \in 1 .. Len(as) : Weighed(as[i])
Roomy(c) == Light(c.args) /\ Longest(c.head, c.args) < c.buf /\ c.buf <= 160

LEMMA WeightTyped ==
  ASSUME NEW a, Weighed(a)
  PROVE  Weight(a) \in Nat
BY DEF Weighed, Weight, ArgTypes

LEMMA RoomyRuns ==
  ASSUME NEW c \in Commands, Roomy(c), NEW vs \in ArgsOf(c),
         \A i \in DOMAIN vs : Within(c.args[i], vs[i])
  PROVE  \E b \in 0 .. c.buf - 1 : Runs(0, AppendsOf(c, vs), b)
<1>1. /\ vs \in Seq(Values) /\ Len(vs) = Len(c.args) /\ Len(vs) \in 0 .. 6
      /\ \A i \in 1 .. Len(vs) : vs[i] \in Values /\ Weighed(c.args[i]) /\ Within(c.args[i], vs[i])
  <2>1. Row(c)
    BY RowsAre
  <2>2. vs \in Seq(Values) /\ Len(vs) = Len(c.args)
    BY <2>1, ArgsOfTyped
  <2>3. Len(vs) \in 0 .. 6
    <3>1. Len(c.args) <= 6
      BY DEF Roomy, Light
    <3>2. PICK n \in Nat : n = Len(vs)
      BY <2>2
    <3>3. n <= 6
      BY <2>2, <3>1, <3>2
    <3> QED  BY <3>2, <3>3
  <2>4. ASSUME NEW i \in 1 .. Len(vs)
        PROVE  vs[i] \in Values /\ Weighed(c.args[i]) /\ Within(c.args[i], vs[i])
    <3>1. i \in DOMAIN vs /\ vs[i] \in Values
      BY <2>2
    <3> QED  BY <2>2, <3>1 DEF Roomy, Light
  <2> QED  BY <2>2, <2>3, <2>4
<1>2. c.buf \in Nat /\ Len(c.head) \in Nat
  BY RowsAre, HeadsAssumption DEF Row
<1>3. PICK upto : /\ \A i \in 0 .. Len(vs) :
                       /\ upto[i] \in Seq(Nat)
                       /\ upto[i] = IF i = 0 THEN <<Len(c.head)>>
                                    ELSE upto[i - 1] \o Appends(c.args[i], vs[i], i = 1)
                  /\ AppendsOf(c, vs) = upto[Len(vs)]
  BY AppendsOfAre
<1> DEFINE Reaches(i, w) == i <= Len(vs) => \E y \in Nat : y <= w /\ Runs(0, upto[i], y)
<1>11. \A i \in 1 .. 6 : Added(c.args, i) \in Nat
  <2> SUFFICES ASSUME NEW i \in 1 .. 6 PROVE Added(c.args, i) \in Nat
    OBVIOUS
  <2>1. i \in 1 .. Len(c.args) => Weight(c.args[i]) \in Nat
    BY <1>1, WeightTyped
  <2> QED  BY <1>1, <2>1 DEF Added
<1>4. PICK A \in [1 .. 6 -> Nat] : A = [i \in 1 .. 6 |-> Added(c.args, i)]
  BY <1>11
<1>5. Reaches(0, Len(c.head))
  <2>3. 0 \in 0 .. Len(vs)
    BY <1>1
  <2>4. upto[0] = <<Len(c.head)>>
    BY <1>3, <2>3
  <2>5. 0 \in Nat /\ 0 + Len(c.head) = Len(c.head)
    BY <1>2
  <2>1. upto[0] = <<Len(c.head)>> /\ 0 \in Nat /\ 0 + Len(c.head) = Len(c.head)
    BY <2>4, <2>5
  <2>2. Runs(0, <<Len(c.head)>>, 0 + Len(c.head))
    BY <1>2, <2>1, RunsShort, Zenon
  <2> QED  BY <1>2, <2>1, <2>2
<1>6. ASSUME NEW i \in 1 .. 6, NEW w \in Nat, Reaches(i - 1, w)
      PROVE  Reaches(i, w + A[i])
  <2> SUFFICES ASSUME i <= Len(vs)
               PROVE  \E y \in Nat : y <= w + A[i] /\ Runs(0, upto[i], y)
    OBVIOUS
  <2>1. i \in 1 .. Len(vs) /\ i \in 0 .. Len(vs) /\ i - 1 \in 0 .. Len(vs) /\ i - 1 <= Len(vs)
    BY <1>1
  <2>2. PICK x \in Nat : x <= w /\ Runs(0, upto[i - 1], x)
    BY <1>6, <2>1
  <2>3. PICK first \in BOOLEAN : first = (i = 1)
    OBVIOUS
  <2>4. PICK s : s = Appends(c.args[i], vs[i], first)
    OBVIOUS
  <2>5. vs[i] \in Values /\ Weighed(c.args[i]) /\ Within(c.args[i], vs[i])
    BY <1>1, <2>1
  <2>12. PICK k \in Nat : k = IF first THEN 0 ELSE 1
    OBVIOUS
  <2>6. PICK y \in Nat : y <= x + k + Weight(c.args[i]) /\ Runs(x, s, y)
    BY <2>4, <2>5, <2>12, AppendsRun
  <2>7. upto[i - 1] \in Seq(Nat) /\ upto[i] = upto[i - 1] \o s
    <3>1. i # 0
      OBVIOUS
    <3>2. /\ upto[i - 1] \in Seq(Nat)
          /\ upto[i] = IF i = 0 THEN <<Len(c.head)>>
                       ELSE upto[i - 1] \o Appends(c.args[i], vs[i], i = 1)
      BY <1>3, <2>1
    <3> QED  BY <2>3, <2>4, <3>1, <3>2
  <2>8. s \in Seq(Nat)
    BY <2>4, <2>5, AppendsTyped DEF Weighed
  <2>9. Runs(0, upto[i], y)
    BY <2>2, <2>6, <2>7, <2>8, RunsThen
  <2>10. A[i] = k + Weight(c.args[i]) /\ Weight(c.args[i]) \in Nat
    <3>1. ~(i > Len(c.args)) /\ Weight(c.args[i]) \in Nat
      BY <1>1, <2>1, <2>5, WeightTyped
    <3>2. Added(c.args, i) = (IF i = 1 THEN 0 ELSE 1) + Weight(c.args[i])
      BY <3>1 DEF Added
    <3> QED  BY <1>4, <2>3, <2>12, <3>1, <3>2
  <2>11. y <= w + A[i]
    <3>1. PICK z \in Nat : z = Weight(c.args[i])
      BY <2>10
    <3>2. A[i] = k + z /\ y <= x + k + z
      BY <2>6, <2>10, <3>1
    <3> QED  BY <2>2, <3>2
  <2> QED  BY <2>9, <2>11
<1> DEFINE w0 == Len(c.head)
           w1 == w0 + A[1]
           w2 == w1 + A[2]
           w3 == w2 + A[3]
           w4 == w3 + A[4]
           w5 == w4 + A[5]
           w6 == w5 + A[6]
<1>7. /\ w0 \in Nat /\ w1 \in Nat /\ w2 \in Nat /\ w3 \in Nat /\ w4 \in Nat /\ w5 \in Nat /\ w6 \in Nat
      /\ w0 <= w6 /\ w1 <= w6 /\ w2 <= w6 /\ w3 <= w6 /\ w4 <= w6 /\ w5 <= w6 /\ w6 < c.buf
  <2>1. A[1] \in Nat /\ A[2] \in Nat /\ A[3] \in Nat /\ A[4] \in Nat /\ A[5] \in Nat /\ A[6] \in Nat
    BY <1>4
  <2>2. w6 < c.buf
    <3>1. w6 = Longest(c.head, c.args)
      BY <1>4 DEF Longest
    <3> QED  BY <3>1 DEF Roomy, Light
  <2>3. w0 \in Nat
    BY <1>2
  <2> HIDE DEF w0
  <2>4. w1 \in Nat /\ w0 <= w1
    BY <2>1, <2>3
  <2> HIDE DEF w1
  <2>5. w2 \in Nat /\ w1 <= w2
    BY <2>1, <2>4
  <2> HIDE DEF w2
  <2>6. w3 \in Nat /\ w2 <= w3
    BY <2>1, <2>5
  <2> HIDE DEF w3
  <2>7. w4 \in Nat /\ w3 <= w4
    BY <2>1, <2>6
  <2> HIDE DEF w4
  <2>8. w5 \in Nat /\ w4 <= w5
    BY <2>1, <2>7
  <2> HIDE DEF w5
  <2>9. w6 \in Nat /\ w5 <= w6
    BY <2>1, <2>8
  <2> HIDE DEF w6
  <2> QED  BY <2>2, <2>3, <2>4, <2>5, <2>6, <2>7, <2>8, <2>9
<1> HIDE DEF Reaches
<1>8. /\ Reaches(0, w0) /\ Reaches(1, w1) /\ Reaches(2, w2) /\ Reaches(3, w3)
      /\ Reaches(4, w4) /\ Reaches(5, w5) /\ Reaches(6, w6)
  <2>0. Reaches(0, w0)
    BY <1>5
  <2> HIDE DEF w0
  <2>1. Reaches(1, w1)
    <3>1. 1 \in 1 .. 6 /\ 1 - 1 = 0
      OBVIOUS
    <3> QED  BY <1>6, <1>7, <2>0, <3>1
  <2> HIDE DEF w1
  <2>2. Reaches(2, w2)
    <3>1. 2 \in 1 .. 6 /\ 2 - 1 = 1
      OBVIOUS
    <3> QED  BY <1>6, <1>7, <2>1, <3>1
  <2> HIDE DEF w2
  <2>3. Reaches(3, w3)
    <3>1. 3 \in 1 .. 6 /\ 3 - 1 = 2
      OBVIOUS
    <3> QED  BY <1>6, <1>7, <2>2, <3>1
  <2> HIDE DEF w3
  <2>4. Reaches(4, w4)
    <3>1. 4 \in 1 .. 6 /\ 4 - 1 = 3
      OBVIOUS
    <3> QED  BY <1>6, <1>7, <2>3, <3>1
  <2> HIDE DEF w4
  <2>5. Reaches(5, w5)
    <3>1. 5 \in 1 .. 6 /\ 5 - 1 = 4
      OBVIOUS
    <3> QED  BY <1>6, <1>7, <2>4, <3>1
  <2> HIDE DEF w5
  <2>6. Reaches(6, w6)
    <3>1. 6 \in 1 .. 6 /\ 6 - 1 = 5
      OBVIOUS
    <3> QED  BY <1>6, <1>7, <2>5, <3>1
  <2> QED  BY <2>0, <2>1, <2>2, <2>3, <2>4, <2>5, <2>6
<1> HIDE DEF w0, w1, w2, w3, w4, w5, w6
<1>9. \E w \in Nat : w <= w6 /\ Reaches(Len(vs), w)
  <2>1. PICK n \in 0 .. 6 : n = Len(vs)
    BY <1>1
  <2>2. \/ n = 0 \/ n = 1 \/ n = 2 \/ n = 3 \/ n = 4 \/ n = 5 \/ n = 6
    OBVIOUS
  <2>3. \E w \in Nat : w <= w6 /\ Reaches(n, w)
    BY <1>7, <1>8, <2>2
  <2> QED  BY <2>1, <2>3
<1>10. PICK y \in Nat : y <= w6 /\ Runs(0, upto[Len(vs)], y)
  <2>1. PICK w \in Nat : w <= w6 /\ Reaches(Len(vs), w)
    BY <1>9
  <2>2. Len(vs) <= Len(vs)
    BY <1>1
  <2>3. PICK y \in Nat : y <= w /\ Runs(0, upto[Len(vs)], y)
    BY <2>1, <2>2 DEF Reaches
  <2>4. y <= w6
    BY <1>7, <2>1, <2>3
  <2> QED  BY <2>3, <2>4
<1> QED  BY <1>2, <1>3, <1>7, <1>10

\* The weights of the arguments of the table.
Weighs(a, n) == Weighed(a) /\ n \in Nat /\ Weight(a) = n

LEMMA NumbersWeigh ==
  /\ Weighs(Byte, 3) /\ Weighs(Code, 1) /\ Weighs(Bool, 1) /\ Weighs(NonZero, 3)
  /\ Weighs(Number(1), 1) /\ Weighs(Number(2), 1) /\ Weighs(Number(4), 1) /\ Weighs(FileId, 5)
  /\ Weighs(Suffix(2), 2) /\ Weighs(FlagSuffix(1), 1)
<1>1. Weighs(Byte, 3) /\ Weighs(FileId, 5)
  BY NumbersUsed DEF Weighs, Weighed, Weight, Limit, Byte, FileId, Number
<1>2. Weighs(Number(1), 1) /\ Weighs(Number(2), 1) /\ Weighs(Number(4), 1)
  BY NumbersUsed DEF Weighs, Weighed, Weight, Limit, Number
<1>3. Weighs(Code, 1)
  BY NumbersUsed DEF Weighs, Weighed, Weight, Limit, Code, Byte, Number
<1>4. Weighs(Bool, 1)
  BY NumbersUsed DEF Weighs, Weighed, Weight, Limit, Bool, Number
<1>5. Weighs(NonZero, 3)
  BY NumbersUsed DEF Weighs, Weighed, Weight, Limit, NonZero, Byte, Number
<1>6. Weighs(Suffix(2), 2)
  BY NumbersUsed DEF Weighs, Weighed, Weight, Suffix, Number
<1>7. Weighs(FlagSuffix(1), 1)
  BY NumbersUsed DEF Weighs, Weighed, Weight, FlagSuffix, Suffix, Number
<1> QED  BY <1>1, <1>2, <1>3, <1>4, <1>5, <1>6, <1>7

LEMMA TextsWeigh ==
  ASSUME NEW n \in Nat
  PROVE  /\ Weighs(Plain(n), n + 2) /\ Weighs(UpTo(Plain(n), n), n + 2)
         /\ Weighs(Checked(n), n + 2) /\ Weighs(UpTo(Checked(n), n), n + 2)
         /\ Weighs(Unquoted(n), n) /\ Weighs(Optional(n), n + 2)
         /\ Weighs(Field(n), n + 2) /\ Weighs(OptionalField(n), n + 2) /\ Weighs(Body(n), 0)
<1>1. /\ Plain(n) \in ArgTypes /\ UpTo(Plain(n), n) \in ArgTypes /\ Checked(n) \in ArgTypes
      /\ UpTo(Checked(n), n) \in ArgTypes /\ Unquoted(n) \in ArgTypes /\ Optional(n) \in ArgTypes
      /\ Field(n) \in ArgTypes /\ Body(n) \in ArgTypes
  BY ArgsTyped
<1>2. OptionalField(n) \in ArgTypes
  BY <1>1 DEF OptionalField, ArgTypes, Reasons
<1>3. Weighs(Plain(n), n + 2)
  BY <1>1 DEF Weighs, Weighed, Weight, Plain
<1>4. Weighs(UpTo(Plain(n), n), n + 2)
  BY <1>1 DEF Weighs, Weighed, Weight, UpTo, Plain
<1>5. Weighs(Checked(n), n + 2)
  BY <1>1 DEF Weighs, Weighed, Weight, Checked, Plain
<1>6. Weighs(UpTo(Checked(n), n), n + 2)
  BY <1>1 DEF Weighs, Weighed, Weight, UpTo, Checked, Plain
<1>7. Weighs(Unquoted(n), n)
  BY <1>1 DEF Weighs, Weighed, Weight, Unquoted, Checked, Plain
<1>8. Weighs(Optional(n), n + 2)
  BY <1>1 DEF Weighs, Weighed, Weight, Optional, Plain
<1>9. Weighs(Field(n), n + 2)
  BY <1>1 DEF Weighs, Weighed, Weight, Field, Plain
<1>10. Weighs(OptionalField(n), n + 2)
  BY <1>2 DEF Weighs, Weighed, Weight, OptionalField, Field, Plain
<1>11. Weighs(Body(n), 0)
  BY <1>1 DEF Weighs, Weighed, Weight, Body, Plain
<1> QED  BY <1>3, <1>4, <1>5, <1>6, <1>7, <1>8, <1>9, <1>10, <1>11

LEMMA DataWeighs == Weighs(OptionalData, 2)
BY OthersUsed DEF Weighs, Weighed, Weight, OptionalData, Optional, Plain

\* How long the beginning of a command with arguments is at most.
ShortHeads ==
  {"ATD", "AT+VTS=", "AT+CMEE=", "AT+CREG=", "AT+CFUN=", "AT+CPIN=", "AT+CTZU=", "AT+CMGF=", "AT+CMGR=",
   "AT+CMGD=", "AT+CHLD=", "AT+CLIP=", "AT+CLIR=", "AT+CCWA="}
HeadMax(h) ==
  IF h \in ShortHeads THEN 8
  ELSE IF h \in {"AT+CGREG=", "AT+CEREG="} THEN 9 ELSE 12

LEMMA HeadIsShort ==
  ASSUME NEW c \in Commands, c.args # <<>>
  PROVE  Len(c.head) \in Nat /\ HeadMax(c.head) \in Nat /\ Len(c.head) <= HeadMax(c.head)
<1>1. /\ Len(c.head) \in 1 .. 20
      /\ Len(c.head) <= 12
      /\ c.head \in {"AT+CGREG=", "AT+CEREG="} => Len(c.head) <= 9
      /\ c.head \in ShortHeads => Len(c.head) <= 8
  BY HeadsAssumption, Zenon DEF ShortHeads
<1>2. PICK l \in Nat : l = Len(c.head)
  BY <1>1
<1>3. PICK h : h = c.head
  OBVIOUS
<1>4. l <= 12 /\ (h \in {"AT+CGREG=", "AT+CEREG="} => l <= 9) /\ (h \in ShortHeads => l <= 8)
  BY <1>1, <1>2, <1>3, Zenon
<1>5. HeadMax(h) \in Nat /\ l <= HeadMax(h)
  BY <1>4 DEF HeadMax
<1> QED  BY <1>2, <1>3, <1>5

\* A row of few arguments has room for them.
LEMMA RoomFor ==
  ASSUME NEW h, NEW n, NEW s, Cmd(h, n, s) \in Commands, s # <<>>, Light(s),
         NEW w \in Nat, Len(h) \in Nat => Longest(h, s) = Len(h) + w, HeadMax(h) + w < n, n <= 160
  PROVE  Roomy(Cmd(h, n, s))
<1>1. PICK c : c = Cmd(h, n, s)
  OBVIOUS
<1>2. c.head = h /\ c.buf = n /\ c.args = s
  BY <1>1 DEF Cmd
<1>3. Len(h) \in Nat /\ HeadMax(h) \in Nat /\ Len(h) <= HeadMax(h)
  BY <1>1, <1>2, HeadIsShort
<1>4. n \in Nat
  BY <1>1, <1>2, RowsAre DEF Row
<1>5. Longest(h, s) < n
  BY <1>3, <1>4
<1>6. Roomy(c)
  BY <1>2, <1>5, Zenon DEF Roomy
<1> QED  BY <1>1, <1>6

LEMMA Room1 ==
  ASSUME NEW h, NEW n, NEW a, NEW x1,
         Cmd(h, n, <<a>>) \in Commands,
         Weighs(a, x1),
         HeadMax(h) + (x1) < n, n <= 160
  PROVE  Roomy(Cmd(h, n, <<a>>))
<1>1. PICK s : s = <<a>>
  OBVIOUS
<1>2. s # <<>> /\ Len(s) = 1 /\ s[1] = a
  BY <1>1
<1>3. x1 \in Nat
  BY DEF Weighs
<1>4. Added(s, 2) = 0 /\ Added(s, 3) = 0 /\ Added(s, 4) = 0 /\ Added(s, 5) = 0 /\ Added(s, 6) = 0
  BY <1>2 DEF Added
<1>5. Added(s, 1) = x1
  BY <1>2, <1>3 DEF Added, Weighs
<1>6. PICK w \in Nat : w = x1
  BY <1>3
<1>7. Len(h) \in Nat => Longest(h, s) = Len(h) + w
  <2>1. Longest(h, s) = Len(h) + x1 + 0 + 0 + 0 + 0 + 0
    BY <1>4, <1>5, Zenon DEF Longest
  <2> QED  BY <1>3, <1>6, <2>1
<1>8. Light(s)
  <2>1. \A i \in 1 .. 1 : i = 1
    OBVIOUS
  <2> QED  BY <1>2, <2>1 DEF Light, Weighs
<1>9. Roomy(Cmd(h, n, s))
  BY <1>1, <1>2, <1>6, <1>7, <1>8, RoomFor
<1> QED  BY <1>1, <1>9

LEMMA Room2 ==
  ASSUME NEW h, NEW n, NEW a, NEW b, NEW x1, NEW x2,
         Cmd(h, n, <<a, b>>) \in Commands,
         Weighs(a, x1), Weighs(b, x2),
         HeadMax(h) + (x1 + (1 + x2)) < n, n <= 160
  PROVE  Roomy(Cmd(h, n, <<a, b>>))
<1>1. PICK s : s = <<a, b>>
  OBVIOUS
<1>2. s # <<>> /\ Len(s) = 2 /\ s[1] = a /\ s[2] = b
  BY <1>1
<1>3. x1 \in Nat /\ x2 \in Nat
  BY DEF Weighs
<1>4. Added(s, 3) = 0 /\ Added(s, 4) = 0 /\ Added(s, 5) = 0 /\ Added(s, 6) = 0
  BY <1>2 DEF Added
<1>5. Added(s, 1) = x1 /\ Added(s, 2) = 1 + x2
  BY <1>2, <1>3 DEF Added, Weighs
<1>6. PICK w \in Nat : w = x1 + (1 + x2)
  BY <1>3
<1>7. Len(h) \in Nat => Longest(h, s) = Len(h) + w
  <2>1. Longest(h, s) = Len(h) + x1 + (1 + x2) + 0 + 0 + 0 + 0
    BY <1>4, <1>5, Zenon DEF Longest
  <2> QED  BY <1>3, <1>6, <2>1
<1>8. Light(s)
  <2>1. \A i \in 1 .. 2 : i = 1 \/ i = 2
    OBVIOUS
  <2> QED  BY <1>2, <2>1 DEF Light, Weighs
<1>9. Roomy(Cmd(h, n, s))
  BY <1>1, <1>2, <1>6, <1>7, <1>8, RoomFor
<1> QED  BY <1>1, <1>9

LEMMA Room3 ==
  ASSUME NEW h, NEW n, NEW a, NEW b, NEW d, NEW x1, NEW x2, NEW x3,
         Cmd(h, n, <<a, b, d>>) \in Commands,
         Weighs(a, x1), Weighs(b, x2), Weighs(d, x3),
         HeadMax(h) + (x1 + (1 + x2) + (1 + x3)) < n, n <= 160
  PROVE  Roomy(Cmd(h, n, <<a, b, d>>))
<1>1. PICK s : s = <<a, b, d>>
  OBVIOUS
<1>2. s # <<>> /\ Len(s) = 3 /\ s[1] = a /\ s[2] = b /\ s[3] = d
  BY <1>1
<1>3. x1 \in Nat /\ x2 \in Nat /\ x3 \in Nat
  BY DEF Weighs
<1>4. Added(s, 4) = 0 /\ Added(s, 5) = 0 /\ Added(s, 6) = 0
  BY <1>2 DEF Added
<1>5. Added(s, 1) = x1 /\ Added(s, 2) = 1 + x2 /\ Added(s, 3) = 1 + x3
  BY <1>2, <1>3 DEF Added, Weighs
<1>6. PICK w \in Nat : w = x1 + (1 + x2) + (1 + x3)
  BY <1>3
<1>7. Len(h) \in Nat => Longest(h, s) = Len(h) + w
  <2>1. Longest(h, s) = Len(h) + x1 + (1 + x2) + (1 + x3) + 0 + 0 + 0
    BY <1>4, <1>5, Zenon DEF Longest
  <2> QED  BY <1>3, <1>6, <2>1
<1>8. Light(s)
  <2>1. \A i \in 1 .. 3 : i = 1 \/ i = 2 \/ i = 3
    OBVIOUS
  <2> QED  BY <1>2, <2>1 DEF Light, Weighs
<1>9. Roomy(Cmd(h, n, s))
  BY <1>1, <1>2, <1>6, <1>7, <1>8, RoomFor
<1> QED  BY <1>1, <1>9

LEMMA Room4 ==
  ASSUME NEW h, NEW n, NEW a, NEW b, NEW d, NEW e, NEW x1, NEW x2, NEW x3, NEW x4,
         Cmd(h, n, <<a, b, d, e>>) \in Commands,
         Weighs(a, x1), Weighs(b, x2), Weighs(d, x3), Weighs(e, x4),
         HeadMax(h) + (x1 + (1 + x2) + (1 + x3) + (1 + x4)) < n, n <= 160
  PROVE  Roomy(Cmd(h, n, <<a, b, d, e>>))
<1>1. PICK s : s = <<a, b, d, e>>
  OBVIOUS
<1>2. s # <<>> /\ Len(s) = 4 /\ s[1] = a /\ s[2] = b /\ s[3] = d /\ s[4] = e
  BY <1>1
<1>3. x1 \in Nat /\ x2 \in Nat /\ x3 \in Nat /\ x4 \in Nat
  BY DEF Weighs
<1>4. Added(s, 5) = 0 /\ Added(s, 6) = 0
  BY <1>2 DEF Added
<1>5. Added(s, 1) = x1 /\ Added(s, 2) = 1 + x2 /\ Added(s, 3) = 1 + x3 /\ Added(s, 4) = 1 + x4
  BY <1>2, <1>3 DEF Added, Weighs
<1>6. PICK w \in Nat : w = x1 + (1 + x2) + (1 + x3) + (1 + x4)
  BY <1>3
<1>7. Len(h) \in Nat => Longest(h, s) = Len(h) + w
  <2>1. Longest(h, s) = Len(h) + x1 + (1 + x2) + (1 + x3) + (1 + x4) + 0 + 0
    BY <1>4, <1>5, Zenon DEF Longest
  <2> QED  BY <1>3, <1>6, <2>1
<1>8. Light(s)
  <2>1. \A i \in 1 .. 4 : i = 1 \/ i = 2 \/ i = 3 \/ i = 4
    OBVIOUS
  <2> QED  BY <1>2, <2>1 DEF Light, Weighs
<1>9. Roomy(Cmd(h, n, s))
  BY <1>1, <1>2, <1>6, <1>7, <1>8, RoomFor
<1> QED  BY <1>1, <1>9

LEMMA Room5 ==
  ASSUME NEW h, NEW n, NEW a, NEW b, NEW d, NEW e, NEW f, NEW x1, NEW x2, NEW x3, NEW x4, NEW x5,
         Cmd(h, n, <<a, b, d, e, f>>) \in Commands,
         Weighs(a, x1), Weighs(b, x2), Weighs(d, x3), Weighs(e, x4), Weighs(f, x5),
         HeadMax(h) + (x1 + (1 + x2) + (1 + x3) + (1 + x4) + (1 + x5)) < n, n <= 160
  PROVE  Roomy(Cmd(h, n, <<a, b, d, e, f>>))
<1>1. PICK s : s = <<a, b, d, e, f>>
  OBVIOUS
<1>2. s # <<>> /\ Len(s) = 5 /\ s[1] = a /\ s[2] = b /\ s[3] = d /\ s[4] = e /\ s[5] = f
  BY <1>1
<1>3. x1 \in Nat /\ x2 \in Nat /\ x3 \in Nat /\ x4 \in Nat /\ x5 \in Nat
  BY DEF Weighs
<1>4. Added(s, 6) = 0
  BY <1>2 DEF Added
<1>5. Added(s, 1) = x1 /\ Added(s, 2) = 1 + x2 /\ Added(s, 3) = 1 + x3 /\ Added(s, 4) = 1 + x4 /\ Added(s, 5) = 1 + x5
  BY <1>2, <1>3 DEF Added, Weighs
<1>6. PICK w \in Nat : w = x1 + (1 + x2) + (1 + x3) + (1 + x4) + (1 + x5)
  BY <1>3
<1>7. Len(h) \in Nat => Longest(h, s) = Len(h) + w
  <2>1. Longest(h, s) = Len(h) + x1 + (1 + x2) + (1 + x3) + (1 + x4) + (1 + x5) + 0
    BY <1>4, <1>5, Zenon DEF Longest
  <2> QED  BY <1>3, <1>6, <2>1
<1>8. Light(s)
  <2>1. \A i \in 1 .. 5 : i = 1 \/ i = 2 \/ i = 3 \/ i = 4 \/ i = 5
    OBVIOUS
  <2> QED  BY <1>2, <2>1 DEF Light, Weighs
<1>9. Roomy(Cmd(h, n, s))
  BY <1>1, <1>2, <1>6, <1>7, <1>8, RoomFor
<1> QED  BY <1>1, <1>9

LEMMA Room6 ==
  ASSUME NEW h, NEW n, NEW a, NEW b, NEW d, NEW e, NEW f, NEW g, NEW x1, NEW x2, NEW x3, NEW x4, NEW x5, NEW x6,
         Cmd(h, n, <<a, b, d, e, f, g>>) \in Commands,
         Weighs(a, x1), Weighs(b, x2), Weighs(d, x3), Weighs(e, x4), Weighs(f, x5), Weighs(g, x6),
         HeadMax(h) + (x1 + (1 + x2) + (1 + x3) + (1 + x4) + (1 + x5) + (1 + x6)) < n, n <= 160
  PROVE  Roomy(Cmd(h, n, <<a, b, d, e, f, g>>))
<1>1. PICK s : s = <<a, b, d, e, f, g>>
  OBVIOUS
<1>2. s # <<>> /\ Len(s) = 6 /\ s[1] = a /\ s[2] = b /\ s[3] = d /\ s[4] = e /\ s[5] = f /\ s[6] = g
  BY <1>1
<1>3. x1 \in Nat /\ x2 \in Nat /\ x3 \in Nat /\ x4 \in Nat /\ x5 \in Nat /\ x6 \in Nat
  BY DEF Weighs
<1>5. Added(s, 1) = x1 /\ Added(s, 2) = 1 + x2 /\ Added(s, 3) = 1 + x3 /\ Added(s, 4) = 1 + x4 /\ Added(s, 5) = 1 + x5 /\ Added(s, 6) = 1 + x6
  BY <1>2, <1>3 DEF Added, Weighs
<1>6. PICK w \in Nat : w = x1 + (1 + x2) + (1 + x3) + (1 + x4) + (1 + x5) + (1 + x6)
  BY <1>3
<1>7. Len(h) \in Nat => Longest(h, s) = Len(h) + w
  <2>1. Longest(h, s) = Len(h) + x1 + (1 + x2) + (1 + x3) + (1 + x4) + (1 + x5) + (1 + x6)
    BY <1>5, Zenon DEF Longest
  <2> QED  BY <1>3, <1>6, <2>1
<1>8. Light(s)
  <2>1. \A i \in 1 .. 6 : i = 1 \/ i = 2 \/ i = 3 \/ i = 4 \/ i = 5 \/ i = 6
    OBVIOUS
  <2> QED  BY <1>2, <2>1 DEF Light, Weighs
<1>9. Roomy(Cmd(h, n, s))
  BY <1>1, <1>2, <1>6, <1>7, <1>8, RoomFor
<1> QED  BY <1>1, <1>9

LEMMA TextsUsedWeigh ==
  /\ Weighs(Plain(0), 2) /\ Weighs(Plain(2), 4) /\ Weighs(Plain(6), 8) /\ Weighs(Plain(8), 10)
  /\ Weighs(Plain(20), 22) /\ Weighs(UpTo(Plain(8), 8), 10) /\ Weighs(Checked(2), 4)
  /\ Weighs(Checked(7), 9) /\ Weighs(Checked(23), 25) /\ Weighs(UpTo(Checked(15), 15), 17)
  /\ Weighs(Unquoted(20), 20) /\ Weighs(Optional(2), 4) /\ Weighs(Optional(8), 10)
  /\ Weighs(Field(7), 9) /\ Weighs(Field(63), 65) /\ Weighs(OptionalField(39), 41)
  /\ Weighs(Body(160), 0) /\ Weighs(OptionalData, 2)
BY TextsWeigh, DataWeighs

LEMMA FixedRoomy ==
  ASSUME NEW c \in Commands, NEW heads, c \in Fixed(heads)
  PROVE  Roomy(c)
<1>1. PICK h \in heads : c = Cmd(h, Len(h) + 1, <<>>)
  BY DEF Fixed
<1>2. c.head = h /\ c.buf = Len(h) + 1 /\ c.args = <<>>
  BY <1>1 DEF Cmd
<1>10. Len(h) \in 1 .. 20
  BY <1>2, HeadsAssumption
<1>11. PICK l \in 1 .. 20 : l = Len(h)
  BY <1>10, Zenon
<1>12. l \in Nat /\ l <= 20
  OBVIOUS
<1>3. l \in Nat /\ l = Len(h) /\ l <= 20
  BY <1>11, <1>12, Zenon
<1>4. PICK s : s = <<>>
  OBVIOUS
<1>5. Len(s) = 0
  BY <1>4
<1>6. Added(s, 1) = 0 /\ Added(s, 2) = 0 /\ Added(s, 3) = 0 /\ Added(s, 4) = 0 /\ Added(s, 5) = 0 /\ Added(s, 6) = 0
  BY <1>5 DEF Added
<1>7. Longest(h, s) < l + 1
  BY <1>3, <1>6 DEF Longest
<1>9. l + 1 <= 160
  BY <1>3
<1>8. Light(s)
  BY <1>5 DEF Light
<1> QED  BY <1>2, <1>3, <1>4, <1>7, <1>8, <1>9, Zenon DEF Roomy

\* Every buffer has room for the command and the arguments it is built for.
LEMMA RowsRoomy ==
  ASSUME NEW c \in Commands
  PROVE  Roomy(c)
<1>1. CASE c \in General
  <2>1. CASE c = Cmd("AT+CMEE=", 12, <<Byte>>)
    <3>1. HeadMax("AT+CMEE=") + 3 < 12 /\ 12 <= 160
      BY DEF HeadMax, ShortHeads
    <3> QED  BY <2>1, <3>1, Room1, NumbersWeigh, Zenon
  <2> QED  BY <1>1, <2>1, FixedRoomy, Zenon DEF General
<1>2. CASE c \in Identification
  BY <1>2, FixedRoomy, Zenon DEF Identification
<1>3. CASE c \in CharacterSets
  <2>1. CASE c = Cmd("AT+CSCS=", 24, <<Checked(7)>>)
    <3>1. HeadMax("AT+CSCS=") + 9 < 24 /\ 24 <= 160
      BY DEF HeadMax, ShortHeads
    <3> QED  BY <2>1, <3>1, Room1, TextsUsedWeigh, Zenon
  <2>2. CASE c = Cmd("AT+CPBS=", 20, <<Checked(2)>>)
    <3>1. HeadMax("AT+CPBS=") + 4 < 20 /\ 20 <= 160
      BY DEF HeadMax, ShortHeads
    <3> QED  BY <2>2, <3>1, Room1, TextsUsedWeigh, Zenon
  <2> QED  BY <1>3, <2>1, <2>2, FixedRoomy, Zenon DEF CharacterSets
<1>4. CASE c \in Power
  <2>1. CASE c = Cmd("AT+CFUN=", 16, <<Byte, NonZero>>)
    <3>1. HeadMax("AT+CFUN=") + (3 + (1 + 3)) < 16 /\ 16 <= 160
      BY DEF HeadMax, ShortHeads
    <3> QED  BY <2>1, <3>1, Room2, NumbersWeigh, Zenon
  <2> QED  BY <1>4, <2>1, Zenon DEF Power
<1>5. CASE c \in Sim
  <2>1. CASE c = Cmd("AT+CPIN=", 20, <<UpTo(Plain(8), 8)>>)
    <3>1. HeadMax("AT+CPIN=") + 10 < 20 /\ 20 <= 160
      BY DEF HeadMax, ShortHeads
    <3> QED  BY <2>1, <3>1, Room1, TextsUsedWeigh, Zenon
  <2>2. CASE c = Cmd("AT+CPIN=", 32, <<Plain(8), Plain(8)>>)
    <3>1. HeadMax("AT+CPIN=") + (10 + (1 + 10)) < 32 /\ 32 <= 160
      BY DEF HeadMax, ShortHeads
    <3> QED  BY <2>2, <3>1, Room2, TextsUsedWeigh, Zenon
  <2>3. CASE c = Cmd("AT+CLCK=", 20, <<Plain(2), Suffix(2)>>)
    <3>1. HeadMax("AT+CLCK=") + (4 + (1 + 2)) < 20 /\ 20 <= 160
      BY DEF HeadMax, ShortHeads
    <3> QED  BY <2>3, <3>1, Room2, NumbersWeigh, TextsUsedWeigh, Zenon
  <2>4. CASE c = Cmd("AT+CLCK=", 40, <<Plain(2), Byte, Optional(8)>>)
    <3>1. HeadMax("AT+CLCK=") + (4 + (1 + 3) + (1 + 10)) < 40 /\ 40 <= 160
      BY DEF HeadMax, ShortHeads
    <3> QED  BY <2>4, <3>1, Room3, NumbersWeigh, TextsUsedWeigh, Zenon
  <2>5. CASE c = Cmd("AT+CPWD=", 56, <<Plain(2), Plain(8), Plain(8)>>)
    <3>1. HeadMax("AT+CPWD=") + (4 + (1 + 10) + (1 + 10)) < 56 /\ 56 <= 160
      BY DEF HeadMax, ShortHeads
    <3> QED  BY <2>5, <3>1, Room3, TextsUsedWeigh, Zenon
  <2> QED  BY <1>5, <2>1, <2>2, <2>3, <2>4, <2>5, FixedRoomy, Zenon DEF Sim
<1>6. CASE c \in Registration
  <2>1. CASE c = Cmd("AT+CREG=", 12, <<Byte>>)
    <3>1. HeadMax("AT+CREG=") + 3 < 12 /\ 12 <= 160
      BY DEF HeadMax, ShortHeads
    <3> QED  BY <2>1, <3>1, Room1, NumbersWeigh, Zenon
  <2>2. CASE c = Cmd("AT+CGREG=", 13, <<Byte>>)
    <3>1. HeadMax("AT+CGREG=") + 3 < 13 /\ 13 <= 160
      BY DEF HeadMax, ShortHeads
    <3> QED  BY <2>2, <3>1, Room1, NumbersWeigh, Zenon
  <2>3. CASE c = Cmd("AT+CEREG=", 13, <<Byte>>)
    <3>1. HeadMax("AT+CEREG=") + 3 < 13 /\ 13 <= 160
      BY DEF HeadMax, ShortHeads
    <3> QED  BY <2>3, <3>1, Room1, NumbersWeigh, Zenon
  <2> QED  BY <1>6, <2>1, <2>2, <2>3, FixedRoomy, Zenon DEF Registration
<1>7. CASE c \in Operators
  <2>1. CASE c = Cmd("AT+COPS=1,2,", 40, <<Plain(6), Byte>>)
    <3>1. HeadMax("AT+COPS=1,2,") + (8 + (1 + 3)) < 40 /\ 40 <= 160
      BY DEF HeadMax, ShortHeads
    <3> QED  BY <2>1, <3>1, Room2, NumbersWeigh, TextsUsedWeigh, Zenon
  <2>2. CASE c = Cmd("AT+CPOL=", 48, <<Byte, Number(2), Checked(23)>>)
    <3>1. HeadMax("AT+CPOL=") + (3 + (1 + 1) + (1 + 25)) < 48 /\ 48 <= 160
      BY DEF HeadMax, ShortHeads
    <3> QED  BY <2>2, <3>1, Room3, NumbersWeigh, TextsUsedWeigh, Zenon
  <2> QED  BY <1>7, <2>1, <2>2, FixedRoomy, Zenon DEF Operators
<1>8. CASE c \in Signal
  BY <1>8, FixedRoomy, Zenon DEF Signal
<1>9. CASE c \in Clock
  <2>1. CASE c = Cmd("AT+CCLK=", 40, <<Plain(20)>>)
    <3>1. HeadMax("AT+CCLK=") + 22 < 40 /\ 40 <= 160
      BY DEF HeadMax, ShortHeads
    <3> QED  BY <2>1, <3>1, Room1, TextsUsedWeigh, Zenon
  <2>2. CASE c = Cmd("AT+CTZU=", 12, <<Number(1)>>)
    <3>1. HeadMax("AT+CTZU=") + 1 < 12 /\ 12 <= 160
      BY DEF HeadMax, ShortHeads
    <3> QED  BY <2>2, <3>1, Room1, NumbersWeigh, Zenon
  <2> QED  BY <1>9, <2>1, <2>2, FixedRoomy, Zenon DEF Clock
<1>10. CASE c \in PacketData
  <2>1. CASE c = Cmd("AT+CGDCONT=", 160, <<Byte, Field(7), Field(63), OptionalField(39)>>)
    <3>1. HeadMax("AT+CGDCONT=") + (3 + (1 + 9) + (1 + 65) + (1 + 41)) < 160 /\ 160 <= 160
      BY DEF HeadMax, ShortHeads
    <3> QED  BY <2>1, <3>1, Room4, NumbersWeigh, TextsUsedWeigh, Zenon
  <2>2. CASE c = Cmd("AT+CGACT=", 20, <<Bool, Byte>>)
    <3>1. HeadMax("AT+CGACT=") + (1 + (1 + 3)) < 20 /\ 20 <= 160
      BY DEF HeadMax, ShortHeads
    <3> QED  BY <2>2, <3>1, Room2, NumbersWeigh, Zenon
  <2>3. CASE c = Cmd("AT+CGPADDR=", 18, <<Byte>>)
    <3>1. HeadMax("AT+CGPADDR=") + 3 < 18 /\ 18 <= 160
      BY DEF HeadMax, ShortHeads
    <3> QED  BY <2>3, <3>1, Room1, NumbersWeigh, Zenon
  <2>4. CASE c = Cmd("AT+CGATT=", 14, <<Number(1)>>)
    <3>1. HeadMax("AT+CGATT=") + 1 < 14 /\ 14 <= 160
      BY DEF HeadMax, ShortHeads
    <3> QED  BY <2>4, <3>1, Room1, NumbersWeigh, Zenon
  <2> QED  BY <1>10, <2>1, <2>2, <2>3, <2>4, FixedRoomy, Zenon DEF PacketData
<1>11. CASE c \in Sms
  <2>1. CASE c = Cmd("AT+CMGF=", 12, <<Byte>>)
    <3>1. HeadMax("AT+CMGF=") + 3 < 12 /\ 12 <= 160
      BY DEF HeadMax, ShortHeads
    <3> QED  BY <2>1, <3>1, Room1, NumbersWeigh, Zenon
  <2>2. CASE c = Cmd("AT+CMGS=", 32, <<UpTo(Checked(15), 15), Body(160)>>)
    <3>1. HeadMax("AT+CMGS=") + (17 + (1 + 0)) < 32 /\ 32 <= 160
      BY DEF HeadMax, ShortHeads
    <3> QED  BY <2>2, <3>1, Room2, TextsUsedWeigh, Zenon
  <2>3. CASE c = Cmd("AT+CMGR=", 14, <<Byte>>)
    <3>1. HeadMax("AT+CMGR=") + 3 < 14 /\ 14 <= 160
      BY DEF HeadMax, ShortHeads
    <3> QED  BY <2>3, <3>1, Room1, NumbersWeigh, Zenon
  <2>4. CASE c = Cmd("AT+CMGD=", 18, <<Byte, Byte>>)
    <3>1. HeadMax("AT+CMGD=") + (3 + (1 + 3)) < 18 /\ 18 <= 160
      BY DEF HeadMax, ShortHeads
    <3> QED  BY <2>4, <3>1, Room2, NumbersWeigh, Zenon
  <2>5. CASE c = Cmd("AT+CMGL=", 16, <<Number(4)>>)
    <3>1. HeadMax("AT+CMGL=") + 1 < 16 /\ 16 <= 160
      BY DEF HeadMax, ShortHeads
    <3> QED  BY <2>5, <3>1, Room1, NumbersWeigh, Zenon
  <2>6. CASE c = Cmd("AT+CPMS=", 48, <<Checked(2), Optional(2), Optional(2)>>)
    <3>1. HeadMax("AT+CPMS=") + (4 + (1 + 4) + (1 + 4)) < 48 /\ 48 <= 160
      BY DEF HeadMax, ShortHeads
    <3> QED  BY <2>6, <3>1, Room3, TextsUsedWeigh, Zenon
  <2>7. CASE c = Cmd("AT+CNMI=", 24, <<Code, Code, Code, Code, Code>>)
    <3>1. HeadMax("AT+CNMI=") + (1 + (1 + 1) + (1 + 1) + (1 + 1) + (1 + 1)) < 24 /\ 24 <= 160
      BY DEF HeadMax, ShortHeads
    <3> QED  BY <2>7, <3>1, Room5, NumbersWeigh, Zenon
  <2> QED  BY <1>11, <2>1, <2>2, <2>3, <2>4, <2>5, <2>6, <2>7, Zenon DEF Sms
<1>12. CASE c \in Calls
  <2>1. CASE c = Cmd("ATD", 32, <<Unquoted(20), FlagSuffix(1)>>)
    <3>1. HeadMax("ATD") + (20 + (1 + 1)) < 32 /\ 32 <= 160
      BY DEF HeadMax, ShortHeads
    <3> QED  BY <2>1, <3>1, Room2, NumbersWeigh, TextsUsedWeigh, Zenon
  <2>2. CASE c = Cmd("AT+VTS=", 32, <<Unquoted(20)>>)
    <3>1. HeadMax("AT+VTS=") + 20 < 32 /\ 32 <= 160
      BY DEF HeadMax, ShortHeads
    <3> QED  BY <2>2, <3>1, Room1, TextsUsedWeigh, Zenon
  <2>3. CASE c = Cmd("AT+CHLD=", 12, <<Number(4)>>)
    <3>1. HeadMax("AT+CHLD=") + 1 < 12 /\ 12 <= 160
      BY DEF HeadMax, ShortHeads
    <3> QED  BY <2>3, <3>1, Room1, NumbersWeigh, Zenon
  <2> QED  BY <1>12, <2>1, <2>2, <2>3, FixedRoomy, Zenon DEF Calls
<1>13. CASE c \in Supplementary
  <2>1. CASE c = Cmd("AT+CLIP=", 12, <<Number(1)>>)
    <3>1. HeadMax("AT+CLIP=") + 1 < 12 /\ 12 <= 160
      BY DEF HeadMax, ShortHeads
    <3> QED  BY <2>1, <3>1, Room1, NumbersWeigh, Zenon
  <2>2. CASE c = Cmd("AT+CLIR=", 12, <<Number(2)>>)
    <3>1. HeadMax("AT+CLIR=") + 1 < 12 /\ 12 <= 160
      BY DEF HeadMax, ShortHeads
    <3> QED  BY <2>2, <3>1, Room1, NumbersWeigh, Zenon
  <2>3. CASE c = Cmd("AT+CCWA=", 20, <<Byte, Byte, Byte>>)
    <3>1. HeadMax("AT+CCWA=") + (3 + (1 + 3) + (1 + 3)) < 20 /\ 20 <= 160
      BY DEF HeadMax, ShortHeads
    <3> QED  BY <2>3, <3>1, Room3, NumbersWeigh, Zenon
  <2> QED  BY <1>13, <2>1, <2>2, <2>3, FixedRoomy, Zenon DEF Supplementary
<1>14. CASE c \in SimFilesAndUssd
  <2>1. CASE c = Cmd("AT+CRSM=", 96, <<Byte, FileId, Byte, Byte, Byte, OptionalData>>)
    <3>1. HeadMax("AT+CRSM=") + (3 + (1 + 5) + (1 + 3) + (1 + 3) + (1 + 3) + (1 + 2)) < 96 /\ 96 <= 160
      BY DEF HeadMax, ShortHeads
    <3> QED  BY <2>1, <3>1, Room6, NumbersWeigh, TextsUsedWeigh, Zenon
  <2>2. CASE c = Cmd("AT+CUSD=1,", 80, <<Plain(0), Byte>>)
    <3>1. HeadMax("AT+CUSD=1,") + (2 + (1 + 3)) < 80 /\ 80 <= 160
      BY DEF HeadMax, ShortHeads
    <3> QED  BY <2>2, <3>1, Room2, NumbersWeigh, TextsUsedWeigh, Zenon
  <2> QED  BY <1>14, <2>1, <2>2, FixedRoomy, Zenon DEF SimFilesAndUssd
<1> QED  BY <1>1, <1>2, <1>3, <1>4, <1>5, <1>6, <1>7, <1>8, <1>9, <1>10, <1>11, <1>12, <1>13, <1>14 DEF Commands

\* As long as a command with documented arguments is being built, nothing has
\* failed, and what is still to come fits.
AllWithin == \A i \in DOMAIN args : Within(cmd.args[i], args[i])
RoomInv ==
  /\ outcome = "building" /\ AllWithin => ab.ok /\ \E b \in 0 .. cmd.buf - 1 : Runs(wanted, todo, b)
  /\ outcome = "AT_ERR_PARAM" => ~AllWithin

LEMMA CallRoom ==
  ASSUME GsmInv, NEW c \in Commands, Call(c)
  PROVE  RoomInv'
<1>1. PICK vs \in ArgsOf(c) :
        /\ args' = vs
        /\ IF \E i \in DOMAIN vs : Refused(c.args[i], vs[i])
             THEN outcome' = "AT_ERR_PARAM" /\ UNCHANGED todo
             ELSE outcome' = "building" /\ todo' = AppendsOf(c, vs)
  BY DEF Call
<1>2. cmd' = c /\ ab' = AB_INIT /\ wanted' = 0
  BY DEF Call
<1>3. CASE \E i \in DOMAIN vs : Refused(c.args[i], vs[i])
  <2>1. outcome' = "AT_ERR_PARAM" /\ ~AllWithin'
    BY <1>1, <1>2, <1>3 DEF AllWithin, Within
  <2> QED  BY <2>1 DEF RoomInv
<1>4. CASE ~\E i \in DOMAIN vs : Refused(c.args[i], vs[i])
  <2>1. outcome' = "building" /\ todo' = AppendsOf(c, vs)
    BY <1>1, <1>4
  <2>2. ASSUME AllWithin'
        PROVE  \E b \in 0 .. c.buf - 1 : Runs(0, AppendsOf(c, vs), b)
    <3>1. \A i \in DOMAIN vs : Within(c.args[i], vs[i])
      BY <1>1, <1>2, <2>2 DEF AllWithin
    <3> QED  BY <3>1, RowsRoomy, RoomyRuns
  <2>3. ab'.ok
    BY <1>2 DEF AB_INIT
  <2> QED  BY <1>2, <2>1, <2>2, <2>3 DEF RoomInv
<1> QED  BY <1>3, <1>4

LEMMA AppendRoom ==
  ASSUME GsmInv, RoomInv, AppendNext
  PROVE  RoomInv'
<1>1. /\ outcome = "building" /\ todo # <<>> /\ UNCHANGED <<cmd, args, outcome>>
      /\ ab' = AB(cmd.buf, ab, Head(todo)) /\ wanted' = wanted + Head(todo) /\ todo' = Tail(todo)
  BY DEF AppendNext
<1>2. AllWithin' <=> AllWithin
  BY <1>1 DEF AllWithin
<1> SUFFICES ASSUME AllWithin
             PROVE  ab'.ok /\ \E b \in 0 .. cmd.buf - 1 : Runs(wanted', todo', b)
  BY <1>1, <1>2 DEF RoomInv
<1>3. PICK b \in 0 .. cmd.buf - 1 : Runs(wanted, todo, b)
  BY <1>1 DEF RoomInv
<1>4. cmd.buf \in Nat \ {0} /\ todo \in Seq(Nat) /\ wanted \in Nat /\ ab \in [len : 0 .. cmd.buf - 1, ok : BOOLEAN]
  BY CmdTyped DEF GsmInv, GsmTypeOK
<1>5. PICK n \in Nat : n = Head(todo)
  BY <1>1, <1>4
<1>6. b \in Nat /\ b <= cmd.buf - 1
  BY <1>3, <1>4
<1>7. wanted + n <= b /\ Runs(wanted + n, Tail(todo), b)
  BY <1>1, <1>3, <1>4, <1>5, <1>6, RunsOn
<1>8. ab.ok /\ ab.len = wanted
  BY <1>1 DEF GsmInv, RoomInv
<1>9. n <= Room(cmd.buf, ab.len)
  BY <1>4, <1>6, <1>7, <1>8 DEF Room
<1>10. AB(cmd.buf, ab, n) = [ab EXCEPT !.len = ab.len + n]
  BY <1>8, <1>9 DEF AB, at__ab
<1>11. ab'.ok
  BY <1>1, <1>4, <1>5, <1>8, <1>10
<1> QED  BY <1>1, <1>3, <1>5, <1>7, <1>11

LEMMA SendRoom ==
  ASSUME RoomInv, Send
  PROVE  RoomInv'
<1>1. UNCHANGED <<cmd, args>> /\ outcome = "building" /\ outcome' \in {"AT_OK", "AT_ERR_BUSY", "AT_ERR_PARAM"}
  BY DEF Send
<1>2. outcome' = "AT_ERR_PARAM" => ~ab.ok
  BY DEF Send
<1>3. AllWithin' <=> AllWithin
  BY <1>1 DEF AllWithin
<1> QED  BY <1>1, <1>2, <1>3 DEF RoomInv

\* The buffers are large enough, for all values of all arguments: a call
\* whose arguments are in range and no longer than documented is never
\* refused for lack of room.
THEOREM RoomForDocumented == Spec => []DocumentedFits
<1>1. Init => RoomInv
  BY DEF Init, GsmInit, RoomInv
<1>2. GsmInv /\ RoomInv /\ [Next]_vars => RoomInv'
  <2> SUFFICES ASSUME GsmInv, RoomInv, [Next]_vars PROVE RoomInv'
    OBVIOUS
  <2>1. ASSUME NEW c \in Commands, Build(c) PROVE RoomInv'
    BY <2>1, CallRoom DEF Build
  <2>2. CASE AppendOne
    BY <2>2, AppendRoom DEF AppendOne
  <2>3. CASE SendBuilt
    BY <2>3, SendRoom DEF SendBuilt
  <2>4. ASSUME UNCHANGED gvars PROVE RoomInv'
    BY <2>4 DEF gvars, RoomInv, AllWithin
  <2>5. CASE Done
    BY <2>5 DEF Done, RoomInv
  <2> QED  BY <2>1, <2>2, <2>3, <2>4, <2>5 DEF Next, vars, Answer, Parse, SendPdu, SendPart
<1>3. RoomInv => DocumentedFits
  BY DEF RoomInv, AllWithin, DocumentedFits
<1> QED  BY <1>1, <1>2, <1>3, GsmInductive, PTL DEF Spec

\* A command that is accepted is queued whole, for all arguments of all
\* builders, if the queue's field is as large as the largest buffer of a
\* builder: neither has cut it.
THEOREM SentInFull ==
  ASSUME TxBuf >= 160
  PROVE  Spec => []SentWhole
<1>1. Init => SentWhole
  BY DEF Init, GsmInit, SentWhole
<1>2. GsmInv /\ SentWhole /\ [Next]_vars => SentWhole'
  <2> SUFFICES ASSUME GsmInv, SentWhole, [Next]_vars PROVE SentWhole'
    OBVIOUS
  <2>1. ASSUME NEW c \in Commands, Build(c) PROVE SentWhole'
    BY <2>1, CallKeeps DEF Build, SentWhole
  <2>2. CASE AppendOne
    BY <2>2, AppendKeeps DEF AppendOne, AppendNext, SentWhole
  <2>3. CASE SendBuilt
    <3>1. Send /\ UNCHANGED wanted
      BY <2>3 DEF SendBuilt, Send
    <3> SUFFICES ASSUME outcome' = "AT_OK" PROVE stored' = wanted
      BY <3>1 DEF SentWhole
    <3>2. ab.ok /\ outcome = "building" /\ stored' = IF ab.len < TxBuf THEN ab.len ELSE TxBuf - 1
      BY <3>1 DEF Send
    <3>3. ab.len = wanted /\ ab.len \in 0 .. cmd.buf - 1
      BY <3>2 DEF GsmInv, GsmTypeOK
    <3>4. cmd.buf \in Nat \ {0} /\ cmd.buf <= TxBuf /\ TxBuf \in Nat
      <4>1. cmd \in Commands \/ cmd.buf = 1
        BY NoCmdIs DEF GsmInv, GsmTypeOK
      <4>2. cmd.buf \in Nat \ {0} /\ TxBuf \in Nat
        BY CmdTyped, SizesAssumption DEF GsmInv
      <4>3. cmd.buf <= 160
        BY <4>1, <4>2, RowsRoomy DEF Roomy
      <4> QED  BY <4>2, <4>3
    <3> QED  BY <3>2, <3>3, <3>4
  <2>4. CASE Answer
    BY <2>4 DEF Answer, gvars, SentWhole
  <2>5. CASE Parse
    BY <2>5 DEF Parse, gvars, SentWhole
  <2>6. CASE SendPdu
    BY <2>6 DEF SendPdu, gvars, SentWhole
  <2>7. CASE SendPart
    BY <2>7 DEF SendPart, gvars, SentWhole
  <2>8. CASE Done
    BY <2>8 DEF Done, SentWhole
  <2>9. CASE UNCHANGED vars
    BY <2>9 DEF vars, gvars, SentWhole
  <2> QED  BY <2>1, <2>2, <2>3, <2>4, <2>5, <2>6, <2>7, <2>8, <2>9 DEF Next
<1> QED  BY <1>1, <1>2, GsmInductive, PTL DEF Spec

-----------------------------------------------------------------------------
(* Reading the reports back. A cursor is followed token by token: what  *)
(* each step of a parser returns and leaves, then each report.             *)

\* The kinds of tokens and what they carry.
LEMMA TokensAre ==
  /\ \A v : Num(v).t = "num" /\ Num(v).v = v
  /\ \A n : Quoted(n).t = "quoted" /\ Quoted(n).v = n /\ Quoted(n).s = ""
  /\ \A n : Bare(n).t = "bare" /\ Bare(n).v = n
  /\ \A w : /\ QuotedWord(w).t = "quoted" /\ QuotedWord(w).s = w
            /\ Word(w).t = "word" /\ Word(w).s = w
  /\ Comma.t = "comma"
BY DEF Num, Quoted, Bare, QuotedWord, Word, Comma

\* What a cursor starts with.
LEMMA HeadIs ==
  ASSUME NEW p, p # <<>>
  PROVE  /\ \A v : Head(p) = Num(v) => Starts(p, "num") /\ ~Starts(p, "quoted") /\ Head(p).v = v
         /\ \A n : Head(p) = Quoted(n) =>
              Starts(p, "quoted") /\ Head(p).v = n /\ Head(p).s # "comma"
         /\ \A n : Head(p) = Bare(n) => Starts(p, "bare") /\ ~Starts(p, "quoted") /\ Head(p).v = n
         /\ \A w : Head(p) = QuotedWord(w) => Starts(p, "quoted") /\ Head(p).s = w
<1>1. \A v : Num(v).t = "num" /\ Num(v).v = v
  BY DEF Num
<1>2. \A n : Quoted(n).t = "quoted" /\ Quoted(n).v = n /\ Quoted(n).s # "comma"
  BY DEF Quoted
<1>3. \A n : Bare(n).t = "bare" /\ Bare(n).v = n
  BY DEF Bare
<1>4. \A w : QuotedWord(w).t = "quoted" /\ QuotedWord(w).s = w
  BY DEF QuotedWord, Word
<1>5. \A t : Starts(p, t) <=> Head(p).t = t
  BY DEF Starts
<1>6. ASSUME NEW v, Head(p) = Num(v)
      PROVE  Starts(p, "num") /\ ~Starts(p, "quoted") /\ Head(p).v = v
  BY <1>1, <1>5, <1>6
<1>7. ASSUME NEW n, Head(p) = Quoted(n)
      PROVE  Starts(p, "quoted") /\ Head(p).v = n /\ Head(p).s # "comma"
  BY <1>2, <1>5, <1>7
<1>8. ASSUME NEW n, Head(p) = Bare(n)
      PROVE  Starts(p, "bare") /\ ~Starts(p, "quoted") /\ Head(p).v = n
  BY <1>3, <1>5, <1>8
<1>9. ASSUME NEW w, Head(p) = QuotedWord(w)
      PROVE  Starts(p, "quoted") /\ Head(p).s = w
  BY <1>4, <1>5, <1>9
<1> QED
  BY <1>6, <1>7, <1>8, <1>9

\* A number of one byte is read as it is, and the cursor is behind it.
LEMMA UintField ==
  ASSUME NEW v \in 0 .. 255, NEW p, p # <<>>, Head(p) = Num(v)
  PROVE  at__parse_uint(p) = v /\ AfterUint(p) = Tail(p)
<1>1. Starts(p, "num") /\ Head(p).v = v
  BY HeadIs
<1>2. Accumulated(UintMax, v) = v
  <2>1. UintMax \in Nat /\ UintMax > 9 /\ v \in Nat /\ v + 9 <= UintMax
    BY FmtAssumption
  <2> QED
    BY <2>1, AccumulatedIs
<1> QED
  BY <1>1, <1>2 DEF at__parse_uint, AfterUint

\* So is a level, with its sign.
LEMMA LevelField ==
  ASSUME NEW v \in -255 .. 255, NEW p, p # <<>>, Head(p) = Num(v)
  PROVE  at__parse_int(p) = v /\ AfterInt(p) = Tail(p)
<1>1. Starts(p, "num") /\ Head(p).v = v
  BY HeadIs
<1>2. \A n \in 0 .. 255 : Accumulated(IntMax, n) = n
  <2> SUFFICES ASSUME NEW n \in 0 .. 255
               PROVE  Accumulated(IntMax, n) = n
    OBVIOUS
  <2>1. IntMax \in Nat /\ IntMax > 9 /\ n \in Nat /\ n + 9 <= IntMax
    BY FmtAssumption
  <2> QED
    BY <2>1, AccumulatedIs
<1>3. AfterInt(p) = Tail(p)
  BY <1>1 DEF AfterInt
<1>4. CASE v < 0
  <2>1. -v \in 0 .. 255
    BY <1>4
  <2>2. Accumulated(IntMax, -v) = -v
    BY <1>2, <2>1
  <2> QED
    BY <1>1, <1>3, <1>4, <2>2 DEF at__parse_int
<1>5. CASE v >= 0
  <2>1. v \in 0 .. 255
    BY <1>5
  <2>2. Accumulated(IntMax, v) = v
    BY <1>2, <2>1
  <2> QED
    BY <1>1, <1>3, <1>5, <2>2 DEF at__parse_int
<1> QED
  BY <1>4, <1>5

\* A comma is skipped, and nothing else.
LEMMA CommaField ==
  ASSUME NEW p
  PROVE  /\ p # <<>> /\ Head(p) = Comma => at__skip_comma(p) /\ AfterComma(p) = Tail(p)
         /\ p = <<>> \/ Head(p).t # "comma" => ~at__skip_comma(p) /\ AfterComma(p) = p
BY TokensAre DEF at__skip_comma, AfterComma, Starts

\* The casts to the fields of the structs keep levels and bytes.
LEMMA Narrow ==
  ASSUME NEW v \in -255 .. 255
  PROVE  I16(v) = v /\ (v >= 0 => U8(v) = v /\ I16(2 * v) = 2 * v /\ I16(2 * v - 113) = 2 * v - 113)
BY DEF I16, U8

\* The smallest of a set of numbers.
LEMMA FirstIs ==
  ASSUME NEW S, NEW i \in S, S \subseteq Nat, \A j \in S : i <= j
  PROVE  Min(S) = i
<1>1. \A j \in S : (\A k \in S : j <= k) => j = i
  <2> SUFFICES ASSUME NEW j \in S, \A k \in S : j <= k PROVE j = i
    OBVIOUS
  <2>1. j <= i /\ i <= j /\ i \in Nat /\ j \in Nat
    OBVIOUS
  <2> QED
    BY <2>1
<1>2. Min(S) \in S /\ \A k \in S : Min(S) <= k
  BY DEF Min
<1> QED
  BY <1>1, <1>2

\* A response of one line has a value for the head of that line only.
LEMMA OnlyLine ==
  ASSUME NEW h, NEW p
  PROVE  /\ resp_find_value(<<Line(h, p)>>, h) = p
         /\ \A g : g # h => resp_find_value(<<Line(h, p)>>, g) = NoValue
<1> DEFINE resp == <<Line(h, p)>>
<1>1. DOMAIN resp = {1} /\ resp[1].head = h /\ resp[1].p = p
  BY DEF Line
<1>2. Min({1}) = 1
  BY FirstIs
<1>3. resp_find_value(resp, h) = p
  <2>1. {i \in DOMAIN resp : resp[i].head = h} = {1}
    BY <1>1
  <2> HIDE DEF resp
  <2> QED
    BY <1>1, <1>2, <2>1 DEF resp_find_value
<1>4. ASSUME NEW g, g # h
      PROVE  resp_find_value(resp, g) = NoValue
  <2>1. {i \in DOMAIN resp : resp[i].head = g} = {}
    BY <1>1, <1>4
  <2> HIDE DEF resp
  <2> QED
    BY <2>1 DEF resp_find_value
<1> QED
  BY <1>3, <1>4

\* A line that starts with a token of a report.
LEMMA HasValue ==
  ASSUME NEW p, Head(p).t # "null"
  PROVE  p # NoValue
<1>1. PICK none : none = [t |-> "null", v |-> 0, s |-> ""]
  OBVIOUS
<1>2. NoValue = <<none>> /\ none.t = "null"
  BY <1>1 DEF NoValue
<1> QED
  BY <1>2

\* A field of one byte, with what follows it.
LEMMA FieldBack ==
  ASSUME NEW v \in 0 .. 255, NEW p, p # <<>>, Head(p) = Num(v)
  PROVE  /\ at__parse_uint(p) = v /\ U8(v) = v /\ AfterUint(p) = Tail(p) /\ p # NoValue
         /\ Tail(p) # <<>> /\ Head(Tail(p)) = Comma =>
              at__skip_comma(AfterUint(p)) /\ AfterComma(AfterUint(p)) = Tail(Tail(p))
         /\ Tail(p) = <<>> => ~at__skip_comma(AfterUint(p)) /\ AfterComma(AfterUint(p)) = <<>>
<1>1. at__parse_uint(p) = v /\ AfterUint(p) = Tail(p)
  BY UintField
<1>2. v \in -255 .. 255 /\ v >= 0
  OBVIOUS
<1>3. U8(v) = v
  BY <1>2, Narrow
<1>4. p # NoValue
  BY TokensAre, HasValue
<1> QED
  BY <1>1, <1>3, <1>4, CommaField

\* A field with a level.
LEMMA LevelBack ==
  ASSUME NEW v \in -255 .. 255, NEW p, p # <<>>, Head(p) = Num(v)
  PROVE  /\ I16(at__parse_int(p)) = v
         /\ Tail(p) # <<>> /\ Head(Tail(p)) = Comma => AfterComma(AfterInt(p)) = Tail(Tail(p))
<1>1. at__parse_int(p) = v /\ AfterInt(p) = Tail(p)
  BY LevelField
<1>2. I16(v) = v
  BY Narrow
<1> QED
  BY <1>1, <1>2, CommaField

\* at_parse_csq.
LEMMA CsqBack ==
  ASSUME NEW r \in CsqReports
  PROVE  at_parse_csq(r.resp) = r.told
<1>1. PICK x \in Fields, b \in {f \in Fields : f <= 99} : r = CsqReport(x, b)
  BY DEF CsqReports
<1>2. x \in 0 .. 255 /\ b \in 0 .. 255 /\ b <= 99
  BY ReportsAssumption
<1>3. PICK p : p = <<Num(x), Comma, Num(b)>>
  OBVIOUS
<1>4. /\ r.told = at_csq_t(b, IF x = 99 THEN -999 ELSE 2 * x - 113)
      /\ resp_find_value(r.resp, "+CSQ") = p
  BY <1>1, <1>3, OnlyLine DEF CsqReport, Report
<1>5. /\ p # <<>> /\ Head(p) = Num(x) /\ Tail(p) # <<>> /\ Head(Tail(p)) = Comma
      /\ Tail(Tail(p)) # <<>> /\ Head(Tail(Tail(p))) = Num(b)
  BY <1>3
<1>6. at__parse_uint(p) = x /\ AfterUint(p) = Tail(p) /\ at__parse_uint(Tail(Tail(p))) = b
  BY <1>2, <1>5, UintField
<1>7. at__skip_comma(Tail(p)) /\ AfterComma(Tail(p)) = Tail(Tail(p))
  BY <1>5, CommaField
<1>8. p # NoValue
  BY <1>5, TokensAre, HasValue
<1>9. at_parse_csq(r.resp) = at_csq_t(Lesser(b, 99), Dbm(x))
  BY <1>4, <1>6, <1>7, <1>8 DEF at_parse_csq
<1>10. Lesser(b, 99) = b
  BY <1>2 DEF Lesser
<1>11. Dbm(x) = IF x = 99 THEN -999 ELSE 2 * x - 113
  BY <1>2 DEF Dbm, I16
<1> QED
  BY <1>4, <1>9, <1>10, <1>11

\* at_parse_cesq: the fields do not get out of step.
LEMMA CesqBack ==
  ASSUME NEW r \in CesqReports
  PROVE  at_parse_cesq(r.resp) = r.told
<1>1. PICK b \in Fields, l \in [1 .. 5 -> Levels] : r = CesqReport(b, l)
  BY DEF CesqReports
<1>2. /\ b \in 0 .. 255
      /\ l[1] \in -255 .. 255 /\ l[2] \in -255 .. 255 /\ l[3] \in -255 .. 255
      /\ l[4] \in -255 .. 255 /\ l[5] \in -255 .. 255
  <2>1. \A i \in 1 .. 5 : l[i] \in -255 .. 255
    BY ReportsAssumption
  <2>2. b \in 0 .. 255
    BY ReportsAssumption
  <2> QED
    BY <2>1, <2>2
<1>3. PICK p : p = <<Num(l[1]), Comma, Num(b), Comma, Num(l[2]), Comma, Num(l[3]), Comma,
                     Num(l[4]), Comma, Num(l[5])>>
  OBVIOUS
<1>4. /\ r.told = at_cesq_t(l[1], b, l[2], l[3], l[4], l[5])
      /\ resp_find_value(r.resp, "+CESQ") = p
  BY <1>1, <1>3, OnlyLine DEF CesqReport, Report
\* The cursor before each field.
<1>5. PICK q2, q3, q4, q5, q6 :
        /\ q2 = <<Num(b), Comma, Num(l[2]), Comma, Num(l[3]), Comma, Num(l[4]), Comma, Num(l[5])>>
        /\ q3 = <<Num(l[2]), Comma, Num(l[3]), Comma, Num(l[4]), Comma, Num(l[5])>>
        /\ q4 = <<Num(l[3]), Comma, Num(l[4]), Comma, Num(l[5])>>
        /\ q5 = <<Num(l[4]), Comma, Num(l[5])>>
        /\ q6 = <<Num(l[5])>>
  OBVIOUS
<1>6. /\ p # <<>> /\ Head(p) = Num(l[1]) /\ Tail(p) # <<>> /\ Head(Tail(p)) = Comma
      /\ Tail(Tail(p)) = q2
  BY <1>3, <1>5
<1>7. /\ q2 # <<>> /\ Head(q2) = Num(b) /\ Tail(q2) # <<>> /\ Head(Tail(q2)) = Comma
      /\ Tail(Tail(q2)) = q3
  BY <1>5
<1>8. /\ q3 # <<>> /\ Head(q3) = Num(l[2]) /\ Tail(q3) # <<>> /\ Head(Tail(q3)) = Comma
      /\ Tail(Tail(q3)) = q4
  BY <1>5
<1>9. /\ q4 # <<>> /\ Head(q4) = Num(l[3]) /\ Tail(q4) # <<>> /\ Head(Tail(q4)) = Comma
      /\ Tail(Tail(q4)) = q5
  BY <1>5
<1>10. /\ q5 # <<>> /\ Head(q5) = Num(l[4]) /\ Tail(q5) # <<>> /\ Head(Tail(q5)) = Comma
       /\ Tail(Tail(q5)) = q6
  BY <1>5
<1>11. q6 # <<>> /\ Head(q6) = Num(l[5])
  BY <1>5
<1>13. /\ I16(at__parse_int(p)) = l[1] /\ AfterComma(AfterInt(p)) = q2
  BY <1>2, <1>6, LevelBack
<1>14. /\ U8(at__parse_uint(q2)) = b /\ AfterComma(AfterUint(q2)) = q3
  BY <1>2, <1>7, FieldBack
<1>15. /\ I16(at__parse_int(q3)) = l[2] /\ AfterComma(AfterInt(q3)) = q4
  BY <1>2, <1>8, LevelBack
<1>16. /\ I16(at__parse_int(q4)) = l[3] /\ AfterComma(AfterInt(q4)) = q5
  BY <1>2, <1>9, LevelBack
<1>17. /\ I16(at__parse_int(q5)) = l[4] /\ AfterComma(AfterInt(q5)) = q6
  BY <1>2, <1>10, LevelBack
<1>18. I16(at__parse_int(q6)) = l[5]
  BY <1>2, <1>11, LevelBack
<1>19. p # NoValue
  BY <1>6, TokensAre, HasValue
<1> QED
  BY <1>4, <1>13, <1>14, <1>15, <1>16, <1>17, <1>18, <1>19 DEF at_parse_cesq

\* at_parse_creg, for the three heads and the three forms of the answer.
LEMMA CregBack ==
  ASSUME NEW head \in {"+CREG", "+CGREG", "+CEREG"}, NEW r \in RegistrationReports(head)
  PROVE  at_parse_creg(r.resp) = r.told
<1> DEFINE Reg(p, s) == Report(<<Line(head, p)>>, Single(s))
           Short(m, s) == Reg(<<Num(m), Comma, Num(s)>>, s)
           Long(m, s) == Reg(<<Num(m), Comma, Num(s), Comma, Quoted(4), Comma, Quoted(8)>>, s)
           Alone(s) == Reg(<<Num(s)>>, s)
<1>1. RegistrationReports(head) =
        {Short(m, s) : m \in Fields, s \in Fields} \cup {Long(m, s) : m \in Fields, s \in Fields}
        \cup {Alone(s) : s \in Fields}
  BY DEF RegistrationReports
<1>2. ASSUME NEW p, NEW s
      PROVE  /\ Reg(p, s).told = Single(s)
             /\ p # NoValue => RegistrationValue(Reg(p, s).resp) = p
  <2>1. PICK resp : resp = <<Line(head, p)>>
    OBVIOUS
  <2>2. Reg(p, s).told = Single(s) /\ Reg(p, s).resp = resp
    BY <2>1 DEF Report
  <2>3. /\ resp_find_value(resp, head) = p
        /\ \A g : g # head => resp_find_value(resp, g) = NoValue
    BY <2>1, OnlyLine
  <2>4. p # NoValue => RegistrationValue(resp) = p
    BY <2>3 DEF RegistrationValue
  <2> HIDE DEF Reg
  <2> QED
    BY <2>2, <2>4
<1> HIDE DEF Reg
\* Followed by a comma and a number, the first is not the status.
<1>3. ASSUME NEW m \in Fields, NEW s \in Fields, NEW p, p # <<>>, Head(p) = Num(m),
             Tail(p) # <<>>, Head(Tail(p)) = Comma, Tail(Tail(p)) # <<>>,
             Head(Tail(Tail(p))) = Num(s), r = Reg(p, s)
      PROVE  at_parse_creg(r.resp) = r.told
  <2>1. m \in 0 .. 255 /\ s \in 0 .. 255
    BY ReportsAssumption
  <2>2. /\ at__skip_comma(AfterUint(p)) /\ AfterComma(AfterUint(p)) = Tail(Tail(p))
        /\ p # NoValue
    BY <1>3, <2>1, FieldBack
  <2>3. at__parse_uint(Tail(Tail(p))) = s
    BY <1>3, <2>1, FieldBack
  <2>4. Status(p) = Tail(Tail(p))
    BY <2>2 DEF Status
  <2> QED
    BY <1>2, <1>3, <2>2, <2>3, <2>4 DEF at_parse_creg
<1>4. CASE r \in {Short(m, s) : m \in Fields, s \in Fields}
  <2> HIDE DEF Short
  <2>1. PICK m \in Fields, s \in Fields : r = Short(m, s)
    BY <1>4
  <2>2. PICK p : p = <<Num(m), Comma, Num(s)>>
    OBVIOUS
  <2>3. r = Reg(p, s)
    BY <2>1, <2>2 DEF Short
  <2>4. /\ p # <<>> /\ Head(p) = Num(m) /\ Tail(p) # <<>> /\ Head(Tail(p)) = Comma
        /\ Tail(Tail(p)) # <<>> /\ Head(Tail(Tail(p))) = Num(s)
    BY <2>2
  <2> QED
    BY <1>3, <2>3, <2>4
<1>5. CASE r \in {Long(m, s) : m \in Fields, s \in Fields}
  <2> HIDE DEF Long
  <2>1. PICK m \in Fields, s \in Fields : r = Long(m, s)
    BY <1>5
  <2>2. PICK p : p = <<Num(m), Comma, Num(s), Comma, Quoted(4), Comma, Quoted(8)>>
    OBVIOUS
  <2>3. r = Reg(p, s)
    BY <2>1, <2>2 DEF Long
  <2>4. /\ p # <<>> /\ Head(p) = Num(m) /\ Tail(p) # <<>> /\ Head(Tail(p)) = Comma
        /\ Tail(Tail(p)) # <<>> /\ Head(Tail(Tail(p))) = Num(s)
    BY <2>2
  <2> QED
    BY <1>3, <2>3, <2>4
<1>6. CASE r \in {Alone(s) : s \in Fields}
  <2>1. PICK s \in Fields : r = Alone(s)
    BY <1>6
  <2>2. PICK p : p = <<Num(s)>>
    OBVIOUS
  <2>3. r = Reg(p, s) /\ s \in 0 .. 255
    BY <2>1, <2>2, ReportsAssumption
  <2>4. p # <<>> /\ Head(p) = Num(s) /\ Tail(p) = <<>>
    BY <2>2
  <2>5. at__parse_uint(p) = s /\ p # NoValue /\ ~at__skip_comma(AfterUint(p))
    BY <2>3, <2>4, FieldBack
  <2>6. Status(p) = p
    BY <2>5 DEF Status
  <2> QED
    BY <1>2, <2>3, <2>5, <2>6 DEF at_parse_creg
<1> QED
  BY <1>1, <1>4, <1>5, <1>6

\* at_parse_cmgs, for references that fit their field.
LEMMA CmgsBack ==
  ASSUME NEW r \in CmgsReports, ~r.faulty
  PROVE  at_parse_cmgs(r.resp) = r.told
<1> DEFINE Sent(n) == Report(<<Line("+CMGS", <<Num(n)>>)>>, Single(n))
<1>1. CmgsReports = {Sent(n) : n \in Fields} \cup {Faulty(Sent(n)) : n \in BigNumbers}
  BY DEF CmgsReports
<1>2. \A n : Faulty(Sent(n)).faulty
  BY DEF Faulty, Report
<1>3. PICK n \in Fields : r = Sent(n)
  <2> HIDE DEF Sent
  <2> QED
    BY <1>1, <1>2
<1>4. PICK p : p = <<Num(n)>>
  OBVIOUS
<1>5. r.told = Single(n) /\ resp_find_value(r.resp, "+CMGS") = p
  BY <1>3, <1>4, OnlyLine DEF Report
<1>6. p # <<>> /\ Head(p) = Num(n) /\ n \in 0 .. 255
  BY <1>4, ReportsAssumption
<1>7. at__parse_uint(p) = n /\ U8(n) = n /\ p # NoValue
  BY <1>6, FieldBack
<1> QED
  BY <1>5, <1>7 DEF at_parse_cmgs

\* The name of the operator, quoted or as far as it fits.
LEMMA OperField ==
  ASSUME NEW n \in Nat, NEW p, p # <<>>, Head(p) = Quoted(n) \/ (Head(p) = Bare(n) /\ n <= 23)
  PROVE  OperOf(p) = Lesser(n, 23) /\ AfterOper(p) = Tail(p)
<1>1. CASE Head(p) = Quoted(n)
  <2>1. Starts(p, "quoted") /\ Head(p).v = n
    BY <1>1, HeadIs
  <2> QED
    BY <2>1 DEF OperOf, AfterOper, parse_quoted, Copied, OperSize
<1>2. CASE Head(p) = Bare(n) /\ n <= 23
  <2>1. Starts(p, "bare") /\ ~Starts(p, "quoted") /\ Head(p).v = n
    BY <1>2, HeadIs
  <2> QED
    BY <1>2, <2>1 DEF OperOf, AfterOper, Copied, OperSize
<1> QED
  BY <1>1, <1>2

\* at_parse_cops, with and without the fields that may be missing.
LEMMA CopsBack ==
  ASSUME NEW r \in CopsReports, ~r.faulty
  PROVE  at_parse_cops(r.resp) = r.told
<1> DEFINE Mode(m) == Cops(<<Num(m)>>, 0, 0, 255)
           Format(m, f) == Cops(<<Num(m), Comma, Num(f)>>, f, 0, 255)
           Name(m, f, n) == Cops(<<Num(m), Comma, Num(f), Comma, Quoted(n)>>, f, Lesser(n, 23), 255)
           Full(m, f, n, a) ==
             Cops(<<Num(m), Comma, Num(f), Comma, Quoted(n), Comma, Num(a)>>, f, Lesser(n, 23), a)
           Fitting(m, f, n, a) ==
             Cops(<<Num(m), Comma, Num(f), Comma, Bare(n), Comma, Num(a)>>, f, Lesser(n, 23), a)
           Bared(m, f, n, a) ==
             IF n <= 23 THEN Fitting(m, f, n, a) ELSE Faulty(Fitting(m, f, n, a))
<1>1. CopsReports =
        {Mode(m) : m \in Fields} \cup {Format(m, f) : m \in Fields, f \in Fields}
        \cup {Name(m, f, n) : m \in Fields, f \in Fields, n \in TextLens}
        \cup {Full(m, f, n, a) : m \in Fields, f \in Fields, n \in TextLens, a \in Fields}
        \cup {Bared(m, f, n, a) : m \in Fields, f \in Fields, n \in TextLens, a \in Fields}
  BY DEF CopsReports
<1>2. Fields \subseteq 0 .. 255 /\ TextLens \subseteq Nat
  BY ReportsAssumption
<1>3. ASSUME NEW m \in Fields, NEW p, p # <<>>, Head(p) = Num(m), NEW format, NEW oper, NEW act,
             r = Cops(p, format, oper, act)
      PROVE  /\ resp_find_value(r.resp, "+COPS") = p /\ p # NoValue
             /\ U8(at__parse_uint(p)) = m
             /\ r.told = at_cops_t(m, format, oper, act)
  <2>1. r.resp = <<Line("+COPS", p)>> /\ r.told = at_cops_t(Head(p).v, format, oper, act)
    BY <1>3 DEF Cops, Report
  <2>2. Head(p).v = m
    BY <1>3, TokensAre
  <2>3. at__parse_uint(p) = m /\ U8(m) = m /\ p # NoValue
    BY <1>2, <1>3, FieldBack
  <2> QED
    BY <2>1, <2>2, <2>3, OnlyLine
<1> HIDE DEF Mode, Format, Name, Full, Bared
<1>4. CASE r \in {Mode(m) : m \in Fields}
  <2>1. PICK m \in Fields : r = Mode(m)
    BY <1>4
  <2>2. PICK p : p = <<Num(m)>>
    OBVIOUS
  <2>3. p # <<>> /\ Head(p) = Num(m) /\ Tail(p) = <<>> /\ r = Cops(p, 0, 0, 255)
    BY <2>1, <2>2 DEF Mode
  <2>4. ~at__skip_comma(AfterUint(p))
    BY <1>2, <2>3, FieldBack
  <2>5. /\ resp_find_value(r.resp, "+COPS") = p /\ p # NoValue
        /\ U8(at__parse_uint(p)) = m /\ r.told = at_cops_t(m, 0, 0, 255)
    BY <1>3, <2>3
  <2> QED
    BY <2>4, <2>5 DEF at_parse_cops
<1>5. CASE r \in {Format(m, f) : m \in Fields, f \in Fields}
  <2>1. PICK m \in Fields, f \in Fields : r = Format(m, f)
    BY <1>5
  <2>2. PICK p, q : p = <<Num(m), Comma, Num(f)>> /\ q = <<Num(f)>>
    OBVIOUS
  <2>3. r = Cops(p, f, 0, 255)
    BY <2>1, <2>2 DEF Format
  <2>4. /\ p # <<>> /\ Head(p) = Num(m) /\ Tail(p) # <<>> /\ Head(Tail(p)) = Comma
        /\ Tail(Tail(p)) = q /\ q # <<>> /\ Head(q) = Num(f) /\ Tail(q) = <<>>
    BY <2>2
  <2>5. at__skip_comma(AfterUint(p)) /\ AfterComma(AfterUint(p)) = q
    BY <1>2, <2>4, FieldBack
  <2>6. ~at__skip_comma(AfterUint(q)) /\ U8(at__parse_uint(q)) = f
    BY <1>2, <2>4, FieldBack
  <2>7. /\ resp_find_value(r.resp, "+COPS") = p /\ p # NoValue
        /\ U8(at__parse_uint(p)) = m /\ r.told = at_cops_t(m, f, 0, 255)
    BY <1>3, <2>3, <2>4
  <2> QED
    BY <2>5, <2>6, <2>7 DEF at_parse_cops
\* With the name of the operator, alone or followed by the technology.
<1> DEFINE Named(m, f, n, act, p, q, t) ==
             /\ m \in Fields /\ f \in Fields /\ n \in TextLens /\ r = Cops(p, f, Lesser(n, 23), act)
             /\ p # <<>> /\ Head(p) = Num(m) /\ Tail(p) # <<>> /\ Head(Tail(p)) = Comma
             /\ Tail(Tail(p)) = q /\ q # <<>> /\ Head(q) = Num(f) /\ Tail(q) # <<>>
             /\ Head(Tail(q)) = Comma /\ Tail(Tail(q)) = t
             /\ OperOf(t) = Lesser(n, 23) /\ AfterOper(t) = Tail(t) /\ ActOf(Tail(t)) = act
<1>6. ASSUME NEW m, NEW f, NEW n, NEW act, NEW p, NEW q, NEW t, Named(m, f, n, act, p, q, t)
      PROVE  at_parse_cops(r.resp) = r.told
  <2>1. at__skip_comma(AfterUint(p)) /\ AfterComma(AfterUint(p)) = q
    BY <1>2, <1>6, FieldBack
  <2>2. /\ at__skip_comma(AfterUint(q)) /\ AfterComma(AfterUint(q)) = t
        /\ U8(at__parse_uint(q)) = f
    BY <1>2, <1>6, FieldBack
  <2>3. /\ resp_find_value(r.resp, "+COPS") = p /\ p # NoValue
        /\ U8(at__parse_uint(p)) = m /\ r.told = at_cops_t(m, f, Lesser(n, 23), act)
    BY <1>3, <1>6
  <2> QED
    BY <1>6, <2>1, <2>2, <2>3 DEF at_parse_cops
<1> HIDE DEF Named
<1>7. CASE r \in {Name(m, f, n) : m \in Fields, f \in Fields, n \in TextLens}
  <2>1. PICK m \in Fields, f \in Fields, n \in TextLens : r = Name(m, f, n)
    BY <1>7
  <2>2. PICK p, q, t : /\ p = <<Num(m), Comma, Num(f), Comma, Quoted(n)>>
                       /\ q = <<Num(f), Comma, Quoted(n)>> /\ t = <<Quoted(n)>>
    OBVIOUS
  <2>3. r = Cops(p, f, Lesser(n, 23), 255)
    BY <2>1, <2>2 DEF Name
  <2>4. /\ p # <<>> /\ Head(p) = Num(m) /\ Tail(p) # <<>> /\ Head(Tail(p)) = Comma
        /\ Tail(Tail(p)) = q /\ q # <<>> /\ Head(q) = Num(f) /\ Tail(q) # <<>>
        /\ Head(Tail(q)) = Comma /\ Tail(Tail(q)) = t /\ t # <<>> /\ Head(t) = Quoted(n)
        /\ Tail(t) = <<>>
    BY <2>2
  <2>5. ActOf(Tail(t)) = 255
    BY <2>4, CommaField DEF ActOf
  <2>6. OperOf(t) = Lesser(n, 23) /\ AfterOper(t) = Tail(t)
    BY <1>2, <2>4, OperField
  <2>7. Named(m, f, n, 255, p, q, t)
    BY <2>3, <2>4, <2>5, <2>6 DEF Named
  <2> QED
    BY <1>6, <2>7
<1>8. ASSUME NEW f \in Fields, NEW n \in TextLens, NEW a \in Fields, NEW t, t # <<>>,
             Tail(t) # <<>>, Head(Tail(t)) = Comma, Tail(Tail(t)) # <<>>,
             Head(Tail(Tail(t))) = Num(a)
      PROVE  ActOf(Tail(t)) = a
  <2>1. at__parse_uint(Tail(Tail(t))) = a /\ U8(a) = a
    BY <1>2, <1>8, FieldBack
  <2> QED
    BY <1>8, <2>1, CommaField DEF ActOf
<1>9. CASE r \in {Full(m, f, n, a) : m \in Fields, f \in Fields, n \in TextLens, a \in Fields}
  <2>1. PICK m \in Fields, f \in Fields, n \in TextLens, a \in Fields : r = Full(m, f, n, a)
    BY <1>9
  <2>2. PICK p, q, t : /\ p = <<Num(m), Comma, Num(f), Comma, Quoted(n), Comma, Num(a)>>
                       /\ q = <<Num(f), Comma, Quoted(n), Comma, Num(a)>>
                       /\ t = <<Quoted(n), Comma, Num(a)>>
    OBVIOUS
  <2>3. r = Cops(p, f, Lesser(n, 23), a)
    BY <2>1, <2>2 DEF Full
  <2>4. /\ p # <<>> /\ Head(p) = Num(m) /\ Tail(p) # <<>> /\ Head(Tail(p)) = Comma
        /\ Tail(Tail(p)) = q /\ q # <<>> /\ Head(q) = Num(f) /\ Tail(q) # <<>>
        /\ Head(Tail(q)) = Comma /\ Tail(Tail(q)) = t
    BY <2>2
  <2>5. /\ t # <<>> /\ Head(t) = Quoted(n)
        /\ Tail(t) # <<>> /\ Head(Tail(t)) = Comma /\ Tail(Tail(t)) # <<>>
        /\ Head(Tail(Tail(t))) = Num(a)
    BY <2>2
  <2>6. ActOf(Tail(t)) = a
    BY <1>8, <2>5
  <2>7. OperOf(t) = Lesser(n, 23) /\ AfterOper(t) = Tail(t)
    BY <1>2, <2>5, OperField
  <2>8. Named(m, f, n, a, p, q, t)
    BY <2>3, <2>4, <2>5, <2>6, <2>7 DEF Named
  <2> QED
    BY <1>6, <2>8
<1>10. CASE r \in {Bared(m, f, n, a) : m \in Fields, f \in Fields, n \in TextLens, a \in Fields}
  <2>1. PICK m \in Fields, f \in Fields, n \in TextLens, a \in Fields : r = Bared(m, f, n, a)
    BY <1>10
  <2>2. PICK p, q, t : /\ p = <<Num(m), Comma, Num(f), Comma, Bare(n), Comma, Num(a)>>
                       /\ q = <<Num(f), Comma, Bare(n), Comma, Num(a)>>
                       /\ t = <<Bare(n), Comma, Num(a)>>
    OBVIOUS
  <2>3. n <= 23 /\ r = Cops(p, f, Lesser(n, 23), a)
    <3> HIDE DEF Fitting
    <3>1. Faulty(Fitting(m, f, n, a)).faulty
      BY DEF Faulty, Report, Fitting, Cops
    <3>2. n <= 23 /\ r = Fitting(m, f, n, a)
      BY <2>1, <3>1 DEF Bared
    <3> QED
      BY <2>2, <3>2 DEF Fitting
  <2>4. /\ p # <<>> /\ Head(p) = Num(m) /\ Tail(p) # <<>> /\ Head(Tail(p)) = Comma
        /\ Tail(Tail(p)) = q /\ q # <<>> /\ Head(q) = Num(f) /\ Tail(q) # <<>>
        /\ Head(Tail(q)) = Comma /\ Tail(Tail(q)) = t
    BY <2>2
  <2>5. /\ t # <<>> /\ Head(t) = Bare(n)
        /\ Tail(t) # <<>> /\ Head(Tail(t)) = Comma /\ Tail(Tail(t)) # <<>>
        /\ Head(Tail(Tail(t))) = Num(a)
    BY <2>2
  <2>6. ActOf(Tail(t)) = a
    BY <1>8, <2>5
  <2>7. OperOf(t) = Lesser(n, 23) /\ AfterOper(t) = Tail(t)
    BY <1>2, <2>3, <2>5, OperField
  <2>8. Named(m, f, n, a, p, q, t)
    BY <2>3, <2>4, <2>5, <2>6, <2>7 DEF Named
  <2> QED
    BY <1>6, <2>8
<1> QED
  BY <1>1, <1>4, <1>5, <1>7, <1>9, <1>10

\* at_parse_cpin: of the texts that are tried one matches, or none.
LEMMA CpinCode ==
  /\ \A w \in DOMAIN CpinCodes : CodeOf(w) = CpinCodes[w]
  /\ \A w \in CpinUnknown : CodeOf(w) = AT_CPIN_UNKNOWN
<1> DEFINE Hits(w) == {i \in DOMAIN CpinMap : StartsWith(w, CpinMap[i][1])}
<1>1. /\ DOMAIN CpinMap = 1 .. 8
      /\ CpinMap[1][1] = "READY" /\ CpinMap[2][1] = "SIM PIN" /\ CpinMap[3][1] = "SIM PUK"
      /\ CpinMap[4][1] = "SIM PIN2" /\ CpinMap[5][1] = "SIM PUK2" /\ CpinMap[6][1] = "PH-SIM PIN"
      /\ CpinMap[7][1] = "PH-NET PIN" /\ CpinMap[8][1] = "PH-NET PUK"
  BY DEF CpinMap
<1>2. /\ CpinMap[1][2] = 0 /\ CpinMap[2][2] = 1 /\ CpinMap[3][2] = 2
      /\ CpinMap[6][2] = 3 /\ CpinMap[7][2] = 8 /\ CpinMap[8][2] = 9
  BY DEF CpinMap
<1>3. ASSUME NEW w \in DOMAIN CpinCodes \cup CpinUnknown
      PROVE  Hits(w) = {i \in 1 .. 8 : w = CpinMap[i][1]}
  BY <1>1, PrefixesAssumption
<1>4. ASSUME NEW w, NEW i \in 1 .. 8, Hits(w) = {i}
      PROVE  CodeOf(w) = CpinMap[i][2]
  <2>1. Min({i}) = i
    BY FirstIs
  <2>2. Hits(w) # {}
    BY <1>4
  <2> QED
    BY <1>4, <2>1, <2>2 DEF CodeOf
<1>5. DOMAIN CpinCodes = {"READY", "SIM PIN", "SIM PUK", "PH-SIM PIN", "PH-NET PIN", "PH-NET PUK"}
  BY DEF CpinCodes
<1>6. /\ CpinCodes["READY"] = 0 /\ CpinCodes["SIM PIN"] = 1 /\ CpinCodes["SIM PUK"] = 2
      /\ CpinCodes["PH-SIM PIN"] = 3 /\ CpinCodes["PH-NET PIN"] = 8 /\ CpinCodes["PH-NET PUK"] = 9
  BY DEF CpinCodes
<1>7. \A i \in 1 .. 8 : \/ i = 1 \/ i = 2 \/ i = 3 \/ i = 4 \/ i = 5 \/ i = 6 \/ i = 7 \/ i = 8
  OBVIOUS
<1> DEFINE Tried(w, i) == /\ w \in DOMAIN CpinCodes /\ i \in 1 .. 8 /\ w = CpinMap[i][1]
                          /\ \A j \in 1 .. 8 : w = CpinMap[j][1] => j = i
<1>8. ASSUME NEW w, NEW i, Tried(w, i)
      PROVE  CodeOf(w) = CpinMap[i][2]
  <2>1. Hits(w) = {i}
    BY <1>3, <1>8
  <2> QED
    BY <1>4, <1>8, <2>1
<1> HIDE DEF Hits, Tried
<1>9. CodeOf("READY") = CpinCodes["READY"]
  <2>1. \A j \in 1 .. 8 : "READY" = CpinMap[j][1] => j = 1
    BY <1>1, <1>7
  <2>2. "READY" \in DOMAIN CpinCodes /\ "READY" = CpinMap[1][1]
    BY <1>1, <1>5
  <2>3. 1 \in 1 .. 8
    OBVIOUS
  <2>4. Tried("READY", 1)
    BY <2>1, <2>2, <2>3 DEF Tried
  <2> QED
    BY <1>2, <1>6, <1>8, <2>4
<1>10. CodeOf("SIM PIN") = CpinCodes["SIM PIN"]
  <2>1. \A j \in 1 .. 8 : "SIM PIN" = CpinMap[j][1] => j = 2
    BY <1>1, <1>7
  <2>2. "SIM PIN" \in DOMAIN CpinCodes /\ "SIM PIN" = CpinMap[2][1]
    BY <1>1, <1>5
  <2>3. 2 \in 1 .. 8
    OBVIOUS
  <2>4. Tried("SIM PIN", 2)
    BY <2>1, <2>2, <2>3 DEF Tried
  <2> QED
    BY <1>2, <1>6, <1>8, <2>4
<1>11. CodeOf("SIM PUK") = CpinCodes["SIM PUK"]
  <2>1. \A j \in 1 .. 8 : "SIM PUK" = CpinMap[j][1] => j = 3
    BY <1>1, <1>7
  <2>2. "SIM PUK" \in DOMAIN CpinCodes /\ "SIM PUK" = CpinMap[3][1]
    BY <1>1, <1>5
  <2>3. 3 \in 1 .. 8
    OBVIOUS
  <2>4. Tried("SIM PUK", 3)
    BY <2>1, <2>2, <2>3 DEF Tried
  <2> QED
    BY <1>2, <1>6, <1>8, <2>4
<1>12. CodeOf("PH-SIM PIN") = CpinCodes["PH-SIM PIN"]
  <2>1. \A j \in 1 .. 8 : "PH-SIM PIN" = CpinMap[j][1] => j = 6
    BY <1>1, <1>7
  <2>2. "PH-SIM PIN" \in DOMAIN CpinCodes /\ "PH-SIM PIN" = CpinMap[6][1]
    BY <1>1, <1>5
  <2>3. 6 \in 1 .. 8
    OBVIOUS
  <2>4. Tried("PH-SIM PIN", 6)
    BY <2>1, <2>2, <2>3 DEF Tried
  <2> QED
    BY <1>2, <1>6, <1>8, <2>4
<1>13. CodeOf("PH-NET PIN") = CpinCodes["PH-NET PIN"]
  <2>1. \A j \in 1 .. 8 : "PH-NET PIN" = CpinMap[j][1] => j = 7
    BY <1>1, <1>7
  <2>2. "PH-NET PIN" \in DOMAIN CpinCodes /\ "PH-NET PIN" = CpinMap[7][1]
    BY <1>1, <1>5
  <2>3. 7 \in 1 .. 8
    OBVIOUS
  <2>4. Tried("PH-NET PIN", 7)
    BY <2>1, <2>2, <2>3 DEF Tried
  <2> QED
    BY <1>2, <1>6, <1>8, <2>4
<1>14. CodeOf("PH-NET PUK") = CpinCodes["PH-NET PUK"]
  <2>1. \A j \in 1 .. 8 : "PH-NET PUK" = CpinMap[j][1] => j = 8
    BY <1>1, <1>7
  <2>2. "PH-NET PUK" \in DOMAIN CpinCodes /\ "PH-NET PUK" = CpinMap[8][1]
    BY <1>1, <1>5
  <2>3. 8 \in 1 .. 8
    OBVIOUS
  <2>4. Tried("PH-NET PUK", 8)
    BY <2>1, <2>2, <2>3 DEF Tried
  <2> QED
    BY <1>2, <1>6, <1>8, <2>4
<1>15. ASSUME NEW w \in CpinUnknown
      PROVE  CodeOf(w) = AT_CPIN_UNKNOWN
  <2>1. w \in {"PH-FSIM PIN", "PH-SP PUK", "PH-CORP PIN"}
    BY DEF CpinUnknown
  <2>2. \A i \in 1 .. 8 : w # CpinMap[i][1]
    BY <1>1, <1>7, <2>1
  <2>3. Hits(w) = {}
    BY <1>3, <2>2
  <2> QED
    BY <2>3 DEF CodeOf, Hits
<1> QED
  BY <1>5, <1>9, <1>10, <1>11, <1>12, <1>13, <1>14, <1>15

LEMMA CpinBack ==
  ASSUME NEW r \in CpinReports, ~r.faulty
  PROVE  at_parse_cpin(r.resp) = r.told
<1>1. \A w, code : Faulty(CpinReport(w, code)).faulty
  BY DEF Faulty, CpinReport, Report
<1>2. PICK w : r = CpinReport(w, CodeOf(w))
  <2>1. \/ \E w \in DOMAIN CpinCodes : r = CpinReport(w, CpinCodes[w])
        \/ \E w \in CpinUnknown : r = CpinReport(w, AT_CPIN_UNKNOWN)
    BY <1>1 DEF CpinReports
  <2> QED
    BY <2>1, CpinCode
<1>3. PICK p : p = <<Word(w)>>
  OBVIOUS
<1>4. r.told = Single(CodeOf(w)) /\ resp_find_value(r.resp, "+CPIN") = p
  BY <1>2, <1>3, OnlyLine DEF CpinReport, Report
<1>5. p # <<>> /\ Head(p) = Word(w)
  BY <1>3
<1>6. Head(p).s = w /\ p # NoValue
  BY <1>5, TokensAre, HasValue
<1> QED
  BY <1>4, <1>6 DEF at_parse_cpin

\* at_parse_cgpaddr: the line for the context is found behind another one.
LEMMA CgpaddrBack ==
  ASSUME NEW r \in CgpaddrReports
  PROVE  at_parse_cgpaddr(r.resp, Cid, AddrSize) = r.told
<1> DEFINE Addrs == {Quoted(n) : n \in TextLens} \cup {Bare(n) : n \in TextLens}
           Addr(c, a) == Line("+CGPADDR", <<Num(c), Comma, a>>)
           None == Line("+CGPADDR", <<Num(Cid)>>)
           Others == {Addr(c, a) : c \in Fields \ {Cid}, a \in Addrs}
           ToldAs(n) == Single(Lesser(n, AddrSize - 1))
           One(a) == Report(<<Addr(Cid, a)>>, ToldAs(a.v))
           Two(l, a) == Report(<<l, Addr(Cid, a)>>, ToldAs(a.v))
           Other(l) == Report(<<l>>, Failed)
           Mine(resp) == {i \in DOMAIN resp : /\ resp[i].head = "+CGPADDR"
                                              /\ U8(at__parse_uint(resp[i].p)) = Cid}
<1>1. CgpaddrReports =
        {One(a) : a \in Addrs} \cup {Two(l, a) : l \in Others, a \in Addrs}
        \cup {Other(l) : l \in Others} \cup {Other(None)}
  BY DEF CgpaddrReports
<1>2. Cid \in 0 .. 255 /\ Fields \subseteq 0 .. 255
  BY LayerAssumption, ReportsAssumption
<1>3. ASSUME NEW c \in 0 .. 255, NEW a
      PROVE  /\ Addr(c, a).head = "+CGPADDR" /\ U8(at__parse_uint(Addr(c, a).p)) = c
             /\ at__skip_comma(AfterUint(Addr(c, a).p))
             /\ Head(AfterComma(AfterUint(Addr(c, a).p))) = a
  <2>1. PICK p : p = <<Num(c), Comma, a>>
    OBVIOUS
  <2>2. Addr(c, a).head = "+CGPADDR" /\ Addr(c, a).p = p
    BY <2>1 DEF Line
  <2>3. /\ p # <<>> /\ Head(p) = Num(c) /\ Tail(p) # <<>> /\ Head(Tail(p)) = Comma
        /\ Head(Tail(Tail(p))) = a
    BY <2>1
  <2>4. /\ at__parse_uint(p) = c /\ U8(c) = c /\ at__skip_comma(AfterUint(p))
        /\ AfterComma(AfterUint(p)) = Tail(Tail(p))
    BY <2>3, FieldBack
  <2> HIDE DEF Addr
  <2> QED
    BY <2>2, <2>3, <2>4
<1>4. /\ None.head = "+CGPADDR" /\ U8(at__parse_uint(None.p)) = Cid
      /\ ~at__skip_comma(AfterUint(None.p))
  <2>1. PICK p : p = <<Num(Cid)>>
    OBVIOUS
  <2>2. None.head = "+CGPADDR" /\ None.p = p
    BY <2>1 DEF Line
  <2>3. p # <<>> /\ Head(p) = Num(Cid) /\ Tail(p) = <<>>
    BY <2>1
  <2>4. at__parse_uint(p) = Cid /\ U8(Cid) = Cid /\ ~at__skip_comma(AfterUint(p))
    BY <1>2, <2>3, FieldBack
  <2> HIDE DEF None
  <2> QED
    BY <2>2, <2>4
<1> HIDE DEF Addr, None
<1>5. ASSUME NEW l \in Others
      PROVE  U8(at__parse_uint(l.p)) # Cid
  BY <1>2, <1>3, <1>5
<1> HIDE DEF Others, Addrs
<1>6. /\ Min({1}) = 1 /\ Min({2}) = 2
  BY FirstIs
\* The line that is read, whichever it is.
<1>7. ASSUME NEW resp, NEW i \in {1, 2}, Mine(resp) = {i}, NEW a, resp[i] = Addr(Cid, a)
      PROVE  at_parse_cgpaddr(resp, Cid, AddrSize) = ToldAs(a.v)
  <2>1. Min(Mine(resp)) = i /\ Mine(resp) # {}
    BY <1>6, <1>7
  <2>2. /\ at__skip_comma(AfterUint(resp[i].p))
        /\ Head(AfterComma(AfterUint(resp[i].p))) = a
    BY <1>2, <1>3, <1>7
  <2> QED
    BY <2>1, <2>2 DEF at_parse_cgpaddr, Copied
<1>8. CASE r \in {One(a) : a \in Addrs}
  <2> HIDE DEF One
  <2>1. PICK a \in Addrs : r = One(a)
    BY <1>8
  <2>2. PICK resp : resp = <<Addr(Cid, a)>>
    OBVIOUS
  <2>3. r.resp = resp /\ r.told = ToldAs(a.v)
    BY <2>1, <2>2 DEF One, Report
  <2>4. DOMAIN resp = {1} /\ resp[1] = Addr(Cid, a)
    BY <2>2
  <2>5. Mine(resp) = {1}
    BY <1>2, <1>3, <2>4
  <2> QED
    BY <1>7, <2>3, <2>4, <2>5
<1>9. CASE r \in {Two(l, a) : l \in Others, a \in Addrs}
  <2> HIDE DEF Two
  <2>1. PICK l \in Others, a \in Addrs : r = Two(l, a)
    BY <1>9
  <2>2. PICK resp : resp = <<l, Addr(Cid, a)>>
    OBVIOUS
  <2>3. r.resp = resp /\ r.told = ToldAs(a.v)
    BY <2>1, <2>2 DEF Two, Report
  <2>4. DOMAIN resp = {1, 2} /\ resp[1] = l /\ resp[2] = Addr(Cid, a)
    BY <2>2
  <2>5. Mine(resp) = {2}
    BY <1>2, <1>3, <1>5, <2>4
  <2> QED
    BY <1>7, <2>3, <2>4, <2>5
<1>10. CASE r \in {Other(l) : l \in Others} \cup {Other(None)}
  <2> HIDE DEF Other
  <2>1. PICK l : r = Other(l) /\ (l \in Others \/ l = None)
    BY <1>10
  <2>2. PICK resp : resp = <<l>>
    OBVIOUS
  <2>3. r.resp = resp /\ r.told = Failed
    BY <2>1, <2>2 DEF Other, Report
  <2>4. DOMAIN resp = {1} /\ resp[1] = l
    BY <2>2
  <2>5. CASE l \in Others
    <3>1. Mine(resp) = {}
      BY <1>5, <2>4, <2>5
    <3> QED
      BY <2>3, <3>1 DEF at_parse_cgpaddr
  <2>6. CASE l = None
    <3>1. Mine(resp) = {1}
      BY <1>4, <2>4, <2>6
    <3>2. Min(Mine(resp)) = 1
      BY <1>6, <3>1
    <3> QED
      BY <1>4, <2>3, <2>4, <2>6, <3>2 DEF at_parse_cgpaddr
  <2> QED
    BY <2>1, <2>5, <2>6
<1> HIDE DEF One, Two, Other
<1> QED
  BY <1>1, <1>8, <1>9, <1>10

\* The status of a message, a text or a number.
LEMMA StatBack ==
  ASSUME NEW p, p # <<>>, NEW s,
         \/ \E w \in DOMAIN Stats : Head(p) = QuotedWord(w) /\ s = Stats[w]
         \/ s \in 0 .. 255 /\ Head(p) = Num(s)
  PROVE  StatField(p) = s /\ AfterStat(p) = Tail(p)
<1>1. ASSUME NEW w \in DOMAIN Stats, Head(p) = QuotedWord(w), s = Stats[w]
      PROVE  StatField(p) = s /\ AfterStat(p) = Tail(p)
  <2>1. Starts(p, "quoted") /\ Head(p).s = w
    BY <1>1, HeadIs
  <2>2. DOMAIN Stats = {"REC UNREAD", "REC READ", "STO UNSENT", "STO SENT"}
    BY DEF Stats
  <2>3. /\ Stats["REC UNREAD"] = 0 /\ Stats["REC READ"] = 1 /\ Stats["STO UNSENT"] = 2
        /\ Stats["STO SENT"] = 3
    BY DEF Stats
  <2>4. \A v \in DOMAIN Stats : StartsWith(w, v) <=> w = v
    BY PrefixesAssumption
  <2>5. StatOf(w) = Stats[w]
    BY <2>2, <2>3, <2>4 DEF StatOf
  <2> QED
    BY <1>1, <2>1, <2>5 DEF StatField, AfterStat
<1>2. ASSUME s \in 0 .. 255, Head(p) = Num(s)
      PROVE  StatField(p) = s /\ AfterStat(p) = Tail(p)
  <2>1. ~Starts(p, "quoted")
    BY <1>2, HeadIs
  <2>2. at__parse_uint(p) = s /\ U8(s) = s /\ AfterUint(p) = Tail(p)
    BY <1>2, FieldBack
  <2> QED
    BY <2>1, <2>2 DEF StatField, AfterStat
<1> QED
  BY <1>1, <1>2

\* at_parse_sms_read, with the name of the sender and without.
LEMMA CmgrBack ==
  ASSUME NEW r \in CmgrReports, ~r.faulty
  PROVE  at_parse_sms_read(r.resp) = r.told
<1> DEFINE Named(s, oa, k, n) == NamedReport(s, oa, Quoted(k), n)
<1>1. CmgrReports =
        {CmgrReport(s, oa, n) : s \in StatTokens, oa \in TextLens, n \in TextLens}
        \cup {Named(s, oa, k, n) :
                s \in StatTokens, oa \in TextLens, k \in TextLens, n \in TextLens}
        \cup {CmgrRefused} \cup CmgrMisread
  BY DEF CmgrReports
<1>2. Fields \subseteq 0 .. 255 /\ TextLens \subseteq Nat
  BY ReportsAssumption
<1>3. ASSUME NEW s \in StatTokens, NEW p, p # <<>>, Head(p) = s[1]
      PROVE  StatField(p) = s[2] /\ AfterStat(p) = Tail(p)
  <2>1. \/ \E w \in DOMAIN Stats : s[1] = QuotedWord(w) /\ s[2] = Stats[w]
        \/ s[2] \in 0 .. 255 /\ s[1] = Num(s[2])
    BY <1>2 DEF StatTokens
  <2> QED
    BY <1>3, <2>1, StatBack
<1>4. \A m \in CmgrMisread : m.faulty
  BY DEF CmgrMisread, Faulty, NamedReport, Report
\* What the parser needs of the cursors before each field.
<1> DEFINE Read(s, oa, n, p, q, t) ==
             /\ s \in StatTokens /\ oa \in TextLens /\ n \in TextLens
             /\ p # <<>> /\ Head(p) = s[1] /\ Tail(p) # <<>> /\ Head(Tail(p)) = Comma
             /\ Tail(Tail(p)) = q /\ q # <<>> /\ Head(q) = Quoted(oa) /\ Tail(q) # <<>>
             /\ Head(Tail(q)) = Comma
             /\ AfterComma(AfterAlpha(Tail(Tail(q)))) = t /\ t # <<>> /\ Head(t) = Quoted(20)
<1>5. ASSUME NEW n \in TextLens
      PROVE  Head(TextLine(n).p).v = n
  <2>1. PICK p : p = <<Bare(n)>>
    OBVIOUS
  <2>2. TextLine(n).p = p /\ Head(p) = Bare(n)
    BY <2>1 DEF Line, TextLine
  <2> QED
    BY <2>2, TokensAre
<1>6. ASSUME NEW resp, NEW s, NEW oa, NEW n, NEW p, NEW q, NEW t, Read(s, oa, n, p, q, t),
             Len(resp) = 2, resp[1] = Line("+CMGR", p), resp[2] = TextLine(n)
      PROVE  at_parse_sms_read(resp) = Told(s[2], oa, n)
  <2>1. resp[1].head = "+CMGR" /\ resp[1].p = p
    BY <1>6 DEF Line
  <2>2. StatField(p) = s[2] /\ AfterComma(AfterStat(p)) = q
    BY <1>3, <1>6, CommaField
  <2>3. /\ parse_quoted(q, 20) = Lesser(oa, 19) /\ AfterComma(AfterQuoted(q)) = Tail(Tail(q))
    <3>1. Starts(q, "quoted") /\ Head(q).v = oa
      BY <1>6, HeadIs
    <3>2. AfterQuoted(q) = Tail(q)
      BY <3>1 DEF AfterQuoted
    <3>3. AfterComma(Tail(q)) = Tail(Tail(q))
      BY <1>6, CommaField
    <3>4. parse_quoted(q, 20) = Lesser(oa, 19)
      BY <3>1 DEF parse_quoted, Copied
    <3> QED
      BY <3>2, <3>3, <3>4
  <2>4. parse_quoted(t, 24) = 20
    <3>1. Starts(t, "quoted") /\ Head(t).v = 20
      BY <1>6, HeadIs
    <3> QED
      BY <3>1 DEF parse_quoted, Copied, Lesser
  <2>5. Copied(Head(resp[2].p).v, 161) = Lesser(n, 160)
    BY <1>5, <1>6 DEF Copied
  <2>6. AfterComma(AfterAlpha(Tail(Tail(q)))) = t
    BY <1>6
  <2>7. Len(resp) = 2
    BY <1>6
  <2> QED
    BY <2>1, <2>2, <2>3, <2>4, <2>5, <2>6, <2>7 DEF at_parse_sms_read, Told
<1> HIDE DEF Read
<1>7. CASE r \in {CmgrReport(s, oa, n) : s \in StatTokens, oa \in TextLens, n \in TextLens}
  <2>1. PICK s \in StatTokens, oa \in TextLens, n \in TextLens : r = CmgrReport(s, oa, n)
    BY <1>7
  <2>2. PICK stat : stat = s[1]
    OBVIOUS
  <2>3. PICK p, q, t : /\ p = <<stat, Comma, Quoted(oa), Comma, Comma, Quoted(20)>>
                       /\ q = <<Quoted(oa), Comma, Comma, Quoted(20)>> /\ t = <<Quoted(20)>>
    OBVIOUS
  <2>4. /\ p # <<>> /\ Head(p) = stat /\ Tail(p) # <<>> /\ Head(Tail(p)) = Comma
        /\ Tail(Tail(p)) = q
    BY <2>3
  <2>5. /\ q # <<>> /\ Head(q) = Quoted(oa) /\ Tail(q) # <<>> /\ Head(Tail(q)) = Comma
        /\ Tail(Tail(q)) # <<>> /\ Head(Tail(Tail(q))) = Comma /\ Tail(Tail(Tail(q))) = t
    BY <2>3
  <2>6. t # <<>> /\ Head(t) = Quoted(20)
    BY <2>3
  <2>7. AfterComma(AfterAlpha(Tail(Tail(q)))) = t
    <3>1. ~Starts(Tail(Tail(q)), "quoted")
      BY <2>5, TokensAre DEF Starts
    <3>2. AfterAlpha(Tail(Tail(q))) = Tail(Tail(q))
      BY <3>1 DEF AfterAlpha
    <3> QED
      BY <2>5, <3>2, CommaField
  <2>8. Read(s, oa, n, p, q, t)
    BY <2>2, <2>4, <2>5, <2>6, <2>7 DEF Read
  <2>9. PICK resp : resp = <<Line("+CMGR", p), TextLine(n)>>
    OBVIOUS
  <2>10. r.resp = resp /\ r.told = Told(s[2], oa, n)
    BY <2>1, <2>2, <2>3, <2>9 DEF CmgrReport, Report, CmgrLine
  <2>11. Len(resp) = 2 /\ resp[1] = Line("+CMGR", p) /\ resp[2] = TextLine(n)
    BY <2>9
  <2> QED
    BY <1>6, <2>8, <2>10, <2>11
<1>8. CASE r \in {Named(s, oa, k, n) : s \in StatTokens, oa \in TextLens, k \in TextLens, n \in TextLens}
  <2> HIDE DEF Named
  <2>1. PICK s \in StatTokens, oa \in TextLens, k \in TextLens, n \in TextLens : r = Named(s, oa, k, n)
    BY <1>8
  <2>2. PICK stat : stat = s[1]
    OBVIOUS
  <2>3. PICK p, q, t : /\ p = <<stat, Comma, Quoted(oa), Comma, Quoted(k), Comma, Quoted(20)>>
                       /\ q = <<Quoted(oa), Comma, Quoted(k), Comma, Quoted(20)>>
                       /\ t = <<Quoted(20)>>
    OBVIOUS
  <2>4. /\ p # <<>> /\ Head(p) = stat /\ Tail(p) # <<>> /\ Head(Tail(p)) = Comma
        /\ Tail(Tail(p)) = q
    BY <2>3
  <2>5. /\ q # <<>> /\ Head(q) = Quoted(oa) /\ Tail(q) # <<>> /\ Head(Tail(q)) = Comma
        /\ Tail(Tail(q)) # <<>> /\ Head(Tail(Tail(q))) = Quoted(k)
    BY <2>3
  <2>6. /\ Tail(Tail(Tail(q))) # <<>> /\ Head(Tail(Tail(Tail(q)))) = Comma
        /\ Tail(Tail(Tail(Tail(q)))) = t
    BY <2>3
  <2>7. t # <<>> /\ Head(t) = Quoted(20)
    BY <2>3
  <2>8. AfterComma(AfterAlpha(Tail(Tail(q)))) = t
    <3>1. Starts(Tail(Tail(q)), "quoted") /\ Head(Tail(Tail(q))).s # "comma"
      BY <2>5, HeadIs
    <3>2. AfterAlpha(Tail(Tail(q))) = Tail(Tail(Tail(q)))
      BY <3>1 DEF AfterAlpha
    <3> QED
      BY <2>6, <3>2, CommaField
  <2>9. Read(s, oa, n, p, q, t)
    BY <2>2, <2>4, <2>5, <2>7, <2>8 DEF Read
  <2>10. PICK resp : resp = <<Line("+CMGR", p), TextLine(n)>>
    OBVIOUS
  <2>11. r.resp = resp /\ r.told = Told(s[2], oa, n)
    BY <2>1, <2>2, <2>3, <2>10 DEF Named, NamedReport, Report, CmgrNamed
  <2>12. Len(resp) = 2 /\ resp[1] = Line("+CMGR", p) /\ resp[2] = TextLine(n)
    BY <2>10
  <2> QED
    BY <1>6, <2>9, <2>11, <2>12
<1>9. CASE r = CmgrRefused
  <2>1. PICK resp : resp = <<CmgrLine(Num(0), 12)>>
    OBVIOUS
  <2>2. r.resp = resp /\ r.told = Failed /\ Len(resp) = 1
    BY <1>9, <2>1 DEF CmgrRefused, Report
  <2> QED
    BY <2>2 DEF at_parse_sms_read
<1> HIDE DEF Named
<1> QED
  BY <1>1, <1>4, <1>7, <1>8, <1>9

\* at_parse_scts: the checks refuse the wrong clocks and no other.
LEMMA CclkBack ==
  ASSUME NEW r \in CclkReports
  PROVE  at_parse_scts(r.resp[1]) = r.told
<1> DEFINE Valid ==
             {Timestamp(<<y, mo, d, h, mi, 59>>, 5, sign, zone) :
                y \in {0, 99}, mo \in {1, 12}, d \in {1, 31}, h \in {0, 23}, mi \in {0, 59},
                sign \in {-1, 0, 1}, zone \in {0, 8, 48}}
           Base == Timestamp(<<24, 2, 29, 12, 30, 0>>, 5, 1, 8)
           With(i, v) == [Base EXCEPT !.f[i] = v]
           Bad == {With(i, v) : i \in 2 .. 6, v \in {60, 100}}
                  \cup {With(i, 0) : i \in 2 .. 3}
                  \cup {With(2, 13), With(3, 32), With(4, 24),
                        [Base EXCEPT !.zone = 49], [Base EXCEPT !.zone = 100]}
                  \cup {[Base EXCEPT !.seps = n] : n \in 0 .. 4}
           TimeOf(ts) == [ok |-> TRUE, f |-> ts.f, tz_quarter |-> ts.sign * ts.zone]
<1>1. CclkReports = {Cclk(ts, TimeOf(ts)) : ts \in Valid} \cup {Cclk(ts, Failed) : ts \in Bad}
  BY DEF CclkReports
<1> HIDE DEF Valid, Bad, TimeOf
<1>2. \A ts, told : Cclk(ts, told).resp[1] = ts /\ Cclk(ts, told).told = told
  BY DEF Cclk, Report
<1>3. /\ SctsLimits[1] = <<0, 99>> /\ SctsLimits[2] = <<1, 12>> /\ SctsLimits[3] = <<1, 31>>
      /\ SctsLimits[4] = <<0, 23>> /\ SctsLimits[5] = <<0, 59>> /\ SctsLimits[6] = <<0, 59>>
  BY DEF SctsLimits
<1>4. ASSUME NEW ts \in Valid
      PROVE  at_parse_scts(ts) = TimeOf(ts)
  <2>1. PICK y \in {0, 99}, mo \in {1, 12}, d \in {1, 31}, h \in {0, 23}, mi \in {0, 59},
             sign \in {-1, 0, 1}, zone \in {0, 8, 48} :
               ts = Timestamp(<<y, mo, d, h, mi, 59>>, 5, sign, zone)
    BY <1>4 DEF Valid
  <2>2. PICK f : f = <<y, mo, d, h, mi, 59>>
    OBVIOUS
  <2>3. ts.f = f /\ ts.seps = 5 /\ ts.sign = sign /\ ts.zone = zone
    BY <2>1, <2>2 DEF Timestamp
  <2>4. /\ f[1] = y /\ f[2] = mo /\ f[3] = d /\ f[4] = h /\ f[5] = mi /\ f[6] = 59
    BY <2>2
  <2>5. \A i \in 1 .. 6 : i = 1 \/ i = 2 \/ i = 3 \/ i = 4 \/ i = 5 \/ i = 6
    OBVIOUS
  <2>6. \A i \in 1 .. 6 : parse_scts_field(ts, i)
    BY <1>3, <2>3, <2>4, <2>5 DEF parse_scts_field
  <2>7. ts.sign # 0 => ts.zone <= 48
    BY <2>3
  <2> QED
    BY <2>3, <2>6, <2>7 DEF at_parse_scts, TimeOf
<1>5. ASSUME NEW ts \in Bad
      PROVE  at_parse_scts(ts) = Failed
  <2>1. PICK f : f = <<24, 2, 29, 12, 30, 0>>
    OBVIOUS
  <2>2. PICK base : base = [f |-> f, seps |-> 5, sign |-> 1, zone |-> 8]
    OBVIOUS
  <2>3. Base = base
    BY <2>1, <2>2 DEF Timestamp
  <2>4. ASSUME NEW i \in 1 .. 6, NEW v
        PROVE  [base EXCEPT !.f[i] = v].f[i] = v
    <3>1. DOMAIN f = 1 .. 6
      BY <2>1
    <3>2. [base EXCEPT !.f[i] = v].f = [f EXCEPT ![i] = v]
      BY <2>2
    <3> QED
      BY <3>1, <3>2
  <2>5. \/ \E i \in 2 .. 6, v \in {60, 100} : ts = With(i, v)
        \/ \E i \in 2 .. 3 : ts = With(i, 0)
        \/ ts \in {With(2, 13), With(3, 32), With(4, 24)}
        \/ ts \in {[Base EXCEPT !.zone = 49], [Base EXCEPT !.zone = 100]}
        \/ \E n \in 0 .. 4 : ts = [Base EXCEPT !.seps = n]
    BY <1>5 DEF Bad
  <2> HIDE DEF Base
  <2>6. ASSUME NEW i \in 1 .. 6, NEW v, ts = With(i, v), v \notin SctsLimits[i][1] .. SctsLimits[i][2]
        PROVE  at_parse_scts(ts) = Failed
    <3>1. ~parse_scts_field(ts, i)
      BY <2>3, <2>4, <2>6 DEF parse_scts_field
    <3> QED
      BY <3>1 DEF at_parse_scts
  <2> HIDE DEF With
  <2>7. CASE \E i \in 2 .. 6, v \in {60, 100} : ts = With(i, v)
    <3>1. PICK i \in 2 .. 6, v \in {60, 100} : ts = With(i, v)
      BY <2>7
    <3>2. v \notin SctsLimits[i][1] .. SctsLimits[i][2]
      <4>1. i = 2 \/ i = 3 \/ i = 4 \/ i = 5 \/ i = 6
        OBVIOUS
      <4> QED
        BY <1>3, <4>1
    <3> QED
      BY <2>6, <3>1, <3>2
  <2>8. CASE \E i \in 2 .. 3 : ts = With(i, 0)
    <3>1. PICK i \in 2 .. 3 : ts = With(i, 0)
      BY <2>8
    <3>2. 0 \notin SctsLimits[i][1] .. SctsLimits[i][2]
      <4>1. i = 2 \/ i = 3
        OBVIOUS
      <4> QED
        BY <1>3, <4>1
    <3> QED
      BY <2>6, <3>1, <3>2
  <2>9. CASE ts \in {With(2, 13), With(3, 32), With(4, 24)}
    <3>1. /\ 13 \notin SctsLimits[2][1] .. SctsLimits[2][2]
          /\ 32 \notin SctsLimits[3][1] .. SctsLimits[3][2]
          /\ 24 \notin SctsLimits[4][1] .. SctsLimits[4][2]
      BY <1>3
    <3> QED
      BY <2>6, <2>9, <3>1
  <2>10. CASE ts \in {[Base EXCEPT !.zone = 49], [Base EXCEPT !.zone = 100]}
    <3>1. ts.sign = 1 /\ ts.zone \in {49, 100}
      BY <2>2, <2>3, <2>10
    <3> QED
      BY <3>1 DEF at_parse_scts
  <2>11. CASE \E n \in 0 .. 4 : ts = [Base EXCEPT !.seps = n]
    <3>1. ts.seps # 5
      BY <2>2, <2>3, <2>11
    <3> QED
      BY <3>1 DEF at_parse_scts
  <2> QED
    BY <2>5, <2>7, <2>8, <2>9, <2>10, <2>11
<1> QED
  BY <1>1, <1>2, <1>4, <1>5

\* The parser that a command calls for, on any report that is its answer.
LEMMA ParsesBack ==
  ASSUME NEW head, NEW r \in ReportsTo(head), ~r.faulty
  PROVE  ParsedFor(head, r.resp) = r.told
<1>1. CASE head = "AT+CSQ"
  BY <1>1, CsqBack DEF ReportsTo, ParsedFor
<1>2. CASE head = "AT+CESQ"
  BY <1>2, CesqBack DEF ReportsTo, ParsedFor
<1>3. CASE head \in {"AT+CREG?", "AT+CGREG?", "AT+CEREG?"}
  <2>1. ParsedFor(head, r.resp) = at_parse_creg(r.resp)
    BY <1>3 DEF ParsedFor
  <2>2. \E h \in {"+CREG", "+CGREG", "+CEREG"} : r \in RegistrationReports(h)
    BY <1>3 DEF ReportsTo
  <2> QED
    BY <2>1, <2>2, CregBack
<1>4. CASE head = "AT+CPIN?"
  BY <1>4, CpinBack DEF ReportsTo, ParsedFor
<1>5. CASE head = "AT+COPS?"
  BY <1>5, CopsBack DEF ReportsTo, ParsedFor
<1>6. CASE head = "AT+CGPADDR="
  BY <1>6, CgpaddrBack DEF ReportsTo, ParsedFor
<1>7. CASE head = "AT+CMGR="
  BY <1>7, CmgrBack DEF ReportsTo, ParsedFor
<1>8. CASE head = "AT+CMGS="
  BY <1>8, CmgsBack DEF ReportsTo, ParsedFor
<1>9. CASE head = "AT+CCLK?"
  BY <1>9, CclkBack DEF ReportsTo, ParsedFor
<1> QED
  BY <1>1, <1>2, <1>3, <1>4, <1>5, <1>6, <1>7, <1>8, <1>9 DEF ReportsTo

\* An answer belongs to the command that asked, which was accepted, and what
\* was parsed was parsed from it.
AnswerInv ==
  \/ report = NoReport /\ parsed = NoResult
  \/ /\ outcome = "AT_OK" /\ report \in ReportsTo(cmd.head)
     /\ parsed \in {NoResult, ParsedFor(cmd.head, report.resp)}

\* What a parser returns is what the modem told, for every value of the fields
\* and every length of the texts: printing a report and parsing its lines is
\* the identity, except for the reports marked faulty.
THEOREM AnswersReadBack == Spec => []ReadsBack
<1>1. Init => AnswerInv
  BY DEF Init, AnswerInv
<1>2. AnswerInv /\ [Next]_vars => AnswerInv'
  <2> SUFFICES ASSUME AnswerInv, [Next]_vars PROVE AnswerInv'
    OBVIOUS
  \* While a command is built there is no answer yet.
  <2>1. ASSUME outcome \in {"none", "building"}, UNCHANGED <<report, parsed>>
        PROVE  AnswerInv'
    BY <2>1 DEF AnswerInv
  <2>2. ASSUME NEW c \in Commands, Build(c) PROVE AnswerInv'
    BY <2>1, <2>2 DEF Build, Call
  <2>3. CASE AppendOne
    BY <2>1, <2>3 DEF AppendOne, AppendNext
  <2>4. CASE SendBuilt
    BY <2>1, <2>4 DEF SendBuilt, Send
  <2>5. CASE Answer
    BY <2>5 DEF Answer, gvars, AnswerInv
  <2>6. CASE Parse
    BY <2>6 DEF Parse, gvars, AnswerInv
  <2>7. CASE SendPdu
    BY <2>1, <2>7 DEF SendPdu
  <2>8. CASE SendPart
    BY <2>1, <2>8 DEF SendPart
  <2>9. CASE Done
    BY <2>9 DEF Done, AnswerInv
  <2>10. CASE UNCHANGED vars
    BY <2>10 DEF vars, gvars, AnswerInv
  <2> QED
    BY <2>2, <2>3, <2>4, <2>5, <2>6, <2>7, <2>8, <2>9, <2>10 DEF Next
<1>3. AnswerInv => ReadsBack
  BY ParsesBack DEF AnswerInv, ReadsBack
<1> QED
  BY <1>1, <1>2, <1>3, PTL DEF Spec
=============================================================================

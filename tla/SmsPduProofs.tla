---------------------------- MODULE SmsPduProofs ----------------------------
(***************************************************************************)
(* A message of one part in PDU mode is read back, for every service       *)
(* centre, number and text: the GSM-7 codec is undone by its decoder and   *)
(* by a receiver, and the fields around the text are where a receiver      *)
(* looks for them.                                                         *)
(***************************************************************************)
EXTENDS GsmLayer, SequenceTheorems, TLAPS

-----------------------------------------------------------------------------
(* The GSM-7 codec.                                                        *)

LEMMA Powers ==
  ASSUME NEW k
  PROVE  /\ k = 0 => 2 ^ k = 1
         /\ k = 1 => 2 ^ k = 2
         /\ k = 2 => 2 ^ k = 4
         /\ k = 3 => 2 ^ k = 8
         /\ k = 4 => 2 ^ k = 16
         /\ k = 5 => 2 ^ k = 32
         /\ k = 6 => 2 ^ k = 64
         /\ k = 7 => 2 ^ k = 128
<1>1. /\ 2 ^ 0 = 1 /\ 2 ^ 1 = 2 /\ 2 ^ 2 = 4 /\ 2 ^ 3 = 8
      /\ 2 ^ 4 = 16 /\ 2 ^ 5 = 32 /\ 2 ^ 6 = 64 /\ 2 ^ 7 = 128
  OBVIOUS
<1> QED  BY <1>1, Zenon

\* Every character of the alphabet has a septet of its own.
LEMMA SeptetIs ==
  ASSUME NEW c \in Nat, gsm7_char_to_septet(c) # NoSeptet
  PROVE  /\ gsm7_char_to_septet(c) \in 0 .. 127
         /\ gsm7_septet_to_ascii(gsm7_char_to_septet(c)) = c
<1>0. 36 \notin Common /\ 64 \notin Common /\ 95 \notin Common
      /\ 2 \notin Common /\ 0 \notin Common /\ 17 \notin Common
  BY DEF Common
<1>1. CASE c \in Common
  <2>1. gsm7_char_to_septet(c) = c
    BY <1>0, <1>1 DEF gsm7_char_to_septet
  <2>2. c \in 0 .. 127
    BY <1>1 DEF Common
  <2>3. gsm7_septet_to_ascii(c) = c
    BY <1>0, <1>1 DEF gsm7_septet_to_ascii
  <2> QED  BY <2>1, <2>2, <2>3
<1>2. CASE c \notin Common
  <2>1. \/ c = 36 /\ gsm7_char_to_septet(c) = 2
        \/ c = 64 /\ gsm7_char_to_septet(c) = 0
        \/ c = 95 /\ gsm7_char_to_septet(c) = 17
    BY <1>2 DEF gsm7_char_to_septet
  <2>2. gsm7_septet_to_ascii(2) = 36 /\ gsm7_septet_to_ascii(0) = 64 /\ gsm7_septet_to_ascii(17) = 95
    BY <1>0 DEF gsm7_septet_to_ascii
  <2> QED  BY <2>1, <2>2
<1> QED  BY <1>1, <1>2

\* Septet i of a text, counted from 0.
Sep(text, i) == IF i \in 0 .. Len(text) - 1 THEN gsm7_char_to_septet(text[i + 1]) ELSE 0

\* What the encoder accepts.
Encodable(text) == text \in Seq(Nat) /\ at_gsm7_is_valid(text) /\ Len(text) <= 160

LEMMA SepTyped ==
  ASSUME NEW text, Encodable(text), NEW i \in Int
  PROVE  Sep(text, i) \in 0 .. 127
<1>1. CASE i \in 0 .. Len(text) - 1
  <2>1. i + 1 \in DOMAIN text /\ text[i + 1] \in Nat
    BY <1>1 DEF Encodable
  <2>2. gsm7_char_to_septet(text[i + 1]) # NoSeptet
    BY <2>1 DEF Encodable, at_gsm7_is_valid
  <2> QED  BY <1>1, <2>1, <2>2, SeptetIs DEF Sep
<1>2. CASE i \notin 0 .. Len(text) - 1
  BY <1>2 DEF Sep
<1> QED  BY <1>1, <1>2

\* The last bits of one septet and the first of the next.
Shared(a, b, t) == (a \div 2 ^ t) + ((b * 2 ^ (7 - t)) % 256)

\* Of three septets, a before b before c, octet j holds bits of b, which is
\* number i, and of c.
SharedBy(a, b, c, t, i, j) ==
  /\ (8 * j) \div 7 = i
  /\ BitsIn(i, b, j) + BitsIn(i + 1, c, j) = Shared(b, c, t)
  /\ i > 0 => BitsIn(i - 1, a, j) = 0

\* Octet t of a group of seven holds bits of two of its eight septets.
LEMMA BitsAre ==
  ASSUME NEW m \in Nat, NEW t \in 0 .. 6, NEW a \in 0 .. 127, NEW b \in 0 .. 127, NEW c \in 0 .. 127
  PROVE  SharedBy(a, b, c, t, (8 * m) + t, (7 * m) + t)
<1> DEFINE i == (8 * m) + t
           j == (7 * m) + t
<1>1. (8 * j) \div 7 = i
  OBVIOUS
<1>0. i \in Nat /\ j \in Nat
  OBVIOUS
<1>2. CASE t = 0
  <2>1. /\ (i * 7) \div 8 = (7 * m) /\ (i * 7) % 8 = 0
        /\ ((i + 1) * 7) \div 8 = (7 * m) /\ ((i + 1) * 7) % 8 = 7
        /\ ((i - 1) * 7) \div 8 = (7 * m) - 1 /\ ((i - 1) * 7) % 8 = 1
    BY <1>2
  <2>2. j = (7 * m)
    BY <1>2
  <2> HIDE DEF i, j
  <2>3. BitsIn(i, b, j) = b \div 1 /\ BitsIn(i + 1, c, j) = (c * 128) % 256
    <3>1. BitsIn(i, b, j) = (b * 1) % 256
      BY <1>0, <2>1, <2>2, Powers, SMTT(30) DEF BitsIn
    <3>2. BitsIn(i + 1, c, j) = (c * 128) % 256
      BY <1>0, <2>1, <2>2, Powers, SMTT(30) DEF BitsIn
    <3> QED  BY <3>1, <3>2
  <2>4. BitsIn(i - 1, a, j) = 0
    BY <1>0, <2>1, <2>2, Powers, SMTT(30) DEF BitsIn
  <2> QED  BY <1>1, <1>2, <2>3, <2>4, Powers DEF Shared, SharedBy, i, j
<1>3. CASE t = 1
  <2>1. /\ (i * 7) \div 8 = (7 * m) /\ (i * 7) % 8 = 7
        /\ ((i + 1) * 7) \div 8 = (7 * m) + 1 /\ ((i + 1) * 7) % 8 = 6
        /\ ((i - 1) * 7) \div 8 = (7 * m) /\ ((i - 1) * 7) % 8 = 0
    BY <1>3
  <2>2. j = (7 * m) + 1
    BY <1>3
  <2> HIDE DEF i, j
  <2>3. BitsIn(i, b, j) = b \div 2 /\ BitsIn(i + 1, c, j) = (c * 64) % 256
    <3>1. BitsIn(i, b, j) = b \div 2
      BY <1>0, <2>1, <2>2, Powers, SMTT(30) DEF BitsIn
    <3>2. BitsIn(i + 1, c, j) = (c * 64) % 256
      BY <1>0, <2>1, <2>2, Powers, SMTT(30) DEF BitsIn
    <3> QED  BY <3>1, <3>2
  <2>4. BitsIn(i - 1, a, j) = 0
    BY <1>0, <2>1, <2>2, Powers, SMTT(30) DEF BitsIn
  <2> QED  BY <1>1, <1>3, <2>3, <2>4, Powers DEF Shared, SharedBy, i, j
<1>4. CASE t = 2
  <2>1. /\ (i * 7) \div 8 = (7 * m) + 1 /\ (i * 7) % 8 = 6
        /\ ((i + 1) * 7) \div 8 = (7 * m) + 2 /\ ((i + 1) * 7) % 8 = 5
        /\ ((i - 1) * 7) \div 8 = (7 * m) /\ ((i - 1) * 7) % 8 = 7
    BY <1>4
  <2>2. j = (7 * m) + 2
    BY <1>4
  <2> HIDE DEF i, j
  <2>3. BitsIn(i, b, j) = b \div 4 /\ BitsIn(i + 1, c, j) = (c * 32) % 256
    BY <1>0, <2>1, <2>2, Powers, SMTT(30) DEF BitsIn
  <2>4. BitsIn(i - 1, a, j) = 0
    BY <1>0, <2>1, <2>2, Powers, SMTT(30) DEF BitsIn
  <2> QED  BY <1>1, <1>4, <2>3, <2>4, Powers DEF Shared, SharedBy, i, j
<1>5. CASE t = 3
  <2>1. /\ (i * 7) \div 8 = (7 * m) + 2 /\ (i * 7) % 8 = 5
        /\ ((i + 1) * 7) \div 8 = (7 * m) + 3 /\ ((i + 1) * 7) % 8 = 4
        /\ ((i - 1) * 7) \div 8 = (7 * m) + 1 /\ ((i - 1) * 7) % 8 = 6
    BY <1>5
  <2>2. j = (7 * m) + 3
    BY <1>5
  <2> HIDE DEF i, j
  <2>3. BitsIn(i, b, j) = b \div 8 /\ BitsIn(i + 1, c, j) = (c * 16) % 256
    BY <1>0, <2>1, <2>2, Powers, SMTT(30) DEF BitsIn
  <2>4. BitsIn(i - 1, a, j) = 0
    BY <1>0, <2>1, <2>2, Powers, SMTT(30) DEF BitsIn
  <2> QED  BY <1>1, <1>5, <2>3, <2>4, Powers DEF Shared, SharedBy, i, j
<1>6. CASE t = 4
  <2>1. /\ (i * 7) \div 8 = (7 * m) + 3 /\ (i * 7) % 8 = 4
        /\ ((i + 1) * 7) \div 8 = (7 * m) + 4 /\ ((i + 1) * 7) % 8 = 3
        /\ ((i - 1) * 7) \div 8 = (7 * m) + 2 /\ ((i - 1) * 7) % 8 = 5
    BY <1>6
  <2>2. j = (7 * m) + 4
    BY <1>6
  <2> HIDE DEF i, j
  <2>3. BitsIn(i, b, j) = b \div 16 /\ BitsIn(i + 1, c, j) = (c * 8) % 256
    BY <1>0, <2>1, <2>2, Powers, SMTT(30) DEF BitsIn
  <2>4. BitsIn(i - 1, a, j) = 0
    BY <1>0, <2>1, <2>2, Powers, SMTT(30) DEF BitsIn
  <2> QED  BY <1>1, <1>6, <2>3, <2>4, Powers DEF Shared, SharedBy, i, j
<1>7. CASE t = 5
  <2>1. /\ (i * 7) \div 8 = (7 * m) + 4 /\ (i * 7) % 8 = 3
        /\ ((i + 1) * 7) \div 8 = (7 * m) + 5 /\ ((i + 1) * 7) % 8 = 2
        /\ ((i - 1) * 7) \div 8 = (7 * m) + 3 /\ ((i - 1) * 7) % 8 = 4
    BY <1>7
  <2>2. j = (7 * m) + 5
    BY <1>7
  <2> HIDE DEF i, j
  <2>3. BitsIn(i, b, j) = b \div 32 /\ BitsIn(i + 1, c, j) = (c * 4) % 256
    BY <1>0, <2>1, <2>2, Powers, SMTT(30) DEF BitsIn
  <2>4. BitsIn(i - 1, a, j) = 0
    BY <1>0, <2>1, <2>2, Powers, SMTT(30) DEF BitsIn
  <2> QED  BY <1>1, <1>7, <2>3, <2>4, Powers DEF Shared, SharedBy, i, j
<1>8. CASE t = 6
  <2>1. /\ (i * 7) \div 8 = (7 * m) + 5 /\ (i * 7) % 8 = 2
        /\ ((i + 1) * 7) \div 8 = (7 * m) + 6 /\ ((i + 1) * 7) % 8 = 1
        /\ ((i - 1) * 7) \div 8 = (7 * m) + 4 /\ ((i - 1) * 7) % 8 = 3
    BY <1>8
  <2>2. j = (7 * m) + 6
    BY <1>8
  <2> HIDE DEF i, j
  <2>3. BitsIn(i, b, j) = b \div 64 /\ BitsIn(i + 1, c, j) = (c * 2) % 256
    BY <1>0, <2>1, <2>2, Powers, SMTT(30) DEF BitsIn
  <2>4. BitsIn(i - 1, a, j) = 0
    BY <1>0, <2>1, <2>2, Powers, SMTT(30) DEF BitsIn
  <2> QED  BY <1>1, <1>8, <2>3, <2>4, Powers DEF Shared, SharedBy, i, j
<1> QED  BY <1>2, <1>3, <1>4, <1>5, <1>6, <1>7, <1>8

-----------------------------------------------------------------------------
\* Octet j of the user data is put together from at most three septets.
Bits(text, i, j) ==
  IF i \in 0 .. Len(text) - 1 THEN BitsIn(i, gsm7_char_to_septet(text[i + 1]), j) ELSE 0
Octet(text, j) ==
  Bits(text, ((8 * j) \div 7) - 1, j) + Bits(text, (8 * j) \div 7, j) + Bits(text, ((8 * j) \div 7) + 1, j)
Packed(text) == [k \in 1 .. OctetsFor(Len(text)) |-> Octet(text, k - 1)]

LEMMA EncodeIs ==
  ASSUME NEW text, Encodable(text), NEW sz \in Nat, OctetsFor(Len(text)) <= sz
  PROVE  at_gsm7_encode(text, sz) = Gsm7("AT_GSM7_OK", Packed(text))
<1>1. Len(text) \in Nat /\ Len(text) <= 160 /\ OctetsFor(Len(text)) \in Nat
  BY DEF Encodable, OctetsFor
<1>2. ~(Len(text) > TextMax) /\ ~(OctetsFor(Len(text)) > sz) /\ at_gsm7_is_valid(text)
  BY <1>1 DEF TextMax, Encodable
<1> QED  BY <1>2, Zenon DEF at_gsm7_encode, Packed, Octet, Bits

LEMMA BitsOfSep ==
  ASSUME NEW text, Encodable(text), NEW i \in Nat, NEW j \in Int
  PROVE  Bits(text, i, j) = BitsIn(i, Sep(text, i), j)
<1>1. CASE i \in 0 .. Len(text) - 1
  BY <1>1 DEF Bits, Sep
<1>2. CASE i \notin 0 .. Len(text) - 1
  <2>1. (i * 7) % 8 \in 0 .. 7
    OBVIOUS
  <2>2. \A k \in 0 .. 8 : 2 ^ k \in Nat \ {0}
    <3> SUFFICES ASSUME NEW k \in 0 .. 8 PROVE 2 ^ k \in Nat \ {0}
      OBVIOUS
    <3>1. CASE k = 8
      <4>1. 2 ^ 8 = 256
        OBVIOUS
      <4> QED  BY <3>1, <4>1
    <3>2. CASE k \in 0 .. 7
      BY <3>2, Powers
    <3> QED  BY <3>1, <3>2
  <2> DEFINE off == (i * 7) % 8
  <2>3. 2 ^ off \in Nat \ {0} /\ 2 ^ (8 - off) \in Nat \ {0}
    <3>1. off \in 0 .. 8 /\ 8 - off \in 0 .. 8
      BY <2>1
    <3> QED  BY <2>2, <3>1
  <2> HIDE DEF off
  <2>4. (0 * 2 ^ off) % 256 = 0 /\ 0 \div 2 ^ (8 - off) = 0
    <3> DEFINE p == 2 ^ off
               q == 2 ^ (8 - off)
    <3>1. p \in Nat \ {0} /\ q \in Nat \ {0}
      BY <2>3
    <3> HIDE DEF p, q
    <3>2. (0 * p) % 256 = 0 /\ 0 \div q = 0
      BY <3>1
    <3> QED  BY <3>2 DEF p, q
  <2>5. BitsIn(i, 0, j) = 0
    <3>1. (0 * 2 ^ ((i * 7) % 8)) % 256 = 0 /\ 0 \div 2 ^ (8 - ((i * 7) % 8)) = 0
      BY <2>4 DEF off
    <3> QED  BY <3>1, Zenon DEF BitsIn
  <2> QED  BY <1>2, <2>5 DEF Bits, Sep
<1> QED  BY <1>1, <1>2

LEMMA OctetIs ==
  ASSUME NEW text, Encodable(text), NEW m \in Nat, NEW t \in 0 .. 6
  PROVE  Octet(text, (7 * m) + t) = Shared(Sep(text, (8 * m) + t), Sep(text, (8 * m) + t + 1), t)
<1> DEFINE i == (8 * m) + t
           j == (7 * m) + t
<1>1. i \in Nat /\ j \in Nat
  OBVIOUS
<1>2. /\ (8 * j) \div 7 = i
      /\ BitsIn(i, Sep(text, i), j) + BitsIn(i + 1, Sep(text, i + 1), j)
           = Shared(Sep(text, i), Sep(text, i + 1), t)
      /\ i > 0 => BitsIn(i - 1, Sep(text, i - 1), j) = 0
  <2>1. Sep(text, i) \in 0 .. 127 /\ Sep(text, i + 1) \in 0 .. 127 /\ Sep(text, i - 1) \in 0 .. 127
    <3>1. i + 1 \in Int /\ i - 1 \in Int /\ i \in Int
      BY <1>1
    <3> QED  BY <3>1, SepTyped
  <2> DEFINE a == Sep(text, i - 1)
             b == Sep(text, i)
             c == Sep(text, i + 1)
  <2>2. a \in 0 .. 127 /\ b \in 0 .. 127 /\ c \in 0 .. 127
    BY <2>1
  <2> HIDE DEF a, b, c
  <2>3. SharedBy(a, b, c, t, i, j)
    BY <2>2, BitsAre
  <2> QED  BY <2>3, Zenon DEF a, b, c, SharedBy
<1>4. Shared(Sep(text, i), Sep(text, i + 1), t) \in Int
  <2>1. Sep(text, i) \in Int /\ Sep(text, i + 1) \in Int
    <3>1. i + 1 \in Int /\ i \in Int
      BY <1>1
    <3> QED  BY <3>1, SepTyped
  <2>2. 2 ^ t \in Nat \ {0} /\ 2 ^ (7 - t) \in Nat \ {0}
    <3>1. 7 - t \in 1 .. 7
      OBVIOUS
    <3> QED  BY <3>1, Powers
  <2> DEFINE p == 2 ^ t
             q == 2 ^ (7 - t)
  <2>3. p \in Nat \ {0} /\ q \in Nat \ {0}
    BY <2>2
  <2> HIDE DEF p, q, i, j
  <2>4. (Sep(text, i) \div p) + ((Sep(text, i + 1) * q) % 256) \in Int
    <3>1. Sep(text, i + 1) * q \in Int
      BY <2>1, <2>3
    <3> QED  BY <2>1, <2>3, <3>1
  <2> QED  BY <2>4 DEF p, q, Shared
<1> HIDE DEF i, j
<1>3. Bits(text, i - 1, j) = 0
  <2>1. CASE i = 0
    <3>1. i - 1 \notin 0 .. Len(text) - 1
      BY <2>1
    <3> QED  BY <3>1, Zenon DEF Bits
  <2>2. CASE i > 0
    <3>1. i - 1 \in Nat
      BY <1>1, <2>2
    <3> QED  BY <1>1, <1>2, <2>2, <3>1, BitsOfSep
  <2> QED  BY <1>1, <2>1, <2>2
<1>5. Bits(text, i, j) + Bits(text, i + 1, j) = Shared(Sep(text, i), Sep(text, i + 1), t)
  <2>1. i + 1 \in Nat
    BY <1>1
  <2>2. Bits(text, i, j) = BitsIn(i, Sep(text, i), j)
    BY <1>1, BitsOfSep
  <2>3. Bits(text, i + 1, j) = BitsIn(i + 1, Sep(text, i + 1), j)
    BY <1>1, <2>1, BitsOfSep
  <2> QED  BY <1>2, <2>2, <2>3
<1>7. Bits(text, i, j) \in Int /\ Bits(text, i + 1, j) \in Int
  <2>1. \A k \in Nat : Bits(text, k, j) \in Int
    <3> SUFFICES ASSUME NEW k \in Nat PROVE BitsIn(k, Sep(text, k), j) \in Int
      BY <1>1, BitsOfSep
    <3> DEFINE off == (k * 7) % 8
               s == Sep(text, k)
    <3>1. s \in Int
      BY SepTyped
    <3>2. 2 ^ off \in Nat \ {0} /\ (off > 1 => 2 ^ (8 - off) \in Nat \ {0})
      <4>1. off \in 0 .. 7
        OBVIOUS
      <4> HIDE DEF off
      <4>2. off > 1 => 8 - off \in 1 .. 7
        BY <4>1
      <4> QED  BY <4>1, <4>2, Powers
    <3> HIDE DEF off, s
    <3>3. (s * 2 ^ off) % 256 \in Int /\ (off > 1 => s \div 2 ^ (8 - off) \in Int)
      <4> DEFINE p == 2 ^ off
                 q == 2 ^ (8 - off)
      <4>1. p \in Nat \ {0} /\ (off > 1 => q \in Nat \ {0})
        BY <3>2
      <4> HIDE DEF p, q
      <4>2. (s * p) % 256 \in Int /\ (off > 1 => s \div q \in Int)
        <5>1. s * p \in Int
          BY <3>1, <4>1
        <5> QED  BY <3>1, <4>1, <5>1
      <4> QED  BY <4>2 DEF p, q
    <3> QED  BY <3>3 DEF BitsIn, off, s
  <2> QED  BY <1>1, <2>1
<1>6. Octet(text, j) = Bits(text, i - 1, j) + Bits(text, i, j) + Bits(text, i + 1, j)
  BY <1>2 DEF Octet
<1> QED  BY <1>3, <1>4, <1>5, <1>6, <1>7 DEF i, j

\* A septet from the octets that share it: the decoder's way, which adds the
\* octets' shares, and the receiver's, which takes the bits out of the two.
Low(u, k) == (u \div 2 ^ k) % 128
High(u, k) == (u * 2 ^ k) % 128
Joint(u, v, k) == ((u + (256 * v)) \div 2 ^ k) % 128
SeptetRange == 0 .. 127

LEMMA FirstBack ==
  ASSUME NEW a \in SeptetRange, NEW b \in SeptetRange, NEW x \in Nat
  PROVE  Low(Shared(a, b, 0), 0) = a /\ Joint(Shared(a, b, 0), x, 0) = a
<1>1. Shared(a, b, 0) = a + ((b * 128) % 256) /\ 2 ^ 0 = 1
  BY Powers DEF Shared, SeptetRange
<1>2. /\ ((a + ((b * 128) % 256)) \div 1) % 128 = a
      /\ ((a + ((b * 128) % 256) + (256 * x)) \div 1) % 128 = a
  BY DEF SeptetRange
<1> QED  BY <1>1, <1>2 DEF Low, Joint

LEMMA LastBack ==
  ASSUME NEW a \in SeptetRange, NEW b \in SeptetRange, NEW x \in Nat
  PROVE  Low(Shared(a, b, 6), 1) = b /\ Joint(Shared(a, b, 6), x, 1) = b
<1>1. Shared(a, b, 6) = (a \div 64) + ((b * 2) % 256) /\ 2 ^ 1 = 2
  BY Powers DEF Shared
<1>2. /\ (((a \div 64) + ((b * 2) % 256)) \div 2) % 128 = b
      /\ (((a \div 64) + ((b * 2) % 256) + (256 * x)) \div 2) % 128 = b
  BY DEF SeptetRange
<1> QED  BY <1>1, <1>2 DEF Low, Joint

LEMMA MiddleBack ==
  ASSUME NEW a \in SeptetRange, NEW b \in SeptetRange, NEW c \in SeptetRange, NEW t \in 0 .. 5
  PROVE  /\ Low(Shared(a, b, t), 7 - t) + High(Shared(b, c, t + 1), t + 1) = b
         /\ Joint(Shared(a, b, t), Shared(b, c, t + 1), 7 - t) = b
<1> USE DEF SeptetRange, Low, High, Joint
<1>0. CASE t = 0
  <2>1. Shared(a, b, t) = a + ((b * 128) % 256) /\ Shared(b, c, t + 1) = (b \div 2) + ((c * 64) % 256)
    BY <1>0, Powers DEF Shared
  <2>2. 2 ^ (7 - t) = 128 /\ 2 ^ (t + 1) = 2
    BY <1>0, Powers
  <2>3. /\ (((a + ((b * 128) % 256)) \div 128) % 128) + ((((b \div 2) + ((c * 64) % 256)) * 2) % 128) = b
        /\ (((a + ((b * 128) % 256)) + (256 * ((b \div 2) + ((c * 64) % 256)))) \div 128) % 128 = b
    OBVIOUS
  <2> QED  BY <2>1, <2>2, <2>3
<1>1. CASE t = 1
  <2>1. Shared(a, b, t) = (a \div 2) + ((b * 64) % 256) /\ Shared(b, c, t + 1) = (b \div 4) + ((c * 32) % 256)
    BY <1>1, Powers DEF Shared
  <2>2. 2 ^ (7 - t) = 64 /\ 2 ^ (t + 1) = 4
    BY <1>1, Powers
  <2>3. /\ ((((a \div 2) + ((b * 64) % 256)) \div 64) % 128) + ((((b \div 4) + ((c * 32) % 256)) * 4) % 128) = b
        /\ ((((a \div 2) + ((b * 64) % 256)) + (256 * ((b \div 4) + ((c * 32) % 256)))) \div 64) % 128 = b
    OBVIOUS
  <2> QED  BY <2>1, <2>2, <2>3
<1>2. CASE t = 2
  <2>1. Shared(a, b, t) = (a \div 4) + ((b * 32) % 256) /\ Shared(b, c, t + 1) = (b \div 8) + ((c * 16) % 256)
    BY <1>2, Powers DEF Shared
  <2>2. 2 ^ (7 - t) = 32 /\ 2 ^ (t + 1) = 8
    BY <1>2, Powers
  <2>3. /\ ((((a \div 4) + ((b * 32) % 256)) \div 32) % 128) + ((((b \div 8) + ((c * 16) % 256)) * 8) % 128) = b
        /\ ((((a \div 4) + ((b * 32) % 256)) + (256 * ((b \div 8) + ((c * 16) % 256)))) \div 32) % 128 = b
    OBVIOUS
  <2> QED  BY <2>1, <2>2, <2>3
<1>3. CASE t = 3
  <2>1. Shared(a, b, t) = (a \div 8) + ((b * 16) % 256) /\ Shared(b, c, t + 1) = (b \div 16) + ((c * 8) % 256)
    BY <1>3, Powers DEF Shared
  <2>2. 2 ^ (7 - t) = 16 /\ 2 ^ (t + 1) = 16
    BY <1>3, Powers
  <2> DEFINE u == a \div 8
             v == (c * 8) % 256
             p == b \div 16
             q == b % 16
  <2>4. u \in 0 .. 15 /\ p \in 0 .. 7 /\ q \in 0 .. 15 /\ b = (16 * p) + q
    OBVIOUS
  <2>5. (b * 16) % 256 = 16 * q
    BY <2>4
  <2>6. \E w \in 0 .. 255 : v = 8 * w
    <3>1. (c * 8) % 256 = 8 * (c % 32)
      OBVIOUS
    <3> QED  BY <3>1
  <2>7. PICK w \in 0 .. 255 : v = 8 * w
    BY <2>6
  <2> HIDE DEF u, v, p, q
  <2>8. ((u + (16 * q)) \div 16) % 128 = q
    BY <2>4
  <2>9. ((p + v) * 16) % 128 = p * 16
    BY <2>4, <2>7
  <2>10. (((u + (16 * q)) + (256 * (p + v))) \div 16) % 128 = b
    <3>1. ((u + (16 * q)) + (256 * (p + v))) \div 16 = q + (16 * (p + v))
      BY <2>4, <2>7
    <3> QED  BY <2>4, <2>7, <3>1
  <2>3. /\ (((u + ((b * 16) % 256)) \div 16) % 128) + (((p + v) * 16) % 128) = b
        /\ (((u + ((b * 16) % 256)) + (256 * (p + v))) \div 16) % 128 = b
    BY <2>4, <2>5, <2>8, <2>9, <2>10
  <2> QED  BY <2>1, <2>2, <2>3 DEF u, v, p
<1>4. CASE t = 4
  <2>1. Shared(a, b, t) = (a \div 16) + ((b * 8) % 256) /\ Shared(b, c, t + 1) = (b \div 32) + ((c * 4) % 256)
    BY <1>4, Powers DEF Shared
  <2>2. 2 ^ (7 - t) = 8 /\ 2 ^ (t + 1) = 32
    BY <1>4, Powers
  <2> DEFINE u == a \div 16
             v == (c * 4) % 256
             p == b \div 32
             q == b % 32
  <2>4. u \in 0 .. 7 /\ p \in 0 .. 3 /\ q \in 0 .. 31 /\ b = (32 * p) + q
    OBVIOUS
  <2>5. (b * 8) % 256 = 8 * q
    BY <2>4
  <2>6. \E w \in 0 .. 255 : v = 4 * w
    <3>1. (c * 4) % 256 = 4 * (c % 64)
      OBVIOUS
    <3> QED  BY <3>1
  <2>7. PICK w \in 0 .. 255 : v = 4 * w
    BY <2>6
  <2> HIDE DEF u, v, p, q
  <2>8. ((u + (8 * q)) \div 8) % 128 = q
    BY <2>4
  <2>9. ((p + v) * 32) % 128 = p * 32
    BY <2>4, <2>7
  <2>10. (((u + (8 * q)) + (256 * (p + v))) \div 8) % 128 = b
    <3>1. ((u + (8 * q)) + (256 * (p + v))) \div 8 = q + (32 * (p + v))
      BY <2>4, <2>7
    <3> QED  BY <2>4, <2>7, <3>1
  <2>3. /\ (((u + ((b * 8) % 256)) \div 8) % 128) + (((p + v) * 32) % 128) = b
        /\ (((u + ((b * 8) % 256)) + (256 * (p + v))) \div 8) % 128 = b
    BY <2>4, <2>5, <2>8, <2>9, <2>10
  <2> QED  BY <2>1, <2>2, <2>3 DEF u, v, p
<1>5. CASE t = 5
  <2>1. Shared(a, b, t) = (a \div 32) + ((b * 4) % 256) /\ Shared(b, c, t + 1) = (b \div 64) + ((c * 2) % 256)
    BY <1>5, Powers DEF Shared
  <2>2. 2 ^ (7 - t) = 4 /\ 2 ^ (t + 1) = 64
    BY <1>5, Powers
  <2> DEFINE u == a \div 32
             v == (c * 2) % 256
             p == b \div 64
             q == b % 64
  <2>4. u \in 0 .. 3 /\ p \in 0 .. 1 /\ q \in 0 .. 63 /\ b = (64 * p) + q
    OBVIOUS
  <2>5. (b * 4) % 256 = 4 * q
    BY <2>4
  <2>6. \E w \in 0 .. 255 : v = 2 * w
    <3>1. (c * 2) % 256 = 2 * (c % 128)
      OBVIOUS
    <3> QED  BY <3>1
  <2>7. PICK w \in 0 .. 255 : v = 2 * w
    BY <2>6
  <2> HIDE DEF u, v, p, q
  <2>8. ((u + (4 * q)) \div 4) % 128 = q
    BY <2>4
  <2>9. ((p + v) * 64) % 128 = p * 64
    BY <2>4, <2>7
  <2>10. (((u + (4 * q)) + (256 * (p + v))) \div 4) % 128 = b
    <3>1. ((u + (4 * q)) + (256 * (p + v))) \div 4 = q + (64 * (p + v))
      BY <2>4, <2>7
    <3> QED  BY <2>4, <2>7, <3>1
  <2>3. /\ (((u + ((b * 4) % 256)) \div 4) % 128) + (((p + v) * 64) % 128) = b
        /\ (((u + ((b * 4) % 256)) + (256 * (p + v))) \div 4) % 128 = b
    BY <2>4, <2>5, <2>8, <2>9, <2>10
  <2> QED  BY <2>1, <2>2, <2>3 DEF u, v, p
<1> QED  BY <1>0, <1>1, <1>2, <1>3, <1>4, <1>5

LEMMA SharedTyped ==
  ASSUME NEW a \in 0 .. 127, NEW b \in 0 .. 127, NEW t \in 0 .. 6
  PROVE  Shared(a, b, t) \in Nat
<1>1. 2 ^ t \in Nat \ {0} /\ 2 ^ (7 - t) \in Nat \ {0}
  <2>1. 7 - t \in 1 .. 7
    OBVIOUS
  <2> QED  BY <2>1, Powers
<1> DEFINE p == 2 ^ t
           q == 2 ^ (7 - t)
<1>2. p \in Nat \ {0} /\ q \in Nat \ {0}
  BY <1>1
<1> HIDE DEF p, q
<1>3. (a \div p) + ((b * q) % 256) \in Nat
  <2>1. b * q \in Nat
    BY <1>2
  <2>2. a \div p \in Nat
    BY <1>2
  <2> QED  BY <2>1, <2>2
<1> QED  BY <1>3 DEF p, q, Shared

LEMMA PackedIs ==
  ASSUME NEW text, Encodable(text)
  PROVE  /\ Len(Packed(text)) = OctetsFor(Len(text)) /\ DOMAIN Packed(text) = 1 .. OctetsFor(Len(text))
         /\ Packed(text) \in Seq(Nat)
         /\ OctetsFor(Len(text)) \in 0 .. 140
         /\ \A m \in Nat, t \in 0 .. 6 :
              (7 * m) + t < OctetsFor(Len(text)) =>
                Packed(text)[(7 * m) + t + 1] = Shared(Sep(text, (8 * m) + t), Sep(text, (8 * m) + t + 1), t)
<1> DEFINE n == Len(text)
           N == OctetsFor(n)
           P == Packed(text)
<1>1. N \in 0 .. 140
  <2>1. n \in 0 .. 160
    <3>1. text \in Seq(Nat) /\ Len(text) <= 160
      BY Zenon DEF Encodable
    <3>2. n \in Nat /\ n <= 160
      BY <3>1
    <3> HIDE DEF n
    <3> QED  BY <3>2
  <2> HIDE DEF n
  <2> QED  BY <2>1 DEF OctetsFor
<1>2. DOMAIN P = 1 .. N /\ P = [k \in 1 .. N |-> P[k]]
  BY DEF Packed
<1>5. \A k \in 1 .. N : P[k] = Octet(text, k - 1)
  BY DEF Packed
<1> HIDE DEF n, N, P
<1>3. ASSUME NEW m \in Nat, NEW t \in 0 .. 6, (7 * m) + t < N
      PROVE  /\ P[(7 * m) + t + 1] = Shared(Sep(text, (8 * m) + t), Sep(text, (8 * m) + t + 1), t)
             /\ P[(7 * m) + t + 1] \in Nat
  <2> DEFINE k == (7 * m) + t + 1
  <2>1. k \in 1 .. N /\ k - 1 = (7 * m) + t
    BY <1>1, <1>3
  <2>3. (8 * m) + t \in Int /\ (8 * m) + t + 1 \in Int
    OBVIOUS
  <2>4. Shared(Sep(text, (8 * m) + t), Sep(text, (8 * m) + t + 1), t) \in Nat
    BY <2>3, SepTyped, SharedTyped
  <2>5. Octet(text, (7 * m) + t) = Shared(Sep(text, (8 * m) + t), Sep(text, (8 * m) + t + 1), t)
    BY OctetIs
  <2> HIDE DEF k
  <2>6. P[k] = Octet(text, (7 * m) + t)
    BY <1>5, <2>1
  <2> QED  BY <2>4, <2>5, <2>6 DEF k
<1>4. P \in Seq(Nat)
  <2>1. ASSUME NEW k \in 1 .. N PROVE P[k] \in Nat
    <3> DEFINE m == (k - 1) \div 7
               t == (k - 1) % 7
    <3>1. m \in Nat /\ t \in 0 .. 6 /\ (7 * m) + t = k - 1
      BY <1>1
    <3> HIDE DEF m, t
    <3>2. (7 * m) + t < N /\ (7 * m) + t + 1 = k
      BY <1>1, <3>1
    <3>3. P[(7 * m) + t + 1] \in Nat
      BY <1>3, <3>1, <3>2
    <3> QED  BY <3>2, <3>3
  <2>3. N \in Nat
    BY <1>1
  <2> QED  BY <1>2, <2>1, <2>3, IsASeq
<1>6. Len(P) = N
  <2>1. N \in Nat
    BY <1>1
  <2> QED  BY <1>2, <1>4, <2>1, LenProperties
<1> QED  BY <1>1, <1>2, <1>3, <1>4, <1>6 DEF n, N, P

\* The decoder's septet.
Unpacked(packed, i) ==
  LET byte == (i * 7) \div 8
      off == (i * 7) % 8
      low == (packed[byte + 1] \div 2 ^ off) % 128
  IN  IF off > 1 /\ byte + 1 < Len(packed)
        THEN low + ((packed[byte + 2] * 2 ^ (8 - off)) % 128) ELSE low

LEMMA DecodeIs ==
  ASSUME NEW packed, NEW n \in Nat, NEW sz \in Nat, n + 1 <= sz
  PROVE  at_gsm7_decode(packed, n, sz)
           = Gsm7("AT_GSM7_OK", [i \in 1 .. n |-> gsm7_septet_to_ascii(Unpacked(packed, i - 1))])
<1>1. ~(sz < n + 1)
  OBVIOUS
<1> QED  BY <1>1, Zenon DEF at_gsm7_decode, Unpacked

\* The receiver's septet.
LEMMA SeptetAtIs ==
  ASSUME NEW ud, NEW k \in Nat, NEW s \in 0 .. 7, NEW i \in Nat, 7 * i = (8 * k) + s,
         DOMAIN ud = 1 .. Len(ud), Len(ud) \in Nat, k < Len(ud)
  PROVE  SeptetAt(ud, 7 * i) = Joint(ud[k + 1], IF k + 1 < Len(ud) THEN ud[k + 2] ELSE 0, s)
<1> DEFINE b == 7 * i
<1>1. b \div 8 = k /\ b % 8 = s
  OBVIOUS
<1> HIDE DEF b
<1>2. k + 1 \in DOMAIN ud /\ (k + 2 \in DOMAIN ud <=> k + 1 < Len(ud)) /\ k + 1 + 1 = k + 2
  OBVIOUS
<1>3. SeptetAt(ud, b) = ((ud[k + 1] + (256 * (IF k + 2 \in DOMAIN ud THEN ud[k + 2] ELSE 0))) \div 2 ^ s) % 128
  BY <1>1, <1>2 DEF SeptetAt
<1> QED  BY <1>2, <1>3 DEF b, Joint

LEMMA UnpackedIs ==
  ASSUME NEW ud, NEW k \in Nat, NEW s \in 0 .. 7, NEW i \in Nat, 7 * i = (8 * k) + s
  PROVE  Unpacked(ud, i)
           = IF s > 1 /\ k + 1 < Len(ud)
               THEN Low(ud[k + 1], s) + High(ud[k + 2], 8 - s) ELSE Low(ud[k + 1], s)
<1>1. (i * 7) \div 8 = k /\ (i * 7) % 8 = s
  OBVIOUS
<1> QED  BY <1>1, Zenon DEF Unpacked, Low, High

\* Every septet can be read back, by a receiver and by the library's decoder.
LEMMA SeptetsBack ==
  ASSUME NEW text, Encodable(text), NEW i \in 0 .. Len(text) - 1
  PROVE  /\ SeptetAt(Packed(text), 7 * i) = Sep(text, i)
         /\ Unpacked(Packed(text), i) = Sep(text, i)
<1> DEFINE n == Len(text)
           N == OctetsFor(n)
           P == Packed(text)
           m == i \div 8
           r == i % 8
<1>1. Len(P) = N /\ DOMAIN P = 1 .. Len(P) /\ Len(P) \in Nat /\ P \in Seq(Nat)
      /\ \A k \in Nat, t \in 0 .. 6 :
           (7 * k) + t < N => P[(7 * k) + t + 1] = Shared(Sep(text, (8 * k) + t), Sep(text, (8 * k) + t + 1), t)
  BY PackedIs
<1>2. n \in Nat
  <2>1. text \in Seq(Nat)
    BY Zenon DEF Encodable
  <2> QED  BY <2>1
<1>3. N = ((n * 7) + 7) \div 8 /\ N \in Nat
  BY <1>2 DEF OctetsFor
<1>4. m \in Nat /\ r \in 0 .. 7 /\ i = (8 * m) + r /\ i \in Nat /\ i < n
  BY <1>2
<1>5. \A k \in Int : Sep(text, k) \in 0 .. 127
  BY SepTyped
<1> DEFINE S(k) == Sep(text, k)
<1> HIDE DEF n, N, P, m, r, S
<1>6. CASE r = 0
  <2>1. 7 * i = (8 * (7 * m)) + 0 /\ 7 * m < N /\ i = 8 * m
    BY <1>2, <1>3, <1>4, <1>6
  <2>2. P[(7 * m) + 1] = Shared(S(8 * m), S((8 * m) + 1), 0)
    <3>1. (7 * m) + 0 < N
      BY <1>3, <1>4, <2>1
    <3>2. (7 * m) + 0 = 7 * m /\ (8 * m) + 0 = 8 * m
      BY <1>4
    <3> QED  BY <1>1, <1>4, <3>1, <3>2 DEF S
  <2>3. S(8 * m) \in SeptetRange /\ S((8 * m) + 1) \in SeptetRange
    BY <1>4, <1>5 DEF S, SeptetRange
  <2> DEFINE x == IF (7 * m) + 1 < Len(P) THEN P[(7 * m) + 2] ELSE 0
  <2>4. x \in Nat
    <3>1. (7 * m) + 1 < Len(P) => (7 * m) + 2 \in DOMAIN P
      BY <1>1, <1>4
    <3> QED  BY <1>1, <3>1
  <2>5. SeptetAt(P, 7 * i) = Joint(P[(7 * m) + 1], x, 0)
    <3>1. 7 * m \in Nat /\ 7 * m < Len(P)
      BY <1>1, <1>4, <2>1
    <3>2. DOMAIN P = 1 .. Len(P) /\ Len(P) \in Nat /\ 0 \in 0 .. 7
      BY <1>1
    <3> DEFINE k == 7 * m
    <3> HIDE DEF k
    <3>3. SeptetAt(P, 7 * i) = Joint(P[k + 1], IF k + 1 < Len(P) THEN P[k + 2] ELSE 0, 0)
      <4>1. k \in Nat /\ k < Len(P) /\ 7 * i = (8 * k) + 0
        BY <2>1, <3>1 DEF k
      <4> QED  BY <1>4, <3>2, <4>1, SeptetAtIs, Zenon
    <3> QED  BY <3>3, Zenon DEF k
  <2>6. Unpacked(P, i) = Low(P[(7 * m) + 1], 0)
    <3>1. 7 * m \in Nat /\ ~(0 > 1)
      BY <1>4
    <3> QED  BY <1>4, <2>1, <3>1, UnpackedIs
  <2> HIDE DEF x
  <2>7. SeptetAt(P, 7 * i) = S(8 * m) /\ Unpacked(P, i) = S(8 * m)
    <3> DEFINE u == S(8 * m)
               v == S((8 * m) + 1)
    <3>1. u \in SeptetRange /\ v \in SeptetRange
      BY <2>3
    <3> HIDE DEF u, v
    <3>2. Low(Shared(u, v, 0), 0) = u /\ Joint(Shared(u, v, 0), x, 0) = u
      BY <2>4, <3>1, FirstBack, Zenon
    <3> QED  BY <2>2, <2>5, <2>6, <3>2, Zenon DEF u, v
  <2> QED  BY <2>1, <2>7 DEF S, P
<1>7. CASE r > 0
  <2> DEFINE t == r - 1
             j == (7 * m) + t
  <2>1. t \in 0 .. 6 /\ r = t + 1
    BY <1>4, <1>7
  <2>2. 7 * i = (8 * j) + (7 - t) /\ 7 - t \in 0 .. 7 /\ i = (8 * m) + t + 1 /\ j \in Nat
    BY <1>4, <2>1
  <2>3. j < N /\ (t < 6 => j + 1 < N) /\ j = (7 * m) + t
    BY <1>2, <1>3, <1>4, <2>1, <2>2
  <2> DEFINE a == S((8 * m) + t)
             b == S((8 * m) + t + 1)
             c == S((8 * m) + t + 2)
             x == IF j + 1 < Len(P) THEN P[j + 2] ELSE 0
  <2>4. a \in SeptetRange /\ b \in SeptetRange /\ c \in SeptetRange
    <3>1. (8 * m) + t \in Int /\ (8 * m) + t + 1 \in Int /\ (8 * m) + t + 2 \in Int
      BY <1>4, <2>1
    <3> QED  BY <1>5, <3>1 DEF S, SeptetRange
  <2>5. x \in Nat
    <3>1. j + 1 < Len(P) => j + 2 \in DOMAIN P
      BY <1>1, <2>2
    <3> QED  BY <1>1, <3>1
  <2> HIDE DEF t
  <2>6. P[j + 1] = Shared(a, b, t)
    <3>1. (7 * m) + t < N
      BY <2>3
    <3> QED  BY <1>1, <1>4, <2>1, <3>1 DEF S
  <2>7. t < 6 => P[j + 2] = Shared(b, c, t + 1)
    <3> SUFFICES ASSUME t < 6 PROVE P[j + 2] = Shared(b, c, t + 1)
      OBVIOUS
    <3> DEFINE u == t + 1
    <3>1. (7 * m) + u < N /\ u \in 0 .. 6
      BY <1>4, <2>1, <2>3
    <3>2. (7 * m) + u + 1 = j + 2 /\ (8 * m) + u = (8 * m) + t + 1 /\ (8 * m) + u + 1 = (8 * m) + t + 2
      BY <1>4, <2>1
    <3> HIDE DEF u, j
    <3>3. P[(7 * m) + u + 1] = Shared(Sep(text, (8 * m) + u), Sep(text, (8 * m) + u + 1), u)
      BY <1>1, <1>4, <3>1
    <3> QED  BY <3>2, <3>3 DEF u, S
  <2> HIDE DEF a, b, c, j, x
  <2>8. SeptetAt(P, 7 * i) = Joint(P[j + 1], x, 7 - t)
    <3>1. j < Len(P)
      BY <1>1, <2>3
    <3>2. DOMAIN P = 1 .. Len(P) /\ Len(P) \in Nat
      BY <1>1
    <3> QED  BY <1>4, <2>2, <3>1, <3>2, SeptetAtIs, Zenon DEF x
  <2>9. Unpacked(P, i)
          = IF 7 - t > 1 /\ j + 1 < Len(P)
              THEN Low(P[j + 1], 7 - t) + High(P[j + 2], 8 - (7 - t)) ELSE Low(P[j + 1], 7 - t)
    BY <1>4, <2>2, UnpackedIs, Zenon
  <2>10. CASE t < 6
    <3>1. 7 - t > 1 /\ j + 1 < Len(P) /\ 8 - (7 - t) = t + 1 /\ t \in 0 .. 5
      BY <1>1, <2>1, <2>3, <2>10
    <3>2. x = Shared(b, c, t + 1) /\ P[j + 2] = Shared(b, c, t + 1)
      BY <2>7, <2>10, <3>1 DEF x
    <3>3. SeptetAt(P, 7 * i) = Joint(Shared(a, b, t), Shared(b, c, t + 1), 7 - t)
      BY <2>6, <2>8, <3>2
    <3>4. Unpacked(P, i) = Low(Shared(a, b, t), 7 - t) + High(Shared(b, c, t + 1), t + 1)
      BY <2>6, <2>9, <3>1, <3>2, Zenon
    <3>5. SeptetAt(P, 7 * i) = b /\ Unpacked(P, i) = b
      <4>1. /\ Low(Shared(a, b, t), 7 - t) + High(Shared(b, c, t + 1), t + 1) = b
            /\ Joint(Shared(a, b, t), Shared(b, c, t + 1), 7 - t) = b
        BY <2>4, <3>1, MiddleBack
      <4> QED  BY <3>3, <3>4, <4>1, Zenon
    <3> QED  BY <2>2, <3>5 DEF b, S, P
  <2>11. CASE t = 6
    <3>1. ~(7 - t > 1) /\ 7 - t = 1
      BY <2>11
    <3>2. SeptetAt(P, 7 * i) = Joint(Shared(a, b, 6), x, 1)
      BY <2>6, <2>8, <2>11, <3>1
    <3>3. Unpacked(P, i) = Low(Shared(a, b, 6), 1)
      BY <2>6, <2>9, <2>11, <3>1
    <3>4. SeptetAt(P, 7 * i) = b /\ Unpacked(P, i) = b
      BY <2>4, <2>5, <3>2, <3>3, LastBack, Zenon
    <3> QED  BY <2>2, <3>4 DEF b, S, P
  <2> QED  BY <2>1, <2>10, <2>11
<1> QED  BY <1>4, <1>6, <1>7

\* at_gsm7_decode undoes at_gsm7_encode.
LEMMA DecodesBack ==
  ASSUME NEW text, Encodable(text), NEW sz \in Nat, OctetsFor(Len(text)) <= sz,
         NEW osz \in Nat, Len(text) + 1 <= osz
  PROVE  at_gsm7_decode(at_gsm7_encode(text, sz).out, Len(text), osz) = Gsm7("AT_GSM7_OK", text)
<1> DEFINE n == Len(text)
<1>1. text \in Seq(Nat) /\ n \in Nat
  <2>1. text \in Seq(Nat)
    BY Zenon DEF Encodable
  <2> QED  BY <2>1
<1>2. at_gsm7_encode(text, sz).out = Packed(text)
  BY EncodeIs DEF Gsm7
<1>3. at_gsm7_decode(Packed(text), n, osz)
        = Gsm7("AT_GSM7_OK", [i \in 1 .. n |-> gsm7_septet_to_ascii(Unpacked(Packed(text), i - 1))])
  BY <1>1, DecodeIs
<1>4. ASSUME NEW i \in 1 .. n PROVE gsm7_septet_to_ascii(Unpacked(Packed(text), i - 1)) = text[i]
  <2>1. i - 1 \in 0 .. Len(text) - 1 /\ i \in DOMAIN text /\ i = (i - 1) + 1
    BY <1>1
  <2>2. text[i] \in Nat /\ gsm7_char_to_septet(text[i]) # NoSeptet
    BY <1>1, <2>1 DEF Encodable, at_gsm7_is_valid
  <2>3. Unpacked(Packed(text), i - 1) = Sep(text, i - 1)
    BY <2>1, SeptetsBack
  <2>4. Sep(text, i - 1) = gsm7_char_to_septet(text[i])
    BY <2>1 DEF Sep
  <2> QED  BY <2>2, <2>3, <2>4, SeptetIs
<1>5. [i \in 1 .. n |-> gsm7_septet_to_ascii(Unpacked(Packed(text), i - 1))] = text
  <2>1. text = [i \in 1 .. n |-> text[i]]
    BY <1>1
  <2>2. [i \in 1 .. n |-> gsm7_septet_to_ascii(Unpacked(Packed(text), i - 1))] = [i \in 1 .. n |-> text[i]]
    BY <1>4, Zenon
  <2> QED  BY <2>1, <2>2, Zenon
<1> QED  BY <1>2, <1>3, <1>5

-----------------------------------------------------------------------------
(* The PDU of a message of one part.                                       *)

LEMMA MinOfTwo ==
  ASSUME NEW a \in Int, NEW b \in Int
  PROVE  Min({a, b}) = IF a <= b THEN a ELSE b
<1>1. \E x \in {a, b} : \A y \in {a, b} : x <= y
  BY DEF Min
<1>2. Min({a, b}) \in {a, b} /\ \A y \in {a, b} : Min({a, b}) <= y
  <2> DEFINE S == {a, b}
  <2>1. \E x \in S : \A y \in S : x <= y
    BY <1>1
  <2> HIDE DEF S
  <2>2. Min(S) \in S /\ \A y \in S : Min(S) <= y
    BY <2>1, Zenon DEF Min
  <2> QED  BY <2>2 DEF S
<1> QED  BY <1>2

\* A concatenation, by its octets.
LEMMA Joined ==
  ASSUME NEW s \in Seq(Nat), NEW t \in Seq(Nat)
  PROVE  /\ s \o t \in Seq(Nat) /\ Len(s \o t) = Len(s) + Len(t)
         /\ Len(s) \in Nat /\ Len(t) \in Nat
         /\ \A k \in 1 .. Len(s) : (s \o t)[k] = s[k]
         /\ \A k \in 1 .. Len(t) : (s \o t)[Len(s) + k] = t[k]
<1>1. s \o t \in Seq(Nat) /\ Len(s \o t) = Len(s) + Len(t) /\ Len(s) \in Nat /\ Len(t) \in Nat
      /\ \A k \in 1 .. Len(s) + Len(t) : (s \o t)[k] = IF k <= Len(s) THEN s[k] ELSE t[k - Len(s)]
  BY ConcatProperties
<1>2. ASSUME NEW k \in 1 .. Len(s) PROVE (s \o t)[k] = s[k]
  BY <1>1
<1>3. ASSUME NEW k \in 1 .. Len(t) PROVE (s \o t)[Len(s) + k] = t[k]
  <2> DEFINE j == Len(s) + k
             m == Len(s)
  <2>1. j \in 1 .. Len(s) + Len(t) /\ ~(j <= Len(s)) /\ j - Len(s) = k
    BY <1>1
  <2> HIDE DEF j
  <2>2. (s \o t)[j] = t[j - Len(s)]
    BY <1>1, <2>1
  <2> QED  BY <2>1, <2>2 DEF j
<1> QED  BY <1>1, <1>2, <1>3

\* Octet k of the digits d of a number.
HalfOf(d, i) == IF i <= Len(d) THEN (d[i] - 48) % 16 ELSE 15
Halves(d) == [k \in 1 .. (Len(d) + 1) \div 2 |-> (HalfOf(d, 2 * k) * 16) + HalfOf(d, (2 * k) - 1)]

LEMMA HalvesTyped ==
  ASSUME NEW d \in Seq(Nat)
  PROVE  /\ Halves(d) \in Seq(Nat) /\ Len(Halves(d)) = (Len(d) + 1) \div 2 /\ Len(d) \in Nat
         /\ \A i \in Nat \ {0} : HalfOf(d, i) \in 0 .. 15
<1>1. Len(d) \in Nat /\ \A i \in 1 .. Len(d) : d[i] \in Nat
  OBVIOUS
<1>2. ASSUME NEW i \in Nat \ {0} PROVE HalfOf(d, i) \in 0 .. 15
  <2>1. CASE i <= Len(d)
    <3> DEFINE e == d[i]
    <3>1. e \in Nat
      BY <1>1, <2>1
    <3> HIDE DEF e
    <3>2. (e - 48) % 16 \in 0 .. 15
      BY <3>1
    <3> QED  BY <2>1, <3>2 DEF HalfOf, e
  <2>2. CASE ~(i <= Len(d))
    BY <2>2 DEF HalfOf
  <2> QED  BY <2>1, <2>2
<1> DEFINE h == (Len(d) + 1) \div 2
<1>3. h \in Nat
  BY <1>1
<1>4. ASSUME NEW k \in 1 .. h PROVE (HalfOf(d, 2 * k) * 16) + HalfOf(d, (2 * k) - 1) \in Nat
  <2>1. 2 * k \in Nat \ {0} /\ (2 * k) - 1 \in Nat \ {0}
    BY <1>3
  <2> DEFINE x == HalfOf(d, 2 * k)
             y == HalfOf(d, (2 * k) - 1)
  <2>2. x \in 0 .. 15 /\ y \in 0 .. 15
    BY <1>2, <2>1
  <2> HIDE DEF x, y
  <2>3. (x * 16) + y \in Nat
    BY <2>2
  <2> QED  BY <2>3 DEF x, y
<1>5. Halves(d) = [k \in 1 .. h |-> (HalfOf(d, 2 * k) * 16) + HalfOf(d, (2 * k) - 1)]
  BY DEF Halves
<1> HIDE DEF h
<1>6. Halves(d) \in Seq(Nat) /\ DOMAIN Halves(d) = 1 .. h
  BY <1>3, <1>4, <1>5, IsASeq
<1>7. Len(Halves(d)) = h
  BY <1>3, <1>6, LenProperties
<1> QED  BY <1>1, <1>2, <1>6, <1>7 DEF h

\* The digits of a number come back from their octets.
LEMMA DigitsBack ==
  ASSUME NEW d \in Seq(Nat), NEW i \in 1 .. Len(d)
  PROVE  (IF i % 2 = 1 THEN Halves(d)[(i + 1) \div 2] % 16 ELSE Halves(d)[i \div 2] \div 16) = (d[i] - 48) % 16
<1>1. Len(d) \in Nat /\ \A j \in Nat \ {0} : HalfOf(d, j) \in 0 .. 15
  BY HalvesTyped
<1>2. HalfOf(d, i) = (d[i] - 48) % 16 /\ i \in Nat \ {0}
  BY <1>1 DEF HalfOf
<1>3. CASE i % 2 = 1
  <2> DEFINE k == (i + 1) \div 2
  <2>1. k \in 1 .. (Len(d) + 1) \div 2 /\ (2 * k) - 1 = i /\ 2 * k \in Nat \ {0}
    <3> DEFINE n == Len(d)
    <3>1. n \in Nat /\ i \in 1 .. n
      BY <1>1
    <3> HIDE DEF n
    <3>2. k \in 1 .. (n + 1) \div 2 /\ (2 * k) - 1 = i /\ 2 * k \in Nat \ {0}
      BY <1>3, <3>1
    <3> QED  BY <3>2 DEF n
  <2> HIDE DEF k
  <2>2. Halves(d)[k] = (HalfOf(d, 2 * k) * 16) + HalfOf(d, i)
    BY <2>1 DEF Halves
  <2>3. Halves(d)[k] % 16 = HalfOf(d, i)
    <3> DEFINE x == HalfOf(d, 2 * k)
               y == HalfOf(d, i)
    <3>1. x \in 0 .. 15 /\ y \in 0 .. 15
      BY <1>1, <1>2, <2>1
    <3>2. Halves(d)[k] = (x * 16) + y
      BY <2>2
    <3> HIDE DEF x, y
    <3>3. ((x * 16) + y) % 16 = y
      BY <3>1
    <3> QED  BY <3>2, <3>3 DEF y
  <2> QED  BY <1>2, <1>3, <2>3 DEF k
<1>4. CASE i % 2 # 1
  <2> DEFINE k == i \div 2
  <2>1. k \in 1 .. (Len(d) + 1) \div 2 /\ 2 * k = i /\ (2 * k) - 1 \in Nat \ {0}
    <3> DEFINE n == Len(d)
    <3>1. n \in Nat /\ i \in 1 .. n
      BY <1>1
    <3> HIDE DEF n
    <3>2. k \in 1 .. (n + 1) \div 2 /\ 2 * k = i /\ (2 * k) - 1 \in Nat \ {0}
      BY <1>4, <3>1
    <3> QED  BY <3>2 DEF n
  <2> HIDE DEF k
  <2>2. Halves(d)[k] = (HalfOf(d, i) * 16) + HalfOf(d, (2 * k) - 1)
    BY <2>1 DEF Halves
  <2>3. Halves(d)[k] \div 16 = HalfOf(d, i)
    <3> DEFINE x == HalfOf(d, i)
               y == HalfOf(d, (2 * k) - 1)
    <3>1. x \in 0 .. 15 /\ y \in 0 .. 15
      BY <1>1, <1>2, <2>1
    <3>2. Halves(d)[k] = (x * 16) + y
      BY <2>2
    <3> HIDE DEF x, y
    <3>3. ((x * 16) + y) \div 16 = x
      BY <3>1
    <3> QED  BY <3>2, <3>3 DEF x
  <2> QED  BY <1>2, <1>4, <2>3 DEF k
<1> QED  BY <1>3, <1>4

LEMMA DigitsOfTyped ==
  ASSUME NEW number \in Seq(Nat)
  PROVE  DigitsOf(number) \in Seq(Nat) /\ Len(DigitsOf(number)) \in Nat
<1>1. CASE number # <<>>
  <2>1. Tail(number) \in Seq(Nat)
    BY <1>1
  <2>2. DigitsOf(number) \in Seq(Nat)
    BY <2>1 DEF DigitsOf
  <2> QED  BY <2>2
<1>2. CASE number = <<>>
  <2>1. DigitsOf(number) = number
    BY <1>2 DEF DigitsOf
  <2> QED  BY <2>1
<1> QED  BY <1>1, <1>2

\* The address is cut to twenty digits.
Cut(number) == SubSeq(DigitsOf(number), 1, Min({20, Len(DigitsOf(number))}))

LEMMA AddressIs ==
  ASSUME NEW number \in Seq(Nat)
  PROVE  /\ encode_address(number) = <<145>> \o Halves(Cut(number))
         /\ Cut(number) \in Seq(Nat) /\ Len(Cut(number)) \in 0 .. 20
         /\ Len(DigitsOf(number)) <= 20 => Cut(number) = DigitsOf(number)
<1>1. encode_address(number) = <<145>> \o Halves(Cut(number))
  BY Zenon DEF encode_address, Halves, HalfOf, Cut
<1> DEFINE d == DigitsOf(number)
           m == Min({20, Len(d)})
<1>2. d \in Seq(Nat) /\ Len(d) \in Nat
  BY DigitsOfTyped
<1>3. m = IF 20 <= Len(d) THEN 20 ELSE Len(d)
  BY <1>2, MinOfTwo
<1> HIDE DEF d, m
<1>4. m \in 0 .. 20 /\ m <= Len(d)
  <2> DEFINE n == Len(d)
  <2>1. n \in Nat /\ m = IF 20 <= n THEN 20 ELSE n
    BY <1>2, <1>3
  <2> HIDE DEF n
  <2>2. m \in 0 .. 20 /\ m <= n
    BY <2>1
  <2> QED  BY <2>2 DEF n
<1>5. SubSeq(d, 1, m) \in Seq(Nat) /\ Len(SubSeq(d, 1, m)) = m
  <2>1. \A k \in 1 .. m : d[k] \in Nat
    BY <1>2, <1>4
  <2>2. Len(SubSeq(d, 1, m)) = IF 1 <= m THEN m - 1 + 1 ELSE 0
    BY <1>2, <1>4, SubSeqProperties
  <2>3. SubSeq(d, 1, m) \in Seq(Nat)
    BY <1>2, <1>4, SubSeqProperties
  <2> QED  BY <1>4, <2>2, <2>3
<1>6. Len(d) <= 20 => SubSeq(d, 1, m) = d
  <2> SUFFICES ASSUME Len(d) <= 20 PROVE SubSeq(d, 1, m) = d
    OBVIOUS
  <2>1. m = Len(d)
    <3> DEFINE n == Len(d)
    <3>1. n \in Nat /\ n <= 20 /\ m = IF 20 <= n THEN 20 ELSE n
      BY <1>2, <1>3
    <3> HIDE DEF n
    <3>2. m = n
      BY <3>1
    <3> QED  BY <3>2 DEF n
  <2> QED  BY <1>2, <2>1, SubSeqFull
<1>7. Cut(number) = SubSeq(d, 1, m)
  BY DEF Cut, d, m
<1> QED  BY <1>1, <1>4, <1>5, <1>6, <1>7 DEF d

LEMMA SmscTyped ==
  ASSUME NEW smsc \in Seq(Nat)
  PROVE  Smsc(smsc) \in Seq(Nat) /\ Len(Smsc(smsc)) \in 1 .. 12 /\ Smsc(smsc)[1] = Len(Smsc(smsc)) - 1
<1>1. CASE smsc = <<>>
  BY <1>1 DEF Smsc
<1>2. CASE smsc # <<>>
  <2> DEFINE H == Halves(Cut(smsc))
             A == <<145>> \o H
             B == <<Len(A)>>
  <2>1. Smsc(smsc) = B \o A
    BY <1>2, AddressIs DEF Smsc
  <2>2. H \in Seq(Nat) /\ Len(H) \in 0 .. 10
    <3> DEFINE n == Len(Cut(smsc))
    <3>1. H \in Seq(Nat) /\ Len(H) = (n + 1) \div 2 /\ n \in 0 .. 20
      BY AddressIs, HalvesTyped
    <3> HIDE DEF n, H
    <3> QED  BY <3>1
  <2> HIDE DEF H
  <2>3. A \in Seq(Nat) /\ Len(A) = 1 + Len(H)
    BY <2>2
  <2> HIDE DEF A
  <2>4. B \in Seq(Nat) /\ Len(B) = 1 /\ B[1] = Len(A)
    BY <2>2, <2>3
  <2> HIDE DEF B
  <2>5. B \o A \in Seq(Nat) /\ Len(B \o A) = 1 + Len(A) /\ (B \o A)[1] = Len(A)
    <3>1. B \o A \in Seq(Nat) /\ Len(B \o A) = Len(B) + Len(A) /\ \A k \in 1 .. Len(B) : (B \o A)[k] = B[k]
      BY <2>3, <2>4, Joined
    <3>2. 1 \in 1 .. Len(B)
      BY <2>4
    <3> QED  BY <2>4, <3>1, <3>2
  <2> DEFINE n == Len(A)
             m == Len(H)
             X == Smsc(smsc)
             l == Len(X)
  <2>6. n = 1 + m /\ m \in 0 .. 10
    BY <2>2, <2>3
  <2>7. X[1] = n /\ l = 1 + n /\ X \in Seq(Nat)
    BY <2>1, <2>5
  <2> HIDE DEF n, m, X, l
  <2>8. l \in 1 .. 12 /\ X[1] = l - 1
    BY <2>6, <2>7
  <2> QED  BY <2>7, <2>8 DEF X, l
<1> QED  BY <1>1, <1>2

\* The octets of the PDU: service centre, header, number, and the text.
Octets(S, D, n, P) == S \o <<1, 0>> \o (<<Len(D)>> \o (<<145>> \o Halves(D))) \o <<0, 0>> \o <<n>> \o P

\* Where each of them is.
LaidOut(O, S, D, n, P) ==
  LET s == Len(S)
      h == Len(Halves(D))
  IN  /\ O \in Seq(Nat) /\ Len(O) = s + h + 7 + Len(P)
      /\ s \in Nat /\ h \in Nat /\ Len(P) \in Nat /\ Len(D) \in Nat
      /\ s > 0 => O[1] = S[1]
      /\ O[s + 1] = 1 /\ O[s + 3] = Len(D)
      /\ \A k \in 1 .. h : O[s + 4 + k] = Halves(D)[k]
      /\ O[s + h + 7] = n
      /\ \A k \in 1 .. Len(P) : O[s + h + 7 + k] = P[k]

LEMMA Layout ==
  ASSUME NEW S \in Seq(Nat), NEW D \in Seq(Nat), NEW n \in Nat, NEW P \in Seq(Nat)
  PROVE  LaidOut(Octets(S, D, n, P), S, D, n, P)
<1> DEFINE s == Len(S)
           h == Len(Halves(D))
           O == Octets(S, D, n, P)
<1> DEFINE H == Halves(D)
           H1 == <<145>> \o H
           D0 == <<Len(D)>>
           Dest == D0 \o H1
           T0 == <<1, 0>>
           Z == <<0, 0>>
           U == <<n>>
           E1 == S \o T0
           E2 == E1 \o Dest
           E3 == E2 \o Z
           E4 == E3 \o U
           E5 == E4 \o P
<1>0. H \in Seq(Nat) /\ Len(D) \in Nat /\ s \in Nat /\ h = Len(H) /\ h \in Nat /\ Len(P) \in Nat /\ s = Len(S)
  BY HalvesTyped
<1>a. O = E5
  BY DEF Octets
<1> HIDE DEF H, s, h, O
<1>1. H1 \in Seq(Nat) /\ Len(H1) = 1 + h /\ \A k \in 1 .. h : H1[1 + k] = H[k]
  <2>1. <<145>> \in Seq(Nat) /\ Len(<<145>>) = 1
    OBVIOUS
  <2> QED  BY <1>0, <2>1, Joined
<1> HIDE DEF H1
<1>2. D0 \in Seq(Nat) /\ Len(D0) = 1 /\ D0[1] = Len(D)
  BY <1>0
<1> HIDE DEF D0
<1>3. /\ Dest \in Seq(Nat) /\ Len(Dest) = 2 + h /\ Dest[1] = Len(D)
      /\ \A k \in 1 .. h : Dest[2 + k] = H[k]
  <2>1. Dest \in Seq(Nat) /\ Len(Dest) = Len(D0) + Len(H1)
        /\ (\A k \in 1 .. Len(D0) : Dest[k] = D0[k]) /\ \A k \in 1 .. Len(H1) : Dest[Len(D0) + k] = H1[k]
    BY <1>1, <1>2, Joined
  <2> HIDE DEF Dest
  <2>2. Dest[1] = Len(D) /\ Len(Dest) = 2 + h
    BY <1>0, <1>1, <1>2, <2>1
  <2>3. ASSUME NEW k \in 1 .. h PROVE Dest[2 + k] = H[k]
    <3> DEFINE j == 1 + k
    <3>1. j \in 1 .. Len(H1) /\ Len(D0) + j = 2 + k
      BY <1>0, <1>1, <1>2
    <3>2. H1[j] = H[k]
      BY <1>1
    <3> HIDE DEF j
    <3> QED  BY <2>1, <3>1, <3>2
  <2> QED  BY <2>1, <2>2, <2>3
<1> HIDE DEF Dest
<1>4. T0 \in Seq(Nat) /\ Len(T0) = 2 /\ T0[1] = 1 /\ Z \in Seq(Nat) /\ Len(Z) = 2
      /\ U \in Seq(Nat) /\ Len(U) = 1 /\ U[1] = n
  OBVIOUS
<1> HIDE DEF T0, Z, U
<1>5. /\ E1 \in Seq(Nat) /\ Len(E1) = s + 2 /\ (\A k \in 1 .. s : E1[k] = S[k]) /\ E1[s + 1] = 1
  <2>1. E1 \in Seq(Nat) /\ Len(E1) = Len(S) + Len(T0)
        /\ (\A k \in 1 .. Len(S) : E1[k] = S[k]) /\ \A k \in 1 .. Len(T0) : E1[Len(S) + k] = T0[k]
    BY <1>4, Joined
  <2> HIDE DEF E1
  <2> QED  BY <1>0, <1>4, <2>1
<1> HIDE DEF E1
<1>6. /\ E2 \in Seq(Nat) /\ Len(E2) = s + 4 + h /\ (\A k \in 1 .. s + 2 : E2[k] = E1[k])
      /\ E2[s + 3] = Len(D) /\ \A k \in 1 .. h : E2[s + 4 + k] = H[k]
  <2>1. E2 \in Seq(Nat) /\ Len(E2) = Len(E1) + Len(Dest)
        /\ (\A k \in 1 .. Len(E1) : E2[k] = E1[k]) /\ \A k \in 1 .. Len(Dest) : E2[Len(E1) + k] = Dest[k]
    BY <1>3, <1>5, Joined
  <2> HIDE DEF E2
  <2>2. Len(E2) = s + 4 + h /\ \A k \in 1 .. s + 2 : E2[k] = E1[k]
    BY <1>0, <1>3, <1>5, <2>1
  <2>3. E2[s + 3] = Len(D)
    <3>1. 1 \in 1 .. Len(Dest) /\ Len(E1) + 1 = s + 3
      BY <1>0, <1>3, <1>5
    <3> QED  BY <1>3, <2>1, <3>1
  <2>4. ASSUME NEW k \in 1 .. h PROVE E2[s + 4 + k] = H[k]
    <3> DEFINE j == 2 + k
    <3>1. j \in 1 .. Len(Dest) /\ Len(E1) + j = s + 4 + k
      BY <1>0, <1>3, <1>5
    <3>2. Dest[j] = H[k]
      BY <1>3
    <3> HIDE DEF j
    <3> QED  BY <2>1, <3>1, <3>2
  <2> QED  BY <2>1, <2>2, <2>3, <2>4
<1> HIDE DEF E2
<1>7. E3 \in Seq(Nat) /\ Len(E3) = s + h + 6 /\ \A k \in 1 .. s + 4 + h : E3[k] = E2[k]
  <2>1. E3 \in Seq(Nat) /\ Len(E3) = Len(E2) + Len(Z) /\ \A k \in 1 .. Len(E2) : E3[k] = E2[k]
    BY <1>4, <1>6, Joined
  <2> HIDE DEF E3
  <2> QED  BY <1>0, <1>4, <1>6, <2>1
<1> HIDE DEF E3
<1>8. /\ E4 \in Seq(Nat) /\ Len(E4) = s + h + 7 /\ E4[s + h + 7] = n
      /\ \A k \in 1 .. s + h + 6 : E4[k] = E3[k]
  <2>1. E4 \in Seq(Nat) /\ Len(E4) = Len(E3) + Len(U)
        /\ (\A k \in 1 .. Len(E3) : E4[k] = E3[k]) /\ \A k \in 1 .. Len(U) : E4[Len(E3) + k] = U[k]
    BY <1>4, <1>7, Joined
  <2> HIDE DEF E4
  <2>2. 1 \in 1 .. Len(U) /\ Len(E3) + 1 = s + h + 7
    BY <1>0, <1>4, <1>7
  <2>3. E4[Len(E3) + 1] = n
    BY <1>4, <2>1, <2>2
  <2> QED  BY <1>0, <1>4, <1>7, <2>1, <2>2, <2>3
<1> HIDE DEF E4
<1>9. /\ E5 \in Seq(Nat) /\ Len(E5) = s + h + 7 + Len(P)
      /\ (\A k \in 1 .. s + h + 7 : E5[k] = E4[k]) /\ \A k \in 1 .. Len(P) : E5[s + h + 7 + k] = P[k]
  <2>1. E5 \in Seq(Nat) /\ Len(E5) = Len(E4) + Len(P)
        /\ (\A k \in 1 .. Len(E4) : E5[k] = E4[k]) /\ \A k \in 1 .. Len(P) : E5[Len(E4) + k] = P[k]
    BY <1>8, Joined
  <2> HIDE DEF E5
  <2> QED  BY <1>0, <1>8, <2>1
<1> HIDE DEF E5
<1>10. \A k \in 1 .. s + 4 + h : E5[k] = E2[k]
  <2> SUFFICES ASSUME NEW k \in 1 .. s + 4 + h PROVE E5[k] = E2[k]
    OBVIOUS
  <2>1. k \in 1 .. s + h + 7 /\ k \in 1 .. s + h + 6
    BY <1>0
  <2> QED  BY <1>7, <1>8, <1>9, <2>1
<1>11. (s > 0 => E5[1] = S[1]) /\ E5[s + 1] = 1
  <2>1. s + 1 \in 1 .. s + 4 + h /\ s + 1 \in 1 .. s + 2 /\ 1 \in 1 .. s + 4 + h /\ 1 \in 1 .. s + 2
        /\ (s > 0 => 1 \in 1 .. s)
    BY <1>0
  <2>2. E5[s + 1] = 1
    BY <1>5, <1>6, <1>10, <2>1, Zenon
  <2>3. s > 0 => E5[1] = S[1]
    <3>1. E5[1] = E2[1] /\ E2[1] = E1[1]
      BY <1>6, <1>10, <2>1
    <3>2. s > 0 => E1[1] = S[1]
      BY <1>5, <2>1
    <3> QED  BY <3>1, <3>2
  <2> QED  BY <2>2, <2>3
<1>12. E5[s + 3] = Len(D) /\ \A k \in 1 .. h : E5[s + 4 + k] = H[k]
  <2>1. s + 3 \in 1 .. s + 4 + h /\ \A k \in 1 .. h : s + 4 + k \in 1 .. s + 4 + h
    BY <1>0
  <2> QED  BY <1>6, <1>10, <2>1
<1>13. E5[s + h + 7] = n
  <2>1. s + h + 7 \in 1 .. s + h + 7
    BY <1>0
  <2> QED  BY <1>8, <1>9, <2>1
<1>14. /\ O \in Seq(Nat) /\ Len(O) = s + h + 7 + Len(P)
       /\ s \in Nat /\ h \in Nat /\ Len(P) \in Nat /\ Len(D) \in Nat
       /\ s > 0 => O[1] = S[1]
       /\ O[s + 1] = 1 /\ O[s + 3] = Len(D)
       /\ \A k \in 1 .. h : O[s + 4 + k] = Halves(D)[k]
       /\ O[s + h + 7] = n
       /\ \A k \in 1 .. Len(P) : O[s + h + 7 + k] = P[k]
  BY <1>a, <1>0, <1>9, <1>11, <1>12, <1>13 DEF H
<1> QED  BY <1>14, Zenon DEF LaidOut, s, h, O

\* What is sent when the builder accepts: the octets, all of them.
LEMMA PduIs ==
  ASSUME NEW smsc \in Seq(Nat), NEW number \in Seq(Nat), NEW text \in Seq(Nat), NEW dirty,
         NEW pdu, pdu = at_gsm_cmgs_pdu(smsc, number, text, dirty), pdu.rc = "AT_OK"
  PROVE  LET O == Octets(Smsc(smsc), DigitsOf(number), Len(text), Packed(text))
         IN  /\ Encodable(text) /\ at_gsm7_encode(text, 140).out = Packed(text)
             /\ Len(DigitsOf(number)) <= 20 /\ Len(O) <= 200
             /\ pdu.tpdu_len = Len(O) - (1 + O[1]) /\ pdu.body = O
<1> DEFINE ud == at_gsm7_encode(text, 140)
           D == DigitsOf(number)
           n == Len(text)
           O == Octets(Smsc(smsc), D, n, Packed(text))
<1>0. "AT_ERR_PARAM" # "AT_OK" /\ "AT_GSM7_ERR_TOO_LONG" # "AT_GSM7_OK"
      /\ "AT_GSM7_ERR_BUF_FULL" # "AT_GSM7_OK" /\ "AT_GSM7_ERR_CHAR" # "AT_GSM7_OK"
  OBVIOUS
<1>1. ~(Len(D) > 20) /\ ud.rc = "AT_GSM7_OK" /\ pdu # RefusedPdu
  <2>1. pdu # RefusedPdu
    BY <1>0 DEF RefusedPdu
  <2> QED  BY <2>1, Zenon DEF at_gsm_cmgs_pdu
<1>2. pdu = Pdu(Smsc(smsc) \o <<1, 0>> \o Destination(number) \o <<0, 0>> \o <<n>> \o ud.out, 401, dirty)
  BY <1>1, Zenon DEF at_gsm_cmgs_pdu
<1>3. n \in Nat /\ OctetsFor(n) \in Nat
  BY DEF OctetsFor
<1>4. Encodable(text)
  <2>1. ~(n > TextMax) /\ ~(n <= TextMax /\ OctetsFor(n) > 140) /\ at_gsm7_is_valid(text)
    <3>1. ~(n > TextMax)
      <4> SUFFICES ASSUME n > TextMax PROVE FALSE
        OBVIOUS
      <4>1. ~(n <= TextMax)
        BY <1>3 DEF TextMax
      <4>2. ud = Gsm7("AT_GSM7_ERR_TOO_LONG", <<>>)
        BY <4>1 DEF at_gsm7_encode
      <4> QED  BY <1>0, <1>1, <4>2 DEF Gsm7
    <3> HIDE DEF ud
    <3>2. n <= TextMax
      BY <1>3, <3>1 DEF TextMax
    <3>3. ~(OctetsFor(n) > 140)
      <4> SUFFICES ASSUME OctetsFor(n) > 140 PROVE FALSE
        OBVIOUS
      <4>1. ~(OctetsFor(n) <= 140)
        BY <1>3
      <4>2. ud = Gsm7("AT_GSM7_ERR_BUF_FULL", <<>>)
        BY <3>1, <3>2, <4>1 DEF at_gsm7_encode, ud
      <4> QED  BY <1>0, <1>1, <4>2 DEF Gsm7
    <3>4. at_gsm7_is_valid(text)
      <4> SUFFICES ASSUME ~at_gsm7_is_valid(text) PROVE FALSE
        OBVIOUS
      <4>1. OctetsFor(n) <= 140
        BY <1>3, <3>3
      <4>2. ud = Gsm7("AT_GSM7_ERR_CHAR", <<>>)
        BY <3>1, <3>2, <3>3, <4>1 DEF at_gsm7_encode, ud
      <4> QED  BY <1>0, <1>1, <4>2 DEF Gsm7
    <3> QED  BY <3>1, <3>3, <3>4
  <2>2. Len(text) <= 160
    BY <1>3, <2>1 DEF TextMax
  <2> QED  BY <2>1, <2>2 DEF Encodable
<1>5. OctetsFor(n) \in 0 .. 140 /\ Len(Packed(text)) = OctetsFor(n) /\ Packed(text) \in Seq(Nat)
  BY <1>4, PackedIs
<1>6. ud.out = Packed(text)
  <2>1. OctetsFor(Len(text)) <= 140
    <3> DEFINE N == OctetsFor(n)
    <3>1. N \in 0 .. 140
      BY <1>5
    <3> HIDE DEF N
    <3>2. N <= 140
      BY <3>1
    <3> QED  BY <3>2 DEF N
  <2> QED  BY <1>4, <2>1, EncodeIs DEF Gsm7
<1>7. D \in Seq(Nat) /\ Len(D) \in 0 .. 20 /\ encode_address(number) = <<145>> \o Halves(D)
  <2>1. D \in Seq(Nat) /\ Len(D) \in Nat
    BY DigitsOfTyped
  <2> HIDE DEF D
  <2>2. Len(D) <= 20
    BY <1>1, <2>1
  <2>3. Cut(number) = D
    BY <2>2, AddressIs DEF D
  <2>4. encode_address(number) = <<145>> \o Halves(D)
    BY <2>3, AddressIs
  <2> DEFINE l == Len(D)
  <2>5. l \in Nat /\ l <= 20
    BY <2>1, <2>2
  <2> HIDE DEF l
  <2>6. l \in 0 .. 20
    BY <2>5
  <2> QED  BY <2>1, <2>4, <2>6, Zenon DEF l
<1>8. pdu = Pdu(O, 401, dirty)
  BY <1>2, <1>6, <1>7, Zenon DEF Octets, Destination
<1> DEFINE s == Len(Smsc(smsc))
           h == Len(Halves(D))
<1>9. s \in 1 .. 12 /\ Smsc(smsc) \in Seq(Nat)
  BY SmscTyped
<1>10. O \in Seq(Nat) /\ Len(O) = s + h + 7 + Len(Packed(text))
  <2> DEFINE S == Smsc(smsc)
             P == Packed(text)
  <2>1. S \in Seq(Nat) /\ P \in Seq(Nat) /\ D \in Seq(Nat) /\ n \in Nat
    BY <1>3, <1>5, <1>7, <1>9
  <2> HIDE DEF D, n, S, P
  <2>2. Octets(S, D, n, P) \in Seq(Nat) /\ Len(Octets(S, D, n, P)) = Len(S) + Len(Halves(D)) + 7 + Len(P)
    <3>1. LaidOut(Octets(S, D, n, P), S, D, n, P)
      BY <2>1, Layout
    <3> QED  BY <3>1, Zenon DEF LaidOut
  <2> QED  BY <2>2 DEF S, P
<1>11. Len(O) \in 0 .. 200
  <2>1. h = (Len(D) + 1) \div 2
    BY <1>7, HalvesTyped
  <2> DEFINE N == OctetsFor(n)
             l == Len(D)
             lo == Len(O)
  <2>2. lo = s + h + 7 + N /\ h = (l + 1) \div 2 /\ l \in 0 .. 20 /\ N \in 0 .. 140 /\ s \in 1 .. 12
    BY <1>5, <1>7, <1>9, <1>10, <2>1
  <2> HIDE DEF N, l, lo, s, h
  <2>3. lo \in 0 .. 200
    BY <2>2
  <2> QED  BY <2>3 DEF lo
<1>12. pdu.tpdu_len = Len(O) - (1 + O[1]) /\ pdu.body = hex_encode(O, 401)
  <2> HIDE DEF O
  <2> QED  BY <1>8 DEF Pdu
<1>13. hex_encode(O, 401) = O
  <2> HIDE DEF O
  <2> DEFINE l == Len(O)
  <2>1. l \in 0 .. 200 /\ (401 - 1) \div 2 = 200
    BY <1>11
  <2> HIDE DEF l
  <2>2. Min({l, 200}) = l
    <3>1. l \in Int /\ 200 \in Int /\ l <= 200
      BY <2>1
    <3> QED  BY <3>1, MinOfTwo
  <2>3. hex_encode(O, 401) = SubSeq(O, 1, Min({l, (401 - 1) \div 2}))
    BY DEF hex_encode, l
  <2>4. hex_encode(O, 401) = SubSeq(O, 1, l)
    BY <2>1, <2>2, <2>3
  <2> QED  BY <1>10, <2>4, SubSeqFull DEF l
<1>14. Len(D) <= 20 /\ Len(O) <= 200
  <2> DEFINE l == Len(D)
             lo == Len(O)
  <2>1. l \in 0 .. 20 /\ lo \in 0 .. 200
    BY <1>7, <1>11
  <2> HIDE DEF l, lo
  <2>2. l <= 20 /\ lo <= 200
    BY <2>1
  <2> QED  BY <2>2 DEF l, lo
<1> QED  BY <1>4, <1>6, <1>12, <1>13, <1>14

\* What a receiver makes of the octets after the service centre's.
ReadsAs(O, D, n, P) ==
  LET T == SubSeq(O, 2 + O[1], Len(O))
      t == ReadTpdu(T)
  IN  /\ Len(T) = Len(O) - (1 + O[1])
      /\ t.number = [i \in 1 .. Len(D) |-> (D[i] - 48) % 16]
      /\ t.header = <<>> /\ t.octets = Len(P) /\ t.udl = n
      /\ t.septets = [i \in 1 .. n |-> SeptetAt(P, 7 * (i - 1))]
      /\ SubSeq(T, Len(T) - Len(P) + 1, Len(T)) = P

LEMMA Received ==
  ASSUME NEW S \in Seq(Nat), NEW D \in Seq(Nat), NEW n \in Nat, NEW P \in Seq(Nat), Len(S) > 0,
         S[1] = Len(S) - 1
  PROVE  ReadsAs(Octets(S, D, n, P), D, n, P)
<1> DEFINE O == Octets(S, D, n, P)
           s == Len(S)
           H == Halves(D)
           h == Len(H)
           l == Len(D)
           p == Len(P)
           T == SubSeq(O, 2 + O[1], Len(O))
           t == ReadTpdu(T)
<1>1. H \in Seq(Nat) /\ h = (l + 1) \div 2 /\ l \in Nat
  BY HalvesTyped
<1>2. s = Len(S) /\ h = Len(Halves(D)) /\ O = Octets(S, D, n, P) /\ s > 0 /\ S[1] = s - 1 /\ p = Len(P)
  OBVIOUS
<1> HIDE DEF O, s, h
<1>3. /\ O \in Seq(Nat) /\ Len(O) = s + h + 7 + Len(P)
      /\ s \in Nat /\ h \in Nat /\ Len(P) \in Nat /\ Len(D) \in Nat
      /\ s > 0 => O[1] = S[1]
      /\ O[s + 1] = 1 /\ O[s + 3] = Len(D)
      /\ \A k \in 1 .. h : O[s + 4 + k] = Halves(D)[k]
      /\ O[s + h + 7] = n
      /\ \A k \in 1 .. Len(P) : O[s + h + 7 + k] = P[k]
  <2>1. LaidOut(Octets(S, D, n, P), S, D, n, P)
    BY Layout
  <2> QED  BY <2>1, Zenon DEF LaidOut, O, s, h
<1>4. O[1] = s - 1
  BY <1>2, <1>3
<1> HIDE DEF H, l, p
<1> DEFINE m == h + 7 + p
<1>5. p \in Nat /\ m \in Nat
  BY <1>2, <1>3
<1>6. T \in Seq(Nat) /\ Len(T) = m /\ \A k \in 1 .. m : T[k] = O[s + k]
  <2>1. 2 + O[1] = s + 1 /\ Len(O) = s + m
    BY <1>2, <1>3, <1>4
  <2>2. T = SubSeq(O, s + 1, s + m)
    BY <2>1
  <2> HIDE DEF T
  <2>3. \A k \in s + 1 .. s + m : O[k] \in Nat
    <3>1. \A k \in 1 .. Len(O) : O[k] \in Nat
      <4>1. O \in Seq(Nat)
        BY <1>3
      <4> QED  BY <4>1, ElementOfSeq
    <3>2. \A k \in s + 1 .. s + m : k \in 1 .. Len(O)
      BY <1>3, <1>5, <2>1
    <3> QED  BY <3>1, <3>2
  <2> DEFINE a == s + 1
             z == s + m
  <2>4. a \in Int /\ z \in Int
    BY <1>3, <1>5
  <2>5. a <= z /\ z - a + 1 = m /\ \A k \in 1 .. m : a + k - 1 = s + k
    BY <1>3, <1>5
  <2>6. T = SubSeq(O, a, z) /\ \A k \in a .. z : O[k] \in Nat
    BY <2>2, <2>3
  <2> HIDE DEF a, z, m
  <2>7. T \in Seq(Nat) /\ Len(T) = (IF a <= z THEN z - a + 1 ELSE 0)
        /\ \A k \in 1 .. z - a + 1 : T[k] = O[a + k - 1]
    BY <2>4, <2>6, SubSeqProperties
  <2> QED  BY <2>5, <2>7
<1> HIDE DEF T
<1>7. Len(T) = Len(O) - (1 + O[1])
  BY <1>2, <1>3, <1>4, <1>5, <1>6
<1>8. T[1] = 1 /\ T[3] = l
  <2>1. 1 \in 1 .. m /\ 3 \in 1 .. m
    BY <1>3, <1>5
  <2> HIDE DEF m
  <2>2. T[1] = O[s + 1] /\ T[3] = O[s + 3]
    BY <1>6, <2>1
  <2> QED  BY <1>3, <2>2 DEF l
<1>9. \A k \in 1 .. h : T[4 + k] = H[k]
  <2> SUFFICES ASSUME NEW k \in 1 .. h PROVE T[4 + k] = H[k]
    OBVIOUS
  <2>1. 4 + k \in 1 .. m /\ s + (4 + k) = s + 4 + k
    BY <1>3, <1>5
  <2>2. O[s + 4 + k] = H[k]
    BY <1>3 DEF H
  <2> DEFINE j == 4 + k
  <2>3. j \in 1 .. m /\ s + j = s + 4 + k
    BY <2>1
  <2> HIDE DEF m, j
  <2>4. T[j] = O[s + j]
    BY <1>6, <2>3
  <2> QED  BY <2>2, <2>3, <2>4 DEF j
<1>10. T[h + 7] = n
  <2> DEFINE j == h + 7
  <2>1. j \in 1 .. m /\ s + j = s + h + 7
    BY <1>3, <1>5
  <2> HIDE DEF m, j
  <2>2. T[j] = O[s + j]
    BY <1>6, <2>1
  <2> QED  BY <1>3, <2>1, <2>2 DEF j
<1>11. \A k \in 1 .. p : T[h + 7 + k] = P[k]
  <2> SUFFICES ASSUME NEW k \in 1 .. p PROVE T[h + 7 + k] = P[k]
    OBVIOUS
  <2> DEFINE j == h + 7 + k
  <2>1. j \in 1 .. m /\ s + j = s + h + 7 + k
    BY <1>3, <1>5
  <2>2. O[s + h + 7 + k] = P[k]
    BY <1>3 DEF p
  <2> HIDE DEF m, j
  <2>3. T[j] = O[s + j]
    BY <1>6, <2>1
  <2> QED  BY <2>1, <2>2, <2>3 DEF j
\* The fields.
<1>12. SubSeq(T, 5, 4 + h) = H
  <2> DEFINE a == 5
             z == 4 + h
             X == SubSeq(T, a, z)
  <2>1. a \in Int /\ z \in Int /\ z - a + 1 = h /\ \A k \in 1 .. h : a + k - 1 = 4 + k
    BY <1>3
  <2>2. \A k \in a .. z : T[k] \in Nat
    <3>1. \A k \in 1 .. Len(T) : T[k] \in Nat
      BY <1>6
    <3>2. \A k \in a .. z : k \in 1 .. Len(T)
      BY <1>3, <1>5, <1>6
    <3> QED  BY <3>1, <3>2
  <2>3. h = (IF a <= z THEN z - a + 1 ELSE 0)
    BY <1>3
  <2> HIDE DEF a, z
  <2>4. X \in Seq(Nat) /\ Len(X) = (IF a <= z THEN z - a + 1 ELSE 0)
        /\ \A k \in 1 .. z - a + 1 : X[k] = T[a + k - 1]
    BY <2>1, <2>2, SubSeqProperties
  <2> HIDE DEF X
  <2>5. X \in Seq(Nat) /\ Len(X) = h /\ \A k \in 1 .. h : X[k] = H[k]
    BY <1>9, <2>1, <2>3, <2>4
  <2>6. X = H
    BY <1>1, <2>5, SeqEqual DEF h
  <2> QED  BY <2>6 DEF X, a, z
<1>13. SubSeq(T, h + 8, m) = P
  <2> DEFINE a == h + 8
             X == SubSeq(T, a, m)
  <2>1. a \in Int /\ m \in Int /\ m - a + 1 = p /\ \A k \in 1 .. p : a + k - 1 = h + 7 + k
    BY <1>3, <1>5
  <2>2. \A k \in a .. m : T[k] \in Nat
    <3>1. \A k \in 1 .. Len(T) : T[k] \in Nat
      BY <1>6
    <3>2. \A k \in a .. m : k \in 1 .. Len(T)
      BY <1>3, <1>5, <1>6
    <3> QED  BY <3>1, <3>2
  <2>3. p = (IF a <= m THEN m - a + 1 ELSE 0)
    BY <1>3, <1>5
  <2> HIDE DEF a, m
  <2>4. X \in Seq(Nat) /\ Len(X) = (IF a <= m THEN m - a + 1 ELSE 0)
        /\ \A k \in 1 .. m - a + 1 : X[k] = T[a + k - 1]
    <3>1. a \in Int /\ m \in Int
      BY <2>1
    <3> QED  BY <3>1, <2>2, SubSeqProperties, SMTT(30)
  <2> HIDE DEF X
  <2>5. X \in Seq(Nat) /\ Len(X) = p /\ \A k \in 1 .. p : X[k] = P[k]
    BY <1>11, <2>1, <2>3, <2>4
  <2>6. X = P
    BY <2>5, SeqEqual DEF p
  <2> QED  BY <2>6 DEF X, a
\* ReadTpdu
<1> DEFINE digit(i) == IF i % 2 = 1 THEN H[(i + 1) \div 2] % 16 ELSE H[i \div 2] \div 16
<1>14. t = [number |-> [i \in 1 .. l |-> digit(i)], header |-> <<>>, octets |-> Len(P), udl |-> n,
            septets |-> [i \in 1 .. n - 0 |-> SeptetAt(P, 7 * (0 + i - 1))]]
  <2>1. 4 + ((T[3] + 1) \div 2) = 4 + h /\ T[3] = l
    BY <1>1, <1>8
  <2>2. SubSeq(T, 5, 4 + ((T[3] + 1) \div 2)) = H
    BY <1>12, <2>1
  <2>3. T[Len(H) + 7] = n /\ SubSeq(T, Len(H) + 8, Len(T)) = P
    <3> HIDE DEF m
    <3> QED  BY <1>6, <1>10, <1>13 DEF h
  <2>4. T[1] # 65
    BY <1>8
  <2> HIDE DEF m
  <2> QED  BY <2>1, <2>2, <2>3, <2>4, Zenon DEF ReadTpdu
<1>15. [i \in 1 .. l |-> digit(i)] = [i \in 1 .. l |-> (D[i] - 48) % 16]
  <2>1. \A i \in 1 .. l : digit(i) = (D[i] - 48) % 16
    BY DigitsBack DEF H, l
  <2> HIDE DEF digit
  <2> QED  BY <2>1
<1>16. [i \in 1 .. n - 0 |-> SeptetAt(P, 7 * (0 + i - 1))] = [i \in 1 .. n |-> SeptetAt(P, 7 * (i - 1))]
  <2>1. n - 0 = n /\ \A i \in 1 .. n : 0 + i - 1 = i - 1
    OBVIOUS
  <2> QED  BY <2>1
<1>17. SubSeq(T, Len(T) - Len(P) + 1, Len(T)) = P
  <2>1. Len(T) - Len(P) + 1 = h + 8
    BY <1>3, <1>5, <1>6 DEF p
  <2> QED  BY <1>6, <1>13, <2>1
<1> HIDE DEF digit, m, t
<1>18. /\ t.number = [i \in 1 .. l |-> (D[i] - 48) % 16]
       /\ t.header = <<>> /\ t.octets = Len(P) /\ t.udl = n
       /\ t.septets = [i \in 1 .. n |-> SeptetAt(P, 7 * (i - 1))]
  BY <1>14, <1>15, <1>16
<1> QED  BY <1>7, <1>17, <1>18, Zenon DEF ReadsAs, t, T, O, l

\* An accepted message of one part is read back, whatever its texts.
ReadsBackAs(pdu, number, text) ==
  LET T == SubSeq(pdu.body, 2 + pdu.body[1], Len(pdu.body))
      t == ReadTpdu(T)
      ud == SubSeq(T, Len(T) - t.octets + 1, Len(T))
  IN  /\ pdu.tpdu_len = Len(T) /\ t.octets = OctetsFor(t.udl)
      /\ t.number = Dialled(number) /\ t.header = <<>> /\ t.septets = Septets(text)
      /\ at_gsm7_decode(ud, t.udl, t.udl + 1).out = text

LEMMA ReadBack ==
  ASSUME NEW smsc \in Seq(Nat), NEW number \in Seq(Nat), NEW text \in Seq(Nat), NEW dirty,
         NEW pdu, pdu = at_gsm_cmgs_pdu(smsc, number, text, dirty), pdu.rc = "AT_OK"
  PROVE  ReadsBackAs(pdu, number, text)
<1> DEFINE S == Smsc(smsc)
           D == DigitsOf(number)
           n == Len(text)
           P == Packed(text)
           O == Octets(S, D, n, P)
           T == SubSeq(pdu.body, 2 + pdu.body[1], Len(pdu.body))
           t == ReadTpdu(T)
           ud == SubSeq(T, Len(T) - t.octets + 1, Len(T))
<1>1. /\ Encodable(text) /\ at_gsm7_encode(text, 140).out = P
      /\ pdu.tpdu_len = Len(O) - (1 + O[1]) /\ pdu.body = O
  BY PduIs
<1>2. S \in Seq(Nat) /\ Len(S) \in 1 .. 12 /\ S[1] = Len(S) - 1
  BY SmscTyped
<1>3. D \in Seq(Nat) /\ n \in Nat
  BY DigitsOfTyped
<1>4. P \in Seq(Nat) /\ Len(P) = OctetsFor(n) /\ OctetsFor(n) \in 0 .. 140
  BY <1>1, PackedIs
<1> HIDE DEF S, D, n, P, O
<1>5. /\ Len(T) = Len(O) - (1 + O[1])
      /\ t.number = [i \in 1 .. Len(D) |-> (D[i] - 48) % 16]
      /\ t.header = <<>> /\ t.octets = Len(P) /\ t.udl = n
      /\ t.septets = [i \in 1 .. n |-> SeptetAt(P, 7 * (i - 1))]
      /\ SubSeq(T, Len(T) - Len(P) + 1, Len(T)) = P
  <2>1. Len(S) > 0
    <3> DEFINE s == Len(S)
    <3>1. s \in 1 .. 12
      BY <1>2
    <3> HIDE DEF s
    <3>2. s > 0
      BY <3>1
    <3> QED  BY <3>2 DEF s
  <2> DEFINE T0 == SubSeq(O, 2 + O[1], Len(O))
             t0 == ReadTpdu(T0)
  <2>2. /\ Len(T0) = Len(O) - (1 + O[1])
        /\ t0.number = [i \in 1 .. Len(D) |-> (D[i] - 48) % 16]
        /\ t0.header = <<>> /\ t0.octets = Len(P) /\ t0.udl = n
        /\ t0.septets = [i \in 1 .. n |-> SeptetAt(P, 7 * (i - 1))]
        /\ SubSeq(T0, Len(T0) - Len(P) + 1, Len(T0)) = P
    <3>1. ReadsAs(O, D, n, P)
      BY <1>2, <1>3, <1>4, <2>1, Received DEF O
    <3> QED  BY <3>1, Zenon DEF ReadsAs
  <2>3. T = T0 /\ t = t0
    BY <1>1
  <2> HIDE DEF T, T0, t, t0
  <2> QED  BY <2>2, <2>3
<1> HIDE DEF T
<1>6. ud = P /\ pdu.tpdu_len = Len(T) /\ t.octets = OctetsFor(t.udl)
  <2> HIDE DEF t
  <2> QED  BY <1>1, <1>4, <1>5
<1> HIDE DEF ud, t
<1>7. t.number = Dialled(number)
  <2>1. DOMAIN D = 1 .. Len(D)
    BY <1>3
  <2> QED  BY <1>5, <2>1, Zenon DEF Dialled, D
<1>8. t.septets = Septets(text)
  <2>1. DOMAIN text = 1 .. n
    BY DEF n
  <2>2. ASSUME NEW i \in 1 .. n PROVE SeptetAt(P, 7 * (i - 1)) = gsm7_char_to_septet(text[i])
    <3>1. i - 1 \in 0 .. n - 1 /\ (i - 1) + 1 = i
      BY <1>3
    <3>2. SeptetAt(P, 7 * (i - 1)) = Sep(text, i - 1)
      BY <1>1, <3>1, SeptetsBack DEF P, n
    <3> QED  BY <3>1, <3>2 DEF Sep, n
  <2>3. [i \in 1 .. n |-> SeptetAt(P, 7 * (i - 1))] = [i \in 1 .. n |-> gsm7_char_to_septet(text[i])]
    BY <2>2, Zenon
  <2> QED  BY <1>5, <2>1, <2>3, Zenon DEF Septets
<1>9. at_gsm7_decode(ud, t.udl, t.udl + 1).out = text
  <2>1. OctetsFor(n) <= 140 /\ 140 \in Nat /\ n + 1 \in Nat /\ n + 1 <= n + 1
    <3> DEFINE N == OctetsFor(n)
    <3>1. N \in 0 .. 140
      BY <1>4
    <3> HIDE DEF N
    <3>2. N <= 140
      BY <3>1
    <3> QED  BY <1>3, <3>2 DEF N
  <2>2. at_gsm7_decode(P, n, n + 1) = Gsm7("AT_GSM7_OK", text)
    BY <1>1, <2>1, DecodesBack DEF n
  <2> QED  BY <1>5, <1>6, <2>2 DEF Gsm7
<1> QED  BY <1>5, <1>6, <1>7, <1>8, <1>9, Zenon DEF ReadsBackAs, ud, t, T

\* An accepted message of one part says of itself what its PDU holds, and a
\* receiver and at_gsm7_decode read its number and its text back: for every
\* service centre, number and text that at_gsm_cmgs_pdu is given.
THEOREM PduRoundTrip == Spec => []PduReadsBack
<1>1. Init => PduReadsBack
  <2>1. NoSms.kind # "single"
    BY DEF NoSms
  <2> QED  BY <2>1 DEF Init, PduReadsBack
<1>2. PduReadsBack /\ [Next]_vars => PduReadsBack'
  <2> SUFFICES ASSUME PduReadsBack, [Next]_vars PROVE PduReadsBack'
    OBVIOUS
  <2>1. CASE UNCHANGED sms
    BY <2>1 DEF PduReadsBack, Carries, Tpdu
  <2>2. CASE SendPdu
    <3>1. PICK smsc \in Smscs, number \in Numbers, text \in SmsTexts, dirty \in BOOLEAN :
            sms' = [kind |-> "single", smsc |-> smsc, number |-> number, text |-> text,
                    header |-> <<>>, pdu |-> at_gsm_cmgs_pdu(smsc, number, text, dirty)]
      BY <2>2, Zenon DEF SendPdu
    <3>2. smsc \in Seq(Nat) /\ number \in Seq(Nat) /\ text \in Seq(Nat)
      BY TextsAssumption
    <3> DEFINE pdu == at_gsm_cmgs_pdu(smsc, number, text, dirty)
    <3>3. sms'.pdu = pdu /\ sms'.number = number /\ sms'.text = text /\ sms'.header = <<>>
      BY <3>1
    <3> HIDE DEF pdu
    <3> SUFFICES ASSUME sms'.pdu.rc = "AT_OK"
                 PROVE  LET t == ReadTpdu(Tpdu')
                            ud == SubSeq(Tpdu', Len(Tpdu') - t.octets + 1, Len(Tpdu'))
                        IN  /\ sms'.pdu.tpdu_len = Len(Tpdu') /\ t.octets = OctetsFor(t.udl)
                            /\ t.number = Dialled(sms'.number) /\ t.header = sms'.header
                            /\ t.septets = Septets(sms'.text)
                            /\ at_gsm7_decode(ud, t.udl, t.udl + 1).out = sms'.text
      BY Zenon DEF PduReadsBack, Carries
    <3> DEFINE T == SubSeq(pdu.body, 2 + pdu.body[1], Len(pdu.body))
               t == ReadTpdu(T)
               ud == SubSeq(T, Len(T) - t.octets + 1, Len(T))
    <3>4. /\ pdu.tpdu_len = Len(T) /\ t.octets = OctetsFor(t.udl)
          /\ t.number = Dialled(number) /\ t.header = <<>> /\ t.septets = Septets(text)
          /\ at_gsm7_decode(ud, t.udl, t.udl + 1).out = text
      <4>1. ReadsBackAs(pdu, number, text)
        BY <3>2, <3>3, ReadBack DEF pdu
      <4> QED  BY <4>1, Zenon DEF ReadsBackAs
    <3>5. Tpdu' = T
      BY <3>3, Zenon DEF Tpdu
    <3> HIDE DEF T
    <3> QED  BY <3>3, <3>4, <3>5, Zenon
  <2>3. CASE SendPart
    <3>1. sms'.kind = "part"
      BY <2>3 DEF SendPart
    <3> QED  BY <3>1 DEF PduReadsBack
  <2>4. CASE Done
    <3>1. sms'.kind # "single"
      BY <2>4 DEF Done, NoSms
    <3> QED  BY <3>1 DEF PduReadsBack
  <2>5. UNCHANGED sms \/ SendPdu \/ SendPart \/ Done
    BY DEF Next, vars, Build, AppendOne, SendBuilt, Answer, Parse
  <2> QED  BY <2>1, <2>2, <2>3, <2>4, <2>5
<1> QED  BY <1>1, <1>2, PTL DEF Spec
=============================================================================

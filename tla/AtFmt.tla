-------------------------------- MODULE AtFmt --------------------------------
(***************************************************************************)
(* src/include/at_fmt.h: the bounded string builder behind the AB_ macros  *)
(* and the number parser.                                                  *)
(*                                                                         *)
(* Of a buffer being filled only the number of characters in it matters,   *)
(* of a text being parsed its tokens: numbers, commas, quoted strings and  *)
(* words; spaces are left out.                                             *)
(***************************************************************************)
EXTENDS Integers, Sequences

CONSTANTS
  IntMax,   \* INT32_MAX
  UintMax   \* UINT32_MAX; smaller for TLC, whose integers have 32 bits

ASSUME FmtAssumption ==
  IntMax \in Nat /\ UintMax \in Nat /\ IntMax >= 32767 /\ UintMax >= 65535

-----------------------------------------------------------------------------
\* The builder: how many characters it holds, and whether all of them fitted.

AB_INIT == [len |-> 0, ok |-> TRUE]

\* Slip: the last byte is used up.
RoomToEnd(size, len) == size - len
\* Characters that fit before the NUL.
Room(size, len) == size - 1 - len

\* Slip: a text is cut where the buffer ends, and nobody is told.
at__abCuts(size, b, n) ==
  [b EXCEPT !.len = @ + (IF n <= Room(size, b.len) THEN n ELSE Room(size, b.len))]
\* at__ab_char, at__ab_str and at__ab_u32 write until a character does not fit.
at__ab(size, b, n) ==
  IF n <= Room(size, b.len)
    THEN [b EXCEPT !.len = @ + n]
    ELSE [len |-> b.len + Room(size, b.len), ok |-> FALSE]

\* AB_CHAR, AB_STR, AB_U32 with a text of n characters: nothing is appended
\* after one that failed. AB_QSTR is three of them.
AB(size, b, n) == IF b.ok THEN at__ab(size, b, n) ELSE b

Digits(v) ==
  LET count[w \in Nat] == IF w < 10 THEN 1 ELSE 1 + count[w \div 10]
  IN  count[v]

-----------------------------------------------------------------------------
\* The parser. A cursor is the sequence of tokens still to be read.

Num(v)    == [t |-> "num", v |-> v, s |-> ""]
Quoted(n) == [t |-> "quoted", v |-> n, s |-> ""]     \* of n characters
Word(w)   == [t |-> "word", v |-> 0, s |-> w]
Comma     == [t |-> "comma", v |-> 0, s |-> ""]
Starts(p, t) == p # <<>> /\ Head(p).t = t

\* Slip: the digit to come is forgotten.
MayShiftLoose(max, v) == v <= max \div 10
MayShift(max, v) == v <= (max - 9) \div 10

\* The digits of v accumulated one by one, from the most significant, up to max.
Accumulated(max, v) ==
  LET acc[w \in Nat] ==
        IF w < 10 THEN w
        ELSE LET before == acc[w \div 10]
             IN  IF MayShift(max, before) THEN (before * 10) + (w % 10) ELSE max
  IN  acc[v]

\* The value and, where it has one, the rest after it. Without digits the
\* value is 0 and the cursor stays; at__parse_uint does not know signs.
at__parse_int(p) ==
  IF ~Starts(p, "num") THEN 0
  ELSE IF Head(p).v < 0 THEN -Accumulated(IntMax, -Head(p).v)
  ELSE Accumulated(IntMax, Head(p).v)
at__parse_uint(p) ==
  IF Starts(p, "num") /\ Head(p).v >= 0 THEN Accumulated(UintMax, Head(p).v) ELSE 0
AfterInt(p) == IF Starts(p, "num") THEN Tail(p) ELSE p
AfterUint(p) == IF Starts(p, "num") /\ Head(p).v >= 0 THEN Tail(p) ELSE p

\* at__skip_comma: whether there is a comma, and the rest after it if so.
at__skip_comma(p) == Starts(p, "comma")
AfterComma(p) == IF Starts(p, "comma") THEN Tail(p) ELSE p
=============================================================================

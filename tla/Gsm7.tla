-------------------------------- MODULE Gsm7 --------------------------------
(***************************************************************************)
(* The GSM-7 codec of src/src/at_gsm.c. Characters are their ASCII codes,  *)
(* a text is a sequence of them; packed is a sequence of octets, the octet *)
(* that the code has at index k at position k + 1. The bits that |= adds   *)
(* are still zero, so that + stands for it.                                *)
(***************************************************************************)
EXTENDS Integers, Sequences

\* Characters whose septet is their code.
Common == {10, 13} \cup ((32 .. 63) \ {36}) \cup (65 .. 90) \cup (97 .. 122)
NoSeptet == 255
gsm7_char_to_septet(c) ==
  CASE c \in Common -> c
    [] c = 36 -> 2      \* $
    [] c = 64 -> 0      \* @
    [] c = 95 -> 17     \* _
    [] OTHER -> NoSeptet
gsm7_septet_to_ascii(s) ==
  CASE s \in Common -> s
    [] s = 2 -> 36
    [] s = 0 -> 64
    [] s = 17 -> 95
    [] OTHER -> 63      \* ?
at_gsm7_is_valid(text) == \A i \in DOMAIN text : gsm7_char_to_septet(text[i]) # NoSeptet

\* Octets for n septets.
OctetsFor(n) == ((n * 7) + 7) \div 8

\* Slip: a septet that starts at the third bit is taken to fit.
BitsInShort(i, s, j) ==
  LET byte == (i * 7) \div 8
      off == (i * 7) % 8
  IN  CASE byte = j -> (s * 2 ^ off) % 256
        [] byte + 1 = j /\ off > 2 -> s \div 2 ^ (8 - off)
        [] OTHER -> 0
\* What the encoder's loop adds to octet j for septet i: the low bits go to
\* the octet in which the septet starts, the others to the next one.
BitsIn(i, s, j) ==
  LET byte == (i * 7) \div 8
      off == (i * 7) % 8
  IN  CASE byte = j -> (s * 2 ^ off) % 256
        [] byte + 1 = j /\ off > 1 -> s \div 2 ^ (8 - off)
        [] OTHER -> 0

TextMax == 160
Gsm7(rc, out) == [rc |-> rc, out |-> out]
at_gsm7_encode(text, out_sz) ==
  LET n == Len(text)
      bits(i, j) == IF i \in 0 .. n - 1 THEN BitsIn(i, gsm7_char_to_septet(text[i + 1]), j) ELSE 0
      \* At most three septets reach octet j.
      octet(j) == bits(((8 * j) \div 7) - 1, j) + bits((8 * j) \div 7, j) + bits(((8 * j) \div 7) + 1, j)
  IN  CASE n > TextMax -> Gsm7("AT_GSM7_ERR_TOO_LONG", <<>>)
        [] n <= TextMax /\ OctetsFor(n) > out_sz -> Gsm7("AT_GSM7_ERR_BUF_FULL", <<>>)
        [] n <= TextMax /\ OctetsFor(n) <= out_sz /\ ~at_gsm7_is_valid(text) ->
             Gsm7("AT_GSM7_ERR_CHAR", <<>>)
        [] OTHER -> Gsm7("AT_GSM7_OK", [k \in 1 .. OctetsFor(n) |-> octet(k - 1)])

at_gsm7_decode(packed, n, out_sz) ==
  LET septet(i) ==
        LET byte == (i * 7) \div 8
            off == (i * 7) % 8
            low == (packed[byte + 1] \div 2 ^ off) % 128
        IN  IF off > 1 /\ byte + 1 < Len(packed)
              THEN low + ((packed[byte + 2] * 2 ^ (8 - off)) % 128) ELSE low
  IN  IF out_sz < n + 1 THEN Gsm7("AT_GSM7_ERR_BUF_FULL", <<>>)
      ELSE Gsm7("AT_GSM7_OK", [i \in 1 .. n |-> gsm7_septet_to_ascii(septet(i - 1))])
=============================================================================

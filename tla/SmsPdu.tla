------------------------------- MODULE SmsPdu -------------------------------
(***************************************************************************)
(* The PDU builders of src/src/at_gsm.c: at_gsm_cmgs_pdu and, for a part   *)
(* of a longer text, send_concat_part. A PDU is a sequence of octets; its  *)
(* hexadecimal form is the octets that fit the buffer for it.              *)
(*                                                                         *)
(* The receiver reads the octets as 3GPP TS 23.040 has them.               *)
(***************************************************************************)
EXTENDS Gsm7, FiniteSetsExt

Plus == 43

\* Digits of a number in the order of the code: '+' is left out, and what is
\* not a digit goes by the low half of its code.
DigitsOf(number) == IF number # <<>> /\ Head(number) = Plus THEN Tail(number) ELSE number

\* Type of address, then two digits an octet, the first in the low half.
encode_address(number) ==
  LET d == SubSeq(DigitsOf(number), 1, Min({20, Len(DigitsOf(number))}))
      half(i) == IF i <= Len(d) THEN (d[i] - 48) % 16 ELSE 15
  IN  <<145>> \o [k \in 1 .. (Len(d) + 1) \div 2 |-> (half(2 * k) * 16) + half((2 * k) - 1)]

\* Octets as hexadecimal characters, two each, while two and a NUL fit.
hex_encode(octets, buf_sz) == SubSeq(octets, 1, Min({Len(octets), (buf_sz - 1) \div 2}))

Smsc(smsc) ==
  IF smsc = <<>> THEN <<0>> ELSE <<Len(encode_address(smsc))>> \o encode_address(smsc)
Destination(number) == <<Len(DigitsOf(number))>> \o encode_address(number)
\* validate_phone_number: digits and + * # , ;
PhoneNumber(number) ==
  number # <<>> /\ \A i \in DOMAIN number : number[i] \in (48 .. 57) \cup {43, 42, 35, 44, 59}

\* The descriptor for at_send: the number of AT+CMGS=, and the body. Neither
\* builder terminates the command's text: what follows the number in the
\* uninitialised buffer is sent with it, which dirty stands for.
Pdu(octets, buf_sz, dirty) ==
  [rc |-> "AT_OK", tpdu_len |-> Len(octets) - (1 + octets[1]), body |-> hex_encode(octets, buf_sz),
   dirty |-> dirty]
RefusedPdu == [rc |-> "AT_ERR_PARAM", tpdu_len |-> 0, body |-> <<>>, dirty |-> FALSE]

at_gsm_cmgs_pdu(smsc, number, text, dirty) ==
  LET ud == at_gsm7_encode(text, 140)
  IN  IF ~PhoneNumber(number) \/ Len(DigitsOf(number)) > 20 \/ ud.rc # "AT_GSM7_OK" THEN RefusedPdu
      ELSE Pdu(Smsc(smsc) \o <<1, 0>> \o Destination(number) \o <<0, 0>>
                 \o <<Len(text)>> \o ud.out, 401, dirty)

\* The header for concatenation precedes the length of the user data.
ConcatMax == 153
send_concat_part(smsc, number, seg, ref, total, part, dirty) ==
  LET text == SubSeq(seg, 1, Min({Len(seg), ConcatMax}))
      ud == at_gsm7_encode(text, 153)
  IN  IF Len(DigitsOf(number)) > 20 \/ ud.rc # "AT_GSM7_OK" THEN RefusedPdu
      ELSE Pdu(Smsc(smsc) \o <<65, 0>> \o Destination(number) \o <<0, 0>>
                 \o <<5, 0, 3, ref, total, part>> \o <<7 + Len(text)>> \o ud.out, 441, dirty)

-----------------------------------------------------------------------------
\* The receiver: the septet whose lowest bit is bit b of the user data.
SeptetAt(ud, b) ==
  LET octet(k) == IF k \in DOMAIN ud THEN ud[k] ELSE 0
      k0 == (b \div 8) + 1
  IN  ((octet(k0) + (256 * octet(k0 + 1))) \div 2 ^ (b % 8)) % 128

\* Fields of a TPDU by the first octet of each.
ReadTpdu(t) ==
  LET digits == t[3]
      da == SubSeq(t, 5, 4 + ((digits + 1) \div 2))
      digit(i) == IF i % 2 = 1 THEN da[(i + 1) \div 2] % 16 ELSE da[i \div 2] \div 16
      udl == t[Len(da) + 7]
      ud == SubSeq(t, Len(da) + 8, Len(t))
      \* With a header, the text begins at the next septet after it.
      skip == IF t[1] = 65 THEN ((8 * (ud[1] + 1)) + 6) \div 7 ELSE 0
  IN  [number |-> [i \in 1 .. digits |-> digit(i)],
       header |-> IF skip = 0 THEN <<>> ELSE SubSeq(ud, 1, ud[1] + 1),
       octets |-> Len(ud), udl |-> udl,
       septets |-> [i \in 1 .. udl - skip |-> SeptetAt(ud, 7 * (skip + i - 1))]]
=============================================================================

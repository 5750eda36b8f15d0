---------------------------- MODULE GsmResponses ----------------------------
(***************************************************************************)
(* The response parsers of src/src/at_gsm.c.                               *)
(*                                                                         *)
(* A line is its head and the tokens after it, a response the lines that   *)
(* the engine collected (status AT_OK: the parsers refuse any other). A    *)
(* parser returns Failed, or what it stored. Texts are their lengths.      *)
(***************************************************************************)
EXTENDS AtFmt, FiniteSetsExt

Failed == [ok |-> FALSE]
U8(v) == v % 256
I16(v) == ((v + 32768) % 65536) - 32768
Lesser(a, b) == IF a < b THEN a ELSE b

Line(head, p) == [head |-> head, p |-> p]

\* What the parsers store.
Single(v) == [ok |-> TRUE, val |-> v]
at_csq_t(ber, dbm) == [ok |-> TRUE, ber |-> ber, rssi_dbm |-> dbm]
at_cesq_t(rxlev, ber, rscp, ecno, rsrq, rsrp) ==
  [ok |-> TRUE, rxlev |-> rxlev, ber |-> ber, rscp |-> rscp, ecno |-> ecno, rsrq |-> rsrq,
   rsrp |-> rsrp]
at_cops_t(mode, format, oper, act) ==
  [ok |-> TRUE, mode |-> mode, format |-> format, oper |-> oper, act |-> act]
at_sms_t(oa, scts, stat, text) ==
  [ok |-> TRUE, oa |-> oa, scts |-> scts, stat |-> stat, text |-> text]

\* A quoted text whose characters include a comma, one that is a word, and one
\* without quotes.
QuotedComma(n) == [Quoted(n) EXCEPT !.s = "comma"]
QuotedWord(w) == [Word(w) EXCEPT !.t = "quoted"]
Bare(n) == [t |-> "bare", v |-> n, s |-> ""]

\* What a buffer of size characters keeps of a text of n.
Copied(n, size) == Lesser(n, size - 1)

\* What follows the head of the first line with it; NULL if there is none.
NoValue == <<[t |-> "null", v |-> 0, s |-> ""]>>
resp_find_value(resp, head) ==
  LET hits == {i \in DOMAIN resp : resp[i].head = head}
  IN  IF hits = {} THEN NoValue ELSE resp[Min(hits)].p

\* parse_quoted: what the buffer then holds, or that it was not touched.
parse_quoted(p, size) == IF Starts(p, "quoted") THEN Copied(Head(p).v, size) ELSE -1
AfterQuoted(p) == IF Starts(p, "quoted") THEN Tail(p) ELSE p

-----------------------------------------------------------------------------
Dbm(rssi) == IF rssi = 99 THEN -999 ELSE I16(-113 + I16(rssi * 2))
at_parse_csq(resp) ==
  LET p == resp_find_value(resp, "+CSQ")
      rssi == at__parse_uint(p)
      ber == at__parse_uint(AfterComma(AfterUint(p)))
  IN  IF p = NoValue \/ ~at__skip_comma(AfterUint(p)) THEN Failed
      ELSE at_csq_t(Lesser(ber, 99), Dbm(rssi))

\* Fields one after the other, a missing comma notwithstanding.
at_parse_cesq(resp) ==
  LET level(p) == I16(at__parse_int(p))
      next(p) == AfterComma(AfterInt(p))
      p1 == resp_find_value(resp, "+CESQ")
      p2 == next(p1)
      p3 == AfterComma(AfterUint(p2))
      p4 == next(p3)
      p5 == next(p4)
      p6 == next(p5)
  IN  IF p1 = NoValue THEN Failed
      ELSE at_cesq_t(level(p1), U8(at__parse_uint(p2)), level(p3), level(p4), level(p5), level(p6))

RegistrationValue(resp) ==
  LET creg == resp_find_value(resp, "+CREG")
      cgreg == resp_find_value(resp, "+CGREG")
  IN  CASE creg # NoValue -> creg
        [] creg = NoValue /\ cgreg # NoValue -> cgreg
        [] OTHER -> resp_find_value(resp, "+CEREG")
\* Slip: the first number is taken for the status.
at_parse_cregFirst(resp) ==
  LET p == RegistrationValue(resp)
  IN  IF p = NoValue THEN Failed ELSE Single(at__parse_uint(p))
\* From the second number if there is one, else from the first.
Status(p) == IF at__skip_comma(AfterUint(p)) THEN AfterComma(AfterUint(p)) ELSE p
at_parse_creg(resp) ==
  LET p == RegistrationValue(resp)
  IN  IF p = NoValue THEN Failed ELSE Single(at__parse_uint(Status(p)))

\* The texts the parser knows, in the order in which it tries them.
CpinMap ==
  << <<"READY", 0>>, <<"SIM PIN", 1>>, <<"SIM PUK", 2>>, <<"SIM PIN2", 6>>, <<"SIM PUK2", 7>>,
     <<"PH-SIM PIN", 3>>, <<"PH-NET PIN", 8>>, <<"PH-NET PUK", 9>> >>
AT_CPIN_UNKNOWN == 255
StartsWith(w, text) == Len(text) <= Len(w) /\ SubSeq(w, 1, Len(text)) = text
CodeOf(w) ==
  LET hits == {i \in DOMAIN CpinMap : StartsWith(w, CpinMap[i][1])}
  IN  IF hits = {} THEN AT_CPIN_UNKNOWN ELSE CpinMap[Min(hits)][2]
at_parse_cpin(resp) ==
  LET p == resp_find_value(resp, "+CPIN")
  IN  IF p = NoValue THEN Failed ELSE Single(CodeOf(Head(p).s))

OperSize == 24
OperOf(p) ==
  IF Starts(p, "quoted") THEN parse_quoted(p, OperSize)
  ELSE IF Starts(p, "bare") THEN Copied(Head(p).v, OperSize) ELSE 0
\* An operator without quotes is read only as far as it fits.
AfterOper(p) ==
  IF Starts(p, "quoted") \/ (Starts(p, "bare") /\ Head(p).v < OperSize) THEN Tail(p) ELSE p
ActOf(p) == IF at__skip_comma(p) THEN U8(at__parse_uint(AfterComma(p))) ELSE 255
at_parse_cops(resp) ==
  LET p1 == resp_find_value(resp, "+COPS")
      p2 == AfterComma(AfterUint(p1))
      p3 == AfterComma(AfterUint(p2))
      mode == U8(at__parse_uint(p1))
      format == U8(at__parse_uint(p2))
  IN  CASE p1 = NoValue -> Failed
        [] p1 # NoValue /\ ~at__skip_comma(AfterUint(p1)) -> at_cops_t(mode, 0, 0, 255)
        [] at__skip_comma(AfterUint(p1)) /\ ~at__skip_comma(AfterUint(p2)) ->
             at_cops_t(mode, format, 0, 255)
        [] OTHER -> at_cops_t(mode, format, OperOf(p3), ActOf(AfterOper(p3)))

\* The first line for this context decides.
at_parse_cgpaddr(resp, cid, size) ==
  LET mine == {i \in DOMAIN resp : /\ resp[i].head = "+CGPADDR"
                                   /\ U8(at__parse_uint(resp[i].p)) = cid}
      p == AfterUint(resp[Min(mine)].p)
  IN  IF mine = {} \/ ~at__skip_comma(p) THEN Failed
      ELSE Single(Copied(Head(AfterComma(p)).v, size))

\* The header fields that are there; -1 is a field left as it was. Commas
\* that are missing are not missed.
StatOf(w) ==
  CASE StartsWith(w, "REC UNREAD") -> 0 [] StartsWith(w, "REC READ") -> 1
    [] StartsWith(w, "STO UNSENT") -> 2 [] OTHER -> 3
\* The name of the sender is skipped up to a comma, be it inside the quotes.
AfterAlpha(p) ==
  CASE Starts(p, "quoted") /\ Head(p).s = "comma" -> <<Comma, Bare(1)>> \o Tail(p)
    [] Starts(p, "quoted") /\ Head(p).s # "comma" -> Tail(p)
    [] OTHER -> p
StatField(p) == IF Starts(p, "quoted") THEN StatOf(Head(p).s) ELSE U8(at__parse_uint(p))
AfterStat(p) == IF Starts(p, "quoted") THEN Tail(p) ELSE AfterUint(p)
at_parse_sms_read(resp) ==
  LET p1 == resp[1].p
      p2 == AfterComma(AfterStat(p1))
      p3 == AfterComma(AfterQuoted(p2))
      p4 == AfterComma(AfterAlpha(p3))
  IN  IF Len(resp) < 2 \/ resp[1].head # "+CMGR" THEN Failed
      ELSE at_sms_t(parse_quoted(p2, 20), parse_quoted(p4, 24), StatField(p1),
                    Copied(Head(resp[2].p).v, 161))

at_parse_cmgs(resp) ==
  LET p == resp_find_value(resp, "+CMGS")
  IN  IF p = NoValue THEN Failed ELSE Single(U8(at__parse_uint(p)))

-----------------------------------------------------------------------------
\* A timestamp: the two-digit fields (100: not two digits), how many of the
\* separators after them are right, and the zone, zero without sign if none.

Timestamp(fields, seps, sign, zone) == [f |-> fields, seps |-> seps, sign |-> sign, zone |-> zone]

\* parse_scts_field and the checks on its value.
SctsLimits == << <<0, 99>>, <<1, 12>>, <<1, 31>>, <<0, 23>>, <<0, 59>>, <<0, 59>> >>
parse_scts_field(ts, i) == ts.f[i] \in SctsLimits[i][1] .. SctsLimits[i][2]
at_parse_scts(ts) ==
  IF /\ \A i \in 1 .. 6 : parse_scts_field(ts, i)
     /\ ts.seps = 5
     /\ ts.sign # 0 => ts.zone <= 48
    THEN [ok |-> TRUE, f |-> ts.f, tz_quarter |-> ts.sign * ts.zone]
    ELSE Failed
=============================================================================

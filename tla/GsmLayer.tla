------------------------------ MODULE GsmLayer ------------------------------
(***************************************************************************)
(* A user of the GSM layer: builds a command with GsmCommands, sends it,   *)
(* gets the modem's lines and reads them with GsmResponses, one command    *)
(* after the other. The engine in between is AtEngine's subject: here the  *)
(* lines belong to the command.                                            *)
(***************************************************************************)
EXTENDS GsmCommands, GsmResponses, SmsPdu

CONSTANTS
  Cid,       \* the context whose address the user asks for
  AddrSize,  \* the size of the user's buffer for it
  Fields,    \* values of the one-byte fields of a report
  Levels,    \* signal levels
  TextLens,  \* lengths of the texts in a report
  BigNumbers, \* numbers beyond the range of a field, for +CMGS
  Smscs, Numbers, SmsTexts,  \* for messages in PDU mode
  Segments                   \* texts of a part: at most ConcatMax characters

ASSUME LayerAssumption == Cid \in 0 .. 255 /\ AddrSize \in Nat \ {0}
ASSUME ReportsAssumption ==
  /\ Fields \subseteq 0 .. 255 /\ Levels \subseteq -255 .. 255
  /\ TextLens \subseteq Nat /\ BigNumbers \subseteq Nat
ASSUME TextsAssumption == Smscs \cup Numbers \cup SmsTexts \cup Segments \subseteq Seq(Nat)

VARIABLES
  report,  \* what the modem answered: the lines, and what it tells with them
  parsed,  \* what the parser made of it
  sms      \* a message in PDU mode, and what its builder passed to at_send

vars == <<gvars, report, parsed, sms>>

-----------------------------------------------------------------------------
\* The modem: the lines printed for a report. faulty marks those that the
\* parsers are known to misread.

Report(lines, told) == [resp |-> lines, told |-> told, faulty |-> FALSE]
Faulty(r) == [r EXCEPT !.faulty = TRUE]
NoReport == Report(<<>>, Failed)
NoResult == [ok |-> FALSE, none |-> TRUE]

CsqReport(r, b) ==
  Report(<<Line("+CSQ", <<Num(r), Comma, Num(b)>>)>>,
         at_csq_t(b, IF r = 99 THEN -999 ELSE 2 * r - 113))
CsqReports == {CsqReport(r, b) : r \in Fields, b \in {f \in Fields : f <= 99}}

CesqReport(b, l) ==
  Report(<<Line("+CESQ", <<Num(l[1]), Comma, Num(b), Comma, Num(l[2]), Comma, Num(l[3]), Comma,
                           Num(l[4]), Comma, Num(l[5])>>)>>,
         at_cesq_t(l[1], b, l[2], l[3], l[4], l[5]))
CesqReports == {CesqReport(b, l) : b \in Fields, l \in [1 .. 5 -> Levels]}

\* The status with the mode of unsolicited codes, with the location as well,
\* or alone.
RegistrationReports(head) ==
  LET reg(p, s) == Report(<<Line(head, p)>>, Single(s))
  IN  {reg(<<Num(m), Comma, Num(s)>>, s) : m \in Fields, s \in Fields}
      \cup {reg(<<Num(m), Comma, Num(s), Comma, Quoted(4), Comma, Quoted(8)>>, s) :
              m \in Fields, s \in Fields}
      \cup {reg(<<Num(s)>>, s) : s \in Fields}

\* enum at_cpin_t. The shorter text is tried first: PIN2 and PUK2 read as PIN
\* and PUK; the codes that the map lacks read as unknown.
CpinCodes ==
  [w \in {"READY", "SIM PIN", "SIM PUK", "PH-SIM PIN", "PH-NET PIN", "PH-NET PUK"} |->
     CASE w = "READY" -> 0 [] w = "SIM PIN" -> 1 [] w = "SIM PUK" -> 2 [] w = "PH-SIM PIN" -> 3
       [] w = "PH-NET PIN" -> 8 [] OTHER -> 9]
CpinUnknown == {"PH-FSIM PIN", "PH-SP PUK", "PH-CORP PIN"}
CpinReport(w, code) == Report(<<Line("+CPIN", <<Word(w)>>)>>, Single(code))
CpinReports ==
  {CpinReport(w, CpinCodes[w]) : w \in DOMAIN CpinCodes}
  \cup {CpinReport(w, AT_CPIN_UNKNOWN) : w \in CpinUnknown}
  \cup {Faulty(CpinReport("SIM PIN2", 6)), Faulty(CpinReport("SIM PUK2", 7))}

Cops(p, format, oper, act) ==
  Report(<<Line("+COPS", p)>>, at_cops_t(Head(p).v, format, oper, act))
CopsReports ==
  {Cops(<<Num(m)>>, 0, 0, 255) : m \in Fields}
  \cup {Cops(<<Num(m), Comma, Num(f)>>, f, 0, 255) : m \in Fields, f \in Fields}
  \cup {Cops(<<Num(m), Comma, Num(f), Comma, Quoted(n)>>, f, Lesser(n, 23), 255) :
          m \in Fields, f \in Fields, n \in TextLens}
  \cup {Cops(<<Num(m), Comma, Num(f), Comma, Quoted(n), Comma, Num(a)>>, f, Lesser(n, 23), a) :
          m \in Fields, f \in Fields, n \in TextLens, a \in Fields}
  \cup {LET r == Cops(<<Num(m), Comma, Num(f), Comma, Bare(n), Comma, Num(a)>>, f, Lesser(n, 23), a)
        IN  IF n <= 23 THEN r ELSE Faulty(r) :
          m \in Fields, f \in Fields, n \in TextLens, a \in Fields}

\* A line for each context; one without address is not read.
CgpaddrReports ==
  LET line(c, addr) == Line("+CGPADDR", <<Num(c), Comma, addr>>)
      told(n) == Single(Lesser(n, AddrSize - 1))
      addrs == {Quoted(n) : n \in TextLens} \cup {Bare(n) : n \in TextLens}
      others == {line(c, a) : c \in Fields \ {Cid}, a \in addrs}
  IN  {Report(<<line(Cid, a)>>, told(a.v)) : a \in addrs}
      \cup {Report(<<l, line(Cid, a)>>, told(a.v)) : l \in others, a \in addrs}
      \cup {Report(<<l>>, Failed) : l \in others}
      \cup {Report(<<Line("+CGPADDR", <<Num(Cid)>>)>>, Failed)}

Stats == [w \in {"REC UNREAD", "REC READ", "STO UNSENT", "STO SENT"} |->
            CASE w = "REC UNREAD" -> 0 [] w = "REC READ" -> 1 [] w = "STO UNSENT" -> 2 [] OTHER -> 3]
StatTokens == {<<QuotedWord(w), Stats[w]>> : w \in DOMAIN Stats} \cup {<<Num(f), f>> : f \in Fields}
Told(stat, oa, text) == at_sms_t(Lesser(oa, 19), 20, stat, Lesser(text, 160))
TextLine(n) == Line("", <<Bare(n)>>)
\* Without the name of the sender, and with it.
CmgrLine(stat, oa) == Line("+CMGR", <<stat, Comma, Quoted(oa), Comma, Comma, Quoted(20)>>)
CmgrNamed(stat, oa, alpha) ==
  Line("+CMGR", <<stat, Comma, Quoted(oa), Comma, alpha, Comma, Quoted(20)>>)
CmgrReport(s, oa, n) == Report(<<CmgrLine(s[1], oa), TextLine(n)>>, Told(s[2], oa, n))
NamedReport(s, oa, alpha, n) ==
  Report(<<CmgrNamed(s[1], oa, alpha), TextLine(n)>>, Told(s[2], oa, n))
\* No line for the message; a comma in the name; an unsolicited line before.
CmgrRefused == Report(<<CmgrLine(Num(0), 12)>>, Failed)
CmgrMisread ==
  {Faulty(NamedReport(<<Num(0), 0>>, 12, QuotedComma(6), 5)),
   Faulty(Report(<<Line("RING", <<>>), CmgrLine(Num(0), 12), TextLine(5)>>, Told(0, 12, 5)))}
CmgrReports ==
  {CmgrReport(s, oa, n) : s \in StatTokens, oa \in TextLens, n \in TextLens}
  \cup {NamedReport(s, oa, Quoted(k), n) :
          s \in StatTokens, oa \in TextLens, k \in TextLens, n \in TextLens}
  \cup {CmgrRefused} \cup CmgrMisread

CmgsReports ==
  {Report(<<Line("+CMGS", <<Num(n)>>)>>, Single(n)) : n \in Fields}
  \cup {Faulty(Report(<<Line("+CMGS", <<Num(n)>>)>>, Single(n))) : n \in BigNumbers}

\* The clock, as a timestamp. Sixty seconds and zones beyond twelve hours are
\* refused; the others are told as they are.
Cclk(ts, told) == Report(<<ts>>, told)
CclkReports ==
  LET valid == {Timestamp(<<y, mo, d, h, mi, 59>>, 5, sign, zone) :
                  y \in {0, 99}, mo \in {1, 12}, d \in {1, 31}, h \in {0, 23}, mi \in {0, 59},
                  sign \in {-1, 0, 1}, zone \in {0, 8, 48}}
      base == Timestamp(<<24, 2, 29, 12, 30, 0>>, 5, 1, 8)
      bad == {[base EXCEPT !.f[i] = v] : i \in 2 .. 6, v \in {60, 100}}
             \cup {[base EXCEPT !.f[i] = 0] : i \in 2 .. 3}
             \cup {[base EXCEPT !.f[2] = 13], [base EXCEPT !.f[3] = 32], [base EXCEPT !.f[4] = 24],
                   [base EXCEPT !.zone = 49], [base EXCEPT !.zone = 100]}
             \cup {[base EXCEPT !.seps = n] : n \in 0 .. 4}
  IN  {Cclk(ts, [ok |-> TRUE, f |-> ts.f, tz_quarter |-> ts.sign * ts.zone]) : ts \in valid}
      \cup {Cclk(ts, Failed) : ts \in bad}

\* None of these texts is the beginning of another.
ASSUME PrefixesAssumption ==
  /\ \A w \in DOMAIN CpinCodes \cup CpinUnknown : \A i \in DOMAIN CpinMap :
       StartsWith(w, CpinMap[i][1]) <=> w = CpinMap[i][1]
  /\ \A w \in DOMAIN Stats : \A v \in DOMAIN Stats : StartsWith(w, v) <=> w = v

ReportsTo(head) ==
  CASE head = "AT+CSQ" -> CsqReports
    [] head = "AT+CESQ" -> CesqReports
    [] head = "AT+CREG?" -> RegistrationReports("+CREG")
    [] head = "AT+CGREG?" -> RegistrationReports("+CGREG")
    [] head = "AT+CEREG?" -> RegistrationReports("+CEREG")
    [] head = "AT+CPIN?" -> CpinReports
    [] head = "AT+COPS?" -> CopsReports
    [] head = "AT+CGPADDR=" -> CgpaddrReports
    [] head = "AT+CMGR=" -> CmgrReports
    [] head = "AT+CMGS=" -> CmgsReports
    [] head = "AT+CCLK?" -> CclkReports
    [] OTHER -> {}

\* The parser the user calls for each.
ParsedFor(head, resp) ==
  CASE head = "AT+CSQ" -> at_parse_csq(resp)
    [] head = "AT+CESQ" -> at_parse_cesq(resp)
    [] head \in {"AT+CREG?", "AT+CGREG?", "AT+CEREG?"} -> at_parse_creg(resp)
    [] head = "AT+CPIN?" -> at_parse_cpin(resp)
    [] head = "AT+COPS?" -> at_parse_cops(resp)
    [] head = "AT+CGPADDR=" -> at_parse_cgpaddr(resp, Cid, AddrSize)
    [] head = "AT+CMGR=" -> at_parse_sms_read(resp)
    [] head = "AT+CMGS=" -> at_parse_cmgs(resp)
    [] OTHER -> at_parse_scts(resp[1])

-----------------------------------------------------------------------------

NoSms == [kind |-> "none", smsc |-> <<>>, number |-> <<>>, text |-> <<>>, header |-> <<>>,
          pdu |-> RefusedPdu]

Init == GsmInit /\ report = NoReport /\ parsed = NoResult /\ sms = NoSms

Build(c) == sms = NoSms /\ Call(c) /\ UNCHANGED <<report, parsed, sms>>
AppendOne == AppendNext /\ UNCHANGED <<report, parsed, sms>>
SendBuilt == Send /\ UNCHANGED <<report, parsed, sms>>

Answer ==
  /\ outcome = "AT_OK" /\ report = NoReport /\ parsed = NoResult
  /\ report' \in ReportsTo(cmd.head)
  /\ UNCHANGED <<gvars, parsed, sms>>

Parse ==
  /\ report # NoReport /\ parsed = NoResult
  /\ parsed' = ParsedFor(cmd.head, report.resp)
  /\ UNCHANGED <<gvars, report, sms>>

\* A message of one part, and a part of a longer one.
SendPdu ==
  /\ outcome = "none" /\ sms = NoSms
  /\ \E smsc \in Smscs, number \in Numbers, text \in SmsTexts, dirty \in BOOLEAN :
       sms' = [kind |-> "single", smsc |-> smsc, number |-> number, text |-> text, header |-> <<>>,
               pdu |-> at_gsm_cmgs_pdu(smsc, number, text, dirty)]
  /\ UNCHANGED <<gvars, report, parsed>>
SendPart ==
  /\ outcome = "none" /\ sms = NoSms
  /\ \E smsc \in Smscs, number \in {n \in Numbers : PhoneNumber(n)}, text \in Segments, dirty \in BOOLEAN :
       sms' = [kind |-> "part", smsc |-> smsc, number |-> number, text |-> text,
               header |-> <<5, 0, 3, 200, 2, 1>>,
               pdu |-> send_concat_part(smsc, number, text, 200, 2, 1, dirty)]
  /\ UNCHANGED <<gvars, report, parsed>>

\* The call, or its answer, is dealt with.
Done ==
  /\ sms # NoSms \/ outcome \in {"AT_OK", "AT_ERR_BUSY", "AT_ERR_PARAM"}
  /\ report = NoReport \/ parsed # NoResult
  /\ cmd' = NoCmd /\ args' = <<>> /\ todo' = <<>> /\ ab' = AB_INIT
  /\ wanted' = 0 /\ outcome' = "none" /\ stored' = 0
  /\ report' = NoReport /\ parsed' = NoResult /\ sms' = NoSms

Next ==
  \/ \E c \in Commands : Build(c)
  \/ AppendOne
  \/ SendBuilt
  \/ Answer
  \/ Parse
  \/ SendPdu
  \/ SendPart
  \/ Done

Spec == Init /\ [][Next]_vars

-----------------------------------------------------------------------------
\* ReadsBack. What a parser returns is what the modem told: printing a report
\* and parsing the lines is the identity, up to texts cut to the size of
\* their field, and a report that lacks a field is refused. Excepted are the
\* reports marked faulty.
ReadsBack == parsed = NoResult \/ report.faulty \/ parsed = report.told

\* Numbers in the lines of a report.
NumbersIn(r) == {t.v : t \in {u \in UNION {{l.p[i] : i \in DOMAIN l.p} : l \in {r.resp[i] : i \in DOMAIN r.resp}} : u.t = "num"}}

\* ParseSaturates. A number is parsed as it is unless it comes within one
\* digit of the largest value, and is never parsed as a smaller one than that
\* allows: whatever its length, the result does not wrap around.
ParseSaturates ==
  (cmd.head # "AT+CCLK?") =>
    \A v \in NumbersIn(report) \cap Nat :
      LET i == at__parse_int(<<Num(v)>>)
          u == at__parse_uint(<<Num(v)>>)
      IN  /\ i \in 0 .. IntMax /\ (v + 9 <= IntMax => i = v) /\ (v > IntMax => i = IntMax)
          /\ u \in 0 .. UintMax /\ (v + 9 <= UintMax => u = v) /\ (v > UintMax => u = UintMax)

Tpdu == SubSeq(sms.pdu.body, 2 + sms.pdu.body[1], Len(sms.pdu.body))
Septets(text) == [i \in DOMAIN text |-> gsm7_char_to_septet(text[i])]
\* What a receiver shows of a number: the codes of '#', ',' and ';' are lost.
Dialled(number) == [i \in DOMAIN DigitsOf(number) |-> (DigitsOf(number)[i] - 48) % 16]
Carries(t) == t.number = Dialled(sms.number) /\ t.header = sms.header /\ t.septets = Septets(sms.text)

\* PduReadsBack. The PDU of a message of one part is as long as AT+CMGS= says
\* and its user data as long as the septets it announces, and a receiver reads
\* the number and the text from it, as does the library's own decoder.
PduReadsBack ==
  sms.kind = "single" /\ sms.pdu.rc = "AT_OK" =>
    LET t == ReadTpdu(Tpdu)
        ud == SubSeq(Tpdu, Len(Tpdu) - t.octets + 1, Len(Tpdu))
    IN  /\ sms.pdu.tpdu_len = Len(Tpdu) /\ t.octets = OctetsFor(t.udl)
        /\ Carries(t)
        /\ at_gsm7_decode(ud, t.udl, t.udl + 1).out = sms.text

\* PartReadsBack. A receiver reads the header of a part and its text.
PartReadsBack == sms.kind = "part" /\ sms.pdu.rc = "AT_OK" => Carries(ReadTpdu(Tpdu))
=============================================================================

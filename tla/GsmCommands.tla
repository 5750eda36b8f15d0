----------------------------- MODULE GsmCommands -----------------------------
(***************************************************************************)
(* The command builders of src/src/at_gsm.c: the guards on the arguments,  *)
(* the assembly of the command text in a buffer on the stack, at_send.     *)
(*                                                                         *)
(* A builder is a row of a table: how the command begins, the size of the  *)
(* buffer and the arguments, which follow separated by commas. Of a text   *)
(* argument only its length matters and whether it has a character that    *)
(* the builder's check refuses. Timeouts, which decide nothing here, are   *)
(* left out. SmsLong has the PDU senders.                                  *)
(***************************************************************************)
EXTENDS AtFmt

CONSTANTS
  Bytes,    \* values of numeric arguments
  Lengths,  \* lengths of text arguments
  TxBuf,    \* AT_CFG_TX_BUF_SIZE
  NoLimit   \* bound: longer than any text argument

ASSUME SizesAssumption ==
  /\ Bytes \subseteq Nat /\ Lengths \subseteq Nat
  /\ TxBuf \in Nat \ {0} /\ NoLimit \in Nat

\* Arguments. refuses and skips name the traits of a value that make the
\* builder return AT_ERR_PARAM or leave the argument and its comma out; fits
\* is the length which the header or the structure it is in gives a text, and
\* the largest value that has a meaning, where that is smaller, of a number.
Number(max) == [kind |-> "number", max |-> max, refuses |-> {}, skips |-> {}, quotes |-> 0, fits |-> 0]
Byte == Number(255)
FileId == Number(65535)
\* A code of 3GPP, of one digit.
Code == [Byte EXCEPT !.fits = 9]
Bool == [Number(1) EXCEPT !.kind = "bool"]
NonZero == [Byte EXCEPT !.skips = {"zero"}]
\* Constant texts without a comma: always there, or when a flag asks for it.
Suffix(n) == [Number(1) EXCEPT !.kind = "suffix", !.fits = n]
FlagSuffix(n) == [Suffix(n) EXCEPT !.kind = "flag"]
\* A quoted text that only has to be there.
Plain(n) ==
  [kind |-> "text", max |-> NoLimit, refuses |-> {"null"}, skips |-> {}, quotes |-> 1, fits |-> n]
\* One that has to be non-empty, of the characters the builder looks for.
Checked(n) == [Plain(n) EXCEPT !.refuses = {"null", "empty", "unfit"}]
Unquoted(n) == [Checked(n) EXCEPT !.quotes = 0]
\* One that may be missing.
Optional(n) == [Plain(n) EXCEPT !.refuses = {}, !.skips = {"null", "empty"}]
\* A quoted array of a structure, which is not longer than that.
Field(n) == [Plain(n) EXCEPT !.kind = "field", !.max = n, !.refuses = {}]
OptionalField(n) == [Field(n) EXCEPT !.skips = {"empty"}]
\* Digits, without a limit, that may be missing.
OptionalData == [Optional(0) EXCEPT !.refuses = {"unfit"}]
\* The text of a message, for the body of the descriptor.
Body(n) == [Plain(n) EXCEPT !.kind = "body", !.max = n]
UpTo(a, n) == [a EXCEPT !.max = n]

Cmd(head, buf, args) == [head |-> head, buf |-> buf, args |-> args]
\* A literal passed to at_send_raw as it is.
Fixed(heads) == {Cmd(h, Len(h) + 1, <<>>) : h \in heads}

General ==
  Fixed({"AT", "ATZ", "AT+GCAP", "ATE1", "ATE0"}) \cup {Cmd("AT+CMEE=", 12, <<Byte>>)}
Identification ==
  Fixed({"AT+CGSN", "AT+CIMI", "AT+CGMI", "AT+CGMM", "AT+CGMR", "AT+CCID", "AT+CNUM"})
CharacterSets ==
  Fixed({"AT+CSCS?", "AT+CPBS?"})
  \cup {Cmd("AT+CSCS=", 24, <<Checked(7)>>), Cmd("AT+CPBS=", 20, <<Checked(2)>>)}
Power == {Cmd("AT+CFUN=", 16, <<Byte, NonZero>>)}
Sim ==
  Fixed({"AT+CPIN?"})
  \cup {Cmd("AT+CPIN=", 20, <<UpTo(Plain(8), 8)>>),
        Cmd("AT+CPIN=", 32, <<Plain(8), Plain(8)>>),
        Cmd("AT+CLCK=", 20, <<Plain(2), Suffix(2)>>),
        Cmd("AT+CLCK=", 40, <<Plain(2), Byte, Optional(8)>>),
        Cmd("AT+CPWD=", 56, <<Plain(2), Plain(8), Plain(8)>>)}
\* Slip: the NUL of the longest command is forgotten.
RegistrationTight ==
  {Cmd("AT+CREG=", 11, <<Byte>>), Cmd("AT+CGREG=", 12, <<Byte>>), Cmd("AT+CEREG=", 12, <<Byte>>)}
Registration ==
  Fixed({"AT+CREG?", "AT+CGREG?", "AT+CEREG?"})
  \cup {Cmd("AT+CREG=", 12, <<Byte>>), Cmd("AT+CGREG=", 13, <<Byte>>), Cmd("AT+CEREG=", 13, <<Byte>>)}
Operators ==
  Fixed({"AT+COPS?", "AT+COPS=0", "AT+CPOL?"})
  \cup {Cmd("AT+COPS=1,2,", 40, <<Plain(6), Byte>>),
        Cmd("AT+CPOL=", 48, <<Byte, Number(2), Checked(23)>>)}
Signal == Fixed({"AT+CSQ", "AT+CESQ"})
Clock ==
  Fixed({"AT+CCLK?", "AT+CTZU?"})
  \cup {Cmd("AT+CCLK=", 40, <<Plain(20)>>), Cmd("AT+CTZU=", 12, <<Number(1)>>)}
PacketData ==
  Fixed({"AT+CGATT?"})
  \cup {Cmd("AT+CGDCONT=", 160,
            <<Byte, Field(7), Field(63), OptionalField(39)>>),
        Cmd("AT+CGACT=", 20, <<Bool, Byte>>),
        Cmd("AT+CGPADDR=", 18, <<Byte>>), Cmd("AT+CGATT=", 14, <<Number(1)>>)}
Sms ==
  {Cmd("AT+CMGF=", 12, <<Byte>>), Cmd("AT+CMGS=", 32, <<UpTo(Checked(15), 15), Body(160)>>),
   Cmd("AT+CMGR=", 14, <<Byte>>), Cmd("AT+CMGD=", 18, <<Byte, Byte>>),
   Cmd("AT+CMGL=", 16, <<Number(4)>>),
   Cmd("AT+CPMS=", 48, <<Checked(2), Optional(2), Optional(2)>>),
   Cmd("AT+CNMI=", 24, <<Code, Code, Code, Code, Code>>)}
Calls ==
  Fixed({"ATA", "ATH", "AT+CLCC"})
  \cup {Cmd("ATD", 32, <<Unquoted(20), FlagSuffix(1)>>),
        Cmd("AT+VTS=", 32, <<Unquoted(20)>>), Cmd("AT+CHLD=", 12, <<Number(4)>>)}
Supplementary ==
  Fixed({"AT+CLIP?", "AT+CLIR?", "AT+CCWA?"})
  \cup {Cmd("AT+CLIP=", 12, <<Number(1)>>), Cmd("AT+CLIR=", 12, <<Number(2)>>),
        Cmd("AT+CCWA=", 20, <<Byte, Byte, Byte>>)}
SimFilesAndUssd ==
  Fixed({"AT+CUSD=2", "AT+CLAC", "AT+CEER"})
  \cup {Cmd("AT+CRSM=", 96,
            <<Byte, FileId, Byte, Byte, Byte, OptionalData>>),
        Cmd("AT+CUSD=1,", 80, <<Plain(0), Byte>>)}

Commands ==
  UNION {General, Identification, CharacterSets, Power, Sim, Registration, Operators,
         Signal, Clock, PacketData, Sms, Calls, Supplementary, SimFilesAndUssd}

\* What the proofs have to know of the literals: how long they are at most.
ASSUME HeadsAssumption ==
  \A c \in Commands :
    /\ Len(c.head) \in 1 .. 20
    /\ c.args # <<>> => Len(c.head) <= 12
    /\ c.head \in {"AT+CGREG=", "AT+CEREG="} => Len(c.head) <= 9
    /\ c.head \in {"ATD", "AT+VTS=", "AT+CMEE=", "AT+CREG=", "AT+CFUN=", "AT+CPIN=", "AT+CTZU=", "AT+CMGF=",
                    "AT+CMGR=", "AT+CMGD=", "AT+CHLD=", "AT+CLIP=", "AT+CLIR=", "AT+CCWA="} =>
         Len(c.head) <= 8

-----------------------------------------------------------------------------
\* Values: a number, or a text of n characters.

Value(is, n) == [is |-> is, n |-> n]
Texts == {Value("fit", n) : n \in Lengths} \cup {Value("null", 0), Value("unfit", 2)}

ValuesOf(a) ==
  CASE a.kind = "number" -> {Value("number", n) : n \in Bytes \cup (IF a.max > 255 THEN {a.max} ELSE {})}
    [] a.kind \in {"bool", "flag"} -> {Value("number", 0), Value("number", 1)}
    [] a.kind = "suffix" -> {Value("number", 1)}
    [] a.kind = "field" -> {v \in Texts : v.is = "fit" /\ v.n <= a.max}
    [] OTHER -> Texts

\* The ways to call the builder of c.
ArgsOf(c) ==
  LET first[i \in 0 .. Len(c.args)] ==
        IF i = 0 THEN {<<>>}
        ELSE {Append(vs, v) : vs \in first[i - 1], v \in ValuesOf(c.args[i])}
  IN  first[Len(c.args)]

Traits(v) ==
  {v.is} \cup (IF v.n > 0 THEN {} ELSE IF v.is = "fit" THEN {"empty"} ELSE {"zero"})
Refused(a, v) == Traits(v) \cap a.refuses # {} \/ v.n > a.max
Skipped(a, v) == Traits(v) \cap a.skips # {}

\* The AB_ macros that run for an argument, as lengths of what they append.
Appends(a, v, first) ==
  LET sep == IF first THEN <<>> ELSE <<1>>
  IN  CASE Skipped(a, v) \/ a.kind = "body" -> <<>>
        [] a.kind = "suffix" -> <<a.fits>>
        [] a.kind = "flag" -> IF v.n = 1 THEN <<a.fits>> ELSE <<>>
        [] a.kind \in {"number", "bool"} -> sep \o <<Digits(v.n)>>
        [] OTHER -> sep \o (IF a.quotes = 1 THEN <<1, v.n, 1>> ELSE <<v.n>>)
AppendsOf(c, vs) ==
  LET upto[i \in 0 .. Len(vs)] ==
        IF i = 0 THEN <<Len(c.head)>> ELSE upto[i - 1] \o Appends(c.args[i], vs[i], i = 1)
  IN  upto[Len(vs)]

-----------------------------------------------------------------------------
VARIABLES
  cmd, args,  \* the builder that was called, and with what
  todo,       \* appends still to come
  ab,         \* its buffer
  wanted,     \* history: the characters it was asked to append
  outcome,    \* what the call returned
  stored      \* length of the text in the queue

gvars == <<cmd, args, todo, ab, wanted, outcome, stored>>

NoCmd == Cmd("", 1, <<>>)

GsmInit ==
  /\ cmd = NoCmd /\ args = <<>> /\ todo = <<>>
  /\ ab = AB_INIT /\ wanted = 0 /\ outcome = "none" /\ stored = 0

\* A builder is called: its guards, then AB_INIT.
Call(c) ==
  /\ outcome = "none"
  /\ cmd' = c
  /\ \E vs \in ArgsOf(c) :
       /\ args' = vs
       /\ IF \E i \in DOMAIN vs : Refused(c.args[i], vs[i])
            THEN outcome' = "AT_ERR_PARAM" /\ UNCHANGED todo
            ELSE outcome' = "building" /\ todo' = AppendsOf(c, vs)
  /\ ab' = AB_INIT /\ wanted' = 0 /\ stored' = 0

\* One AB_ macro.
AppendNext ==
  /\ outcome = "building" /\ todo # <<>>
  /\ todo' = Tail(todo)
  /\ ab' = AB(cmd.buf, ab, Head(todo))
  /\ wanted' = wanted + Head(todo)
  /\ UNCHANGED <<cmd, args, outcome, stored>>

\* AB_OK, AB_DONE and at_send, which copies the text into the queue as far as
\* its field allows, or finds the queue full.
Send ==
  /\ outcome = "building" /\ todo = <<>>
  /\ IF ab.ok
       THEN \/ outcome' = "AT_OK" /\ stored' = (IF ab.len < TxBuf THEN ab.len ELSE TxBuf - 1)
            \/ outcome' = "AT_ERR_BUSY" /\ UNCHANGED stored
       ELSE outcome' = "AT_ERR_PARAM" /\ UNCHANGED stored
  /\ UNCHANGED <<cmd, args, todo, ab, wanted>>

-----------------------------------------------------------------------------
\* TypeOK. The variables keep their types: the text under construction leaves
\* room for the NUL that AB_DONE writes.
GsmTypeOK ==
  /\ cmd \in Commands \cup {NoCmd}
  /\ todo \in Seq(Nat) /\ wanted \in Nat /\ stored \in Nat
  /\ ab \in [len : 0 .. cmd.buf - 1, ok : BOOLEAN]
  /\ outcome \in {"none", "building", "AT_OK", "AT_ERR_BUSY", "AT_ERR_PARAM"}

\* SentWhole. A command that is accepted is queued whole: none of its parts
\* was cut by the builder's buffer or by the queue's field.
SentWhole == outcome = "AT_OK" => stored = wanted

Within(a, v) ==
  ~Refused(a, v) /\ (a.kind = "text" \/ (a.kind = "number" /\ a.fits > 0) => v.n <= a.fits)

\* DocumentedFits. The buffers are large enough: a call whose numbers are in
\* range and whose texts have the length they are documented with, or that of
\* the structure they are in, is never refused for lack of room.
DocumentedFits ==
  outcome = "AT_ERR_PARAM" => \E i \in DOMAIN args : ~Within(cmd.args[i], args[i])
=============================================================================

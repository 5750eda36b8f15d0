------------------------------ MODULE LineFsm ------------------------------
(***************************************************************************)
(* The line assembler of at_process (src/at.c, the switch on g_at.lfsm):   *)
(* one action per case and branch, each consuming one byte b popped from   *)
(* the receive ring. A byte is one of the four the code tells apart or a   *)
(* member of Text.                                                         *)
(***************************************************************************)
EXTENDS Naturals, Sequences, SequencesExt

CONSTANTS
  LineMax,    \* AT_CFG_LINE_MAX, NUL included
  Text,       \* every other byte
  MaxSegment  \* bound: bytes of one line, its CRs included

\* The bytes the line assembler tells apart
CR == "CR"
LF == "LF"
SP == "SP"
GT == "GT"
Bytes == {CR, LF, SP, GT} \cup Text

ASSUME LineMaxAssumption == LineMax \in Nat /\ LineMax >= 3
ASSUME TextAssumption == Text \cap {CR, LF, SP, GT} = {}

VARIABLES
  lfsm,      \* "START", "DATA" or "CR"
  line_buf,  \* line_buf[0 .. line_len - 1]
  line,      \* the line this step gave to engine_dispatch_line, or <<>>
  segment    \* history: the bytes since the last line end

vars == <<lfsm, line_buf, line, segment>>

Init == lfsm = "START" /\ line_buf = <<>> /\ line = <<>> /\ segment = <<>>

-----------------------------------------------------------------------------
Note(b) == segment' = Append(segment, b)

\* Store b unless the buffer has no room left beside the NUL.
Keep(b) ==
  line_buf' = IF Len(line_buf) < LineMax - 1 THEN Append(line_buf, b) ELSE line_buf

\* Give the line to the engine and wait for the next one.
Dispatch(l) ==
  /\ line' = l
  /\ line_buf' = <<>>
  /\ lfsm' = "START"
  /\ segment' = <<>>

\* case LFSM_START
SkipLineEnd(b) ==
  /\ lfsm = "START" /\ b \in {CR, LF}
  /\ line' = <<>>
  /\ IF b = LF THEN segment' = <<>> ELSE Note(b)
  /\ UNCHANGED <<lfsm, line_buf>>

FirstByte(b) ==
  /\ lfsm = "START" /\ b \notin {CR, LF}
  /\ line_buf' = <<b>>
  /\ lfsm' = "DATA"
  /\ line' = <<>>
  /\ Note(b)

\* case LFSM_DATA
DataCR ==
  /\ lfsm = "DATA"
  /\ lfsm' = "CR"
  /\ line' = <<>>
  /\ Note(CR)
  /\ UNCHANGED line_buf

DataLF == lfsm = "DATA" /\ Dispatch(line_buf)

\* Slip: no room is kept for the NUL.
DataByteUnbounded(b) ==
  /\ lfsm = "DATA" /\ b \notin {CR, LF}
  /\ line_buf' = Append(line_buf, b)
  /\ line' = <<>>
  /\ Note(b)
  /\ UNCHANGED lfsm
DataByte(b) ==
  /\ lfsm = "DATA" /\ b \notin {CR, LF}
  /\ Keep(b)
  /\ line' = <<>>
  /\ Note(b)
  /\ UNCHANGED lfsm

\* case LFSM_CR
\* Slip: the state is not reset, so the next line starts in the middle of one.
CrLFStays ==
  /\ lfsm = "CR"
  /\ line' = line_buf /\ line_buf' = <<>> /\ segment' = <<>>
  /\ UNCHANGED lfsm
CrLF == lfsm = "CR" /\ Dispatch(line_buf)

CrPrompt ==
  /\ lfsm = "CR" /\ line_buf = <<GT>>
  /\ Dispatch(<<GT, SP>>)

CrOther(b) ==
  /\ lfsm = "CR" /\ b # LF /\ ~(b = SP /\ line_buf = <<GT>>)
  /\ Keep(b)
  /\ lfsm' = "DATA"
  /\ line' = <<>>
  /\ Note(b)

\* One iteration of the drain loop on the byte b.
Receive(b) ==
  \/ SkipLineEnd(b) \/ FirstByte(b)
  \/ b = CR /\ DataCR
  \/ b = LF /\ DataLF
  \/ DataByte(b)
  \/ b = LF /\ CrLF
  \/ b = SP /\ CrPrompt
  \/ CrOther(b)

\* The line state's part of at_reset.
Reset ==
  /\ lfsm' = "START" /\ line_buf' = <<>>
  /\ line' = <<>> /\ segment' = <<>>

Next ==
  \/ \E b \in Bytes : (b = LF \/ Len(segment) < MaxSegment) /\ Receive(b)
  \/ Reset

Spec == Init /\ [][Next]_vars

-----------------------------------------------------------------------------
\* TypeOK. The buffer never holds more than LINE_MAX - 1 bytes, so the NUL
\* written at line_len before a dispatch stays inside line_buf; only START
\* has an empty buffer.
TypeOK ==
  /\ lfsm \in {"START", "DATA", "CR"}
  /\ line_buf \in Seq(Bytes \ {LF}) /\ Len(line_buf) <= LineMax - 1
  /\ (lfsm = "START") <=> (line_buf = <<>>)
  /\ line \in Seq(Bytes \ {LF}) /\ Len(line) <= LineMax - 1
  /\ segment \in Seq(Bytes)

\* The text of a line as the modem sent it, without the CRs before it and
\* the one that ends it.
AfterCRs(s) ==
  LET text == {i \in DOMAIN s : s[i] # CR}
  IN  IF text = {} THEN <<>>
      ELSE SubSeq(s, CHOOSE i \in text : \A j \in text : i <= j, Len(s))

TextOf(s) ==
  LET t == AfterCRs(s)
  IN  IF t # <<>> /\ Last(t) = CR THEN Front(t) ELSE t

\* As much of it as the buffer holds.
Fitting(s) == SubSeq(s, 1, Min({Len(s), LineMax - 1}))

\* No CR within the text: the line is one a modem sends.
WellFormed(s) == CR \notin ToSet(TextOf(s))

\* LineIntact. Whatever came before it - noise, stray CRs, an overlong or a
\* truncated line, a reset - a well-formed line is dispatched when its LF
\* comes, once and unchanged but for the bytes beyond the buffer; an empty
\* one is not dispatched; and nothing else is dispatched at any other byte
\* but the space of a prompt.
LineIntact ==
  [][ \A b \in Bytes :
        Receive(b) =>
          IF b = LF
            THEN WellFormed(segment) => line' = Fitting(TextOf(segment))
            ELSE line' # <<>> => line' = <<GT, SP>> ]_vars

\* PromptRecognised. "> " is a prompt of two characters without a trailing
\* newline (the comment in case LFSM_CR): it has been dispatched as soon as
\* its space has come.
PromptRecognised == AfterCRs(segment) # <<GT, SP>>
=============================================================================

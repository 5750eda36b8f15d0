---------------------------- MODULE AtEngineFair ----------------------------
(***************************************************************************)
(* AtEngine with fair scheduling and without end: what must happen however *)
(* many commands are sent. A command that has left the queue is forgotten, *)
(* so that the others move down and the numbers 1 .. q_count are those of  *)
(* the commands in the queue, the oldest first. MaxCmds then bounds        *)
(* nothing, as long as it is no less than Depth. The modem, which is not   *)
(* bound to answer anything, keeps MaxHeard lines at most.                 *)
(***************************************************************************)
EXTENDS AtEngine

CONSTANT MaxHeard  \* bound: lines the modem keeps to answer later

ASSUME EndlessAssumption == MaxCmds >= Depth /\ MaxHeard \in Nat \ {0}

\* The number of a command once command 1 is forgotten.
Renumbered(c) == IF c > 1 THEN c - 1 ELSE NoId
RenumberedIn(s) == [i \in DOMAIN s |-> [s[i] EXCEPT !.id = Renumbered(@)]]

Forget ==
  /\ accepted > q_count
  /\ accepted' = accepted - 1
  /\ fires' = [c \in Ids |-> IF c < MaxCmds THEN fires[c + 1] ELSE 0]
  /\ queue' = RenumberedIn(queue) /\ rx' = RenumberedIn(rx) /\ modem' = RenumberedIn(modem)
  /\ stack' = [i \in DOMAIN stack |-> [stack[i] EXCEPT !.id = Renumbered(@), !.by = Renumbered(@)]]
  /\ pool' = [i \in DOMAIN pool |-> Renumbered(pool[i])]
  /\ echo_expect' = Renumbered(echo_expect)
  /\ UNCHANGED <<q_head, q_tail, q_count, tvars, response, dropped, echo_armed, body_sent,
                 disturbed>>

\* A modem that hears more than it can keep loses the oldest line.
Overheard ==
  /\ Len(modem) > MaxHeard
  /\ modem' = Tail(modem)
  /\ UNCHANGED <<qvars, tvars, rvars, evars, rx, stack, hvars, disturbed>>

FairNext ==
  Forget \/ Overheard \/ (accepted = q_count /\ Len(modem) <= MaxHeard /\ Next)

\* The main loop calls at_process again and again, whatever else it calls in
\* between; a call under way proceeds; every callback and handler returns, after
\* as many calls as it likes; the timer interrupt keeps coming.
Fairness ==
  /\ WF_vars(Forget) /\ WF_vars(Overheard)
  /\ SF_vars(at_process)
  /\ WF_vars(TaskStep)
  /\ SF_vars(finalize_return) /\ SF_vars(flush_return) /\ SF_vars(urc_return)
  /\ SF_vars(DrainEnd)
  /\ WF_vars(Tick)

\* The drain loop is faster than the serial line: as often as it runs, it
\* finds the receive buffer empty. Without it the loop need not end and the
\* timeout below it is never looked at.
LineSlow == []<>Runs("drain") => []<>(Runs("drain") /\ rx = <<>>)

FairSpec == Init /\ [][FairNext]_vars /\ Fairness /\ LineSlow

-----------------------------------------------------------------------------
\* AcceptedCompletes. The oldest command in the queue is completed, and so, one
\* after the other, is every command accepted, whatever the modem does: it may
\* be silent, late, restart or talk nonsense. The exception: with every prompt
\* that it answers with the body engine_dispatch_line loads the timer again, so
\* that a modem which prompts for ever keeps the command for ever.
Prompted == DispatchPrompt /\ WantsBody
AcceptedCompletes ==
  (q_count > 0 ~> Runs("callback") \/ Runs("flushed")) \/ []<><<Prompted>>_vars

\* TaskReturns. No call keeps the task for ever: at_process and the API return
\* to the main loop again and again. The exception: at_reset flushes until the
\* queue is empty, and callbacks that send whenever they are flushed keep it
\* from getting empty.
SentAgain == Runs("flushed") /\ \E t \in Timeouts : at_send(t)
TaskReturns == []<>(stack = <<>>) \/ []<><<SentAgain>>_vars
=============================================================================

------------------------------- MODULE MtSend -------------------------------
(***************************************************************************)
(* at_send in several tasks, guarded by the mutex that src/include/at.h    *)
(* and ARCHITECTURE.md ask for, beside at_process in a task of its own,    *)
(* which takes no mutex: src/src/at.c, the command queue, one step per     *)
(* access to shared memory.                                                *)
(*                                                                         *)
(* Of a command only its order matters. What at_process does between the   *)
(* start of a command and its end (AtEngine) is one step of waiting.       *)
(***************************************************************************)
EXTENDS Integers

CONSTANTS
  Senders,  \* the tasks that call at_send
  NoTask,
  Depth,    \* AT_CFG_CMD_QUEUE_DEPTH
  MaxCmds   \* bound: commands accepted

VARIABLES
  mutex,              \* the task that holds it, or NoTask
  queue,              \* the command in each slot, 0 for none
  q_head, q_tail, q_count,
  pc,                 \* where a sender is in at_send
  count,              \* the q_count a sender has read
  engine,             \* where at_process is
  engine_count,       \* the q_count it has read
  accepted, started   \* history: commands accepted, commands written to the modem in order

vars == <<mutex, queue, q_head, q_tail, q_count, pc, count, engine, engine_count, accepted, started>>

Init ==
  /\ mutex = NoTask /\ queue = [i \in 0 .. Depth - 1 |-> 0]
  /\ q_head = 0 /\ q_tail = 0 /\ q_count = 0
  /\ pc = [s \in Senders |-> "idle"] /\ count = [s \in Senders |-> 0]
  /\ engine = "idle" /\ engine_count = 0
  /\ accepted = 0 /\ started = {}

Go(s, l) == pc' = [pc EXCEPT ![s] = l]

Lock(s) ==
  /\ pc[s] = "idle" /\ mutex = NoTask /\ accepted < MaxCmds
  /\ mutex' = s /\ Go(s, "check")
  /\ UNCHANGED <<queue, q_head, q_tail, q_count, count, engine, engine_count, accepted, started>>

\* The test for room; AT_ERR_BUSY gives the mutex back.
Check(s) ==
  /\ pc[s] = "check"
  /\ IF q_count >= Depth THEN Go(s, "idle") /\ mutex' = NoTask ELSE Go(s, "fill") /\ UNCHANGED mutex
  /\ UNCHANGED <<queue, q_head, q_tail, q_count, count, engine, engine_count, accepted, started>>

\* The entry and q_head, which only the holder of the mutex uses.
Fill(s) ==
  /\ pc[s] = "fill" /\ Go(s, "load")
  /\ queue' = [queue EXCEPT ![q_head] = accepted + 1]
  /\ q_head' = (q_head + 1) % Depth
  /\ UNCHANGED <<mutex, q_tail, q_count, count, engine, engine_count, accepted, started>>

\* q_count++, a load and a store.
Load(s) ==
  /\ pc[s] = "load" /\ Go(s, "store")
  /\ count' = [count EXCEPT ![s] = q_count]
  /\ UNCHANGED <<mutex, queue, q_head, q_tail, q_count, engine, engine_count, accepted, started>>
Store(s) ==
  /\ pc[s] = "store" /\ Go(s, "idle")
  /\ q_count' = count[s] + 1
  /\ accepted' = accepted + 1 /\ mutex' = NoTask
  /\ UNCHANGED <<queue, q_head, q_tail, count, engine, engine_count, started>>

\* at_process finds a command and starts it.
Start ==
  /\ engine = "idle" /\ q_count > 0
  /\ engine' = "waiting" /\ started' = started \cup {queue[q_tail]}
  /\ UNCHANGED <<mutex, queue, q_head, q_tail, q_count, pc, count, engine_count, accepted>>

\* engine_finalize: the entry and q_tail, then q_count--.
Finalize ==
  /\ engine = "waiting" /\ engine' = "load"
  /\ queue' = [queue EXCEPT ![q_tail] = 0] /\ q_tail' = (q_tail + 1) % Depth
  /\ UNCHANGED <<mutex, q_head, q_count, pc, count, engine_count, accepted, started>>
EngineLoad ==
  /\ engine = "load" /\ engine' = "store" /\ engine_count' = q_count
  /\ UNCHANGED <<mutex, queue, q_head, q_tail, q_count, pc, count, accepted, started>>
EngineStore ==
  /\ engine = "store" /\ engine' = "idle" /\ q_count' = engine_count - 1
  /\ UNCHANGED <<mutex, queue, q_head, q_tail, pc, count, engine_count, accepted, started>>

Next ==
  \/ \E s \in Senders : Lock(s) \/ Check(s) \/ Fill(s) \/ Load(s) \/ Store(s)
  \/ Start \/ Finalize \/ EngineLoad \/ EngineStore

Spec == Init /\ [][Next]_vars

-----------------------------------------------------------------------------
\* NoneForgotten. When no call is in progress and the engine has nothing left
\* to start, every command for which at_send returned AT_OK has been written:
\* what the rule "mutex for at_send, one task for at_process" is to ensure.
NoneForgotten ==
  mutex = NoTask /\ engine = "idle" /\ q_count = 0 => 1 .. accepted \subseteq started
=============================================================================

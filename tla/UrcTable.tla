------------------------------ MODULE UrcTable ------------------------------
(***************************************************************************)
(* The URC table of src/at.c: at_register_urc, at_deregister_urc,          *)
(* urc_dispatch and the clearing in at_deinit, called from the one task    *)
(* the header asks for or from a handler. urc_dispatch leaves the table    *)
(* alone once its handler has returned, so a call from a handler is a call *)
(* after the dispatch.                                                     *)
(*                                                                         *)
(* A text is a sequence of characters; cb and user are one handler.        *)
(***************************************************************************)
EXTENDS Integers, Sequences, FiniteSets, FiniteSetsExt, SequencesExt

CONSTANTS
  Size,       \* AT_CFG_URC_TABLE_SIZE
  PrefixMax,  \* AT_CFG_LINE_MAX - 1: characters of a stored prefix
  Names,      \* the prefixes registered and deregistered
  Handlers,
  NoHandler,
  Lines       \* the lines received

ASSUME SizeAssumption == Size \in Nat \ {0} /\ PrefixMax \in Nat
ASSUME HandlerAssumption == NoHandler \notin Handlers

VARIABLES
  urc_table,
  result,    \* what the last call of the API returned
  called,    \* the handler the last line was given to, or NoHandler
  order,     \* history: the registered prefixes, in the order of registration
  gap        \* history: a prefix was deregistered before one registered later

vars == <<urc_table, result, called, order, gap>>

Slots == 0 .. Size - 1
Empty == [prefix |-> <<>>, handler |-> NoHandler, active |-> FALSE]

Init ==
  /\ urc_table = [i \in Slots |-> Empty]
  /\ result = "OK" /\ called = NoHandler
  /\ order = <<>> /\ gap = FALSE

\* Slip: a prefix longer than the field is stored as it is.
StoredWhole(p) == p
\* str_copy_safe into the prefix field.
Stored(p) == SubSeq(p, 1, Min({Len(p), PrefixMax}))

\* Slip: the name as given is compared with what was stored of it.
SameUncut(u, p) == u.active /\ u.prefix = p
\* strncmp over the size of the field, of active entries.
Same(u, p) == u.active /\ u.prefix = Stored(p)

SlotsOf(p) == {i \in Slots : Same(urc_table[i], p)}
FreeSlots == {i \in Slots : ~urc_table[i].active}
\* Slip: the search starts from the end.
FirstFreeFromEnd == Max(FreeSlots)
FirstFree == Min(FreeSlots)

at_register_urc(p, h) ==
  /\ CASE SlotsOf(p) # {} ->
            /\ urc_table' = [urc_table EXCEPT ![Min(SlotsOf(p))].handler = h]
            /\ result' = "OK" /\ UNCHANGED order
       [] SlotsOf(p) = {} /\ FreeSlots # {} ->
            /\ urc_table' = [urc_table EXCEPT ![FirstFree] =
                               [prefix |-> Stored(p), handler |-> h, active |-> TRUE]]
            /\ result' = "OK" /\ order' = Append(order, Stored(p))
       [] OTHER -> result' = "BUSY" /\ UNCHANGED <<urc_table, order>>
  /\ UNCHANGED <<called, gap>>

at_deregister_urc(p) ==
  /\ IF SlotsOf(p) # {}
       THEN /\ urc_table' = [urc_table EXCEPT ![Min(SlotsOf(p))] = Empty]
            /\ result' = "OK"
            /\ order' = RemoveAt(order, CHOOSE k \in DOMAIN order : order[k] = Stored(p))
            /\ gap' = (order' # <<>> /\ (gap \/ Last(order) # Stored(p)))
       ELSE result' = "PARAM" /\ UNCHANGED <<urc_table, order, gap>>
  /\ UNCHANGED called

\* strncmp over the length of the prefix.
Matching(l) == {i \in Slots : urc_table[i].active /\ IsPrefix(urc_table[i].prefix, l)}

urc_dispatch(l) ==
  /\ called' = IF Matching(l) = {} THEN NoHandler
               ELSE urc_table[Min(Matching(l))].handler
  /\ UNCHANGED <<urc_table, result, order, gap>>

at_deinit ==
  /\ urc_table' = [i \in Slots |-> Empty]
  /\ order' = <<>> /\ gap' = FALSE
  /\ UNCHANGED <<result, called>>

Next ==
  \/ \E p \in Names : at_deregister_urc(p) \/ \E h \in Handlers : at_register_urc(p, h)
  \/ \E l \in Lines : urc_dispatch(l)
  \/ at_deinit

Spec == Init /\ [][Next]_vars

-----------------------------------------------------------------------------
\* TypeOK. A stored prefix fits into its field; a slot not in use is zeroed.
TypeOK ==
  /\ \A i \in Slots :
       /\ Len(urc_table[i].prefix) <= PrefixMax
       /\ IF urc_table[i].active THEN urc_table[i].handler \in Handlers
                                 ELSE urc_table[i] = Empty
  /\ result \in {"OK", "BUSY", "PARAM"}
  /\ called \in Handlers \cup {NoHandler}

Registered ==
  {[prefix |-> urc_table[i].prefix, handler |-> urc_table[i].handler] :
     i \in {j \in Slots : urc_table[j].active}}

Registry ==
  INSTANCE UrcRegistry WITH
    registered <- Registered, Capacity <- Size,
    Names <- {Stored(p) : p \in Names},
    StartsWith <- LAMBDA l, p : IsPrefix(p, l)

\* ImplementsRegistry. Whatever was registered, re-registered, refused and
\* deregistered before, in whatever slots: a prefix has one handler, the one
\* given last; a registration is refused only when Size prefixes are
\* registered; a deregistered handler is not called any more; and a line
\* reaches a handler exactly when it starts with a registered prefix.
ImplementsRegistry == Registry!Spec

\* FirstRegisteredWins. "Registration is checked in order; first match wins":
\* a line goes to the earliest registered of the prefixes it starts with, as
\* long as no slot was freed before one in use. (A prefix registered into such
\* a slot is tried before older ones.)
FirstRegisteredWins ==
  ~gap => \A l \in Lines :
    Matching(l) # {} =>
      LET first == Min({k \in DOMAIN order : IsPrefix(order[k], l)})
      IN  urc_table[Min(Matching(l))].prefix = order[first]
=============================================================================

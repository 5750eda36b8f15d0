---------------------------- MODULE UrcRegistry ----------------------------
(***************************************************************************)
(* What the URC table promises (include/at.h): up to Capacity prefixes are *)
(* registered, each with the handler given last; a line is given to the    *)
(* handler of one registered prefix that it starts with, if there is one.  *)
(***************************************************************************)
EXTENDS FiniteSets, Integers

CONSTANTS Names, Handlers, Lines, Capacity, NoHandler, StartsWith(_, _)

VARIABLES
  registered,  \* a set of [prefix, handler]
  result,      \* what the last call of the API returned
  called       \* the handler the last line was given to, or NoHandler

rvars == <<registered, result, called>>

Of(p) == {r \in registered : r.prefix = p}

Init == registered = {} /\ result = "OK" /\ called = NoHandler

Register(p, h) ==
  /\ IF Of(p) # {} \/ Cardinality(registered) < Capacity
       THEN /\ registered' = (registered \ Of(p)) \cup {[prefix |-> p, handler |-> h]}
            /\ result' = "OK"
       ELSE result' = "BUSY" /\ UNCHANGED registered
  /\ UNCHANGED called

Deregister(p) ==
  /\ registered' = registered \ Of(p)
  /\ result' = IF Of(p) # {} THEN "OK" ELSE "PARAM"
  /\ UNCHANGED called

Give(l) ==
  /\ \/ \E r \in registered : StartsWith(l, r.prefix) /\ called' = r.handler
     \/ /\ \A r \in registered : ~StartsWith(l, r.prefix)
        /\ called' = NoHandler
  /\ UNCHANGED <<registered, result>>

Clear == registered' = {} /\ UNCHANGED <<result, called>>

Next ==
  \/ \E p \in Names : Deregister(p) \/ \E h \in Handlers : Register(p, h)
  \/ \E l \in Lines : Give(l)
  \/ Clear

Spec == Init /\ [][Next]_rvars
=============================================================================

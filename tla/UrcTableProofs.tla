--------------------------- MODULE UrcTableProofs ---------------------------
(***************************************************************************)
(* The URC table for every number of slots, length of field, set of        *)
(* prefixes and set of lines: it implements the registry of UrcRegistry,   *)
(* and the order of registration decides until a gap is filled.            *)
(***************************************************************************)
EXTENDS UrcTable, FiniteSetTheorems, SequenceTheorems, TLAPS

-----------------------------------------------------------------------------
(* The least of a set of slots.                                            *)

LEMMA MinOfSet ==
  ASSUME NEW S \in SUBSET Nat, S # {}
  PROVE  Min(S) \in S /\ \A y \in S : Min(S) <= y
<1>1. \E x \in S : \A y \in S : ~(<<y, x>> \in OpToRel(<, Nat))
  BY NatLessThanWellFounded, WFMin
<1>2. PICK x \in S : \A y \in S : ~(<<y, x>> \in OpToRel(<, Nat))
  BY <1>1
<1>3. \A y \in S : x <= y
  <2> SUFFICES ASSUME NEW y \in S PROVE x <= y
    OBVIOUS
  <2>1. ~(y < x)
    BY <1>2 DEF OpToRel
  <2> QED  BY <2>1
<1> QED  BY <1>3 DEF Min

LEMMA SlotsAreNat == Slots \subseteq Nat
BY SizeAssumption DEF Slots

LEMMA FreeIs ==
  ASSUME FreeSlots # {}
  PROVE  FirstFree \in Slots /\ ~urc_table[FirstFree].active
<1>1. FreeSlots \in SUBSET Nat
  BY SlotsAreNat DEF FreeSlots
<1>2. FirstFree \in FreeSlots
  BY <1>1, MinOfSet DEF FirstFree
<1> QED  BY <1>2 DEF FreeSlots

LEMMA FirstMatchIs ==
  ASSUME NEW l, Matching(l) # {}
  PROVE  Min(Matching(l)) \in Matching(l)
<1>1. Matching(l) \in SUBSET Nat
  BY SlotsAreNat DEF Matching
<1> QED  BY <1>1, MinOfSet

LEMMA FoundIs ==
  ASSUME NEW p, SlotsOf(p) # {}
  PROVE  /\ Min(SlotsOf(p)) \in Slots
         /\ urc_table[Min(SlotsOf(p))].active /\ urc_table[Min(SlotsOf(p))].prefix = Stored(p)
<1>1. SlotsOf(p) \in SUBSET Nat
  BY SlotsAreNat DEF SlotsOf
<1>2. Min(SlotsOf(p)) \in SlotsOf(p)
  BY <1>1, MinOfSet
<1> QED  BY <1>2 DEF SlotsOf, Same

-----------------------------------------------------------------------------
(* The invariant: no prefix is in two slots.                               *)

Fields == {<<>>} \cup {Stored(p) : p \in Names}
Entries == [prefix : Fields, handler : Handlers, active : {TRUE}] \cup {Empty}

Unique ==
  \A i, j \in Slots :
    urc_table[i].active /\ urc_table[j].active /\ urc_table[i].prefix = urc_table[j].prefix => i = j

UrcInv ==
  /\ urc_table \in [Slots -> Entries] /\ Unique
  /\ result \in {"OK", "BUSY", "PARAM"}
  /\ called \in Handlers \cup {NoHandler}

LEMMA EntryIs ==
  ASSUME UrcInv, NEW i \in Slots
  PROVE  /\ urc_table[i] \in Entries
         /\ urc_table[i].active \in BOOLEAN /\ urc_table[i].prefix \in Fields
         /\ urc_table[i].active => urc_table[i].handler \in Handlers
         /\ ~urc_table[i].active => urc_table[i] = Empty
<1>1. urc_table[i] \in Entries
  BY DEF UrcInv
<1>2. CASE urc_table[i] \in [prefix : Fields, handler : Handlers, active : {TRUE}]
  BY <1>1, <1>2
<1>3. CASE urc_table[i] = Empty
  <2>1. Empty.active = FALSE /\ Empty.prefix = <<>>
    BY DEF Empty
  <2> QED  BY <1>1, <1>3, <2>1 DEF Fields
<1> QED  BY <1>1, <1>2, <1>3 DEF Entries

\* The three outcomes of a registration.
LEMMA Outcomes ==
  ASSUME NEW p, NEW h, at_register_urc(p, h)
  PROVE  /\ UNCHANGED called
         /\ \/ /\ SlotsOf(p) # {} /\ result' = "OK"
               /\ urc_table' = [urc_table EXCEPT ![Min(SlotsOf(p))].handler = h]
            \/ /\ SlotsOf(p) = {} /\ FreeSlots # {} /\ result' = "OK"
               /\ urc_table' = [urc_table EXCEPT ![FirstFree] =
                                  [prefix |-> Stored(p), handler |-> h, active |-> TRUE]]
            \/ SlotsOf(p) = {} /\ FreeSlots = {} /\ result' = "BUSY" /\ UNCHANGED urc_table
<1>1. CASE SlotsOf(p) # {}
  BY <1>1 DEF at_register_urc
<1>2. CASE SlotsOf(p) = {} /\ FreeSlots # {}
  BY <1>2 DEF at_register_urc
<1>3. CASE SlotsOf(p) = {} /\ FreeSlots = {}
  BY <1>3 DEF at_register_urc
<1> QED  BY <1>1, <1>2, <1>3

LEMMA RegisterKeeps ==
  ASSUME UrcInv, NEW p \in Names, NEW h \in Handlers, at_register_urc(p, h)
  PROVE  UrcInv'
<1>0. urc_table \in [Slots -> Entries] /\ Unique /\ Stored(p) \in Fields
  BY DEF UrcInv, Fields
<1>1. result' \in {"OK", "BUSY", "PARAM"} /\ called' \in Handlers \cup {NoHandler}
  BY Outcomes DEF UrcInv
<1>2. CASE SlotsOf(p) # {} /\ urc_table' = [urc_table EXCEPT ![Min(SlotsOf(p))].handler = h]
  <2> DEFINE i == Min(SlotsOf(p))
  <2>1. i \in Slots /\ urc_table[i].active /\ urc_table[i] \in Entries
    BY <1>2, FoundIs, EntryIs
  <2> HIDE DEF i
  <2>2. urc_table' = [urc_table EXCEPT ![i].handler = h]
    BY <1>2 DEF i
  <2>3. urc_table[i] \in [prefix : Fields, handler : Handlers, active : {TRUE}]
    <3>1. ~Empty.active
      BY DEF Empty
    <3> QED  BY <2>1, <3>1 DEF Entries
  <2>4. [urc_table[i] EXCEPT !.handler = h] \in Entries
    BY <2>3 DEF Entries
  <2>5. urc_table' \in [Slots -> Entries]
    BY <1>0, <2>1, <2>2, <2>4
  <2>6. \A j \in Slots : /\ urc_table'[j].active = urc_table[j].active
                         /\ urc_table'[j].prefix = urc_table[j].prefix
    BY <1>0, <2>1, <2>2, <2>3
  <2>7. Unique'
    BY <1>0, <2>6 DEF Unique
  <2> QED  BY <1>1, <2>5, <2>7 DEF UrcInv
<1>3. CASE /\ SlotsOf(p) = {} /\ FreeSlots # {}
           /\ urc_table' = [urc_table EXCEPT ![FirstFree] =
                              [prefix |-> Stored(p), handler |-> h, active |-> TRUE]]
  <2> DEFINE i == FirstFree
             e == [prefix |-> Stored(p), handler |-> h, active |-> TRUE]
  <2>1. i \in Slots /\ e \in Entries /\ e.prefix = Stored(p) /\ e.active
    BY <1>0, <1>3, FreeIs DEF Entries
  <2> HIDE DEF i, e
  <2>2. urc_table' = [urc_table EXCEPT ![i] = e]
    BY <1>3 DEF i, e
  <2>3. urc_table' \in [Slots -> Entries]
    BY <1>0, <2>1, <2>2
  <2>4. \A j \in Slots : ~(urc_table[j].active /\ urc_table[j].prefix = Stored(p))
    BY <1>3 DEF SlotsOf, Same
  <2>5. urc_table'[i] = e /\ \A j \in Slots \ {i} : urc_table'[j] = urc_table[j]
    BY <1>0, <2>1, <2>2
  <2>6. Unique'
    BY <1>0, <2>1, <2>4, <2>5 DEF Unique
  <2> QED  BY <1>1, <2>3, <2>6 DEF UrcInv
<1>4. CASE UNCHANGED urc_table
  BY <1>0, <1>1, <1>4 DEF UrcInv, Unique
<1> QED  BY <1>2, <1>3, <1>4, Outcomes

LEMMA DeregisterKeeps ==
  ASSUME UrcInv, NEW p \in Names, at_deregister_urc(p)
  PROVE  UrcInv'
<1>0. urc_table \in [Slots -> Entries] /\ Unique
  BY DEF UrcInv
<1>1. result' \in {"OK", "BUSY", "PARAM"} /\ called' \in Handlers \cup {NoHandler}
  BY DEF at_deregister_urc, UrcInv
<1>2. CASE SlotsOf(p) # {}
  <2> DEFINE i == Min(SlotsOf(p))
  <2>1. i \in Slots /\ urc_table' = [urc_table EXCEPT ![i] = Empty]
    BY <1>2, FoundIs DEF at_deregister_urc
  <2> HIDE DEF i
  <2>2. urc_table'[i] = Empty /\ \A j \in Slots \ {i} : urc_table'[j] = urc_table[j]
    BY <1>0, <2>1
  <2>3. urc_table' \in [Slots -> Entries]
    BY <1>0, <2>1 DEF Entries
  <2>4. ~Empty.active
    BY DEF Empty
  <2>5. Unique'
    BY <1>0, <2>2, <2>4 DEF Unique
  <2> QED  BY <1>1, <2>3, <2>5 DEF UrcInv
<1>3. CASE SlotsOf(p) = {}
  BY <1>0, <1>1, <1>3 DEF at_deregister_urc, UrcInv, Unique
<1> QED  BY <1>2, <1>3

LEMMA DispatchKeeps ==
  ASSUME UrcInv, NEW l \in Lines, urc_dispatch(l)
  PROVE  UrcInv'
<1>1. CASE Matching(l) = {}
  BY <1>1 DEF urc_dispatch, UrcInv, Unique
<1>2. CASE Matching(l) # {}
  <2> DEFINE i == Min(Matching(l))
  <2>1. i \in Slots /\ urc_table[i].active
    BY <1>2, FirstMatchIs DEF Matching
  <2>2. called' = urc_table[i].handler
    BY <1>2 DEF urc_dispatch
  <2>3. called' \in Handlers
    BY <2>1, <2>2, EntryIs
  <2> QED  BY <2>3 DEF urc_dispatch, UrcInv, Unique
<1> QED  BY <1>1, <1>2

\* Every slot is zeroed or holds a registration, and no prefix is registered
\* twice, whatever was registered, refused and deregistered in between.
THEOREM UrcInductive == Spec => []UrcInv
<1>1. Init => UrcInv
  BY DEF Init, UrcInv, Unique, Empty, Entries
<1>2. UrcInv /\ [Next]_vars => UrcInv'
  <2> SUFFICES ASSUME UrcInv, [Next]_vars PROVE UrcInv'
    OBVIOUS
  <2>1. CASE at_deinit
    BY <2>1 DEF at_deinit, UrcInv, Unique, Empty, Entries
  <2>2. CASE UNCHANGED vars
    BY <2>2 DEF vars, UrcInv, Unique
  <2> QED  BY <2>1, <2>2, RegisterKeeps, DeregisterKeeps, DispatchKeeps DEF Next
<1> QED  BY <1>1, <1>2, PTL DEF Spec

-----------------------------------------------------------------------------
(* Types.                                                                  *)

\* As much of a prefix as its field holds.
LEMMA StoredFits ==
  ASSUME NEW Char, NEW p \in Seq(Char)
  PROVE  Len(Stored(p)) <= PrefixMax
<1> DEFINE m == IF Len(p) <= PrefixMax THEN Len(p) ELSE PrefixMax
<1>0. PrefixMax \in Nat /\ Len(p) \in Nat
  BY SizeAssumption
<1>1. Min({Len(p), PrefixMax}) = m
  <2>1. {Len(p), PrefixMax} \in SUBSET Nat /\ {Len(p), PrefixMax} # {}
    BY <1>0
  <2>2. /\ Min({Len(p), PrefixMax}) \in {Len(p), PrefixMax}
        /\ \A y \in {Len(p), PrefixMax} : Min({Len(p), PrefixMax}) <= y
    BY <2>1, MinOfSet
  <2>3. PICK x : x = Min({Len(p), PrefixMax})
    OBVIOUS
  <2>4. x \in {Len(p), PrefixMax} /\ x <= Len(p) /\ x <= PrefixMax
    BY <2>2, <2>3
  <2>5. x = m
    BY <1>0, <2>4
  <2> QED  BY <2>3, <2>5
<1>2. m \in 0 .. Len(p) /\ m <= PrefixMax
  BY <1>0
<1> HIDE DEF m
<1>3. Len(SubSeq(p, 1, m)) = m
  BY <1>0, <1>2
<1> QED  BY <1>1, <1>2, <1>3 DEF Stored

\* A stored prefix fits its field, and a slot not in use is zeroed, if the
\* prefixes are texts.
THEOREM TypeCorrect ==
  ASSUME NEW Char, Names \subseteq Seq(Char)
  PROVE  Spec => []TypeOK
<1>1. UrcInv => TypeOK
  <2> SUFFICES ASSUME UrcInv PROVE TypeOK
    OBVIOUS
  <2>1. \A q \in Fields : Len(q) <= PrefixMax
    <3>1. Len(<<>>) = 0 /\ 0 <= PrefixMax
      BY SizeAssumption
    <3> QED  BY <3>1, StoredFits DEF Fields
  <2> QED  BY <2>1, EntryIs DEF TypeOK, UrcInv
<1> QED  BY <1>1, UrcInductive, PTL

-----------------------------------------------------------------------------
(* The registry.                                                           *)

Active == {i \in Slots : urc_table[i].active}
Registration(u) == [prefix |-> u.prefix, handler |-> u.handler]

LEMMA RegisteredIs ==
  /\ Registered = {Registration(urc_table[i]) : i \in Active}
  /\ \A r \in Registered : \E i \in Active : r.prefix = urc_table[i].prefix /\ r.handler = urc_table[i].handler
BY DEF Registered, Active, Registration

\* A slot in use is one registration: there are as many as slots only when no
\* slot is free.
LEMMA HowMany ==
  ASSUME UrcInv
  PROVE  IF FreeSlots = {} THEN Cardinality(Registered) = Size ELSE Cardinality(Registered) < Size
<1> DEFINE f == [i \in Active |-> Registration(urc_table[i])]
<1>0. Size \in Nat \ {0}
  BY SizeAssumption
<1>1. IsFiniteSet(Slots) /\ Cardinality(Slots) = Size
  <2>1. 0 \in Int /\ Size - 1 \in Int /\ ~(0 > Size - 1)
    BY <1>0
  <2>2. IsFiniteSet(0 .. Size - 1) /\ Cardinality(0 .. Size - 1) = ((Size - 1) - 0) + 1
    BY <2>1, FS_Interval
  <2> QED  BY <1>0, <2>2 DEF Slots
<1>2. Active \in SUBSET Slots
  BY DEF Active
<1>3. /\ IsFiniteSet(Active) /\ Cardinality(Active) <= Size
      /\ Cardinality(Active) = Size => Active = Slots
  BY <1>1, <1>2, FS_Subset
<1>4. f \in Bijection(Active, Registered)
  <2>1. f \in [Active -> Registered] /\ \A r \in Registered : \E i \in Active : f[i] = r
    BY RegisteredIs
  <2>2. \A i, j \in Active : f[i] = f[j] => i = j
    <3> SUFFICES ASSUME NEW i \in Active, NEW j \in Active, f[i] = f[j] PROVE i = j
      OBVIOUS
    <3>1. f[i].prefix = urc_table[i].prefix /\ f[j].prefix = urc_table[j].prefix
      BY DEF Registration
    <3> QED  BY <3>1 DEF UrcInv, Unique, Active
  <2> HIDE DEF f
  <2>3. DOMAIN f = Active
    BY <2>1
  <2> QED  BY <2>1, <2>2, <2>3 DEF Bijection, Injection, Surjection, IsInjective
<1>5. Cardinality(Registered) = Cardinality(Active)
  BY <1>3, <1>4, FS_Bijection DEF ExistsBijection
<1>6. Active = Slots <=> FreeSlots = {}
  BY DEF Active, FreeSlots
<1>7. Cardinality(Active) \in Nat
  BY <1>3, FS_CardinalityType
<1> QED  BY <1>0, <1>1, <1>3, <1>5, <1>6, <1>7

\* The registry counts as the table does.
LEMMA SameCount == Registry!Cardinality(Registered) = Cardinality(Registered)
BY DEF Cardinality, Registry!Cardinality

\* The registrations of a prefix are those of the slots a search finds.
LEMMA OfIs ==
  ASSUME UrcInv, NEW p
  PROVE  /\ Registry!Of(Stored(p)) = {Registration(urc_table[i]) : i \in SlotsOf(p)}
         /\ Registry!Of(Stored(p)) = {} <=> SlotsOf(p) = {}
         /\ \A i \in SlotsOf(p) : SlotsOf(p) = {i}
<1>1. SlotsOf(p) = {i \in Active : urc_table[i].prefix = Stored(p)}
  BY DEF SlotsOf, Active, Same
<1>2. Registry!Of(Stored(p)) = {Registration(urc_table[i]) : i \in SlotsOf(p)}
  BY <1>1, RegisteredIs DEF Registry!Of, Registration
<1>3. \A i \in SlotsOf(p) : SlotsOf(p) = {i}
  BY <1>1 DEF UrcInv, Unique, Active
<1> QED  BY <1>2, <1>3

LEMMA RegisterMaps ==
  ASSUME UrcInv, NEW p \in Names, NEW h \in Handlers, at_register_urc(p, h)
  PROVE  Registry!Register(Stored(p), h)
<1> DEFINE q == Stored(p)
           r == [prefix |-> q, handler |-> h]
<1>0. urc_table \in [Slots -> Entries] /\ UNCHANGED called /\ UrcInv'
  BY Outcomes, RegisterKeeps DEF UrcInv
<1>1. CASE SlotsOf(p) # {} /\ result' = "OK" /\ urc_table' = [urc_table EXCEPT ![Min(SlotsOf(p))].handler = h]
  <2> DEFINE i == Min(SlotsOf(p))
  <2>1. i \in Active /\ urc_table[i].prefix = q /\ SlotsOf(p) = {i}
    <3>1. i \in Slots /\ urc_table[i].active /\ urc_table[i].prefix = q
      BY <1>1, FoundIs
    <3>2. i \in SlotsOf(p)
      BY <3>1 DEF SlotsOf, Same
    <3> QED  BY <3>1, <3>2, OfIs DEF Active
  <2> HIDE DEF i
  <2>2. urc_table' = [urc_table EXCEPT ![i].handler = h]
    BY <1>1 DEF i
  <2>3. Active' = Active /\ \A j \in Active \ {i} : urc_table'[j] = urc_table[j]
    <3>1. \A j \in Slots : j # i => urc_table'[j] = urc_table[j]
      BY <1>0, <2>2
    <3>2. urc_table'[i].active = urc_table[i].active
      BY <1>0, <2>1, <2>2, EntryIs DEF Active, Entries, Empty
    <3> QED  BY <2>1, <3>1, <3>2 DEF Active
  <2>4. urc_table'[i].prefix = q /\ urc_table'[i].handler = h
    BY <1>0, <2>1, <2>2, EntryIs DEF Active, Entries, Empty
  <2>5. Registration(urc_table'[i]) = r
    BY <2>4 DEF Registration
  <2>6. Registry!Of(q) = {Registration(urc_table[i])}
    BY <2>1, OfIs
  <2>7. \A j \in Active \ {i} : Registration(urc_table[j]) # Registration(urc_table[i])
    <3> SUFFICES ASSUME NEW j \in Active \ {i}, Registration(urc_table[j]) = Registration(urc_table[i])
                 PROVE  FALSE
      OBVIOUS
    <3>1. urc_table[j].prefix = urc_table[i].prefix
      BY DEF Registration
    <3> QED  BY <2>1, <3>1 DEF UrcInv, Unique, Active
  <2>8. Registered' = {Registration(urc_table'[j]) : j \in Active'}
    BY DEF Registered, Active, Registration
  <2>9. Registered' = (Registered \ Registry!Of(q)) \cup {r}
    BY <2>1, <2>3, <2>5, <2>6, <2>7, <2>8, RegisteredIs
  <2>10. Registry!Of(q) # {}
    BY <2>6
  <2> QED  BY <1>0, <1>1, <2>9, <2>10 DEF Registry!Register
<1>2. CASE /\ SlotsOf(p) = {} /\ FreeSlots # {} /\ result' = "OK"
           /\ urc_table' = [urc_table EXCEPT ![FirstFree] =
                              [prefix |-> Stored(p), handler |-> h, active |-> TRUE]]
  <2> DEFINE i == FirstFree
             e == [prefix |-> q, handler |-> h, active |-> TRUE]
  <2>1. i \in Slots /\ ~urc_table[i].active /\ e.active /\ Registration(e) = r
    BY <1>2, FreeIs DEF Registration
  <2> HIDE DEF i, e
  <2>2. urc_table' = [urc_table EXCEPT ![i] = e]
    BY <1>2 DEF i, e
  <2>3. urc_table'[i] = e /\ \A j \in Slots : j # i => urc_table'[j] = urc_table[j]
    BY <1>0, <2>1, <2>2
  <2>4. Active' = Active \cup {i} /\ i \notin Active
    BY <2>1, <2>3 DEF Active
  <2>5. Registered' = {Registration(urc_table'[j]) : j \in Active'}
    BY DEF Registered, Active, Registration
  <2>6. \A j \in Active : urc_table'[j] = urc_table[j]
    BY <2>3, <2>4 DEF Active
  <2>7. Registered' = Registered \cup {r}
    BY <2>1, <2>3, <2>4, <2>5, <2>6, RegisteredIs
  <2>8. Registry!Of(q) = {} /\ Cardinality(Registered) < Size
    BY <1>2, OfIs, HowMany
  <2>9. Registered' = (Registered \ Registry!Of(q)) \cup {r}
    BY <2>7, <2>8
  <2> QED  BY <1>0, <1>2, <2>8, <2>9, SameCount DEF Registry!Register
<1>3. CASE SlotsOf(p) = {} /\ FreeSlots = {} /\ result' = "BUSY" /\ UNCHANGED urc_table
  <2>1. Registry!Of(q) = {} /\ ~(Cardinality(Registered) < Size)
    BY <1>3, OfIs, HowMany, SizeAssumption
  <2>2. UNCHANGED Registered
    BY <1>3 DEF Registered
  <2> QED  BY <1>0, <1>3, <2>1, <2>2, SameCount DEF Registry!Register
<1> QED  BY <1>1, <1>2, <1>3, Outcomes

LEMMA DeregisterMaps ==
  ASSUME UrcInv, NEW p \in Names, at_deregister_urc(p)
  PROVE  Registry!Deregister(Stored(p))
<1> DEFINE q == Stored(p)
<1>0. urc_table \in [Slots -> Entries] /\ UNCHANGED called
  BY DEF UrcInv, at_deregister_urc
<1>1. CASE SlotsOf(p) # {}
  <2> DEFINE i == Min(SlotsOf(p))
  <2>1. i \in Active /\ SlotsOf(p) = {i} /\ urc_table' = [urc_table EXCEPT ![i] = Empty] /\ result' = "OK"
    <3>1. i \in Slots /\ urc_table[i].active /\ urc_table[i].prefix = q
      BY <1>1, FoundIs
    <3>2. i \in SlotsOf(p)
      BY <3>1 DEF SlotsOf, Same
    <3> QED  BY <1>1, <3>1, <3>2, OfIs DEF Active, at_deregister_urc
  <2> HIDE DEF i
  <2>2. urc_table'[i] = Empty /\ ~Empty.active /\ \A j \in Slots : j # i => urc_table'[j] = urc_table[j]
    BY <1>0, <2>1 DEF Active, Empty
  <2>3. Active' = Active \ {i}
    BY <2>1, <2>2 DEF Active
  <2>4. Registry!Of(q) = {Registration(urc_table[i])}
    BY <2>1, OfIs
  <2>5. \A j \in Active \ {i} : Registration(urc_table[j]) # Registration(urc_table[i])
    <3> SUFFICES ASSUME NEW j \in Active \ {i}, Registration(urc_table[j]) = Registration(urc_table[i])
                 PROVE  FALSE
      OBVIOUS
    <3>1. urc_table[j].prefix = urc_table[i].prefix
      BY DEF Registration
    <3> QED  BY <2>1, <3>1 DEF UrcInv, Unique, Active
  <2>6. Registered' = {Registration(urc_table'[j]) : j \in Active'}
    BY DEF Registered, Active, Registration
  <2>7. \A j \in Active \ {i} : urc_table'[j] = urc_table[j]
    BY <2>2 DEF Active
  <2>8. Registered' = Registered \ Registry!Of(q)
    BY <2>1, <2>3, <2>4, <2>5, <2>6, <2>7, RegisteredIs
  <2> QED  BY <1>0, <2>1, <2>4, <2>8 DEF Registry!Deregister
<1>2. CASE SlotsOf(p) = {}
  <2>1. Registry!Of(q) = {} /\ result' = "PARAM" /\ UNCHANGED urc_table
    BY <1>2, OfIs DEF at_deregister_urc
  <2>2. UNCHANGED Registered
    BY <2>1 DEF Registered
  <2> QED  BY <1>0, <2>1, <2>2 DEF Registry!Deregister
<1> QED  BY <1>1, <1>2

LEMMA DispatchMaps ==
  ASSUME UrcInv, NEW l \in Lines, urc_dispatch(l)
  PROVE  Registry!Give(l)
<1>0. UNCHANGED <<Registered, result>>
  BY DEF urc_dispatch, Registered
<1>1. CASE Matching(l) = {}
  <2>1. \A r \in Registered : ~IsPrefix(r.prefix, l)
    BY <1>1, RegisteredIs DEF Active, Matching
  <2> QED  BY <1>0, <1>1, <2>1 DEF Registry!Give, urc_dispatch
<1>2. CASE Matching(l) # {}
  <2> DEFINE i == Min(Matching(l))
  <2>1. i \in Active /\ IsPrefix(urc_table[i].prefix, l)
    BY <1>2, FirstMatchIs DEF Matching, Active
  <2>2. called' = urc_table[i].handler
    BY <1>2 DEF urc_dispatch
  <2> HIDE DEF i
  <2>3. PICK r : r = Registration(urc_table[i])
    OBVIOUS
  <2>4. r \in Registered /\ r.prefix = urc_table[i].prefix /\ r.handler = urc_table[i].handler
    BY <2>1, <2>3, RegisteredIs DEF Registration
  <2> QED  BY <1>0, <2>1, <2>2, <2>4 DEF Registry!Give
<1> QED  BY <1>1, <1>2

\* Seen from outside, the slots, the searches and the truncation to the field
\* are a set of registrations, one per prefix, of at most Size.
THEOREM RegistryImplemented == Spec => ImplementsRegistry
<1>1. Init => Registry!Init
  BY DEF Init, Registry!Init, Registered, Empty
<1>2. UrcInv /\ [Next]_vars => [Registry!Next]_(Registry!rvars)
  <2> SUFFICES ASSUME UrcInv, [Next]_vars PROVE Registry!Next \/ UNCHANGED Registry!rvars
    OBVIOUS
  <2>1. ASSUME NEW p \in Names, at_deregister_urc(p) PROVE Registry!Next
    BY <2>1, DeregisterMaps DEF Registry!Next
  <2>2. ASSUME NEW p \in Names, NEW h \in Handlers, at_register_urc(p, h) PROVE Registry!Next
    BY <2>2, RegisterMaps DEF Registry!Next
  <2>3. ASSUME NEW l \in Lines, urc_dispatch(l) PROVE Registry!Next
    BY <2>3, DispatchMaps DEF Registry!Next
  <2>4. CASE at_deinit
    BY <2>4 DEF at_deinit, Registry!Next, Registry!Clear, Registered, Empty
  <2>5. CASE UNCHANGED vars
    BY <2>5 DEF vars, Registry!rvars, Registered
  <2> QED  BY <2>1, <2>2, <2>3, <2>4, <2>5 DEF Next
<1>3. Registry!Init /\ [][Registry!Next]_(Registry!rvars) => ImplementsRegistry
  BY DEF ImplementsRegistry, Registry!Spec
<1> QED  BY <1>1, <1>2, <1>3, UrcInductive, PTL DEF Spec

-----------------------------------------------------------------------------
(* The order of registration.                                              *)

\* The history holds each registered prefix once and, until a slot before one
\* in use is freed, in the order of the slots.
OrderInv ==
  /\ order \in Seq(Fields) /\ gap \in BOOLEAN
  /\ \A j, k \in DOMAIN order : order[j] = order[k] => j = k
  /\ \A k \in DOMAIN order : \E i \in Active : urc_table[i].prefix = order[k]
  /\ \A i \in Active : \E k \in DOMAIN order : order[k] = urc_table[i].prefix
  /\ ~gap => \A i \in Slots :
       IF i < Len(order) THEN i \in Active /\ urc_table[i].prefix = order[i+1]
                         ELSE i \notin Active

\* What RemoveAt leaves.
LEMMA Removed ==
  ASSUME NEW S, NEW s \in Seq(S), NEW k \in 1 .. Len(s)
  PROVE  /\ RemoveAt(s, k) \in Seq(S) /\ Len(RemoveAt(s, k)) = Len(s) - 1
         /\ \A i \in 1 .. Len(s) - 1 : RemoveAt(s, k)[i] = IF i < k THEN s[i] ELSE s[i+1]
<1> DEFINE n == Len(s)
           a == SubSeq(s, 1, k - 1)
           b == SubSeq(s, k + 1, n)
<1>1. n \in Nat /\ k \in 1 .. n /\ \A i \in 1 .. n : s[i] \in S
  OBVIOUS
<1> HIDE DEF n
<1>2. /\ a \in Seq(S) /\ Len(a) = k - 1
      /\ \A i \in 1 .. k - 1 : a[i] = s[i]
  BY <1>1 DEF n
<1>3. /\ b \in Seq(S) /\ Len(b) = n - k
      /\ \A i \in 1 .. n - k : b[i] = s[k + i]
  BY <1>1 DEF n
<1> HIDE DEF a, b
<1>4. RemoveAt(s, k) = a \o b
  BY DEF RemoveAt, a, b, n
<1>5. /\ a \o b \in Seq(S) /\ Len(a \o b) = n - 1
      /\ \A i \in 1 .. n - 1 : (a \o b)[i] = IF i <= k - 1 THEN a[i] ELSE b[i - (k - 1)]
  <2>1. Len(a) + Len(b) = n - 1
    BY <1>1, <1>2, <1>3
  <2> QED  BY <1>2, <1>3, <2>1, ConcatProperties
<1>6. ASSUME NEW i \in 1 .. n - 1
      PROVE  (a \o b)[i] = IF i < k THEN s[i] ELSE s[i+1]
  <2>1. CASE i < k
    <3>1. i \in 1 .. k - 1 /\ i <= k - 1
      BY <1>1, <2>1
    <3>2. (a \o b)[i] = a[i]
      BY <1>5, <3>1
    <3> QED  BY <1>2, <2>1, <3>1, <3>2
  <2>2. CASE ~(i < k)
    <3>1. i - (k - 1) \in 1 .. n - k /\ k + (i - (k - 1)) = i + 1 /\ ~(i <= k - 1)
      BY <1>1, <2>2
    <3>2. (a \o b)[i] = b[i - (k - 1)]
      BY <1>5, <3>1
    <3>3. b[i - (k - 1)] = s[k + (i - (k - 1))]
      BY <1>3, <3>1
    <3> QED  BY <2>2, <3>1, <3>2, <3>3
  <2> QED  BY <2>1, <2>2
<1> QED  BY <1>4, <1>5, <1>6 DEF n

\* A registration keeps the order.
LEMMA RegisterOrder ==
  ASSUME UrcInv, OrderInv, NEW p \in Names, NEW h \in Handlers, at_register_urc(p, h)
  PROVE  OrderInv'
<1>0. /\ urc_table \in [Slots -> Entries] /\ UNCHANGED gap /\ Stored(p) \in Fields
      /\ Slots \subseteq Nat /\ Active \subseteq Slots
  BY SlotsAreNat DEF UrcInv, at_register_urc, Fields, Active
<1>1. CASE SlotsOf(p) # {}
  <2> DEFINE i == Min(SlotsOf(p))
  <2>1. i \in Slots /\ UNCHANGED order
    BY <1>1, FoundIs DEF at_register_urc
  <2>2. urc_table' = [urc_table EXCEPT ![i].handler = h]
    BY <1>1 DEF at_register_urc
  <2> HIDE DEF i
  <2>3. \A j \in Slots : /\ urc_table'[j].active = urc_table[j].active
                         /\ urc_table'[j].prefix = urc_table[j].prefix
    <3> SUFFICES ASSUME NEW j \in Slots
                 PROVE  /\ urc_table'[j].active = urc_table[j].active
                        /\ urc_table'[j].prefix = urc_table[j].prefix
      OBVIOUS
    <3>1. urc_table[j] \in Entries
      BY <1>0
    <3> QED  BY <1>0, <2>1, <2>2, <3>1 DEF Entries, Empty
  <2>4. Active' = Active
    BY <2>3 DEF Active
  <2>5. \A j \in Active : urc_table'[j].prefix = urc_table[j].prefix
    BY <1>0, <2>3
  <2>6. /\ \A k \in DOMAIN order : \E m \in Active : urc_table'[m].prefix = order[k]
        /\ \A m \in Active : \E k \in DOMAIN order : order[k] = urc_table'[m].prefix
    BY <2>5 DEF OrderInv
  <2>7. ~gap => \A m \in Slots :
          IF m < Len(order) THEN m \in Active /\ urc_table'[m].prefix = order[m+1]
                            ELSE m \notin Active
    BY <2>3 DEF OrderInv
  <2> QED  BY <1>0, <2>1, <2>4, <2>6, <2>7 DEF OrderInv
<1>2. CASE SlotsOf(p) = {} /\ FreeSlots # {}
  <2> DEFINE i == FirstFree
             e == [prefix |-> Stored(p), handler |-> h, active |-> TRUE]
             n == Len(order)
  <2>1. i \in Slots /\ i \notin Active /\ e.active /\ e.prefix = Stored(p)
    BY <1>2, FreeIs DEF Active
  <2>2. urc_table' = [urc_table EXCEPT ![i] = e] /\ order' = Append(order, Stored(p))
    BY <1>2 DEF at_register_urc
  <2>3. \A j \in Slots : ~urc_table[j].active => i <= j
    <3>1. FreeSlots \in SUBSET Nat
      BY <1>0 DEF FreeSlots
    <3> QED  BY <1>2, <3>1, MinOfSet DEF FirstFree, FreeSlots
  <2> HIDE DEF i, e
  <2>4. urc_table'[i] = e /\ \A j \in Slots : j # i => urc_table'[j] = urc_table[j]
    BY <1>0, <2>1, <2>2
  <2>5. Active' = Active \cup {i}
    BY <2>1, <2>4 DEF Active
  <2>6. \A k \in DOMAIN order : order[k] # Stored(p)
    <3> SUFFICES ASSUME NEW k \in DOMAIN order, order[k] = Stored(p) PROVE FALSE
      OBVIOUS
    <3>1. PICK j \in Active : urc_table[j].prefix = order[k]
      BY DEF OrderInv
    <3> QED  BY <1>2, <3>1 DEF SlotsOf, Same, Active
  <2>7. order \in Seq(Fields) /\ n \in Nat /\ DOMAIN order = 1 .. n
    BY DEF OrderInv
  <2>8. /\ order' \in Seq(Fields) /\ Len(order') = n + 1 /\ DOMAIN order' = 1 .. n + 1
        /\ \A k \in 1 .. n : order'[k] = order[k]
        /\ order'[n+1] = Stored(p)
    BY <1>0, <2>2, <2>7
  <2> HIDE DEF n
  <2>9. \A k \in DOMAIN order' : k \in DOMAIN order \/ k = n + 1
    BY <2>7, <2>8
  <2>10. \A j, k \in DOMAIN order' : order'[j] = order'[k] => j = k
    BY <2>6, <2>7, <2>8, <2>9 DEF OrderInv
  <2>11. \A k \in DOMAIN order' : \E j \in Active' : urc_table'[j].prefix = order'[k]
    <3> SUFFICES ASSUME NEW k \in DOMAIN order'
                 PROVE  \E j \in Active' : urc_table'[j].prefix = order'[k]
      OBVIOUS
    <3>1. CASE k = n + 1
      BY <2>1, <2>4, <2>5, <2>8, <3>1
    <3>2. CASE k \in DOMAIN order
      <4>1. PICK j \in Active : urc_table[j].prefix = order[k]
        BY <3>2 DEF OrderInv
      <4>2. j \in Slots /\ j # i
        BY <1>0, <2>1, <4>1
      <4> QED  BY <2>4, <2>5, <2>7, <2>8, <3>2, <4>1, <4>2
    <3> QED  BY <2>9, <3>1, <3>2
  <2>12. \A j \in Active' : \E k \in DOMAIN order' : order'[k] = urc_table'[j].prefix
    <3> SUFFICES ASSUME NEW j \in Active'
                 PROVE  \E k \in DOMAIN order' : order'[k] = urc_table'[j].prefix
      OBVIOUS
    <3>1. CASE j = i
      BY <2>1, <2>4, <2>7, <2>8, <3>1
    <3>2. CASE j \in Active /\ j # i
      <4>1. PICK k \in DOMAIN order : order[k] = urc_table[j].prefix
        BY <3>2 DEF OrderInv
      <4>2. k \in DOMAIN order' /\ order'[k] = order[k]
        BY <2>7, <2>8, <4>1
      <4> QED  BY <1>0, <2>4, <3>2, <4>1, <4>2
    <3> QED  BY <2>5, <3>1, <3>2
  <2>13. ASSUME ~gap', NEW j \in Slots
         PROVE  IF j < Len(order') THEN j \in Active' /\ urc_table'[j].prefix = order'[j+1]
                                   ELSE j \notin Active'
    <3>1. \A m \in Slots :
            IF m < n THEN m \in Active /\ urc_table[m].prefix = order[m+1] ELSE m \notin Active
      BY <1>0, <2>13 DEF OrderInv, n
    <3>2. i = n
      <4>1. i >= n
        BY <1>0, <2>1, <2>7, <3>1
      <4>2. n \in Slots
        BY <1>0, <2>1, <2>7, <4>1, SizeAssumption DEF Slots
      <4>3. ~urc_table[n].active
        BY <2>7, <3>1, <4>2 DEF Active
      <4>4. i <= n
        BY <2>3, <4>2, <4>3
      <4> QED  BY <1>0, <2>1, <2>7, <4>1, <4>4
    <3>3. CASE j = n
      BY <2>1, <2>4, <2>5, <2>7, <2>8, <3>2, <3>3
    <3>4. CASE j < n
      <4>1. j \in Active /\ urc_table[j].prefix = order[j+1] /\ j # i /\ j + 1 \in 1 .. n
        BY <1>0, <2>7, <3>1, <3>2, <3>4
      <4> QED  BY <1>0, <2>4, <2>5, <2>7, <2>8, <3>4, <4>1
    <3>5. CASE j > n
      <4>1. j \notin Active /\ j # i /\ ~(j < n + 1)
        BY <1>0, <2>7, <3>1, <3>2, <3>5
      <4> QED  BY <2>5, <2>8, <4>1
    <3> QED  BY <1>0, <2>7, <3>3, <3>4, <3>5
  <2> QED  BY <1>0, <2>8, <2>10, <2>11, <2>12, <2>13 DEF OrderInv
<1>3. CASE SlotsOf(p) = {} /\ FreeSlots = {}
  <2>1. UNCHANGED <<urc_table, order>>
    BY <1>3 DEF at_register_urc
  <2> QED  BY <1>0, <2>1 DEF OrderInv, Active
<1> QED  BY <1>1, <1>2, <1>3

\* So does a removal of the last one; any other leaves a gap.
LEMMA DeregisterOrder ==
  ASSUME UrcInv, OrderInv, NEW p \in Names, at_deregister_urc(p)
  PROVE  OrderInv'
<1>1. CASE SlotsOf(p) # {}
  <2> DEFINE d == Min(SlotsOf(p))
             k == CHOOSE m \in DOMAIN order : order[m] = Stored(p)
             n == Len(order)
             f(i) == IF i < k THEN i ELSE i + 1
  <2>0. /\ urc_table \in [Slots -> Entries] /\ Slots \subseteq Nat
        /\ order \in Seq(Fields) /\ n \in Nat /\ DOMAIN order = 1 .. n /\ gap \in BOOLEAN
    BY SlotsAreNat DEF UrcInv, OrderInv
  <2>1. d \in Slots /\ d \in Active /\ urc_table[d].prefix = Stored(p)
    BY <1>1, FoundIs DEF Active
  <2>2. k \in 1 .. n /\ order[k] = Stored(p)
    <3>1. \E m \in DOMAIN order : order[m] = Stored(p)
      BY <2>1 DEF OrderInv
    <3> QED  BY <2>0, <3>1
  <2>3. /\ urc_table' = [urc_table EXCEPT ![d] = Empty] /\ order' = RemoveAt(order, k)
        /\ gap' = (order' # <<>> /\ (gap \/ Last(order) # Stored(p)))
    BY <1>1 DEF at_deregister_urc
  <2> HIDE DEF d, k, n
  <2>4. /\ ~urc_table'[d].active
        /\ \A j \in Slots : j # d => urc_table'[j] = urc_table[j]
    BY <2>0, <2>1, <2>3 DEF Empty
  <2>5. Active' = Active \ {d}
    BY <2>1, <2>4 DEF Active
  <2>6. /\ order' \in Seq(Fields) /\ Len(order') = n - 1 /\ DOMAIN order' = 1 .. n - 1
        /\ \A i \in 1 .. n - 1 : order'[i] = order[f(i)]
    <3>1. /\ order' \in Seq(Fields) /\ Len(order') = n - 1
          /\ \A i \in 1 .. n - 1 : order'[i] = IF i < k THEN order[i] ELSE order[i+1]
      BY <2>0, <2>2, <2>3, Removed DEF n
    <3> QED  BY <2>0, <3>1
  <2>7. /\ \A i \in 1 .. n - 1 : f(i) \in 1 .. n /\ f(i) # k
        /\ \A i, j \in 1 .. n - 1 : f(i) = f(j) => i = j
    BY <2>0, <2>2
  <2>8. \A m \in 1 .. n : m # k => \E i \in 1 .. n - 1 : f(i) = m
    <3> SUFFICES ASSUME NEW m \in 1 .. n, m # k PROVE \E i \in 1 .. n - 1 : f(i) = m
      OBVIOUS
    <3>1. CASE m < k
      <4>1. m \in 1 .. n - 1 /\ f(m) = m
        BY <2>0, <2>2, <3>1
      <4> QED  BY <4>1
    <3>2. CASE m > k
      <4>1. m - 1 \in 1 .. n - 1 /\ f(m - 1) = m
        BY <2>0, <2>2, <3>2
      <4> QED  BY <4>1
    <3> QED  BY <2>0, <2>2, <3>1, <3>2
  <2> HIDE DEF f
  <2>9. \A i, j \in DOMAIN order : order[i] = order[j] => i = j
    BY DEF OrderInv
  <2>10. \A i, j \in DOMAIN order' : order'[i] = order'[j] => i = j
    BY <2>0, <2>6, <2>7, <2>9
  <2>11. ASSUME NEW i \in DOMAIN order'
         PROVE  \E j \in Active' : urc_table'[j].prefix = order'[i]
    <3>1. f(i) \in DOMAIN order /\ f(i) # k /\ order'[i] = order[f(i)]
      BY <2>0, <2>6, <2>7
    <3>2. PICK j \in Active : urc_table[j].prefix = order[f(i)]
      BY <3>1 DEF OrderInv
    <3>3. j # d
      BY <2>0, <2>1, <2>2, <2>9, <3>1, <3>2
    <3>4. j \in Slots
      BY DEF Active
    <3> QED  BY <2>4, <2>5, <3>1, <3>2, <3>3, <3>4
  <2>12. ASSUME NEW j \in Active'
         PROVE  \E i \in DOMAIN order' : order'[i] = urc_table'[j].prefix
    <3>1. j \in Active /\ j # d /\ j \in Slots /\ urc_table'[j] = urc_table[j]
      BY <2>4, <2>5 DEF Active
    <3>2. PICK m \in DOMAIN order : order[m] = urc_table[j].prefix
      BY <3>1 DEF OrderInv
    <3>3. m # k
      BY <2>1, <2>2, <3>1, <3>2 DEF UrcInv, Unique, Active
    <3>4. PICK i \in 1 .. n - 1 : f(i) = m
      BY <2>0, <2>8, <3>2, <3>3
    <3> QED  BY <2>6, <3>1, <3>2, <3>4
  <2>13. ASSUME ~gap', NEW j \in Slots
         PROVE  IF j < Len(order') THEN j \in Active' /\ urc_table'[j].prefix = order'[j+1]
                                   ELSE j \notin Active'
    <3>1. CASE order' = <<>>
      <4>1. DOMAIN order' = {} /\ Len(order') = 0
        BY <3>1
      <4>2. j \notin Active'
        BY <2>12, <4>1
      <4> QED  BY <2>0, <4>1, <4>2
    <3>2. CASE order' # <<>>
      <4>1. ~gap /\ Last(order) = Stored(p)
        BY <2>0, <2>3, <2>13, <3>2
      <4>2. n \in 1 .. n /\ order[n] = Stored(p)
        BY <2>0, <2>2, <4>1 DEF Last, n
      <4>3. k = n
        BY <2>0, <2>2, <2>9, <4>2
      <4>4. \A m \in Slots :
              IF m < n THEN m \in Active /\ urc_table[m].prefix = order[m+1]
                       ELSE m \notin Active
        BY <4>1 DEF OrderInv, n
      <4>5. d < n /\ order[d+1] = Stored(p) /\ d + 1 \in 1 .. n
        BY <2>0, <2>1, <4>4
      <4>6. d + 1 = n
        BY <2>0, <2>9, <4>2, <4>5
      <4>7. CASE j < n - 1
        <5>1. /\ j \in Nat /\ j # d /\ j < n /\ j + 1 \in 1 .. n - 1 /\ f(j + 1) = j + 1
          BY <2>0, <2>1, <4>3, <4>6, <4>7 DEF f
        <5>2. order'[j+1] = order[j+1]
          BY <2>6, <5>1
        <5>3. j \in Active /\ urc_table[j].prefix = order[j+1]
          BY <4>4, <5>1
        <5> QED  BY <2>4, <2>5, <2>6, <4>7, <5>1, <5>2, <5>3
      <4>8. CASE ~(j < n - 1)
        <5>1. j = d \/ j \notin Active
          BY <2>0, <2>1, <4>4, <4>6, <4>8
        <5> QED  BY <2>5, <2>6, <4>8, <5>1
      <4> QED  BY <4>7, <4>8
    <3> QED  BY <3>1, <3>2
  <2>14. gap' \in BOOLEAN
    BY <2>3
  <2> QED  BY <2>6, <2>10, <2>11, <2>12, <2>13, <2>14 DEF OrderInv
<1>2. CASE SlotsOf(p) = {}
  <2>1. UNCHANGED <<urc_table, order, gap>>
    BY <1>2 DEF at_deregister_urc
  <2> QED  BY <2>1 DEF OrderInv, Active
<1> QED  BY <1>1, <1>2

THEOREM OrderInductive == Spec => []OrderInv
<1>1. Init => OrderInv
  <2> SUFFICES ASSUME Init PROVE OrderInv
    OBVIOUS
  <2>1. Active = {}
    BY DEF Init, Active, Empty
  <2>2. order = <<>> /\ ~gap /\ gap \in BOOLEAN
    BY DEF Init
  <2>3. order \in Seq(Fields) /\ Len(order) = 0 /\ DOMAIN order = {}
    BY <2>2
  <2> QED  BY SlotsAreNat, <2>1, <2>2, <2>3 DEF OrderInv
<1>2. UrcInv /\ OrderInv /\ [Next]_vars => OrderInv'
  <2> SUFFICES ASSUME UrcInv, OrderInv, [Next]_vars PROVE OrderInv'
    OBVIOUS
  <2>1. ASSUME NEW p \in Names, at_deregister_urc(p) PROVE OrderInv'
    BY <2>1, DeregisterOrder
  <2>2. ASSUME NEW p \in Names, NEW h \in Handlers, at_register_urc(p, h) PROVE OrderInv'
    BY <2>2, RegisterOrder
  <2>3. ASSUME NEW l \in Lines, urc_dispatch(l) PROVE OrderInv'
    BY <2>3 DEF urc_dispatch, OrderInv, Active
  <2>4. CASE at_deinit
    <3>1. Active' = {}
      BY <2>4 DEF at_deinit, Active, Empty
    <3>2. order' = <<>> /\ ~gap' /\ gap' \in BOOLEAN
      BY <2>4 DEF at_deinit
    <3>3. order' \in Seq(Fields) /\ Len(order') = 0 /\ DOMAIN order' = {}
      BY <3>2
    <3>4. \A j \in Slots : ~(j < 0)
      BY SlotsAreNat
    <3> QED  BY <3>1, <3>2, <3>3, <3>4 DEF OrderInv
  <2>5. CASE UNCHANGED vars
    BY <2>5 DEF vars, OrderInv, Active
  <2> QED  BY <2>1, <2>2, <2>3, <2>4, <2>5 DEF Next
<1> QED  BY <1>1, <1>2, UrcInductive, PTL DEF Spec

\* Where no gap was left, the first slot that matches holds the earliest
\* registered of the matching prefixes.
LEMMA EarliestMatches ==
  ASSUME UrcInv, OrderInv, ~gap, NEW l, Matching(l) # {}
  PROVE  urc_table[Min(Matching(l))].prefix =
           order[Min({k \in DOMAIN order : IsPrefix(order[k], l)})]
<1> DEFINE n == Len(order)
           K == {k \in DOMAIN order : IsPrefix(order[k], l)}
           i == Min(Matching(l))
           a == Min(K)
<1>0. n \in Nat /\ DOMAIN order = 1 .. n /\ Slots \subseteq Nat
  BY SlotsAreNat DEF OrderInv
<1>1. \A m \in Slots :
        IF m < n THEN m \in Active /\ urc_table[m].prefix = order[m+1] ELSE m \notin Active
  BY DEF OrderInv
<1>2. \A m \in Matching(l) : m \in Slots /\ m \in Active /\ IsPrefix(urc_table[m].prefix, l)
  BY DEF Matching, Active
<1>3. i \in Matching(l) /\ \A m \in Matching(l) : i <= m
  BY <1>0, MinOfSet DEF Matching
<1> HIDE DEF i, n
<1>4. i \in Slots /\ i < n /\ urc_table[i].prefix = order[i+1]
  BY <1>0, <1>1, <1>2, <1>3
<1>5. i + 1 \in K
  <2> HIDE DEF K
  <2>1. i + 1 \in DOMAIN order
    <3>1. i \in Nat /\ i < n /\ n \in Nat
      BY <1>0, <1>4
    <3>2. i + 1 \in 1 .. n
      BY <3>1
    <3> QED  BY <1>0, <3>2
  <2>2. PICK u : u = urc_table[i].prefix
    OBVIOUS
  <2>3. IsPrefix(u, l) /\ u = order[i+1]
    BY <1>2, <1>3, <1>4, <2>2
  <2> QED  BY <2>1, <2>3, Zenon DEF K
<1>6. a \in K /\ \A k \in K : a <= k
  <2>1. K \in SUBSET Nat
    BY <1>0
  <2> QED  BY <1>5, <2>1, MinOfSet
<1>7. a \in 1 .. n /\ IsPrefix(order[a], l) /\ a <= i + 1
  BY <1>0, <1>5, <1>6
<1> HIDE DEF a, K
<1>8. a - 1 \in Slots /\ a - 1 < n /\ (a - 1) + 1 = a
  BY <1>0, <1>4, <1>7, SizeAssumption DEF Slots
<1>9. a - 1 \in Active /\ urc_table[a - 1].prefix = order[a]
  BY <1>1, <1>8
<1>10. a - 1 \in Matching(l)
  BY <1>7, <1>8, <1>9 DEF Matching, Active
<1>11. a = i + 1
  BY <1>0, <1>3, <1>4, <1>7, <1>10
<1> QED  BY <1>4, <1>11 DEF i, a, K

\* "Registration is checked in order; first match wins", for every size of
\* the table and every set of prefixes and lines.
THEOREM FirstWins == Spec => []FirstRegisteredWins
<1>1. UrcInv /\ OrderInv => FirstRegisteredWins
  BY EarliestMatches DEF FirstRegisteredWins
<1> QED  BY <1>1, UrcInductive, OrderInductive, PTL
=============================================================================

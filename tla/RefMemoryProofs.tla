-------------------------- MODULE RefMemoryProofs ---------------------------
(***************************************************************************)
(* Theorems about RefMemory, for every size of memory, every image, every  *)
(* context and every program.                                              *)
(***************************************************************************)
EXTENDS RefMemory, TLAPS

-----------------------------------------------------------------------------
(* Words and addresses                                                     *)

LEMMA ComputedType ==
  ASSUME NEW kind \in AmoKinds, NEW old \in Words, NEW data \in Words
  PROVE  Computed(kind, old, data) \in Words
<1>1. Plus(old, data) \in Words /\ Xor(old, data) \in Words
      /\ old \cup data \in Words /\ old \cap data \in Words
  BY DEF Plus, Xor, Words
<1>2. /\ (IF SignedBelow(data, old) THEN data ELSE old) \in Words
      /\ (IF SignedBelow(data, old) THEN old ELSE data) \in Words
      /\ (IF Below(old, data) THEN old ELSE data) \in Words
      /\ (IF Below(data, old) THEN old ELSE data) \in Words
  OBVIOUS
<1>3. kind \in {"add", "swap", "xor", "or", "and", "min", "max", "minu", "maxu"}
  BY DEF AmoKinds
<1>. QED  BY <1>1, <1>2, <1>3, Zenon DEF Computed

LEMMA SquareNumbers ==
  ASSUME NEW e \in Nat \ {0}
  PROVE  /\ e * e \in Nat /\ e * e >= 1
         /\ \A p \in Nat : p < e * e => p \div e \in Nat /\ p \div e < e
<1>1. e * e \in Nat
  OBVIOUS
<1>2. e * e >= 1
  OBVIOUS
<1>3. ASSUME NEW p \in Nat, p < e * e PROVE p \div e \in Nat /\ p \div e < e
  BY <1>3
<1>. QED  BY <1>1, <1>2, <1>3

LEMMA Shapes ==
  /\ Entries \in Nat \ {0}
  /\ RamPages \cup IoPages \subseteq Pages
  /\ \A a \in Addrs : a[1] \in Pages /\ a[2] \in Indices /\ a = <<a[1], a[2]>>
  /\ \A page \in Pages, k \in Indices : <<page, k>> \in Addrs
  /\ \A a \in Addrs : vpn1(a) \in Indices /\ vpn0(a) \in Indices
<1>1. Entries \in Nat \ {0} /\ RamPages \cup IoPages \subseteq Pages
  BY RefMemoryAssumption
<1>. HIDE DEF Entries
<1>2. \A a \in Addrs : a[1] \in Pages /\ a[2] \in Indices /\ a = <<a[1], a[2]>>
  BY DEF Addrs
<1>3. \A page \in Pages, k \in Indices : <<page, k>> \in Addrs
  BY DEF Addrs
<1>4. ASSUME NEW a \in Addrs PROVE vpn1(a) \in Indices /\ vpn0(a) \in Indices
  <2>1. a[1] \in Nat /\ a[1] < Entries * Entries
    BY <1>1, <1>2, SquareNumbers DEF Pages
  <2>2. a[1] \div Entries \in Nat /\ a[1] \div Entries < Entries
    BY <1>1, <2>1, SquareNumbers
  <2>. QED  BY <1>1, <2>1, <2>2 DEF vpn1, vpn0, Indices
<1>. QED  BY <1>1, <1>2, <1>3, <1>4

\* What can be reached is a word of the memory.
LEMMA ReachedWord ==
  ASSUME NEW va \in Addrs, NEW type, Reaches(va, type)
  PROVE  Address(va, type) \in Addrs /\ InMemory(Address(va, type))
<1>1. Address(va, type) # Fault /\ InMemory(Address(va, type))
  BY DEF Reaches, Survives
<1>2. CASE Address(va, type) = va
  BY <1>1, <1>2
<1>3. CASE Address(va, type) # va
  <2>1. PICK page : Address(va, type) = <<page, va[2]>>
    BY <1>1, <1>3 DEF Address, va2pa
  <2>2. page \in Pages
    BY <1>1, <2>1, Shapes DEF InMemory
  <2>. QED  BY <1>1, <2>1, <2>2, Shapes
<1>. QED  BY <1>2, <1>3

LEMMA ReachedSets ==
  /\ \A pa \in Loadable : pa \in Addrs /\ InMemory(pa)
  /\ \A pa \in Storable : pa \in Addrs /\ InMemory(pa)
  /\ \A pa \in Atomable : pa \in Addrs /\ InMemory(pa)
BY ReachedWord DEF Loadable, Storable, Atomable

\* A step writes some word the code may store to, or none.
Writes(pa, data, lanes) ==
  /\ pa \in Storable \cup Atomable
  /\ data \in Words
  /\ store_data(pa, data, lanes)
  /\ UNCHANGED <<reserve_addr, context, reserved, entry>>

LEMMA Steps ==
  ASSUME TypeOK, Next
  PROVE  \/ \E pa \in Storable \cup Atomable, data \in Words, lanes \in Words :
              Writes(pa, data, lanes)
         \/ \E pa \in Loadable : LoadReserved(pa)
         \/ /\ reserve_valid' = FALSE
            /\ UNCHANGED <<memory, stores, reserve_addr, context, reserved, entry>>
         \/ \E c \in Contexts : Switch(c)
         \/ UNCHANGED vars
<1>0. Operands \subseteq Words /\ Strobes \subseteq Words /\ Kinds \subseteq AmoKinds
      /\ BitIndices \in Words /\ memory \in Memory
  BY RefMemoryAssumption DEF Words, TypeOK
<1>1. ASSUME NEW pa \in Storable, NEW data \in Operands, NEW lanes \in Strobes,
             StoreWord(pa, data, lanes)
      PROVE  data \in Words /\ lanes \in Words /\ Writes(pa, data, lanes)
  BY <1>0, <1>1 DEF StoreWord, Writes
<1>2. ASSUME NEW pa \in Storable, NEW data \in Operands, StoreConditional(pa, data)
      PROVE  \/ data \in Words /\ Writes(pa, data, BitIndices)
             \/ /\ reserve_valid' = FALSE
                /\ UNCHANGED <<memory, stores, reserve_addr, context, reserved, entry>>
  BY <1>0, <1>2 DEF StoreConditional, Writes
<1>3. ASSUME NEW pa \in Atomable, NEW kind \in Kinds, NEW data \in Operands,
             Amo(pa, kind, data)
      PROVE  /\ Computed(kind, memory[pa], data) \in Words
             /\ Writes(pa, Computed(kind, memory[pa], data), BitIndices)
  <2>1. memory[pa] \in Words
    BY <1>0, ReachedSets DEF Memory
  <2>2. Computed(kind, memory[pa], data) \in Words
    BY <1>0, <2>1, ComputedType
  <2>. QED  BY <1>3, <2>2 DEF Amo, Writes
<1>4. ASSUME NEW c \in Contexts, PageFault(c) \/ SwitchContext(c) PROVE Switch(c)
  BY <1>4 DEF PageFault, SwitchContext
<1>5. CASE Instruction
  BY <1>0, <1>1, <1>2, <1>3, <1>5 DEF Instruction, LoadWord
<1>6. CASE \E c \in Contexts : PageFault(c) \/ SwitchContext(c)
  BY <1>4, <1>6
<1>. QED  BY <1>5, <1>6 DEF Next

\* A write changes one word, and leaves no reservation.
LEMMA WriteChanges ==
  ASSUME TypeOK, NEW pa \in Storable \cup Atomable, NEW data \in Words, NEW lanes \in Words,
         Writes(pa, data, lanes)
  PROVE  /\ memory' \in Memory /\ stores' \in 0 .. MaxStores
         /\ \A a \in DOMAIN memory : a # pa => memory'[a] = memory[a]
         /\ DOMAIN memory' = DOMAIN memory
         /\ reserve_valid' = FALSE
         /\ UNCHANGED <<reserve_addr, context, reserved, entry>>
<1>1. memory \in Memory /\ pa \in Addrs /\ InMemory(pa) /\ memory[pa] \in Words
  BY ReachedSets DEF TypeOK, Memory
<1>2. memory' = [memory EXCEPT ![pa] = (data \cap lanes) \cup (@ \ lanes)]
      /\ stores < MaxStores /\ stores' = stores + 1 /\ reserve_valid' = FALSE
      /\ UNCHANGED <<reserve_addr, context, reserved, entry>>
  BY DEF Writes, store_data
<1>3. (data \cap lanes) \cup (memory[pa] \ lanes) \in Words
  BY <1>1 DEF Words
<1>4. stores' \in 0 .. MaxStores
  BY <1>2, RefMemoryAssumption DEF TypeOK
<1>. QED  BY <1>1, <1>2, <1>3, <1>4 DEF Memory

-----------------------------------------------------------------------------
(* Type correctness                                                        *)

LEMMA StepType == TypeOK /\ [Next]_vars => TypeOK'
<1>. SUFFICES ASSUME TypeOK, [Next]_vars PROVE TypeOK'
  OBVIOUS
<1>1. ASSUME NEW pa \in Storable \cup Atomable, NEW data \in Words, NEW lanes \in Words,
             Writes(pa, data, lanes)
      PROVE  TypeOK'
  <2>1. /\ memory' \in Memory /\ stores' \in 0 .. MaxStores /\ reserve_valid' = FALSE
        /\ UNCHANGED <<reserve_addr, context, reserved, entry>>
    BY <1>1, WriteChanges
  <2>. QED  BY <2>1 DEF TypeOK
<1>2. ASSUME NEW pa \in Loadable, LoadReserved(pa) PROVE TypeOK'
  <2>1. pa \in Addrs /\ memory[pa] \in Words
    BY ReachedSets DEF TypeOK, Memory
  <2>. QED  BY <1>2, <2>1 DEF LoadReserved, TypeOK
<1>3. CASE /\ reserve_valid' = FALSE
           /\ UNCHANGED <<memory, stores, reserve_addr, context, reserved, entry>>
  BY <1>3 DEF TypeOK
<1>4. ASSUME NEW c \in Contexts, Switch(c) PROVE TypeOK'
  BY <1>4 DEF Switch, TypeOK
<1>5. CASE UNCHANGED vars
  BY <1>5 DEF vars, TypeOK
<1>. QED  BY <1>1, <1>2, <1>3, <1>4, <1>5, Steps

LEMMA InitType == Init => TypeOK
<1>. SUFFICES ASSUME Init PROVE TypeOK
  OBVIOUS
<1>1. memory \in Memory /\ entry \in Memory /\ MaxStores \in Nat
  BY RefMemoryAssumption DEF Init, Memory
<1>2. <<0, 0>> \in Addrs
  <2>1. Entries \in Nat \ {0}
    BY Shapes
  <2>2. ASSUME NEW e \in Nat \ {0} PROVE 0 \in 0 .. e * e - 1 /\ 0 \in 0 .. e - 1
    BY <2>2, SquareNumbers
  <2>3. 0 \in Pages /\ 0 \in Indices
    BY <2>1, <2>2 DEF Pages, Indices
  <2>. QED  BY <2>3, Shapes
<1>3. reserve_addr \in Addrs /\ reserve_valid \in BOOLEAN
  BY <1>2 DEF Init
<1>4. context \in Contexts /\ reserved \in Words
  BY DEF Init, Words
<1>5. stores \in 0 .. MaxStores
  BY <1>1 DEF Init
<1>. QED  BY <1>1, <1>3, <1>4, <1>5 DEF TypeOK

\* Memory, reservation and context keep their shape.
THEOREM TypeCorrect == Spec => []TypeOK
<1>1. Init => TypeOK
  BY InitType
<1>2. TypeOK /\ [Next]_vars => TypeOK'
  BY StepType
<1>. QED  BY <1>1, <1>2, PTL DEF Spec

-----------------------------------------------------------------------------
(* The reservation                                                         *)

\* A store conditional that succeeds replaces the word that was reserved.
THEOREM ReservationSafe == Spec => []ReservationHolds
<1>1. Init => ReservationHolds
  BY DEF Init, ReservationHolds
<1>2. TypeOK /\ ReservationHolds /\ [Next]_vars => ReservationHolds'
  <2>. SUFFICES ASSUME TypeOK, ReservationHolds, [Next]_vars PROVE ReservationHolds'
    OBVIOUS
  <2>1. ASSUME NEW pa \in Storable \cup Atomable, NEW data \in Words, NEW lanes \in Words,
               Writes(pa, data, lanes)
        PROVE  ReservationHolds'
    BY <2>1, WriteChanges DEF ReservationHolds
  <2>2. ASSUME NEW pa \in Loadable, LoadReserved(pa) PROVE ReservationHolds'
    BY <2>2, ReachedSets DEF LoadReserved, ReservationHolds, InMemory
  <2>3. CASE reserve_valid' = FALSE
    BY <2>3 DEF ReservationHolds
  <2>4. ASSUME NEW c \in Contexts, Switch(c) PROVE ReservationHolds'
    BY <2>4 DEF Switch, ReservationHolds, InMemory
  <2>5. CASE UNCHANGED vars
    BY <2>5 DEF vars, ReservationHolds, InMemory
  <2>. QED  BY <2>1, <2>2, <2>3, <2>4, <2>5, Steps
<1>. QED  BY <1>1, <1>2, TypeCorrect, PTL DEF Spec

-----------------------------------------------------------------------------
(* Permissions                                                             *)

\* An entry that is well formed and lets a store pass lets a load pass.
LEMMA StoreImpliesLoad ==
  ASSUME NEW c, NEW pte, ~Malformed(pte), ~Denied(c, pte, Store)
  PROVE  ~Denied(c, pte, Load)
BY DEF Malformed, Denied, Fetch, Load, Store, eff_priv

LEMMA StoreTranslatesAsLoad ==
  ASSUME NEW m, NEW c, NEW va, va2pa(m, c, va, Store) # Fault
  PROVE  va2pa(m, c, va, Load) = va2pa(m, c, va, Store)
BY StoreImpliesLoad DEF va2pa

\* What a store reaches, a load reaches at the same place.
THEOREM StoresAreReadable == Spec => []StoresReadable
<1>1. StoresReadable
  <2>. SUFFICES ASSUME NEW va \in Addrs, Reaches(va, Store)
                PROVE  Reaches(va, Load) /\ Address(va, Load) = Address(va, Store)
    BY DEF StoresReadable
  <2>1. Address(va, Load) = Address(va, Store)
    <3>. HIDE DEF va2pa
    <3>. QED  BY StoreTranslatesAsLoad DEF Reaches, Survives, Address
  <2>. QED  BY <2>1 DEF Reaches, Survives
<1>. QED  BY <1>1, PTL

-----------------------------------------------------------------------------
(* User code                                                               *)

\* What lets a store of user code pass says so in every bit.
LEMMA StoreImpliesUserWrites ==
  ASSUME NEW c, NEW pte, eff_priv(c, Store) = 0, ~Malformed(pte), ~Denied(c, pte, Store)
  PROVE  UserWrites \subseteq pte
BY DEF Malformed, Denied, Fetch, Load, Store, UserWrites

\* A store of user code lands on a word that the tables give to it.
LEMMA StoreIsWritable ==
  ASSUME NEW m, NEW c, eff_priv(c, Store) = 0, NEW va \in Addrs, Walkable(m, c, va),
         va2pa(m, c, va, Store) # Fault, va2pa(m, c, va, Store) \in Addrs
  PROVE  va2pa(m, c, va, Store) \in Writable(m, c)
<1>. DEFINE pte1 == m[pte1_addr(c, va)]
            pte2 == m[pte2_addr(pte1, va)]
            a == va2pa(m, c, va, Store)
<1>1. ~Malformed(pte1)
  BY DEF va2pa
<1>2. CASE IsLeaf(pte1)
  <2>1. /\ ~Denied(c, pte1, Store)
        /\ a = <<(Ppn(pte1) \div Entries) * Entries + vpn0(va), va[2]>>
    BY <1>1, <1>2 DEF va2pa
  <2>2. UserWrites \subseteq pte1
    BY <1>1, <2>1, StoreImpliesUserWrites
  <2>3. a[1] = (Ppn(pte1) \div Entries) * Entries + vpn0(va)
    BY <2>1
  <2>4. a[1] \in SuperpageOf(pte1)
    BY <2>3, Shapes DEF SuperpageOf
  <2>. HIDE DEF a
  <2>. QED  BY <2>2, <2>4 DEF Writable, a
<1>3. CASE ~IsLeaf(pte1)
  <2>1. /\ ~Malformed(pte2) /\ ~Denied(c, pte2, Store)
        /\ a = <<Ppn(pte2), va[2]>>
    BY <1>1, <1>3 DEF va2pa
  <2>2. UserWrites \subseteq pte2
    BY <2>1, StoreImpliesUserWrites
  <2>3. a[1] = Ppn(pte2)
    BY <2>1
  <2>. HIDE DEF a
  <2>. QED  BY <1>3, <2>2, <2>3 DEF Writable, a
<1>. QED  BY <1>2, <1>3

\* The walk of an address reads nothing but the words of the tables.
LEMMA WalkUnchanged ==
  ASSUME NEW m, NEW n, NEW c, NEW va \in Addrs, Walkable(m, c, va),
         \A a \in TableWords(n, c) : InMemory(a) => m[a] = n[a]
  PROVE  /\ Walkable(n, c, va)
         /\ \A type : va2pa(m, c, va, type) = va2pa(n, c, va, type)
<1>. DEFINE pte1 == m[pte1_addr(c, va)]
<1>1. InMemory(pte1_addr(c, va)) /\ pte1_addr(c, va) \in TableWords(n, c)
  BY DEF Walkable, TableWords
<1>2. m[pte1_addr(c, va)] = n[pte1_addr(c, va)]
  BY <1>1
<1>3. Walkable(n, c, va)
  BY <1>2 DEF Walkable
<1>4. ASSUME ~Malformed(pte1), ~IsLeaf(pte1)
      PROVE  m[pte2_addr(pte1, va)] = n[pte2_addr(pte1, va)]
  <2>1. InMemory(pte2_addr(pte1, va))
    BY <1>4 DEF Walkable
  <2>2. pte2_addr(pte1, va) \in TableWords(n, c)
    BY <1>1, <1>2 DEF TableWords
  <2>. QED  BY <2>1, <2>2
<1>5. \A type : va2pa(m, c, va, type) = va2pa(n, c, va, type)
  BY <1>2, <1>4 DEF va2pa
<1>. QED  BY <1>3, <1>5

\* The condition under which user code is confined.
TablesOutOfReach == /\ Confined(context)
                    /\ Writable(entry, context) \cap TableWords(entry, context) = {}

LEMMA UserStores ==
  ASSUME TypeOK, UserConfined, TablesOutOfReach, NEW pa \in Storable \cup Atomable
  PROVE  pa \in Writable(entry, context)
<1>1. PICK va \in Addrs : Reaches(va, Store) /\ pa = Address(va, Store)
  BY DEF Storable, Atomable
<1>2. /\ Translated(context) /\ eff_priv(context, Store) = 0
      /\ pa = va2pa(memory, context, va, Store) /\ pa # Fault
      /\ Walkable(memory, context, va) /\ pa \in Addrs
  BY <1>1, ReachedWord DEF TablesOutOfReach, Confined, Translated, Address, Reaches, Survives
<1>3. \A a \in TableWords(entry, context) : InMemory(a) => memory[a] = entry[a]
  <2>. SUFFICES ASSUME NEW a \in TableWords(entry, context), InMemory(a)
                PROVE  memory[a] = entry[a]
    OBVIOUS
  <2>1. a[1] \in Pages
    BY Shapes DEF InMemory
  <2>2. \E page, k : a = <<page, k>> /\ k \in Indices
    <3>1. PICK v \in Addrs : \/ a = pte1_addr(context, v)
                             \/ a = pte2_addr(entry[pte1_addr(context, v)], v)
      BY DEF TableWords
    <3>2. vpn1(v) \in Indices /\ vpn0(v) \in Indices
      BY Shapes
    <3>. QED  BY <3>1, <3>2 DEF pte1_addr, pte2_addr
  <2>3. a \in Addrs
    BY <2>1, <2>2, Shapes
  <2>4. a \in DOMAIN memory
    BY <2>3 DEF TypeOK, Memory
  <2>. QED  BY <2>4 DEF UserConfined, TablesOutOfReach
<1>4. Walkable(entry, context, va) /\ pa = va2pa(entry, context, va, Store)
  <2>. DEFINE Same == \A type : va2pa(memory, context, va, type) = va2pa(entry, context, va, type)
  <2>0. va \in Addrs /\ Walkable(memory, context, va)
    BY <1>2
  <2>1. Walkable(entry, context, va) /\ Same
    BY ONLY <1>3, <2>0, WalkUnchanged
  <2>2. Same => va2pa(memory, context, va, Store) = va2pa(entry, context, va, Store)
    OBVIOUS
  <2>. HIDE DEF Same
  <2>. QED  BY <1>2, <2>1, <2>2
<1>. QED  BY <1>2, <1>4, StoreIsWritable

LEMMA StepConfined == TypeOK /\ UserConfined /\ [Next]_vars => UserConfined'
<1>. SUFFICES ASSUME TypeOK, UserConfined, [Next]_vars PROVE UserConfined'
  OBVIOUS
<1>1. ASSUME NEW pa \in Storable \cup Atomable, NEW data \in Words, NEW lanes \in Words,
             Writes(pa, data, lanes)
      PROVE  UserConfined'
  <2>1. /\ \A a \in DOMAIN memory : a # pa => memory'[a] = memory[a]
        /\ DOMAIN memory' = DOMAIN memory /\ context' = context /\ entry' = entry
    BY <1>1, WriteChanges
  <2>2. TablesOutOfReach => pa \in Writable(entry, context)
    BY UserStores
  <2>. QED  BY <2>1, <2>2 DEF UserConfined, TablesOutOfReach
<1>2. CASE UNCHANGED <<memory, context, entry>>
  BY <1>2 DEF UserConfined
<1>3. ASSUME NEW c \in Contexts, Switch(c) PROVE UserConfined'
  BY <1>3 DEF Switch, UserConfined
<1>. QED  BY <1>1, <1>2, <1>3, Steps DEF LoadReserved, vars

\* User code whose page tables are out of its reach changes only what was
\* mapped writable for it when it began.
THEOREM UserCodeConfined == Spec => []UserConfined
<1>1. Init => UserConfined
  BY DEF Init, UserConfined
<1>2. TypeOK /\ UserConfined /\ [Next]_vars => UserConfined'
  BY StepConfined
<1>. QED  BY <1>1, <1>2, TypeCorrect, PTL DEF Spec
=============================================================================

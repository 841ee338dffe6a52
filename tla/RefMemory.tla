------------------------------ MODULE RefMemory ------------------------------
(***************************************************************************)
(* The memory of the reference CPU (exec.cpp): translation by va2pa over   *)
(* page tables that live in the memory itself, loads, stores, and the      *)
(* atomic instructions with their reservation.  One action is one          *)
(* instruction, of one call of RISCV().                                    *)
(*                                                                         *)
(* An address is a page number and the index of a word in the page; a      *)
(* page holds as many words as a page table has entries, as in Sv32.  The  *)
(* operands of an instruction are any of Operands and VAddrs.  Privilege,  *)
(* status and satp change by traps, returns and CSR writes (module Hart),  *)
(* here in any order among Contexts.  An access outside of the memory ends *)
(* the program, which here is to take no further step.  Words of device    *)
(* registers are left out of IoPages: what stores to them do is module     *)
(* Hart's DeviceStore.                                                     *)
(***************************************************************************)
EXTENDS Words

CONSTANTS
  IndexBits,   \* bits of a page table index: 10
  RamPages,    \* pages at and above 0x80000000
  IoPages,     \* pages of io_words
  Contexts,    \* the privilege and status software runs with
  Memories,    \* the memory of an image or a checkpoint
  Operands,    \* the words that stores and atomics are given
  Strobes,     \* the bytes that a store may write
  Kinds,       \* the atomics that software executes
  MaxStores    \* bound: words written

VARIABLES
  memory,        \* memory and io_words
  reserve_valid, reserve_addr,
  context,       \* privilege, mstatus' sum, mxr, mprv and mpp, and satp
  stores,        \* bound used
  reserved,      \* history: the word the latest LR read
  entry          \* history: the memory when the context last changed

vars == <<memory, reserve_valid, reserve_addr, context, stores, reserved, entry>>

-----------------------------------------------------------------------------
(* Addresses and page table entries                                        *)

Entries == 2 ^ IndexBits
Pages == 0 .. Entries * Entries - 1
Indices == 0 .. Entries - 1
Addrs == Pages \X Indices

InMemory(a) == a[1] \in RamPages \cup IoPages
IsIo(a) == a[1] \in IoPages

PTE_V == 0
PTE_R == 1
PTE_W == 2
PTE_X == 3
PTE_U == 4
PTE_A == 6
PTE_D == 7

\* The number that the bits of word from position low to high make.
Field(word, low, high) ==
  LET sum[k \in low - 1 .. high] ==
        IF k < low THEN 0 ELSE sum[k - 1] + (IF k \in word THEN 2 ^ (k - low) ELSE 0)
  IN  sum[high]

\* The page of an entry; the bits of its number above 32 - 12 are lost.
Ppn(pte) == Field(pte, 10, Width - 1) % (Entries * Entries)
PPN0(pte) == Field(pte, 10, 9 + IndexBits)

ASSUME RefMemoryAssumption ==
  /\ IndexBits \in Nat \ {0} /\ Entries \in Nat \ {0}
  /\ RamPages \subseteq Pages /\ IoPages \subseteq Pages
  /\ RamPages \cap IoPages = {}
  /\ Contexts \subseteq [privilege : {0, 1, 3}, sum : BOOLEAN, mxr : BOOLEAN,
                         mprv : BOOLEAN, mpp : {0, 1, 3}, paging : BOOLEAN, root : Pages]
  /\ Memories \subseteq [{a \in Addrs : InMemory(a)} -> Words]
  /\ Operands \subseteq Words /\ Strobes \subseteq Words /\ Kinds \subseteq AmoKinds
  /\ MaxStores \in Nat

-----------------------------------------------------------------------------
(* va2pa                                                                   *)

Fetch == 0
Load == 1
Store == 2

eff_priv(c, type) == IF type # Fetch /\ c.mprv THEN c.mpp ELSE c.privilege

\* Mutant: an entry that is writable but not readable is accepted.
Invalid(pte) == PTE_V \notin pte
Malformed(pte) == PTE_V \notin pte \/ (PTE_R \notin pte /\ PTE_W \in pte)
IsLeaf(pte) == PTE_R \in pte \/ PTE_X \in pte

\* Mutant: user code is let into pages of the supervisor.
DeniedToSupervisor(c, pte, type) ==
  \/ type = Fetch /\ PTE_X \notin pte
  \/ type = Load /\ PTE_R \notin pte /\ ~(c.mxr /\ PTE_X \in pte)
  \/ type = Store /\ PTE_W \notin pte
  \/ eff_priv(c, type) = 1 /\ PTE_U \in pte /\ ~c.sum
  \/ PTE_A \notin pte
  \/ type = Store /\ PTE_D \notin pte

\* The checks a leaf has to pass.
Denied(c, pte, type) ==
  \/ type = Fetch /\ PTE_X \notin pte
  \/ type = Load /\ PTE_R \notin pte /\ ~(c.mxr /\ PTE_X \in pte)
  \/ type = Store /\ PTE_W \notin pte
  \/ eff_priv(c, type) = 0 /\ PTE_U \notin pte
  \/ eff_priv(c, type) = 1 /\ PTE_U \in pte /\ ~c.sum
  \/ PTE_A \notin pte
  \/ type = Store /\ PTE_D \notin pte

vpn1(va) == va[1] \div Entries
vpn0(va) == va[1] % Entries

pte1_addr(c, va) == <<c.root, vpn1(va)>>
pte2_addr(pte1, va) == <<Ppn(pte1), vpn0(va)>>

Fault == <<>>

\* The physical address, or Fault; m is the memory that is walked.
va2pa(m, c, va, type) ==
  LET pte1 == m[pte1_addr(c, va)]
      pte2 == m[pte2_addr(pte1, va)]
      Superpage == <<(Ppn(pte1) \div Entries) * Entries + vpn0(va), va[2]>>
  IN  IF Malformed(pte1) THEN Fault
      ELSE IF IsLeaf(pte1)
      THEN IF Denied(c, pte1, type) \/ PPN0(pte1) # 0 THEN Fault ELSE Superpage
      ELSE IF Malformed(pte2) \/ ~IsLeaf(pte2) \/ Denied(c, pte2, type)
      THEN Fault ELSE <<Ppn(pte2), va[2]>>

\* The walk reads only memory that exists, or the program ends.
Walkable(m, c, va) ==
  /\ InMemory(pte1_addr(c, va))
  /\ LET pte1 == m[pte1_addr(c, va)]
     IN  ~Malformed(pte1) /\ ~IsLeaf(pte1) => InMemory(pte2_addr(pte1, va))

Translated(c) == c.paging /\ c.privilege # 3

\* What the callers of va2pa make of an address.
Address(va, type) == IF Translated(context) THEN va2pa(memory, context, va, type) ELSE va

\* The program goes on: nothing outside of the memory is walked or accessed.
Survives(va, type) ==
  /\ Translated(context) => Walkable(memory, context, va)
  /\ Address(va, type) # Fault => InMemory(Address(va, type))

Reaches(va, type) == Survives(va, type) /\ Address(va, type) # Fault

-----------------------------------------------------------------------------
(* RISCV(), RV32IM and RV32A: one instruction                              *)

\* Whatever the instruction is, it was fetched.
Fetched == {pc \in Addrs : Reaches(pc, Fetch)} # {}

\* The addresses that loads and LR, that stores and SC, and that the other
\* atomics, which must pass as both, can come to.
Loadable == {Address(va, Load) : va \in {v \in Addrs : Reaches(v, Load)}}
Storable == {Address(va, Store) : va \in {v \in Addrs : Reaches(v, Store)}}
Atomable == {Address(va, Store) :
               va \in {v \in Addrs : Reaches(v, Load) /\ Reaches(v, Store)}}

\* A load changes only its register, which is not modelled.
LoadWord == Loadable # {} /\ UNCHANGED vars

\* Mutant: a store leaves the reservation alone.
StoredBesideReservation(pa, data, lanes) ==
  /\ stores < MaxStores /\ stores' = stores + 1
  /\ memory' = [memory EXCEPT ![pa] = (data \cap lanes) \cup (@ \ lanes)]
  /\ UNCHANGED reserve_valid

\* Mutant: the data is shifted into its lanes twice.
StoredShifted(pa, data, lanes) ==
  /\ stores < MaxStores /\ stores' = stores + 1
  /\ memory' = [memory EXCEPT ![pa] = {k + 8 : k \in data \cap lanes} \cup (@ \ lanes)]
  /\ reserve_valid' = FALSE

\* store_data: the lanes of the strobe change, and no reservation survives.
store_data(pa, data, lanes) ==
  /\ stores < MaxStores /\ stores' = stores + 1
  /\ memory' = [memory EXCEPT ![pa] = (data \cap lanes) \cup (@ \ lanes)]
  /\ reserve_valid' = FALSE

StoreWord(pa, data, lanes) ==
  /\ store_data(pa, data, lanes)
  /\ UNCHANGED <<reserve_addr, context, reserved, entry>>

\* lr.w
LoadReserved(pa) ==
  /\ reserve_valid' = TRUE
  /\ reserve_addr' = pa
  /\ reserved' = memory[pa]
  /\ UNCHANGED <<memory, context, stores, entry>>

\* sc.w
StoreConditional(pa, data) ==
  /\ \/ /\ reserve_valid /\ reserve_addr = pa
        /\ store_data(pa, data, BitIndices)
     \/ /\ ~(reserve_valid /\ reserve_addr = pa)
        /\ reserve_valid' = FALSE
        /\ UNCHANGED <<memory, stores>>
  /\ UNCHANGED <<reserve_addr, context, reserved, entry>>

\* The other atomics.
Amo(pa, kind, data) ==
  /\ store_data(pa, Computed(kind, memory[pa], data), BitIndices)
  /\ UNCHANGED <<reserve_addr, context, reserved, entry>>

Instruction ==
  /\ Fetched
  /\ \/ LoadWord
     \/ \E pa \in Loadable : LoadReserved(pa)
     \/ \E pa \in Storable, data \in Operands :
          \/ \E lanes \in Strobes : StoreWord(pa, data, lanes)
          \/ StoreConditional(pa, data)
     \/ \E pa \in Atomable, kind \in Kinds, data \in Operands : Amo(pa, kind, data)

-----------------------------------------------------------------------------
(* Traps, returns and CSR writes, as far as they matter here               *)

Switch(c) ==
  /\ context' = c
  /\ entry' = memory
  /\ UNCHANGED <<memory, reserve_valid, reserve_addr, stores, reserved>>

\* The ways in which some address can be used and faults.
Faulting(types) == {type \in types : \E va \in Addrs : /\ Survives(va, type)
                                                      /\ Address(va, type) = Fault}

\* A fetch, load or store faults: the handler runs with more rights.
PageFault(c) ==
  /\ Faulting(IF Fetched THEN {Fetch, Load, Store} ELSE {Fetch}) # {}
  /\ c.privilege # 0
  /\ Switch(c)

\* Only a trap takes U code to another context.
SwitchContext(c) ==
  /\ context.privilege = 0 => c.privilege # 0
  /\ Switch(c)

-----------------------------------------------------------------------------
\* Reset starts in M, a checkpoint in U; neither restores a reservation.
Init ==
  /\ memory \in Memories
  /\ context \in {c \in Contexts : c.privilege # 1}
  /\ reserve_valid = FALSE /\ reserve_addr = <<0, 0>>
  /\ stores = 0
  /\ reserved = {}
  /\ entry = memory

Next == Instruction \/ \E c \in Contexts : PageFault(c) \/ SwitchContext(c)

Spec == Init /\ [][Next]_vars

-----------------------------------------------------------------------------
(* Properties                                                              *)

Memory == [{a \in Addrs : InMemory(a)} -> Words]

TypeOK ==
  /\ memory \in Memory /\ entry \in Memory
  /\ reserve_valid \in BOOLEAN
  /\ reserve_addr \in Addrs
  /\ context \in Contexts
  /\ stores \in 0 .. MaxStores
  /\ reserved \in Words

\* While a reservation is valid its word is what LR read, whichever virtual
\* address, context or instruction has stored since, to data or to the page
\* tables: an SC that succeeds replaces that very word (exec.cpp:1496).
ReservationHolds ==
  reserve_valid => InMemory(reserve_addr) /\ memory[reserve_addr] = reserved

\* What a store reaches, a load reaches, at the same place: RV32A translates
\* twice, keeps the second address, and lets each fault stand for one kind
\* of instruction (exec.cpp:804-827).
StoresReadable ==
  \A va \in Addrs :
    Reaches(va, Store) => Reaches(va, Load) /\ Address(va, Load) = Address(va, Store)

\* What an entry has to say for user code to write to its page.
UserWrites == {PTE_V, PTE_R, PTE_W, PTE_U, PTE_A, PTE_D}

SuperpageOf(pte) == {(Ppn(pte) \div Entries) * Entries + k : k \in Indices}

\* The words of the pages and superpages that the tables give to user code.
Writable(m, c) ==
  LET Gives(pte1, va, a) ==
        \/ UserWrites \subseteq pte1 /\ a[1] \in SuperpageOf(pte1)
        \/ /\ ~IsLeaf(pte1)
           /\ UserWrites \subseteq m[pte2_addr(pte1, va)]
           /\ a[1] = Ppn(m[pte2_addr(pte1, va)])
  IN  {a \in Addrs : \E va \in Addrs :
         Walkable(m, c, va) /\ Gives(m[pte1_addr(c, va)], va, a)}

\* The words that a walk in context c may read.
TableWords(m, c) ==
  {pte1_addr(c, va) : va \in Addrs}
    \cup {pte2_addr(m[pte1_addr(c, va)], va) : va \in {v \in Addrs : InMemory(pte1_addr(c, v))}}

Confined(c) == c.privilege = 0 /\ eff_priv(c, Store) = 0 /\ c.paging

\* U code whose page tables are out of its reach changes, in any number of
\* stores and atomics, only what was mapped writable for it when it began
\* (exec.cpp:1546-1672).
UserConfined ==
  Confined(context) /\ Writable(entry, context) \cap TableWords(entry, context) = {} =>
    \A a \in DOMAIN memory : memory[a] # entry[a] => a \in Writable(entry, context)
=============================================================================

----------------------------- MODULE MCBackend ------------------------------
(***************************************************************************)
(* Instances of Backend for TLC: the instructions a run offers, and sizes  *)
(* small enough for every queue to fill and the reorder buffer to wrap.    *)
(***************************************************************************)
EXTENDS Backend

Inst(fu, rd, rs1, rs2) ==
  [fu |-> fu, rd |-> rd, rs1 |-> rs1, rs2 |-> rs2, is_load |-> FALSE,
   is_store |-> FALSE, is_trap |-> FALSE, mem_addr |-> 0]

Alu(rd, rs) == Inst("ALU", rd, rs, 0)
Branch(rs) == Inst("BRU", 0, rs, 0)
Load(rd, rs, a) == [Inst("LSU", rd, rs, 0) EXCEPT !.is_load = TRUE, !.mem_addr = a]
Store(rs, data, a) == [Inst("LSU", 0, rs, data) EXCEPT !.is_store = TRUE, !.mem_addr = a]
\* An atomic is a store that writes a register.
Amo(rd, rs, a) == [Store(rs, 0, a) EXCEPT !.rd = rd]
Trap(i) == [i EXCEPT !.is_trap = TRUE]

MCRegs == {0, 1}
MCAddrs == {0, 4}

\* Loads with and without an older store to their address; a store that
\* waits for its data, and one that has its data and waits for its address.
MemoryInsts == {Load(1, 0, 0), Load(1, 0, 4), Store(0, 1, 0), Store(1, 0, 0)}

\* Every kind of instruction, traps included, but no store that traps.
TrapInsts == {Alu(1, 0), Branch(1), Load(1, 0, 0), Amo(1, 0, 0),
              Trap(Inst("ALU", 0, 0, 0)), Trap(Load(1, 0, 0))}

\* A store to a device or to an unmapped page traps.
TrapStoreInsts == {Trap(Store(0, 0, 4)), Store(0, 0, 0), Load(1, 0, 0)}

\* A producer, the consumer of its result, and more loads to fill the machine.
RawInsts == {Load(1, 0, 0), Alu(0, 1)}

Hit == [blocked |-> FALSE, l1_hit |-> TRUE, latency |-> 2]
Miss == [blocked |-> FALSE, l1_hit |-> FALSE, latency |-> 4]
Refused == [blocked |-> TRUE, l1_hit |-> FALSE, latency |-> 0]

HitMissRefused == {Hit, Miss, Refused}
HitMiss == {Hit, Miss}

EachIQ(n) == [u \in Units |-> n]
IQ1 == EachIQ(1)
IQ2 == EachIQ(2)
FU1 == EachIQ(1)
FU2 == EachIQ(2)
Latency1 == EachIQ(1)
=============================================================================

-------------------------------- MODULE Hart --------------------------------
(***************************************************************************)
(* The privileged part of the reference CPU (exec.cpp): which trap an      *)
(* instruction takes, what traps and returns do to privilege and status,   *)
(* and the CSR accesses in between.  One action is one call of RISCV().    *)
(*                                                                         *)
(* A CSR of flags is the set of its bits that are 1, so a mask is a set    *)
(* and `&' an intersection.  General registers, trap values, mcause and    *)
(* scause are left out: only software reads them (the history variable     *)
(* trap holds the latest cause).  Addresses are counted in words.  EBREAK  *)
(* and WFI end the program, which here is to take no further step.         *)
(***************************************************************************)
EXTENDS Integers

CONSTANTS NumPcs,       \* words of the address space: 2^30 in the code
          Checkpoints,  \* the CSRs that --mode ckpt may restore
          CsrWrites     \* the CSR writes that software executes

VARIABLES pc, privilege, csr,
          m_irq, s_irq,     \* M_*_interrupt and S_*_interrupt, by their cause
          Instruction,      \* the latest one fetched, as exception() sees it
          trap,             \* history: the trap the latest step took
          mframe, sframe,   \* history: what the latest trap to M, to S interrupted
          mpp_reserved      \* history: software put into MPP the number of no mode

vars == <<pc, privilege, csr, m_irq, s_irq, Instruction, trap, mframe, sframe,
          mpp_reserved>>

UMode == 0
SMode == 1
MMode == 3
Modes == {UMode, SMode, MMode}
Reserved == 2                       \* names no mode, and MPP and privilege can hold it
Levels == Modes \cup {Reserved}
Pcs == 0 .. NumPcs - 1
Bits == 0 .. 31
NoTrap == [to |-> "none", interrupt |-> FALSE, code |-> 0]
NoFrame == [pc |-> -1, mode |-> 0, ie |-> FALSE]

TVec == [base : Pcs, vectored : BOOLEAN]
Csrs == [mtvec : TVec, stvec : TVec, mepc : Pcs, sepc : Pcs,
         mstatus : SUBSET Bits, sstatus : SUBSET Bits,
         mie : SUBSET Bits, mip : SUBSET Bits, sie : SUBSET Bits, sip : SUBSET Bits,
         mideleg : SUBSET Bits, medeleg : SUBSET Bits, satp : BOOLEAN]
BitCsrs == {"mstatus", "sstatus", "mie", "mip", "sie", "sip", "mideleg", "medeleg"}

-----------------------------------------------------------------------------
(* Bits and masks                                                          *)
UIE == 0
SIE == 1
MIE == 3
UPIE == 4
SPIE == 5
MPIE == 7
SPP == 8
MPP == {11, 12}

SstatusMask == {0, 1, 4, 5, 8, 13, 14, 15, 16, 18, 19, 31}     \* 0x800DE133
\* Mutant: the mask of a trap to M loses SPIE.
MTrapMaskNoSPIE == {1, 6, 8, 9, 10, 13, 14, 15, 16, 18, 19, 31}
MTrapMask == {1, 5, 6, 8, 9, 10, 13, 14, 15, 16, 18, 19, 31}   \* 0x800DE762
MstatusMask == {0, 1, 3, 4, 5, 7, 8} \cup 11 .. 22 \cup {31}   \* 0x807FF9BB
MieMask == {0, 1, 3, 4, 5, 7, 8, 9, 11}                        \* 0xbbb
SieMask == {0, 1, 4, 5, 8, 9}                                  \* 0x333

\* (old & ~mask) | (new & mask)
Merge(old, new, mask) == (old \ mask) \cup (new \cap mask)

Put(reg, bit, on) == IF on THEN reg \cup {bit} ELSE reg \ {bit}

GET_MPP(mstatus) == (IF 11 \in mstatus THEN 1 ELSE 0) + (IF 12 \in mstatus THEN 2 ELSE 0)
MppBits(level) == CASE level = UMode -> {}
                    [] level = SMode -> {11}
                    [] level = Reserved -> {12}
                    [] level = MMode -> MPP

\* Mutant: SPP is taken from a field of two bits.
GET_SPP_Wide(sstatus) == IF SPP \in sstatus THEN 2 ELSE 0
GET_SPP(sstatus) == IF SPP \in sstatus THEN 1 ELSE 0

\* The S registers show the M registers through their masks, all but UIE and
\* UPIE, which a trap to M drops from sstatus while mstatus keeps them.
Agree(c) == /\ c.mstatus \subseteq MstatusMask
            /\ c.sstatus \subseteq c.mstatus \cap SstatusMask
            /\ (c.mstatus \cap SstatusMask) \ {UIE, UPIE} \subseteq c.sstatus
            /\ c.sie = c.mie \cap SieMask
            /\ c.sip = c.mip \cap SieMask

\* A checkpoint was taken from a running CPU; software writes a CSR values
\* that fit it.
ASSUME HartAssumption ==
  /\ NumPcs \in Nat \ {0}
  /\ \A c \in Checkpoints : c \in Csrs /\ Agree(c)
  /\ \A w \in CsrWrites :
       \/ w.reg \in BitCsrs /\ w.cmd \in {"W", "S", "C"} /\ w.data \in SUBSET Bits
       \/ w.reg \in {"mepc", "sepc"} /\ w.cmd = "W" /\ w.data \in Pcs
       \/ w.reg \in {"mtvec", "stvec"} /\ w.cmd = "W" /\ w.data \in TVec
       \/ w.reg = "satp" /\ w.cmd = "W" /\ w.data \in BOOLEAN

-----------------------------------------------------------------------------
(* Interrupts                                                              *)
Enabled(c) == c \in csr.mip /\ c \in csr.mie

\* M software, timer and external interrupts that are due.
MInterrupts == {c \in {3, 7, 11} : /\ Enabled(c)
                                   /\ c \notin csr.mideleg
                                   /\ privilege < MMode \/ MIE \in csr.mstatus}

\* Mutant: only SIE is looked at.
SEnabledAnywhere == privilege = UMode \/ SIE \in csr.mstatus

s_irq_enable == privilege = UMode \/ (privilege = SMode /\ SIE \in csr.mstatus)

\* S interrupts: those of S, and those of M that are delegated.
SInterrupts == {c \in {1, 5, 9} : /\ Enabled(c) \/ (Enabled(c + 2) /\ c + 2 \in csr.mideleg)
                                  /\ s_irq_enable}

-----------------------------------------------------------------------------
(* exception(), for the fault raised by the instruction (a set of at most  *)
(* one cause), the interrupt flags and the instruction it finds            *)
UCall(insn) == insn = "ECALL" /\ privilege = UMode
SCall(insn) == insn = "ECALL" /\ privilege = SMode
MCall(insn) == insn = "ECALL" /\ privilege = MMode
Delegated(c) == c \in csr.medeleg

When(c, condition) == IF condition THEN {c} ELSE {}

\* What asks for a trap to M, and in which order mcause looks at it.
MCauses(fault, mi, insn) == mi \cup When(8, UCall(insn) /\ ~Delegated(8))
                               \cup When(9, SCall(insn) /\ ~Delegated(9))
                               \cup When(11, MCall(insn) /\ ~Delegated(8))
                               \cup {c \in fault : c = 2 \/ ~Delegated(c)}
MOrder == <<3, 7, 11, 8, 9, 12, 13, 15, 2>>

\* The same for S.
SCauses(fault, si, insn) == si \cup When(8, UCall(insn) /\ Delegated(8))
                               \cup When(9, SCall(insn) /\ Delegated(9))
                               \cup {c \in fault \ {2} : Delegated(c)}
SOrder == <<9, 5, 8, 1, 12, 13, 15>>

MTrap(fault, mi, insn) == MCauses(fault, mi, insn) # {} \/ MCall(insn)
STrap(fault, si, insn) == SCauses(fault, si, insn) # {}

\* The first of order among causes; mcause stays 0 when none is.
Code(order, causes) ==
  IF causes = {} THEN 0
  ELSE LET first == CHOOSE k \in DOMAIN order :
                      /\ order[k] \in causes
                      /\ \A j \in 1 .. k - 1 : order[j] \notin causes
       IN  order[first]

Handler(tvec, interrupt, code) ==
  IF tvec.vectored /\ interrupt THEN (tvec.base + code) % NumPcs ELSE tvec.base

\* Mutant: MIE is cleared before MPIE takes its value.
StackedLate(mstatus) ==
  Put((mstatus \ MPP) \cup MppBits(privilege), MPIE, FALSE) \ {MIE}

\* mstatus after a trap to M: MPP = privilege, MPIE = MIE, MIE = 0.
MStacked(mstatus) ==
  Put((mstatus \ MPP) \cup MppBits(privilege), MPIE, MIE \in mstatus) \ {MIE}

\* sstatus after a trap to S.
SStacked(sstatus) ==
  Put(Put(sstatus, SPP, privilege = SMode), SPIE, SIE \in sstatus) \ {SIE}

TrapToM(fault, mi, insn) ==
  LET interrupt == mi # {}
      code == Code(MOrder, MCauses(fault, mi, insn))
      ms == MStacked(csr.mstatus)
  IN  /\ csr' = [csr EXCEPT !.mepc = pc, !.mstatus = ms, !.sstatus = ms \cap MTrapMask]
      /\ pc' = Handler(csr.mtvec, interrupt, code)
      /\ privilege' = MMode
      /\ trap' = [to |-> "M", interrupt |-> interrupt, code |-> code]
      /\ mframe' = [pc |-> pc, mode |-> privilege, ie |-> MIE \in csr.mstatus]
      /\ UNCHANGED <<sframe, mpp_reserved>>

TrapToS(fault, si, insn) ==
  LET interrupt == si # {}
      code == Code(SOrder, SCauses(fault, si, insn))
      ss == SStacked(csr.sstatus)
  IN  /\ csr' = [csr EXCEPT !.sepc = pc, !.sstatus = ss,
                            !.mstatus = Merge(@, ss, SstatusMask)]
      /\ pc' = Handler(csr.stvec, interrupt, code)
      /\ privilege' = SMode
      /\ trap' = [to |-> "S", interrupt |-> interrupt, code |-> code]
      /\ sframe' = [pc |-> pc, mode |-> privilege, ie |-> SIE \in csr.sstatus]
      /\ UNCHANGED <<mframe, mpp_reserved>>

\* mret: MIE = MPIE, MPIE = 1, MPP = U.
MRet ==
  LET ms == (Put(csr.mstatus, MIE, MPIE \in csr.mstatus) \cup {MPIE}) \ MPP
  IN  /\ csr' = [csr EXCEPT !.mstatus = ms, !.sstatus = ms \cap SstatusMask]
      /\ pc' = csr.mepc
      /\ privilege' = GET_MPP(csr.mstatus)
      /\ trap' = NoTrap
      /\ mframe' = NoFrame
      /\ UNCHANGED <<sframe, mpp_reserved>>

\* sret: SIE = SPIE, SPIE = 1, SPP = U.
SRet ==
  LET ss == (Put(csr.sstatus, SIE, SPIE \in csr.sstatus) \cup {SPIE}) \ {SPP}
  IN  /\ csr' = [csr EXCEPT !.sstatus = ss, !.mstatus = Merge(@, ss, SstatusMask)]
      /\ pc' = csr.sepc
      /\ privilege' = GET_SPP(csr.sstatus)
      /\ trap' = NoTrap
      /\ sframe' = NoFrame
      /\ UNCHANGED <<mframe, mpp_reserved>>

\* None of the four: the next instruction.
FallsThrough == /\ pc' = (pc + 1) % NumPcs
                /\ trap' = NoTrap
                /\ UNCHANGED <<privilege, csr, mframe, sframe, mpp_reserved>>

exception(fault, mi, si, insn) ==
  \/ /\ MTrap(fault, mi, insn)
     /\ TrapToM(fault, mi, insn)
  \/ /\ ~MTrap(fault, mi, insn)
     /\ STrap(fault, si, insn)
     /\ TrapToS(fault, si, insn)
  \/ /\ ~MTrap(fault, mi, insn)
     /\ ~STrap(fault, si, insn)
     /\ \/ insn = "MRET" /\ MRet
        \/ insn = "SRET" /\ SRet
        \/ insn \notin {"MRET", "SRET"} /\ FallsThrough

-----------------------------------------------------------------------------
(* RISCV(): one instruction                                                *)
Translated == csr.satp /\ privilege # MMode

\* The fetch faults: RISCV returns before the instruction and the interrupts
\* are looked at, and exception() finds those of the instruction before.
FetchFault == /\ Translated
              /\ exception({12}, m_irq, s_irq, Instruction)
              /\ UNCHANGED <<m_irq, s_irq, Instruction>>

Fetched(insn) == /\ Instruction' = insn
                 /\ m_irq' = MInterrupts
                 /\ s_irq' = SInterrupts

Interrupted == MInterrupts \cup SInterrupts # {}

\* An interrupt is taken in place of insn, or insn is an ECALL or a return.
\* An ECALL of a privilege that is no mode asks for no trap.
Asynchronous(insn) == /\ Interrupted \/ insn # "OTHER"
                      /\ Fetched(insn)
                      /\ exception({}, MInterrupts, SInterrupts, insn)

Executed == /\ ~Interrupted
            /\ Fetched("OTHER")

\* Reading time or timeh raises an illegal instruction exception.
TimeAccess == Executed /\ exception({2}, {}, {}, "OTHER")

\* A load, store or atomic that faults in va2pa.
DataFault(c) == Translated /\ Executed /\ exception({c}, {}, {}, "OTHER")

Completes == /\ Executed
             /\ trap' = NoTrap
             /\ UNCHANGED privilege

Sequential == Completes /\ pc' = (pc + 1) % NumPcs

\* Stores to the UART raise and stores to the PLIC clear the S external
\* interrupt.
DeviceStore(raise) ==
  /\ Sequential
  /\ csr' = [csr EXCEPT !.mip = Put(@, 9, raise), !.sip = Put(@, 9, raise)]
  /\ UNCHANGED <<mframe, sframe, mpp_reserved>>

\* Every other instruction; a branch may go anywhere.
Other == /\ Completes
         /\ pc' \in Pcs
         /\ UNCHANGED <<csr, mframe, sframe, mpp_reserved>>

-----------------------------------------------------------------------------
(* RV32CSR                                                                 *)
\* w is [reg, cmd, data]: the CSR, the command (W, S or C) and the operand.
Wdata(w) == CASE w.cmd = "W" -> w.data
              [] w.cmd = "S" -> csr[w.reg] \cup w.data
              [] w.cmd = "C" -> csr[w.reg] \ w.data

WriteMie(wdata, mask) ==
  LET mie == IF mask = SieMask THEN Merge(csr.mie, wdata, mask) ELSE wdata \cap mask
  IN  csr' = [csr EXCEPT !.mie = mie, !.sie = mie \cap SieMask]

WriteMip(wdata, mask) ==
  LET mip == IF mask = SieMask THEN Merge(csr.mip, wdata, mask) ELSE wdata \cap mask
  IN  csr' = [csr EXCEPT !.mip = mip, !.sip = mip \cap SieMask]

\* Mutant: sstatus is left as it was.
WriteMstatusOnly(wdata, mask) ==
  csr' = [csr EXCEPT !.mstatus = Merge(csr.mstatus, wdata, mask)]

WriteMstatus(wdata, mask) ==
  LET mstatus == Merge(csr.mstatus, wdata, mask)
  IN  csr' = [csr EXCEPT !.mstatus = mstatus, !.sstatus = mstatus \cap SstatusMask]

Write(reg, wdata) ==
  CASE reg = "mie"     -> WriteMie(wdata, MieMask)
    [] reg = "sie"     -> WriteMie(wdata, SieMask)
    [] reg = "mip"     -> WriteMip(wdata, MieMask)
    [] reg = "sip"     -> WriteMip(wdata, SieMask)
    [] reg = "mstatus" -> WriteMstatus(wdata, MstatusMask)
    [] reg = "sstatus" -> WriteMstatus(wdata, SstatusMask)
    [] OTHER           -> csr' = [csr EXCEPT ![reg] = wdata]

\* Whether a write may change one of bits.
Touches(w, bits) == w.cmd = "W" \/ w.data \cap bits # {}

\* A frame is no longer the trap's once software writes over it.
TouchesM(w) == w.reg = "mepc" \/ (w.reg = "mstatus" /\ Touches(w, MPP \cup {MPIE}))
TouchesS(w) == w.reg = "sepc" \/ (w.reg \in {"mstatus", "sstatus"} /\ Touches(w, {SPP, SPIE}))

CsrWrite(w) == /\ Sequential
               /\ Write(w.reg, Wdata(w))
               /\ mframe' = IF TouchesM(w) THEN NoFrame ELSE mframe
               /\ sframe' = IF TouchesS(w) THEN NoFrame ELSE sframe
               /\ mpp_reserved' = (mpp_reserved \/ GET_MPP(csr'.mstatus) = Reserved)

-----------------------------------------------------------------------------
ResetCsrs == [mtvec |-> [base |-> 0, vectored |-> FALSE],
              stvec |-> [base |-> 0, vectored |-> FALSE], mepc |-> 0, sepc |-> 0,
              mstatus |-> {}, sstatus |-> {}, mie |-> {}, mip |-> {}, sie |-> {}, sip |-> {},
              mideleg |-> {}, medeleg |-> {}, satp |-> FALSE]

\* Reset, or a checkpoint, which restores user code.
Init == /\ \/ csr = ResetCsrs /\ privilege = MMode
           \/ csr \in Checkpoints /\ privilege = UMode
        /\ pc \in Pcs
        /\ m_irq = {} /\ s_irq = {}
        /\ Instruction = "OTHER"
        /\ trap = NoTrap
        /\ mframe = NoFrame /\ sframe = NoFrame
        /\ mpp_reserved = (GET_MPP(csr.mstatus) = Reserved)

Next == \/ FetchFault
        \/ \E insn \in {"ECALL", "MRET", "SRET", "OTHER"} : Asynchronous(insn)
        \/ TimeAccess
        \/ \E c \in {13, 15} : DataFault(c)
        \/ \E raise \in BOOLEAN : DeviceStore(raise)
        \/ \E w \in CsrWrites : CsrWrite(w)
        \/ Other

Spec == Init /\ [][Next]_vars

-----------------------------------------------------------------------------
Frame == [pc : Pcs, mode : Levels, ie : BOOLEAN]
Trap == [to : {"M", "S"}, interrupt : BOOLEAN, code : 0 .. 15]

\* Every variable keeps its shape.  In particular privilege and MPP are
\* modes as long as software gives MPP the number of one: neither a trap, a
\* return nor another CSR write makes them 2 (exec.cpp:427-446, 749-763).
TypeOK == /\ pc \in Pcs
          /\ privilege \in Levels
          /\ csr \in Csrs
          /\ mpp_reserved \in BOOLEAN
          /\ privilege = Reserved \/ GET_MPP(csr.mstatus) = Reserved => mpp_reserved
          /\ m_irq \subseteq {3, 7, 11}
          /\ s_irq \subseteq {1, 5, 9}
          /\ Instruction \in {"ECALL", "MRET", "SRET", "OTHER"}
          /\ trap \in Trap \cup {NoTrap}
          /\ mframe \in Frame \cup {NoFrame}
          /\ sframe \in Frame \cup {NoFrame}

\* The S view of status, enables and pending bits that the CPU keeps in
\* registers of their own, whichever of traps, returns, CSR writes and
\* devices changed them last: sie and sip are mie and mip under their mask;
\* sstatus never shows a bit that mstatus has not, hides none of its mask but
\* UIE and UPIE, and mstatus never holds a bit outside its own write mask,
\* so that the odd bits of the mask of exec.cpp:361 stay 0.
ShadowsAgree == Agree(csr)

\* While software leaves mepc, MPP and MPIE alone they hold what the latest
\* trap to M interrupted, and sepc, SPP and SPIE what the latest trap to S
\* did, whatever traps to the other mode come and return in between.  Only
\* a trap to S from a privilege that is no mode is not held: SPP is one bit.
FramesKept ==
  /\ mframe # NoFrame => mframe = [pc |-> csr.mepc, mode |-> GET_MPP(csr.mstatus),
                                ie |-> MPIE \in csr.mstatus]
  /\ sframe # NoFrame /\ sframe.mode \in Modes =>
       sframe = [pc |-> csr.sepc, mode |-> GET_SPP(csr.sstatus), ie |-> SPIE \in csr.sstatus]

\* A return resumes what its trap interrupted: mret and sret restore the pc,
\* the mode and the interrupt enable, even when another trap to the other
\* mode was taken and returned from since.
ReturnRestores ==
  [][ Instruction' \in {"MRET", "SRET"} /\ trap' = NoTrap =>
      LET frame == IF Instruction' = "MRET" THEN mframe ELSE sframe
          enable == IF Instruction' = "MRET" THEN MIE ELSE SIE
      IN  frame # NoFrame /\ frame.mode \in Modes =>
            /\ pc' = frame.pc
            /\ privilege' = frame.mode
            /\ enable \in csr'.mstatus <=> frame.ie ]_vars

\* A trap never lowers the privilege of a mode: what S is delegated
\* interrupts U and S code only, and is held back while M code runs.  (From
\* 2, which is no mode, a delegated page fault does lead down to S.)
NoTrapLowersPrivilege ==
  [][trap' # NoTrap /\ privilege \in Modes => privilege' >= privilege]_vars

\* exception() assumes that the interrupt flags are those of the instruction
\* at hand: a trap that is reported as an interrupt is one whose interrupt is
\* pending and enabled in the interrupted mode.
InterruptIsDue ==
  [][trap' # NoTrap /\ trap'.interrupt => trap'.code \in MInterrupts \cup SInterrupts]_vars
=============================================================================

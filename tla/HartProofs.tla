----------------------------- MODULE HartProofs -----------------------------
(***************************************************************************)
(* Theorems about Hart, for every size of the address space and every set  *)
(* of checkpoints and of CSR writes.                                       *)
(***************************************************************************)
EXTENDS Hart, TLAPS

Causes == {2, 12, 13, 15}
Kinds == {"ECALL", "MRET", "SRET", "OTHER"}

\* The step invariant: the frames are kept only because the S copies agree
\* with the M registers, and both only for states of the right shape.
IInv == TypeOK /\ ShadowsAgree /\ FramesKept

\* What a step must leave behind.
Kept == TypeOK' /\ ShadowsAgree' /\ FramesKept'

-----------------------------------------------------------------------------
(* Status words                                                            *)

\* Reading MPP back gives the level that was put there.
LEMMA MppRoundTrip ==
  ASSUME NEW level \in Levels, NEW s, 11 \notin s, 12 \notin s
  PROVE  GET_MPP(s \cup MppBits(level)) = level
<1>1. CASE level = UMode
  BY <1>1 DEF GET_MPP, MppBits, UMode, SMode, MMode, Reserved, MPP
<1>2. CASE level = SMode
  BY <1>2 DEF GET_MPP, MppBits, UMode, SMode, MMode, Reserved, MPP
<1>3. CASE level = MMode
  BY <1>3 DEF GET_MPP, MppBits, UMode, SMode, MMode, Reserved, MPP
<1>4. CASE level = Reserved
  BY <1>4 DEF GET_MPP, MppBits, UMode, SMode, MMode, Reserved, MPP
<1>. QED  BY <1>1, <1>2, <1>3, <1>4 DEF Levels, Modes

\* Two bits of MPP make one of four levels.
LEMMA MppLevel ==
  ASSUME NEW s
  PROVE  GET_MPP(s) \in Levels
BY DEF GET_MPP, Levels, Modes, UMode, SMode, MMode, Reserved

\* MPP is decided by its two bits alone.
LEMMA MppBitsOnly ==
  ASSUME NEW s, NEW t, 11 \in s <=> 11 \in t, 12 \in s <=> 12 \in t
  PROVE  GET_MPP(s) = GET_MPP(t)
BY DEF GET_MPP

\* A trap to M keeps the S bits, stacks MIE and the mode, and clears MIE.
LEMMA MStackedProperties ==
  ASSUME NEW s \in SUBSET Bits, privilege \in Levels
  PROVE  /\ MStacked(s) \in SUBSET Bits
         /\ s \subseteq MstatusMask => MStacked(s) \subseteq MstatusMask
         /\ GET_MPP(MStacked(s)) = privilege
         /\ MPIE \in MStacked(s) <=> MIE \in s
         /\ \A b \in {SIE, SPIE, SPP} : b \in MStacked(s) <=> b \in s
<1>. DEFINE base == (s \ MPP) \cup MppBits(privilege)
<1>1. MppBits(privilege) \subseteq {11, 12}
  BY DEF MppBits, MPP, Levels, Modes, UMode, SMode, MMode, Reserved
<1>2. \A b : b \in MStacked(s) <=>
               /\ b # MIE
               /\ IF b = MPIE THEN MIE \in s ELSE b \in base
  BY DEF MStacked, Put, MIE, MPIE
<1>3. MStacked(s) \in SUBSET Bits
  <2>1. 11 \in Bits /\ 12 \in Bits /\ MPIE \in Bits
    BY DEF Bits, MPIE
  <2>2. base \subseteq Bits
    BY <1>1, <2>1
  <2>. QED  BY <1>2, <2>1, <2>2
<1>4. GET_MPP(MStacked(s)) = GET_MPP(base)
  BY <1>2, MppBitsOnly DEF MIE, MPIE
<1>5. GET_MPP(base) = privilege
  BY MppRoundTrip DEF MPP
<1>6. \A b \in {SIE, SPIE, SPP} : b \in MStacked(s) <=> b \in s
  BY <1>1, <1>2 DEF SIE, SPIE, SPP, MIE, MPIE, MPP
<1>7. ASSUME s \subseteq MstatusMask  PROVE  MStacked(s) \subseteq MstatusMask
  <2>1. 11 \in MstatusMask /\ 12 \in MstatusMask /\ MPIE \in MstatusMask
    BY DEF MstatusMask, MPIE
  <2>2. base \subseteq MstatusMask
    BY <1>1, <1>7, <2>1
  <2>. QED  BY <1>2, <2>1, <2>2
<1>. QED  BY <1>2, <1>3, <1>4, <1>5, <1>6, <1>7 DEF MIE, MPIE

\* A trap to S stacks SIE and whether it came from S, and clears SIE.
LEMMA SStackedProperties ==
  ASSUME NEW s \in SUBSET Bits
  PROVE  /\ SStacked(s) \in SUBSET Bits
         /\ s \subseteq SstatusMask => SStacked(s) \subseteq SstatusMask
         /\ SPP \in SStacked(s) <=> privilege = SMode
         /\ SPIE \in SStacked(s) <=> SIE \in s
<1>1. \A b : b \in SStacked(s) <=>
               /\ b # SIE
               /\ IF b = SPIE THEN SIE \in s
                  ELSE IF b = SPP THEN privilege = SMode ELSE b \in s
  BY DEF SStacked, Put, SIE, SPIE, SPP
<1>2. SPIE \in Bits /\ SPP \in Bits
  BY DEF SPIE, SPP, Bits
<1>3. SStacked(s) \in SUBSET Bits
  BY <1>1, <1>2
<1>4. SPIE \in SstatusMask /\ SPP \in SstatusMask
  BY DEF SPIE, SPP, SstatusMask
<1>5. s \subseteq SstatusMask => SStacked(s) \subseteq SstatusMask
  BY <1>1, <1>4
<1>. QED  BY <1>1, <1>3, <1>5 DEF SIE, SPIE, SPP

\* Writing sstatus back makes the two agree and leaves the M fields alone.
LEMMA MergeProperties ==
  ASSUME NEW ms \in SUBSET Bits, NEW ss \in SUBSET Bits
  PROVE  /\ Merge(ms, ss, SstatusMask) \in SUBSET Bits
         /\ \A b \in {SIE, SPIE, SPP} : b \in Merge(ms, ss, SstatusMask) <=> b \in ss
         /\ MPIE \in Merge(ms, ss, SstatusMask) <=> MPIE \in ms
         /\ MIE \in Merge(ms, ss, SstatusMask) <=> MIE \in ms
         /\ GET_MPP(Merge(ms, ss, SstatusMask)) = GET_MPP(ms)
<1>1. /\ 11 \in Merge(ms, ss, SstatusMask) <=> 11 \in ms
      /\ 12 \in Merge(ms, ss, SstatusMask) <=> 12 \in ms
  BY DEF Merge, SstatusMask
<1>2. GET_MPP(Merge(ms, ss, SstatusMask)) = GET_MPP(ms)
  BY <1>1, MppBitsOnly
<1>3. Merge(ms, ss, SstatusMask) \in SUBSET Bits
  BY DEF Merge
<1>. QED  BY <1>2, <1>3 DEF Merge, SstatusMask, SIE, SPIE, SPP, MIE, MPIE

\* Where the two copies of the status may differ, no trap or return looks.
LEMMA AgreeBits ==
  ASSUME NEW c, Agree(c)
  PROVE  \A b \in {SIE, SPIE, SPP} : b \in c.sstatus <=> b \in c.mstatus
<1>1. {SIE, SPIE, SPP} \subseteq SstatusMask \ {UIE, UPIE}
  BY DEF SIE, SPIE, SPP, SstatusMask, UIE, UPIE
<1>. QED  BY <1>1 DEF Agree

\* The mask of a trap to M shows what mstatus can hold of the S mask but
\* UIE and UPIE.
LEMMA TrapMask ==
  ASSUME NEW ms \in SUBSET MstatusMask
  PROVE  /\ ms \cap MTrapMask \subseteq ms \cap SstatusMask
         /\ (ms \cap SstatusMask) \ {UIE, UPIE} \subseteq ms \cap MTrapMask
<1>1. 6 \notin MstatusMask /\ 9 \notin MstatusMask /\ 10 \notin MstatusMask
  BY DEF MstatusMask
<1>2. \A b \in MTrapMask : b \in SstatusMask \/ b \in {6, 9, 10}
  BY DEF MTrapMask, SstatusMask
<1>3. \A b \in SstatusMask : b \in MTrapMask \/ b \in {UIE, UPIE}
  BY DEF MTrapMask, SstatusMask, UIE, UPIE
<1>. QED  BY <1>1, <1>2, <1>3

\* Both write masks stay within what mstatus can hold.
LEMMA StatusMasks == SstatusMask \subseteq MstatusMask /\ MstatusMask \subseteq Bits
BY DEF SstatusMask, MstatusMask, Bits

\* sstatus written back into mstatus: the copies agree on the whole mask.
LEMMA MergeAgrees ==
  ASSUME NEW ms \in SUBSET MstatusMask, NEW ss \in SUBSET SstatusMask
  PROVE  /\ Merge(ms, ss, SstatusMask) \in SUBSET MstatusMask
         /\ Merge(ms, ss, SstatusMask) \cap SstatusMask = ss
<1>1. Merge(ms, ss, SstatusMask) \in SUBSET MstatusMask
  BY StatusMasks DEF Merge
<1>2. \A b : b \in Merge(ms, ss, SstatusMask) \cap SstatusMask <=> b \in ss
  BY DEF Merge
<1>. QED  BY <1>1, <1>2

-----------------------------------------------------------------------------
(* Causes and handlers                                                     *)

\* The search of mcause's order finds a cause it lists.
LEMMA MCodeInRange ==
  ASSUME NEW causes \in SUBSET {3, 7, 11, 8, 9, 12, 13, 15, 2}
  PROVE  Code(MOrder, causes) \in 0 .. 15
<1>. DEFINE First(k) == /\ MOrder[k] \in causes
                        /\ \A j \in 1 .. k - 1 : MOrder[j] \notin causes
<1>1. DOMAIN MOrder = 1 .. 9 /\ \A k \in 1 .. 9 : MOrder[k] \in 0 .. 15
  BY DEF MOrder
<1>2. CASE causes = {}
  BY <1>2 DEF Code
<1>3. CASE causes # {}
  <2>0. /\ MOrder[1] = 3 /\ MOrder[2] = 7 /\ MOrder[3] = 11
        /\ MOrder[4] = 8 /\ MOrder[5] = 9 /\ MOrder[6] = 12
        /\ MOrder[7] = 13 /\ MOrder[8] = 15 /\ MOrder[9] = 2
    BY DEF MOrder
  <2>1. \E k \in 1 .. 9 : MOrder[k] \in causes
    <3>1. PICK c \in causes : TRUE
      BY <1>3
    <3>2. \E k \in 1 .. 9 : MOrder[k] = c
      BY ONLY <2>0, c \in {3, 7, 11, 8, 9, 12, 13, 15, 2}
    <3>. QED  BY <3>2
  <2>2. \E k \in 1 .. 9 : First(k)
    BY <2>1
  <2>. QED  BY <1>1, <1>3, <2>2 DEF Code
<1>. QED  BY <1>2, <1>3

\* The search of scause's order finds a cause it lists.
LEMMA SCodeInRange ==
  ASSUME NEW causes \in SUBSET {9, 5, 8, 1, 12, 13, 15}
  PROVE  Code(SOrder, causes) \in 0 .. 15
<1>. DEFINE First(k) == /\ SOrder[k] \in causes
                        /\ \A j \in 1 .. k - 1 : SOrder[j] \notin causes
<1>1. DOMAIN SOrder = 1 .. 7 /\ \A k \in 1 .. 7 : SOrder[k] \in 0 .. 15
  BY DEF SOrder
<1>2. CASE causes = {}
  BY <1>2 DEF Code
<1>3. CASE causes # {}
  <2>0. /\ SOrder[1] = 9 /\ SOrder[2] = 5 /\ SOrder[3] = 8
        /\ SOrder[4] = 1 /\ SOrder[5] = 12 /\ SOrder[6] = 13
        /\ SOrder[7] = 15
    BY DEF SOrder
  <2>1. \E k \in 1 .. 7 : SOrder[k] \in causes
    <3>1. PICK c \in causes : TRUE
      BY <1>3
    <3>2. \E k \in 1 .. 7 : SOrder[k] = c
      BY ONLY <2>0, c \in {9, 5, 8, 1, 12, 13, 15}
    <3>. QED  BY <3>2
  <2>2. \E k \in 1 .. 7 : First(k)
    BY <2>1
  <2>. QED  BY <1>1, <1>3, <2>2 DEF Code
<1>. QED  BY <1>2, <1>3

LEMMA CausesShape ==
  ASSUME NEW fault \in SUBSET Causes, NEW mi \in SUBSET {3, 7, 11},
         NEW si \in SUBSET {1, 5, 9}, NEW insn
  PROVE  /\ MCauses(fault, mi, insn) \in SUBSET {3, 7, 11, 8, 9, 12, 13, 15, 2}
         /\ SCauses(fault, si, insn) \in SUBSET {9, 5, 8, 1, 12, 13, 15}
<1>1. fault \subseteq {2, 12, 13, 15}
  BY DEF Causes
<1>2. MCauses(fault, mi, insn) \in SUBSET {3, 7, 11, 8, 9, 12, 13, 15, 2}
  BY <1>1 DEF MCauses, When
<1>3. SCauses(fault, si, insn) \in SUBSET {9, 5, 8, 1, 12, 13, 15}
  BY <1>1 DEF SCauses, When
<1>. QED  BY <1>2, <1>3

LEMMA HandlerInRange ==
  ASSUME NEW tvec \in TVec, NEW interrupt \in BOOLEAN, NEW code \in 0 .. 15
  PROVE  Handler(tvec, interrupt, code) \in Pcs
<1>1. tvec.base \in Pcs /\ tvec.vectored \in BOOLEAN /\ NumPcs \in Nat \ {0}
  BY HartAssumption DEF TVec
<1>2. (tvec.base + code) % NumPcs \in Pcs
  BY <1>1 DEF Pcs
<1>. QED  BY <1>1, <1>2 DEF Handler

-----------------------------------------------------------------------------
(* Traps and returns                                                       *)

\* The members that survive an instruction are of the right shape after it.
MembersTyped == /\ m_irq' \subseteq {3, 7, 11}
                /\ s_irq' \subseteq {1, 5, 9}
                /\ Instruction' \in Kinds

LEMMA TrapToMKeeps ==
  ASSUME IInv, MembersTyped, NEW fault \in SUBSET Causes, NEW mi \in SUBSET {3, 7, 11},
         NEW insn, TrapToM(fault, mi, insn)
  PROVE  Kept
<1>. DEFINE interrupt == mi # {}
            code == Code(MOrder, MCauses(fault, mi, insn))
            ms == MStacked(csr.mstatus)
<1>1. /\ csr \in Csrs /\ csr.mstatus \in SUBSET Bits /\ privilege \in Levels /\ pc \in Pcs
      /\ csr.mtvec \in TVec /\ csr.mstatus \subseteq MstatusMask
      /\ privilege = Reserved => mpp_reserved
  BY DEF IInv, TypeOK, Csrs, ShadowsAgree, Agree
<1>2. /\ ms \in SUBSET Bits /\ ms \subseteq MstatusMask
      /\ GET_MPP(ms) = privilege
      /\ MPIE \in ms <=> MIE \in csr.mstatus
      /\ \A b \in {SIE, SPIE, SPP} : b \in ms <=> b \in csr.mstatus
  <2>1. /\ csr.mstatus \in SUBSET Bits /\ privilege \in Levels
        /\ csr.mstatus \subseteq MstatusMask
    BY <1>1
  <2>. QED  BY ONLY <2>1, MStackedProperties
<1>3. code \in 0 .. 15
  <2>1. PICK si \in SUBSET {1, 5, 9} : TRUE
    OBVIOUS
  <2>2. MCauses(fault, mi, insn) \in SUBSET {3, 7, 11, 8, 9, 12, 13, 15, 2}
    BY CausesShape
  <2>. QED  BY ONLY <2>2, MCodeInRange
<1>4. Handler(csr.mtvec, interrupt, code) \in Pcs
  BY <1>1, <1>3, HandlerInRange
<1>. HIDE DEF ms, code, interrupt
<1>5. /\ csr' = [csr EXCEPT !.mepc = pc, !.mstatus = ms, !.sstatus = ms \cap MTrapMask]
      /\ pc' = Handler(csr.mtvec, interrupt, code)
      /\ privilege' = MMode
      /\ trap' = [to |-> "M", interrupt |-> interrupt, code |-> code]
      /\ mframe' = [pc |-> pc, mode |-> privilege, ie |-> MIE \in csr.mstatus]
      /\ sframe' = sframe /\ mpp_reserved' = mpp_reserved
  BY DEF TrapToM, ms, code, interrupt
<1>6. /\ csr'.mepc = pc /\ csr'.mstatus = ms /\ csr'.sstatus = ms \cap MTrapMask
      /\ csr'.sepc = csr.sepc
      /\ csr'.mie = csr.mie /\ csr'.sie = csr.sie /\ csr'.mip = csr.mip /\ csr'.sip = csr.sip
      /\ csr' \in Csrs
  BY <1>1, <1>2, <1>5 DEF Csrs
<1>7. \A b \in {SIE, SPIE, SPP} : /\ b \in csr'.sstatus <=> b \in csr'.mstatus
                                  /\ b \in csr'.sstatus <=> b \in csr.sstatus
  <2>1. \A b \in {SIE, SPIE, SPP} : b \in csr.sstatus <=> b \in csr.mstatus
    BY AgreeBits DEF IInv, ShadowsAgree
  <2>. QED  BY <1>2, <1>6, <2>1 DEF MTrapMask, SIE, SPIE, SPP
<1>8. TypeOK'
  <2>1. trap' \in Trap
    BY <1>3, <1>5 DEF Trap, interrupt
  <2>2. mframe' \in Frame
    BY <1>1, <1>5 DEF Frame
  <2>3. /\ privilege' \in Levels /\ mpp_reserved' \in BOOLEAN
        /\ privilege' = Reserved \/ GET_MPP(csr'.mstatus) = Reserved => mpp_reserved'
    BY <1>1, <1>2, <1>5, <1>6 DEF IInv, TypeOK, Levels, Modes, MMode, Reserved
  <2>. QED  BY <1>4, <1>5, <1>6, <2>1, <2>2, <2>3 DEF TypeOK, IInv, MembersTyped, Kinds
<1>9. ShadowsAgree'
  <2>1. /\ csr'.sstatus \subseteq csr'.mstatus \cap SstatusMask
        /\ (csr'.mstatus \cap SstatusMask) \ {UIE, UPIE} \subseteq csr'.sstatus
    BY <1>2, <1>6, TrapMask
  <2>. QED  BY <1>2, <1>6, <2>1 DEF ShadowsAgree, Agree, IInv
<1>10. FramesKept'
  <2>1. mframe' = [pc |-> csr'.mepc, mode |-> GET_MPP(csr'.mstatus), ie |-> MPIE \in csr'.mstatus]
    BY <1>2, <1>5, <1>6
  <2>2. GET_SPP(csr'.sstatus) = GET_SPP(csr.sstatus) /\ (SPIE \in csr'.sstatus <=> SPIE \in csr.sstatus)
    BY <1>7 DEF GET_SPP
  <2>. QED  BY <1>5, <1>6, <2>1, <2>2 DEF FramesKept, IInv
<1>. QED  BY <1>8, <1>9, <1>10 DEF Kept

LEMMA TrapToSKeeps ==
  ASSUME IInv, MembersTyped, NEW fault \in SUBSET Causes, NEW si \in SUBSET {1, 5, 9},
         NEW insn, privilege # MMode, TrapToS(fault, si, insn)
  PROVE  Kept
<1>. DEFINE interrupt == si # {}
            code == Code(SOrder, SCauses(fault, si, insn))
            ss == SStacked(csr.sstatus)
            ms == Merge(csr.mstatus, ss, SstatusMask)
<1>1. /\ csr \in Csrs /\ csr.mstatus \in SUBSET Bits /\ csr.sstatus \in SUBSET Bits
      /\ privilege \in Levels /\ pc \in Pcs /\ csr.stvec \in TVec
      /\ GET_MPP(csr.mstatus) = Reserved => mpp_reserved
      /\ csr.mstatus \subseteq MstatusMask /\ csr.sstatus \subseteq SstatusMask
  BY DEF IInv, TypeOK, Csrs, ShadowsAgree, Agree
<1>2. /\ ss \in SUBSET Bits /\ ss \subseteq SstatusMask
      /\ SPP \in ss <=> privilege = SMode
      /\ SPIE \in ss <=> SIE \in csr.sstatus
  BY <1>1, SStackedProperties
<1>3. code \in 0 .. 15
  BY CausesShape, SCodeInRange
<1>4. Handler(csr.stvec, interrupt, code) \in Pcs
  BY <1>1, <1>3, HandlerInRange
<1>. HIDE DEF ss
<1>5. /\ ms \in SUBSET Bits
      /\ \A b \in {SIE, SPIE, SPP} : b \in ms <=> b \in ss
      /\ MPIE \in ms <=> MPIE \in csr.mstatus
      /\ GET_MPP(ms) = GET_MPP(csr.mstatus)
      /\ ms \in SUBSET MstatusMask /\ ms \cap SstatusMask = ss
  BY <1>1, <1>2, MergeProperties, MergeAgrees
<1>. HIDE DEF ms, code, interrupt
<1>6. /\ csr' = [csr EXCEPT !.sepc = pc, !.sstatus = ss, !.mstatus = ms]
      /\ pc' = Handler(csr.stvec, interrupt, code)
      /\ privilege' = SMode
      /\ trap' = [to |-> "S", interrupt |-> interrupt, code |-> code]
      /\ sframe' = [pc |-> pc, mode |-> privilege, ie |-> SIE \in csr.sstatus]
      /\ mframe' = mframe /\ mpp_reserved' = mpp_reserved
  BY <1>1 DEF TrapToS, ms, ss, code, interrupt, Csrs
<1>7. /\ csr'.sepc = pc /\ csr'.mstatus = ms /\ csr'.sstatus = ss
      /\ csr'.mepc = csr.mepc
      /\ csr'.mie = csr.mie /\ csr'.sie = csr.sie /\ csr'.mip = csr.mip /\ csr'.sip = csr.sip
      /\ csr' \in Csrs
  BY <1>1, <1>2, <1>5, <1>6 DEF Csrs
<1>8. TypeOK'
  <2>1. trap' \in Trap
    BY <1>3, <1>6 DEF Trap, interrupt
  <2>2. sframe' \in Frame
    BY <1>1, <1>6 DEF Frame
  <2>3. /\ privilege' \in Levels /\ mpp_reserved' \in BOOLEAN
        /\ privilege' = Reserved \/ GET_MPP(csr'.mstatus) = Reserved => mpp_reserved'
    BY <1>1, <1>5, <1>6, <1>7 DEF IInv, TypeOK, Levels, Modes, SMode, Reserved
  <2>. QED  BY <1>4, <1>6, <1>7, <2>1, <2>2, <2>3 DEF TypeOK, IInv, MembersTyped, Kinds
<1>9. ShadowsAgree'
  BY <1>5, <1>7 DEF ShadowsAgree, Agree, IInv
<1>10. FramesKept'
  <2>1. privilege \in Modes => GET_SPP(ss) = privilege
    BY <1>2 DEF GET_SPP, Modes, UMode, SMode, MMode
  <2>3. sframe'.mode = privilege
    BY <1>6
  <2>2. privilege \in Modes => sframe' = [pc |-> csr'.sepc, mode |-> GET_SPP(csr'.sstatus), ie |-> SPIE \in csr'.sstatus]
    BY <1>2, <1>6, <1>7, <2>1
  <2>. QED  BY <1>5, <1>6, <1>7, <2>2, <2>3 DEF FramesKept, IInv
<1>. QED  BY <1>8, <1>9, <1>10 DEF Kept

LEMMA MRetKeeps ==
  ASSUME IInv, MembersTyped, MRet
  PROVE  Kept
<1>. DEFINE ms == (Put(csr.mstatus, MIE, MPIE \in csr.mstatus) \cup {MPIE}) \ MPP
<1>1. /\ csr \in Csrs /\ csr.mstatus \in SUBSET Bits /\ csr.mepc \in Pcs
      /\ GET_MPP(csr.mstatus) = Reserved => mpp_reserved
      /\ csr.mstatus \subseteq MstatusMask
  BY DEF IInv, TypeOK, Csrs, ShadowsAgree, Agree
<1>2. \A b : b \in ms <=> /\ b \notin MPP
                          /\ b = MPIE \/ IF b = MIE THEN MPIE \in csr.mstatus ELSE b \in csr.mstatus
  BY DEF Put, MPP, MIE, MPIE
<1>3. ms \in SUBSET Bits
  <2>1. MIE \in Bits /\ MPIE \in Bits
    BY DEF MIE, MPIE, Bits
  <2>. QED  BY <1>1, <1>2, <2>1
<1>4. GET_MPP(ms) # Reserved /\ ms \subseteq MstatusMask
  <2>1. GET_MPP(ms) # Reserved
    BY <1>2 DEF GET_MPP, MPP, Reserved
  <2>2. MIE \in MstatusMask /\ MPIE \in MstatusMask
    BY DEF MIE, MPIE, MstatusMask
  <2>. QED  BY <1>1, <1>2, <2>1, <2>2
<1>5. \A b \in {SIE, SPIE, SPP} : b \in ms <=> b \in csr.mstatus
  BY <1>2 DEF SIE, SPIE, SPP, MIE, MPIE, MPP
<1>. HIDE DEF ms
<1>6. /\ csr' = [csr EXCEPT !.mstatus = ms, !.sstatus = ms \cap SstatusMask]
      /\ pc' = csr.mepc
      /\ privilege' = GET_MPP(csr.mstatus)
      /\ trap' = NoTrap
      /\ mframe' = NoFrame
      /\ sframe' = sframe /\ mpp_reserved' = mpp_reserved
  BY DEF MRet, ms
<1>7. /\ csr'.mstatus = ms /\ csr'.sstatus = ms \cap SstatusMask
      /\ csr'.sepc = csr.sepc
      /\ csr'.mie = csr.mie /\ csr'.sie = csr.sie /\ csr'.mip = csr.mip /\ csr'.sip = csr.sip
      /\ csr' \in Csrs
  BY <1>1, <1>3, <1>6 DEF Csrs
<1>8. \A b \in {SIE, SPIE, SPP} : /\ b \in csr'.sstatus <=> b \in csr'.mstatus
                                  /\ b \in csr'.sstatus <=> b \in csr.sstatus
  <2>1. \A b \in {SIE, SPIE, SPP} : b \in csr.sstatus <=> b \in csr.mstatus
    BY AgreeBits DEF IInv, ShadowsAgree
  <2>. QED  BY <1>5, <1>7, <2>1 DEF SstatusMask, SIE, SPIE, SPP
<1>9. TypeOK'
  <2>1. /\ privilege' \in Levels /\ mpp_reserved' \in BOOLEAN
        /\ privilege' = Reserved \/ GET_MPP(csr'.mstatus) = Reserved => mpp_reserved'
    BY <1>1, <1>4, <1>6, <1>7, MppLevel DEF IInv, TypeOK
  <2>. QED  BY <1>1, <1>6, <1>7, <2>1 DEF TypeOK, IInv, MembersTyped, Kinds
<1>10. ShadowsAgree'
  BY <1>4, <1>7 DEF ShadowsAgree, Agree, IInv
<1>11. FramesKept'
  <2>1. GET_SPP(csr'.sstatus) = GET_SPP(csr.sstatus) /\ (SPIE \in csr'.sstatus <=> SPIE \in csr.sstatus)
    BY <1>8 DEF GET_SPP
  <2>. QED  BY <1>6, <1>7, <2>1 DEF FramesKept, IInv
<1>. QED  BY <1>9, <1>10, <1>11 DEF Kept

LEMMA SRetKeeps ==
  ASSUME IInv, MembersTyped, SRet
  PROVE  Kept
<1>. DEFINE ss == (Put(csr.sstatus, SIE, SPIE \in csr.sstatus) \cup {SPIE}) \ {SPP}
            ms == Merge(csr.mstatus, ss, SstatusMask)
<1>1. /\ csr \in Csrs /\ csr.mstatus \in SUBSET Bits /\ csr.sstatus \in SUBSET Bits
      /\ csr.sepc \in Pcs
      /\ GET_MPP(csr.mstatus) = Reserved => mpp_reserved
      /\ csr.mstatus \subseteq MstatusMask /\ csr.sstatus \subseteq SstatusMask
  BY DEF IInv, TypeOK, Csrs, ShadowsAgree, Agree
<1>2. ss \in SUBSET Bits /\ ss \subseteq SstatusMask
  <2>1. /\ SIE \in Bits /\ SPIE \in Bits
        /\ SIE \in SstatusMask /\ SPIE \in SstatusMask
    BY DEF SIE, SPIE, Bits, SstatusMask
  <2>. QED  BY <1>1, <2>1 DEF Put
<1>. HIDE DEF ss
<1>3. /\ ms \in SUBSET Bits
      /\ \A b \in {SIE, SPIE, SPP} : b \in ms <=> b \in ss
      /\ MPIE \in ms <=> MPIE \in csr.mstatus
      /\ GET_MPP(ms) = GET_MPP(csr.mstatus)
      /\ ms \in SUBSET MstatusMask /\ ms \cap SstatusMask = ss
  BY <1>1, <1>2, MergeProperties, MergeAgrees
<1>. HIDE DEF ms
<1>4. /\ csr' = [csr EXCEPT !.sstatus = ss, !.mstatus = ms]
      /\ pc' = csr.sepc
      /\ privilege' = GET_SPP(csr.sstatus)
      /\ trap' = NoTrap
      /\ sframe' = NoFrame
      /\ mframe' = mframe /\ mpp_reserved' = mpp_reserved
  BY <1>1 DEF SRet, ss, ms, Csrs
<1>5. /\ csr'.mstatus = ms /\ csr'.sstatus = ss
      /\ csr'.mepc = csr.mepc
      /\ csr'.mie = csr.mie /\ csr'.sie = csr.sie /\ csr'.mip = csr.mip /\ csr'.sip = csr.sip
      /\ csr' \in Csrs
  BY <1>1, <1>2, <1>3, <1>4 DEF Csrs
<1>6. TypeOK'
  <2>1. privilege' \in Levels /\ privilege' # Reserved
    BY <1>4 DEF GET_SPP, Levels, Modes, UMode, SMode, Reserved
  <2>2. /\ mpp_reserved' \in BOOLEAN
        /\ privilege' = Reserved \/ GET_MPP(csr'.mstatus) = Reserved => mpp_reserved'
    BY <1>1, <1>3, <1>4, <1>5, <2>1 DEF IInv, TypeOK
  <2>3. /\ pc' \in Pcs /\ csr' \in Csrs /\ trap' = NoTrap
        /\ sframe' = NoFrame /\ mframe' = mframe
    BY <1>1, <1>4, <1>5
  <2>. QED  BY <2>1, <2>2, <2>3 DEF TypeOK, IInv, MembersTyped, Kinds
<1>7. ShadowsAgree'
  BY <1>3, <1>5 DEF ShadowsAgree, Agree, IInv
<1>8. FramesKept'
  BY <1>3, <1>4, <1>5 DEF FramesKept, IInv
<1>. QED  BY <1>6, <1>7, <1>8 DEF Kept

\* What neither traps nor returns changes the pc alone.
LEMMA FallsThroughKeeps ==
  ASSUME IInv, MembersTyped, FallsThrough
  PROVE  Kept
<1>1. /\ pc' \in Pcs /\ trap' = NoTrap
      /\ UNCHANGED <<privilege, csr, mframe, sframe, mpp_reserved>>
  BY HartAssumption DEF FallsThrough, IInv, TypeOK, Pcs
<1>2. TypeOK'
  BY <1>1 DEF TypeOK, IInv, MembersTyped, Kinds, GET_MPP
<1>3. ShadowsAgree'
  BY <1>1 DEF ShadowsAgree, Agree, IInv
<1>4. FramesKept'
  BY <1>1 DEF FramesKept, IInv, GET_MPP, GET_SPP
<1>. QED  BY <1>2, <1>3, <1>4 DEF Kept

\* exception() keeps the invariant, provided that S takes no trap from M.
LEMMA ExceptionKeeps ==
  ASSUME IInv, MembersTyped, NEW fault \in SUBSET Causes, NEW mi \in SUBSET {3, 7, 11},
         NEW si \in SUBSET {1, 5, 9}, NEW insn,
         ~MTrap(fault, mi, insn) /\ STrap(fault, si, insn) => privilege # MMode,
         exception(fault, mi, si, insn)
  PROVE  Kept
<1>1. CASE MTrap(fault, mi, insn) /\ TrapToM(fault, mi, insn)
  BY <1>1, TrapToMKeeps
<1>2. CASE ~MTrap(fault, mi, insn) /\ STrap(fault, si, insn) /\ TrapToS(fault, si, insn)
  BY <1>2, TrapToSKeeps
<1>3. CASE MRet
  BY <1>3, MRetKeeps
<1>4. CASE SRet
  BY <1>4, SRetKeeps
<1>5. CASE FallsThrough
  BY <1>5, FallsThroughKeeps
<1>. QED  BY <1>1, <1>2, <1>3, <1>4, <1>5 DEF exception

\* What S is delegated never interrupts M code.
LEMMA SInterruptsBelowM ==
  ASSUME SInterrupts # {}
  PROVE  privilege # MMode
BY DEF SInterrupts, s_irq_enable, UMode, SMode, MMode

\* Outside M mode, or without a fault, exception() sends nothing from M to S.
LEMMA NoSTrapFromM ==
  ASSUME NEW fault, NEW si, NEW insn, NEW mi, privilege = MMode, fault \ {2} = {}, si = {}
  PROVE  ~STrap(fault, si, insn)
<1>1. ~UCall(insn) /\ ~SCall(insn)
  BY DEF UCall, SCall, UMode, SMode, MMode
<1>. QED  BY <1>1 DEF STrap, SCauses, When

LEMMA FlagsTyped ==
  /\ MInterrupts \subseteq {3, 7, 11}
  /\ SInterrupts \subseteq {1, 5, 9}
BY DEF MInterrupts, SInterrupts

-----------------------------------------------------------------------------
(* CSR writes                                                              *)

\* A sequential instruction that changes csr only.
LEMMA CsrOnlyKeeps ==
  ASSUME IInv, MembersTyped, pc' \in Pcs, trap' = NoTrap, UNCHANGED privilege,
         csr' \in Csrs, Agree(csr'), mpp_reserved' \in BOOLEAN,
         mpp_reserved \/ GET_MPP(csr'.mstatus) = Reserved => mpp_reserved',
         mframe' = NoFrame \/ (/\ mframe' = mframe /\ csr'.mepc = csr.mepc
                               /\ GET_MPP(csr'.mstatus) = GET_MPP(csr.mstatus)
                               /\ MPIE \in csr'.mstatus <=> MPIE \in csr.mstatus),
         sframe' = NoFrame \/ (/\ sframe' = sframe /\ csr'.sepc = csr.sepc
                               /\ SPP \in csr'.sstatus <=> SPP \in csr.sstatus
                               /\ SPIE \in csr'.sstatus <=> SPIE \in csr.sstatus)
  PROVE  Kept
<1>1. TypeOK'
  BY DEF TypeOK, IInv, MembersTyped, Kinds
<1>2. ShadowsAgree'
  BY DEF ShadowsAgree, Agree
<1>3. FramesKept'
  <2>1. GET_SPP(csr'.sstatus) = GET_SPP(csr.sstatus) \/ sframe' = NoFrame
    BY DEF GET_SPP
  <2>. QED  BY <2>1 DEF FramesKept, IInv
<1>. QED  BY <1>1, <1>2, <1>3 DEF Kept

\* The value written to a CSR of flags is a set of bits.
LEMMA WdataTyped ==
  ASSUME IInv, NEW w, w.reg \in BitCsrs, w.cmd \in {"W", "S", "C"}, w.data \in SUBSET Bits
  PROVE  Wdata(w) \in SUBSET Bits
<1>1. csr[w.reg] \in SUBSET Bits
  BY DEF IInv, TypeOK, Csrs, BitCsrs
<1>. QED  BY <1>1 DEF Wdata

\* A bit that a set or clear command does not name keeps its value.
LEMMA UntouchedBit ==
  ASSUME NEW w, w.cmd \in {"W", "S", "C"}, NEW bits, NEW b \in bits, ~Touches(w, bits)
  PROVE  b \in Wdata(w) <=> b \in csr[w.reg]
BY DEF Touches, Wdata

LEMMA EnableWriteKeeps ==
  ASSUME IInv, MembersTyped, Sequential, NEW wdata \in SUBSET Bits,
         NEW mask \in {MieMask, SieMask},
         WriteMie(wdata, mask) \/ WriteMip(wdata, mask), UNCHANGED <<mframe, sframe>>,
         mpp_reserved' = (mpp_reserved \/ GET_MPP(csr'.mstatus) = Reserved)
  PROVE  Kept
<1>1. csr \in Csrs /\ csr.mie \in SUBSET Bits /\ csr.mip \in SUBSET Bits /\ Agree(csr)
  BY DEF IInv, TypeOK, Csrs, ShadowsAgree
<1>2. pc' \in Pcs /\ trap' = NoTrap /\ UNCHANGED privilege
  BY HartAssumption DEF Sequential, Completes, IInv, TypeOK, Pcs
<1>3. PICK new \in SUBSET Bits :
        \/ csr' = [csr EXCEPT !.mie = new, !.sie = new \cap SieMask]
        \/ csr' = [csr EXCEPT !.mip = new, !.sip = new \cap SieMask]
  BY <1>1 DEF WriteMie, WriteMip, Merge
<1>4. /\ csr' \in Csrs /\ csr'.mstatus = csr.mstatus /\ csr'.sstatus = csr.sstatus
      /\ csr'.mepc = csr.mepc /\ csr'.sepc = csr.sepc
      /\ csr'.sie = csr'.mie \cap SieMask /\ csr'.sip = csr'.mip \cap SieMask
  <2>0. csr.sie = csr.mie \cap SieMask /\ csr.sip = csr.mip \cap SieMask
    BY <1>1 DEF Agree
  <2>1. CASE csr' = [csr EXCEPT !.mie = new, !.sie = new \cap SieMask]
    BY <1>1, <2>0, <2>1 DEF Csrs
  <2>2. CASE csr' = [csr EXCEPT !.mip = new, !.sip = new \cap SieMask]
    BY <1>1, <2>0, <2>2 DEF Csrs
  <2>. QED  BY <1>3, <2>1, <2>2
<1>5. Agree(csr')
  BY <1>1, <1>4 DEF Agree
<1>6. /\ mpp_reserved' \in BOOLEAN
      /\ mpp_reserved \/ GET_MPP(csr'.mstatus) = Reserved => mpp_reserved'
  OBVIOUS
<1>. QED  BY <1>2, <1>4, <1>5, <1>6, CsrOnlyKeeps

LEMMA StatusWriteKeeps ==
  ASSUME IInv, NEW w, w.reg \in {"mstatus", "sstatus"}, w.cmd \in {"W", "S", "C"},
         w.data \in SUBSET Bits, MembersTyped, CsrWrite(w)
  PROVE  Kept
<1>. DEFINE mask == IF w.reg = "mstatus" THEN MstatusMask ELSE SstatusMask
            ms == Merge(csr.mstatus, Wdata(w), mask)
<1>1. csr \in Csrs /\ csr.mstatus \in SUBSET Bits /\ Agree(csr) /\ Wdata(w) \in SUBSET Bits
  BY WdataTyped DEF IInv, TypeOK, Csrs, ShadowsAgree, BitCsrs
<1>2. pc' \in Pcs /\ trap' = NoTrap /\ UNCHANGED privilege
  BY HartAssumption DEF CsrWrite, Sequential, Completes, IInv, TypeOK, Pcs
<1>3. ms \in SUBSET Bits /\ ms \subseteq MstatusMask
  <2>1. csr.mstatus \subseteq MstatusMask /\ mask \subseteq MstatusMask
    BY <1>1, StatusMasks DEF Agree
  <2>. QED  BY <2>1, StatusMasks DEF Merge
<1>4. /\ csr' = [csr EXCEPT !.mstatus = ms, !.sstatus = ms \cap SstatusMask]
      /\ mpp_reserved' \in BOOLEAN
      /\ mpp_reserved \/ GET_MPP(csr'.mstatus) = Reserved => mpp_reserved'
  BY DEF CsrWrite, Write, WriteMstatus
<1>5. SIE \in SstatusMask /\ SPIE \in SstatusMask /\ SPP \in SstatusMask
  BY DEF SIE, SPIE, SPP, SstatusMask
<1>6. ASSUME NEW b \in {SPIE, SPP}, ~TouchesS(w)
      PROVE  b \in ms <=> b \in csr.sstatus
  <2>1. b \in Wdata(w) <=> b \in csr[w.reg]
    BY <1>6, UntouchedBit DEF TouchesS
  <2>2. b \in csr[w.reg] <=> b \in csr.sstatus
    BY <1>1, AgreeBits
  <2>3. b \in mask
    BY <1>5 DEF MstatusMask, SPIE, SPP
  <2>. QED  BY <2>1, <2>2, <2>3 DEF Merge
<1>7. ASSUME NEW b \in MPP \cup {MPIE}, ~TouchesM(w)
      PROVE  b \in ms <=> b \in csr.mstatus
  <2>1. CASE w.reg = "mstatus"
    <3>1. b \in Wdata(w) <=> b \in csr.mstatus
      BY <1>7, <2>1, UntouchedBit DEF TouchesM
    <3>. QED  BY <3>1 DEF Merge
  <2>2. CASE w.reg = "sstatus"
    <3>1. b \notin SstatusMask
      BY DEF MPP, MPIE, SstatusMask
    <3>. QED  BY <2>2, <3>1 DEF Merge
  <2>. QED  BY <2>1, <2>2
<1>. HIDE DEF ms
<1>8. /\ csr'.mstatus = ms /\ csr'.sstatus = ms \cap SstatusMask
      /\ csr'.mepc = csr.mepc /\ csr'.sepc = csr.sepc
      /\ csr'.mie = csr.mie /\ csr'.sie = csr.sie /\ csr'.mip = csr.mip /\ csr'.sip = csr.sip
      /\ csr' \in Csrs
  BY <1>1, <1>3, <1>4 DEF Csrs
<1>9. Agree(csr')
  BY <1>1, <1>3, <1>8 DEF Agree
<1>10. mframe' = NoFrame \/ (/\ mframe' = mframe
                             /\ GET_MPP(csr'.mstatus) = GET_MPP(csr.mstatus)
                             /\ MPIE \in csr'.mstatus <=> MPIE \in csr.mstatus)
  <2>1. CASE TouchesM(w)
    BY <2>1 DEF CsrWrite
  <2>2. CASE ~TouchesM(w)
    <3>1. \A b \in {11, 12, MPIE} : b \in ms <=> b \in csr.mstatus
      BY <1>7, <2>2 DEF MPP
    <3>. QED  BY <1>8, <2>2, <3>1, MppBitsOnly DEF CsrWrite
  <2>. QED  BY <2>1, <2>2
<1>11. sframe' = NoFrame \/ (/\ sframe' = sframe
                             /\ SPP \in csr'.sstatus <=> SPP \in csr.sstatus
                             /\ SPIE \in csr'.sstatus <=> SPIE \in csr.sstatus)
  BY <1>5, <1>6, <1>8 DEF CsrWrite
<1>. QED  BY <1>2, <1>4, <1>8, <1>9, <1>10, <1>11, CsrOnlyKeeps

LEMMA CsrWriteKeeps ==
  ASSUME IInv, MembersTyped, NEW w \in CsrWrites, CsrWrite(w)
  PROVE  Kept
<1>1. /\ csr \in Csrs /\ Agree(csr)
      /\ pc' \in Pcs /\ trap' = NoTrap /\ UNCHANGED privilege
      /\ mpp_reserved' = (mpp_reserved \/ GET_MPP(csr'.mstatus) = Reserved)
  BY HartAssumption DEF CsrWrite, Sequential, Completes, IInv, TypeOK, Pcs, ShadowsAgree
<1>2. CASE w.reg \in {"mstatus", "sstatus"}
  BY <1>2, HartAssumption, StatusWriteKeeps
<1>3. CASE w.reg \in {"mie", "sie", "mip", "sip"}
  <2>1. w.cmd \in {"W", "S", "C"} /\ w.data \in SUBSET Bits
    BY <1>3, HartAssumption
  <2>2. Wdata(w) \in SUBSET Bits
    BY <1>3, <2>1, WdataTyped DEF BitCsrs
  <2>3. /\ \E mask \in {MieMask, SieMask} : WriteMie(Wdata(w), mask) \/ WriteMip(Wdata(w), mask)
        /\ UNCHANGED <<mframe, sframe>> /\ Sequential
    BY <1>3 DEF CsrWrite, Write, TouchesM, TouchesS
  <2>. QED  BY <1>1, <2>2, <2>3, EnableWriteKeeps
<1>4. CASE w.reg \in {"mideleg", "medeleg", "mtvec", "stvec", "mepc", "sepc", "satp"}
  <2>1. csr' = [csr EXCEPT ![w.reg] = Wdata(w)]
    BY <1>4 DEF CsrWrite, Write
  <2>2. csr' \in Csrs
    <3>1. CASE w.reg \in {"mideleg", "medeleg"}
      <4>1. Wdata(w) \in SUBSET Bits
        BY <3>1, HartAssumption, WdataTyped DEF BitCsrs
      <4>. QED  BY <1>1, <2>1, <3>1, <4>1 DEF Csrs
    <3>2. CASE w.reg \in {"mtvec", "stvec", "mepc", "sepc", "satp"}
      BY <1>1, <2>1, <3>2, HartAssumption DEF Csrs, Wdata, BitCsrs
    <3>. QED  BY <1>4, <3>1, <3>2
  <2>3. /\ csr'.mstatus = csr.mstatus /\ csr'.sstatus = csr.sstatus
        /\ csr'.mie = csr.mie /\ csr'.sie = csr.sie /\ csr'.mip = csr.mip /\ csr'.sip = csr.sip
        /\ w.reg # "mepc" => csr'.mepc = csr.mepc
        /\ w.reg # "sepc" => csr'.sepc = csr.sepc
    BY <1>1, <1>4, <2>1 DEF Csrs
  <2>4. /\ mframe' = NoFrame \/ (mframe' = mframe /\ w.reg # "mepc")
        /\ sframe' = NoFrame \/ (sframe' = sframe /\ w.reg # "sepc")
    BY DEF CsrWrite, TouchesM, TouchesS
  <2>5. Agree(csr')
    BY <1>1, <2>3 DEF Agree
  <2>6. /\ mpp_reserved' \in BOOLEAN
        /\ mpp_reserved \/ GET_MPP(csr'.mstatus) = Reserved => mpp_reserved'
    BY <1>1
  <2>. QED  BY <1>1, <2>6, <2>2, <2>3, <2>4, <2>5, CsrOnlyKeeps
<1>. QED  BY <1>2, <1>3, <1>4, HartAssumption DEF BitCsrs

LEMMA DeviceStoreKeeps ==
  ASSUME IInv, MembersTyped, NEW raise \in BOOLEAN, DeviceStore(raise)
  PROVE  Kept
<1>1. /\ csr \in Csrs /\ Agree(csr)
      /\ csr.mip \in SUBSET Bits /\ csr.sip \in SUBSET Bits
      /\ pc' \in Pcs /\ trap' = NoTrap /\ UNCHANGED privilege
  BY HartAssumption DEF DeviceStore, Sequential, Completes, IInv, TypeOK, Csrs, Pcs, ShadowsAgree
<1>2. 9 \in Bits /\ 9 \in SieMask
  BY DEF Bits, SieMask
<1>3. /\ Put(csr.mip, 9, raise) \in SUBSET Bits /\ Put(csr.sip, 9, raise) \in SUBSET Bits
      /\ Put(csr.sip, 9, raise) = Put(csr.mip, 9, raise) \cap SieMask
  BY <1>1, <1>2 DEF Put, Agree
<1>4. csr' = [csr EXCEPT !.mip = Put(csr.mip, 9, raise), !.sip = Put(csr.sip, 9, raise)]
  BY <1>1 DEF DeviceStore, Csrs
<1>5. /\ csr' \in Csrs /\ csr'.mstatus = csr.mstatus /\ csr'.sstatus = csr.sstatus
      /\ csr'.mepc = csr.mepc /\ csr'.sepc = csr.sepc
      /\ csr'.mie = csr.mie /\ csr'.sie = csr.sie /\ csr'.sip = csr'.mip \cap SieMask
  BY <1>1, <1>3, <1>4 DEF Csrs
<1>6. Agree(csr')
  BY <1>1, <1>5 DEF Agree
<1>7. /\ UNCHANGED <<mframe, sframe, mpp_reserved>> /\ mpp_reserved' \in BOOLEAN
      /\ mpp_reserved \/ GET_MPP(csr'.mstatus) = Reserved => mpp_reserved'
  BY <1>5 DEF DeviceStore, IInv, TypeOK
<1>. QED  BY <1>1, <1>5, <1>6, <1>7, CsrOnlyKeeps

-----------------------------------------------------------------------------
(* Steps                                                                   *)

\* Every call of exception(), with what it is given.  S never takes a trap
\* from M: faults come from translated code, interrupts from below M.
LEMMA Calls ==
  ASSUME IInv, Next
  PROVE  \/ \E fault \in SUBSET Causes, mi \in SUBSET {3, 7, 11}, si \in SUBSET {1, 5, 9},
               insn \in Kinds :
              /\ exception(fault, mi, si, insn)
              /\ ~MTrap(fault, mi, insn) /\ STrap(fault, si, insn) => privilege # MMode
              /\ MembersTyped
              /\ Instruction' = insn
         \/ /\ MembersTyped /\ Instruction' = "OTHER" /\ trap' = NoTrap
            /\ \/ \E raise \in BOOLEAN : DeviceStore(raise)
               \/ \E w \in CsrWrites : CsrWrite(w)
               \/ Other
<1>1. /\ MInterrupts \in SUBSET {3, 7, 11} /\ SInterrupts \in SUBSET {1, 5, 9}
      /\ m_irq \in SUBSET {3, 7, 11} /\ s_irq \in SUBSET {1, 5, 9} /\ Instruction \in Kinds
      /\ {} \in SUBSET Causes /\ {2} \in SUBSET Causes
      /\ {12} \in SUBSET Causes /\ {13} \in SUBSET Causes /\ {15} \in SUBSET Causes
  BY FlagsTyped DEF IInv, TypeOK, Kinds, Causes
<1>2. ASSUME NEW insn \in Kinds, Fetched(insn)
      PROVE  MembersTyped /\ Instruction' = insn
  BY <1>2, FlagsTyped DEF Fetched, MembersTyped
<1>3. CASE FetchFault
  <2>1. /\ exception({12}, m_irq, s_irq, Instruction)
        /\ MembersTyped /\ Instruction' = Instruction
        /\ privilege # MMode
    BY <1>1, <1>3 DEF FetchFault, MembersTyped, Translated
  <2>. QED  BY <1>1, <2>1
<1>4. ASSUME NEW insn \in Kinds, Asynchronous(insn)
      PROVE  /\ exception({}, MInterrupts, SInterrupts, insn)
             /\ STrap({}, SInterrupts, insn) => privilege # MMode
             /\ MembersTyped /\ Instruction' = insn
  <2>1. STrap({}, SInterrupts, insn) => privilege # MMode
    BY <1>1, SInterruptsBelowM, NoSTrapFromM
  <2>. QED  BY <1>2, <1>4, <2>1 DEF Asynchronous
<1>5. CASE TimeAccess
  <2>1. MembersTyped /\ Instruction' = "OTHER" /\ exception({2}, {}, {}, "OTHER")
    BY <1>2, <1>5 DEF TimeAccess, Executed, Kinds
  <2>2. STrap({2}, {}, "OTHER") => privilege # MMode
    BY NoSTrapFromM
  <2>. QED  BY <1>1, <2>1, <2>2 DEF Kinds
<1>6. ASSUME NEW c \in {13, 15}, DataFault(c)
      PROVE  /\ exception({c}, {}, {}, "OTHER")
             /\ privilege # MMode
             /\ MembersTyped /\ Instruction' = "OTHER"
  BY <1>2, <1>6 DEF DataFault, Executed, Translated, Kinds
<1>7. ASSUME Completes
      PROVE  MembersTyped /\ Instruction' = "OTHER" /\ trap' = NoTrap
  BY <1>2, <1>7 DEF Completes, Executed, Kinds
<1>8. CASE \E insn \in {"ECALL", "MRET", "SRET", "OTHER"} : Asynchronous(insn)
  <2>1. PICK insn \in Kinds : Asynchronous(insn)
    BY <1>8 DEF Kinds
  <2>. QED  BY <1>1, <1>4, <2>1
<1>9. CASE \E c \in {13, 15} : DataFault(c)
  <2>1. PICK c \in {13, 15} : DataFault(c)
    BY <1>9
  <2>2. {c} \in SUBSET Causes
    BY <1>1, <2>1
  <2>. QED  BY <1>1, <1>6, <2>1, <2>2 DEF Kinds
<1>10. CASE \/ \E raise \in BOOLEAN : DeviceStore(raise)
            \/ \E w \in CsrWrites : CsrWrite(w)
            \/ Other
  <2>1. Completes
    BY <1>10 DEF DeviceStore, CsrWrite, Other, Sequential
  <2>. QED  BY <1>7, <1>10, <2>1
<1>. QED  BY <1>3, <1>5, <1>8, <1>9, <1>10 DEF Next

LEMMA StepKeeps ==
  ASSUME IInv, Next
  PROVE  Kept
<1>1. CASE \E fault \in SUBSET Causes, mi \in SUBSET {3, 7, 11}, si \in SUBSET {1, 5, 9},
              insn \in Kinds :
             /\ exception(fault, mi, si, insn)
             /\ ~MTrap(fault, mi, insn) /\ STrap(fault, si, insn) => privilege # MMode
             /\ MembersTyped
  BY <1>1, ExceptionKeeps
<1>2. CASE MembersTyped /\ \E raise \in BOOLEAN : DeviceStore(raise)
  BY <1>2, DeviceStoreKeeps
<1>3. CASE MembersTyped /\ \E w \in CsrWrites : CsrWrite(w)
  BY <1>3, CsrWriteKeeps
<1>4. CASE MembersTyped /\ Other
  <2>1. /\ pc' \in Pcs /\ trap' = NoTrap /\ UNCHANGED <<privilege, csr, mframe, sframe>>
        /\ mpp_reserved' \in BOOLEAN
        /\ mpp_reserved \/ GET_MPP(csr'.mstatus) = Reserved => mpp_reserved'
    BY <1>4 DEF Other, Completes, IInv, TypeOK
  <2>. QED  BY <1>4, <2>1, CsrOnlyKeeps DEF IInv, TypeOK, ShadowsAgree
<1>. QED  BY <1>1, <1>2, <1>3, <1>4, Calls

LEMMA InitEstablishes == Init => IInv
<1>1. ASSUME Init  PROVE  IInv
  <2>1. /\ csr \in Csrs /\ Agree(csr) /\ privilege \in Levels /\ privilege # Reserved
    <3>1. CASE csr = ResetCsrs /\ privilege = MMode
      <4>1. 0 \in Pcs
        BY HartAssumption DEF Pcs
      <4>. QED  BY <3>1, <4>1 DEF ResetCsrs, Csrs, TVec, Levels, Modes, MMode, Reserved, Agree
    <3>2. CASE csr \in Checkpoints /\ privilege = UMode
      BY <3>2, HartAssumption DEF Levels, Modes, UMode, Reserved
    <3>. QED  BY <1>1, <3>1, <3>2 DEF Init
  <2>. QED  BY <1>1, <2>1 DEF Init, IInv, TypeOK, ShadowsAgree, FramesKept
<1>. QED  BY <1>1

LEMMA Stutters ==
  ASSUME IInv, UNCHANGED vars
  PROVE  IInv'
BY DEF IInv, TypeOK, ShadowsAgree, FramesKept, vars, GET_MPP, Agree

LEMMA Inductive == Spec => []IInv
<1>1. IInv /\ [Next]_vars => IInv'
  BY StepKeeps, Stutters DEF Kept, IInv
<1>. QED  BY <1>1, InitEstablishes, PTL DEF Spec

-----------------------------------------------------------------------------
(* Theorems                                                                *)

\* The state keeps its shape, whatever software writes and devices raise.
\* In particular privilege and MPP name a mode until software writes the
\* number of none into MPP: no trap, return or other write makes them 2.
THEOREM TypeCorrect == Spec => []TypeOK
<1>1. IInv => TypeOK
  BY DEF IInv
<1>. QED  BY <1>1, Inductive, PTL

\* sie and sip are always mie and mip under their mask, and sstatus is
\* mstatus under its mask but for UIE and UPIE, which it may lack.
THEOREM CopiesAgree == Spec => []ShadowsAgree
<1>1. IInv => ShadowsAgree
  BY DEF IInv
<1>. QED  BY <1>1, Inductive, PTL

\* Traps to one mode and returns from it leave the frame of the other alone.
THEOREM FramesSurvive == Spec => []FramesKept
<1>1. IInv => FramesKept
  BY DEF IInv
<1>. QED  BY <1>1, Inductive, PTL

\* A trap leads to M, or from U or S (or from 2, which is no mode) to S.
THEOREM TrapsGoUp == Spec => NoTrapLowersPrivilege
<1>. DEFINE Up == trap' # NoTrap /\ privilege \in Modes => privilege' >= privilege
<1>1. ASSUME IInv, Next  PROVE  Up
  <2>0. SUFFICES ASSUME privilege \in Modes
                 PROVE  trap' # NoTrap => privilege' >= privilege
    OBVIOUS
  <2>1. ASSUME NEW fault, NEW mi, NEW si, NEW insn, exception(fault, mi, si, insn),
               ~MTrap(fault, mi, insn) /\ STrap(fault, si, insn) => privilege # MMode
        PROVE  trap' # NoTrap => privilege' >= privilege
    <3>1. CASE TrapToM(fault, mi, insn)
      BY <2>0, <3>1 DEF TrapToM, Modes, UMode, SMode, MMode
    <3>2. CASE privilege # MMode /\ TrapToS(fault, si, insn)
      BY <2>0, <3>2 DEF TrapToS, Modes, UMode, SMode, MMode
    <3>3. CASE MRet \/ SRet
      BY <3>3 DEF MRet, SRet
    <3>4. CASE FallsThrough
      BY <3>4 DEF FallsThrough
    <3>. QED  BY <2>1, <3>1, <3>2, <3>3, <3>4 DEF exception
  <2>. QED  BY <1>1, <2>1, Calls
<1>2. IInv /\ [Next]_vars => [Up]_vars
  BY <1>1
<1>. QED  BY <1>2, Inductive, PTL DEF Spec, NoTrapLowersPrivilege

\* mret and sret resume what the trap they return from interrupted.
THEOREM ReturnsRestore == Spec => ReturnRestores
<1>. DEFINE Restored ==
       Instruction' \in {"MRET", "SRET"} /\ trap' = NoTrap =>
         LET frame == IF Instruction' = "MRET" THEN mframe ELSE sframe
             enable == IF Instruction' = "MRET" THEN MIE ELSE SIE
         IN  frame # NoFrame /\ frame.mode \in Modes =>
               /\ pc' = frame.pc
               /\ privilege' = frame.mode
               /\ enable \in csr'.mstatus <=> frame.ie
<1>1. ASSUME IInv, Next  PROVE  Restored
  <2>1. CASE Instruction' = "OTHER"
    BY <2>1
  <2>2. ASSUME NEW fault, NEW mi, NEW si, NEW insn \in Kinds,
               exception(fault, mi, si, insn), Instruction' = insn
        PROVE  Restored
    <3>0. csr \in Csrs
      BY <1>1 DEF IInv, TypeOK
    <3>1. CASE TrapToM(fault, mi, insn) \/ TrapToS(fault, si, insn)
      <4>1. trap' # NoTrap
        BY <3>1 DEF TrapToM, TrapToS, NoTrap
      <4>. QED  BY <4>1
    <3>2. CASE insn = "MRET" /\ MRet
      <4>1. mframe # NoFrame => /\ mframe.pc = csr.mepc
                                /\ mframe.mode = GET_MPP(csr.mstatus)
                                /\ mframe.ie <=> MPIE \in csr.mstatus
        <5>1. HAVE mframe # NoFrame
        <5>2. mframe = [pc |-> csr.mepc, mode |-> GET_MPP(csr.mstatus), ie |-> MPIE \in csr.mstatus]
          BY <1>1, <5>1 DEF IInv, FramesKept
        <5>3. mframe.pc = csr.mepc /\ mframe.mode = GET_MPP(csr.mstatus)
          BY <5>2
        <5>4. mframe.ie = (MPIE \in csr.mstatus)
          BY ONLY <5>2
        <5>. QED  BY ONLY <5>3, <5>4
      <4>2. MIE \in csr'.mstatus <=> MPIE \in csr.mstatus
        BY <3>0, <3>2 DEF MRet, Put, MIE, MPIE, MPP, Csrs
      <4>3. pc' = csr.mepc /\ privilege' = GET_MPP(csr.mstatus) /\ Instruction' = "MRET"
        BY <2>2, <3>2 DEF MRet
      <4>. QED  BY <4>1, <4>2, <4>3
    <3>3. CASE insn = "SRET" /\ SRet
      <4>1. sframe # NoFrame /\ sframe.mode \in Modes =>
              /\ sframe.pc = csr.sepc
              /\ sframe.mode = GET_SPP(csr.sstatus)
              /\ sframe.ie <=> SPIE \in csr.sstatus
        <5>1. HAVE sframe # NoFrame /\ sframe.mode \in Modes
        <5>2. sframe = [pc |-> csr.sepc, mode |-> GET_SPP(csr.sstatus), ie |-> SPIE \in csr.sstatus]
          BY <1>1, <5>1 DEF IInv, FramesKept
        <5>3. sframe.pc = csr.sepc /\ sframe.mode = GET_SPP(csr.sstatus)
          BY <5>2
        <5>4. sframe.ie = (SPIE \in csr.sstatus)
          BY ONLY <5>2
        <5>. QED  BY ONLY <5>3, <5>4
      <4>2. SIE \in csr'.mstatus <=> SPIE \in csr.sstatus
        BY <3>0, <3>3 DEF SRet, Put, SIE, SPIE, SPP, Csrs, Merge, SstatusMask
      <4>3. pc' = csr.sepc /\ privilege' = GET_SPP(csr.sstatus) /\ Instruction' = "SRET"
        BY <2>2, <3>3 DEF SRet
      <4>. QED  BY <4>1, <4>2, <4>3
    <3>4. CASE insn \notin {"MRET", "SRET"} /\ FallsThrough
      BY <2>2, <3>4
    <3>. QED  BY <2>2, <3>1, <3>2, <3>3, <3>4 DEF exception
  <2>. QED  BY <1>1, <2>1, <2>2, Calls
<1>2. IInv /\ [Next]_vars => [Restored]_vars
  BY <1>1
<1>. QED  BY <1>2, Inductive, PTL DEF Spec, ReturnRestores
=============================================================================

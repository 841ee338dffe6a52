------------------------------- MODULE MCHart -------------------------------
(***************************************************************************)
(* Instances of Hart for TLC: the checkpoints it starts from and the CSR   *)
(* writes its software executes.                                           *)
(***************************************************************************)
EXTENDS Hart

\* User code under translation with every interrupt of Irqs enabled.
Restored(irqs, mideleg, medeleg) ==
  [ResetCsrs EXCEPT !.stvec = [base |-> 1, vectored |-> TRUE], !.satp = TRUE,
                    !.mie = irqs, !.sie = irqs \cap SieMask,
                    !.mideleg = mideleg, !.medeleg = medeleg]

\* System calls delegated, with page faults and the M timer interrupt or not.
MCCheckpoints == {Restored({7, 9}, {}, {8, 9}), Restored({7, 9}, {7}, {8, 9, 12, 13, 15})}

StaleCheckpoints == {Restored({9}, {}, {8, 12})}

W(reg, cmd, data) == [reg |-> reg, cmd |-> cmd, data |-> data]

\* Handlers that set and clear enables, save frames and choose where to
\* return, one of them to no mode; UIE is a bit that a trap to M hides.
MCWrites ==
  {W("mstatus", cmd, {MIE}) : cmd \in {"S", "C"}}
    \cup {W("mstatus", "C", MPP), W("mstatus", "S", MPP), W("sstatus", "S", {SPP})}
    \cup {W("mstatus", "C", {11}), W("mstatus", "S", {UIE})}
    \cup {W("sstatus", "W", {}), W("sstatus", "W", {SIE, SPIE})}
    \cup {W("mip", cmd, {7}) : cmd \in {"S", "C"}}
    \cup {W("sie", "W", {}), W("sie", "W", {9}), W("mepc", "W", 0), W("sepc", "W", 0)}

StaleWrites == {W("sip", "C", {9})}
=============================================================================

--------------------------- MODULE MCPrefetchers ----------------------------
(***************************************************************************)
(* Any sequence of accesses to one PC-stride prefetcher, beside an         *)
(* observer that remembers the lines each pc has touched and nothing of    *)
(* strides or confidence.                                                  *)
(***************************************************************************)
EXTENDS Prefetchers, Sequences

CONSTANTS
  Pcs,          \* the pcs that access
  MaxAccesses   \* bound: accesses of one pc that change its line

VARIABLES table, issued, touched

Init == /\ table = [pc \in Pcs |-> NoEntry]
        /\ issued = {}
        /\ touched = [pc \in Pcs |-> <<>>]

\* The lines of pc, repetitions of the last one left out.
Remember(lines, line) ==
  IF lines # <<>> /\ lines[Len(lines)] = line THEN lines ELSE Append(lines, line)

Access(pc, line) ==
  /\ Len(Remember(touched[pc], line)) <= MaxAccesses
  /\ issued' = StrideCandidates(table, pc, line)
  /\ table' = StrideTable(table, pc, line)
  /\ touched' = [touched EXCEPT ![pc] = Remember(@, line)]

Next == \E pc \in Pcs, line \in Lines : Access(pc, line)

Spec == Init /\ [][Next]_<<table, issued, touched>>

-----------------------------------------------------------------------------
\* The distance between the k-th line from the end and the one before it.
Step(lines, k) == (lines[Len(lines) - k] - lines[Len(lines) - k - 1]) % NumLines

Regular(lines) == /\ Len(lines) >= 4
                  /\ Step(lines, 0) = Step(lines, 1)
                  /\ Step(lines, 1) = Step(lines, 2)

\* A pc prefetches exactly when it has just moved to a new line and its last
\* three moves, repetitions of a line apart, were of equal length, across
\* the wrap of the address space too; and it prefetches the next line of
\* that progression (Prefetcher.h:79-101).
PrefetchesProgressions ==
  [][\A pc \in Pcs, line \in Lines :
       Access(pc, line) =>
         issued' = LET lines == touched'[pc]
                   IN  IF pc # 0 /\ touched'[pc] # touched[pc] /\ Regular(lines)
                       THEN {(line + Step(lines, 0)) % NumLines} ELSE {}
    ]_<<table, issued, touched>>
=============================================================================

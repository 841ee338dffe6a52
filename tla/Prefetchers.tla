---------------------------- MODULE Prefetchers -----------------------------
(***************************************************************************)
(* The prefetchers of src/trace_sim/mem/Prefetcher.h that make_prefetcher  *)
(* can return.  A line address is its line number, in 0 .. NumLines - 1,   *)
(* and line arithmetic wraps as the 32-bit arithmetic of the code does: an *)
(* int32_t stride and its difference modulo NumLines are the same thing,   *)
(* for nothing orders strides.                                             *)
(***************************************************************************)
EXTENDS Integers

CONSTANT NumLines   \* 2^32 / line_size

ASSUME PrefetcherAssumption == NumLines \in Nat \ {0}

Lines == 0 .. NumLines - 1

kTriggerConfidence == 2
kMaxConfidence == 3

StrideEntry == [valid : BOOLEAN, last_line_addr : Lines, last_stride : Lines,
                confidence : 0 .. kMaxConfidence]

NoEntry == [valid |-> FALSE, last_line_addr |-> 0, last_stride |-> 0,
            confidence |-> 0]

Stride(entry, line) == (line - entry.last_line_addr) % NumLines

Smaller(a, b) == IF a < b THEN a ELSE b

\* Mutant: a new stride keeps the confidence of the old one.
ConfidenceKept(entry, line) ==
  Smaller(entry.confidence + (IF Stride(entry, line) = entry.last_stride THEN 1 ELSE 0),
          kMaxConfidence)

Confidence(entry, line) ==
  IF Stride(entry, line) = entry.last_stride
  THEN Smaller(entry.confidence + 1, kMaxConfidence) ELSE 0

\* The entry after an access by its pc: the first access fills it, an
\* access to the same line leaves it alone.
Trained(entry, line) ==
  IF ~entry.valid THEN [NoEntry EXCEPT !.valid = TRUE, !.last_line_addr = line]
  ELSE IF Stride(entry, line) = 0 THEN entry
  ELSE [entry EXCEPT !.last_line_addr = line,
                     !.last_stride = Stride(entry, line),
                     !.confidence = Confidence(entry, line)]

Triggers(entry, line) ==
  /\ entry.valid
  /\ Stride(entry, line) # 0
  /\ Confidence(entry, line) >= kTriggerConfidence

\* PcStridePrefetcher::on_access: the table after it, and the candidates.
StrideTable(table, pc, line) ==
  IF pc = 0 THEN table ELSE [table EXCEPT ![pc] = Trained(@, line)]

StrideCandidates(table, pc, line) ==
  IF pc # 0 /\ Triggers(table[pc], line)
  THEN {(line + Stride(table[pc], line)) % NumLines} ELSE {}

\* NextLinePrefetcher::on_access.
NextLine(line) == {(line + 1) % NumLines}

\* on_access of the prefetcher of the given kind.
Candidates(kind, table, pc, line) ==
  CASE kind = "NEXT_LINE" -> NextLine(line)
    [] kind = "PC_STRIDE" -> StrideCandidates(table, pc, line)
    [] kind = "NONE"      -> {}

TableAfter(kind, table, pc, line) ==
  IF kind = "PC_STRIDE" THEN StrideTable(table, pc, line) ELSE table
=============================================================================

--------------------------- MODULE MCMemSubsystem ---------------------------
(***************************************************************************)
(* Instances of MemSubsystem for TLC: caches of one set, so that every     *)
(* line competes with every other, and fewer MSHRs than lines.             *)
(***************************************************************************)
EXTENDS MemSubsystem

Level(ways, mshrs, policy) == [NumSets |-> 1, Assoc |-> ways, MaxInflight |-> mshrs,
                               Policy |-> policy]

\* An LLC with one MSHR fewer than the L1s together, and one set of two ways
\* for all lines.
Small == [icache |-> Level(1, 1, "LRU"), dcache |-> Level(1, 2, "LRU"),
          llc |-> Level(2, 2, "FIFO")]

HitLatency == [icache |-> 0, dcache |-> 1]

Each(x) == [k \in L1s |-> x]
One == Each(1)
NextLineBoth == Each("NEXT_LINE")

AllLoads == [pc : Pcs, line : Lines]
=============================================================================

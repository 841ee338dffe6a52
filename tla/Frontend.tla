------------------------------ MODULE Frontend ------------------------------
(***************************************************************************)
(* The cycle loop of TraceSim::run with the fetch stage, the branch        *)
(* predictors and the profiler.  The reference CPU supplies any sequence   *)
(* of instructions of Insts and ends it when it likes (EBREAK).            *)
(*                                                                         *)
(* Two neighbours are modelled by what they do to this loop.  The back end *)
(* (module Backend) retires some of the instructions inside it, takes some *)
(* from inst_buffer and reports a stall reason.  The memory (module        *)
(* MemSubsystem) answers an I-cache access by a hit, a miss with a ready   *)
(* cycle or a refusal, and has work pending until its last ready cycle.    *)
(*                                                                         *)
(* Instructions are named by their position in the trace.                  *)
(***************************************************************************)
EXTENDS Integers, Sequences

CONSTANTS
  Insts,                     \* the instructions: [pc, kind, taken]
  Modes,                     \* of {"TRACE", "RESTORE"}: SimMode
  BP_TYPES,                  \* the predictors: one is built into a program
  HistoryBits, LineSize,
  FETCH_WIDTH, COMMIT_WIDTH, INST_BUFFER_SIZE,
  BRANCH_MISPREDICT_PENALTY, FETCH_REDIRECT_LATENCY,
  WARMUP_INSTRUCTIONS, SAMPLE_INSTRUCTIONS, max_instructions,
  MAX_SIM_TIME,
  Latencies,                 \* cycles an access to the memory may take
  MaxTrace,                  \* bound: instructions the reference CPU executes
  MaxDelays                  \* bound: misses, refusals, data accesses, and cycles
                             \* the back end retires nothing of what it holds

ASSUME FrontendAssumption ==
  /\ Insts \subseteq [pc : Nat, kind : {"plain", "branch", "jump", "trap"},
                      taken : BOOLEAN]
  /\ \A i \in Insts : i.kind = "jump" => i.taken
  /\ Modes \subseteq {"TRACE", "RESTORE"}
  /\ BP_TYPES \subseteq {"GSHARE", "ALWAYS_TAKEN", "ALWAYS_NOT_TAKEN",
                         "PROBABILISTIC", "PERFECT"}
  /\ {HistoryBits, LineSize, FETCH_WIDTH, COMMIT_WIDTH, INST_BUFFER_SIZE}
       \subseteq Nat \ {0}
  /\ {BRANCH_MISPREDICT_PENALTY, FETCH_REDIRECT_LATENCY, WARMUP_INSTRUCTIONS,
      SAMPLE_INSTRUCTIONS, max_instructions, MAX_SIM_TIME} \subseteq Nat
  /\ Latencies \subseteq Nat \ {0}
  /\ {MaxTrace, MaxDelays} \subseteq Nat

VARIABLES
  mode, bp_type,              \* the command line and the build
  trace, sim_end,             \* ref_cpu: what it executed, and whether it ended
  pre_fetch_buffer,           \* the instruction fetch gave back
  inst_buffer,
  inside,                     \* back end: instructions in it
  instructions_retired, backend_stall,
  total_cycles,
  fetch_stall,                \* fetch_stall_until and fetch_stall_reason
  pht, history,               \* GShareBranchPredictor
  in_warmup, inst_retired_baseline, total_cycles_baseline,
  profiler,
  stage, group, line,         \* where in the cycle; fetched in the group, and its line
  retired,                    \* retired this cycle
  mem_busy,                   \* memory: when its pending work ends (0: none)
  delays,                     \* budget used
  deadline,                   \* history: the latest stall ever set
  ebreak                      \* history: the program ended the trace

buildVars == <<mode, bp_type>>
refVars == <<trace, sim_end, ebreak>>
backVars == <<inside, instructions_retired, backend_stall, retired>>
stallVars == <<fetch_stall, deadline>>
bpVars == <<pht, history>>
warmupVars == <<in_warmup, inst_retired_baseline, total_cycles_baseline>>
memVars == <<mem_busy, delays>>
vars == <<buildVars, refVars, pre_fetch_buffer, inst_buffer, backVars, total_cycles,
          stallVars, bpVars, warmupVars, profiler, stage, group, line, memVars>>

-----------------------------------------------------------------------------
(* The profiler                                                            *)

Buckets == {"RETIRING", "FRONTEND_BOUND", "BACKEND_MEMORY_BOUND",
            "BACKEND_CORE_BOUND", "BAD_SPECULATION", "OTHER"}
NoCycles == [b \in Buckets |-> 0]

\* Mutant: the counters outlive the reset.
ResetKeepsBuckets(p) == [p EXCEPT !.total_cycles_baseline = p.total_cycles,
                                  !.retired_insts_baseline = p.retired_insts,
                                  !.total_branches = 0, !.correct_branches = 0]
reset(p) == [p EXCEPT !.total_cycles_baseline = p.total_cycles,
                      !.retired_insts_baseline = p.retired_insts,
                      !.total_branches = 0, !.correct_branches = 0,
                      !.topdown_counters = NoCycles]

NewProfiler == [total_cycles |-> 0, retired_insts |-> 0,
                total_cycles_baseline |-> 0, retired_insts_baseline |-> 0,
                total_branches |-> 0, correct_branches |-> 0,
                topdown_counters |-> NoCycles]

\* mark_cycle: the one bucket a cycle is counted in.
Bucket(any_retired, fe_reason, fe_active, be_reason) ==
  IF any_retired THEN "RETIRING"
  ELSE IF be_reason = "MEMORY_WAIT" THEN "BACKEND_MEMORY_BOUND"
  ELSE IF be_reason # "NONE" THEN "BACKEND_CORE_BOUND"
  ELSE IF ~fe_active THEN "OTHER"
  ELSE IF fe_reason = "BRANCH_MISPREDICT" THEN "BAD_SPECULATION" ELSE "FRONTEND_BOUND"

-----------------------------------------------------------------------------
(* The branch predictors                                                   *)

TableSize == 2 ^ HistoryBits

ASSUME TableAssumption == TableSize \in Nat \ {0}

ASSUME PowerAssumption ==
  \A d \in 1 .. HistoryBits : 2 ^ d \in Nat /\ 2 ^ d = 2 * 2 ^ (d - 1)

Bit(n, k) == (n \div 2 ^ k) % 2

\* n ^ m, of the bits that history_mask keeps
XorMasked(n, m) ==
  LET sum[k \in 0 .. HistoryBits] ==
        IF k = 0 THEN 0
        ELSE sum[k - 1] + 2 ^ (k - 1) * ((Bit(n, k - 1) + Bit(m, k - 1)) % 2)
  IN  sum[HistoryBits]

gshare_index(pc, h) == XorMasked(pc, h)

Saturated(counter) == IF counter < 3 THEN counter + 1 ELSE counter

\* Mutant: the counter does not saturate at zero.
TrainedBelowZero(counter, taken) ==
  IF taken THEN Saturated(counter) ELSE counter - 1

Trained(counter, taken) ==
  IF taken THEN Saturated(counter) ELSE IF counter > 0 THEN counter - 1 ELSE counter

Outcome(taken) == IF taken THEN 1 ELSE 0
Shifted(h, taken) == (2 * h + Outcome(taken)) % TableSize

IsBranch(i) == i.kind \in {"branch", "jump"}

\* pred_taken, as a set: PROBABILISTIC goes by rand().
Predictions(i) ==
  CASE bp_type = "GSHARE" -> {pht[gshare_index(i.pc, history)] >= 2}
    [] bp_type = "ALWAYS_TAKEN" -> {TRUE}
    [] bp_type = "ALWAYS_NOT_TAKEN" -> {FALSE}
    [] bp_type = "PERFECT" -> {i.taken}
    [] bp_type = "PROBABILISTIC" -> BOOLEAN

\* Mutant: update looks the counter up again, after the shift.
TrainShifted(i) ==
  IF IsBranch(i) /\ bp_type = "GSHARE"
  THEN /\ history' = Shifted(history, i.taken)
       /\ pht' = [pht EXCEPT ![gshare_index(i.pc, history')] = Trained(@, i.taken)]
  ELSE UNCHANGED bpVars

update(i) ==
  IF IsBranch(i) /\ bp_type = "GSHARE"
  THEN /\ history' = Shifted(history, i.taken)
       /\ pht' = [pht EXCEPT ![gshare_index(i.pc, history)] = Trained(@, i.taken)]
  ELSE UNCHANGED bpVars

-----------------------------------------------------------------------------
(* The loop                                                                *)

Init ==
  /\ mode \in Modes /\ bp_type \in BP_TYPES
  /\ trace = <<>> /\ sim_end = FALSE /\ ebreak = FALSE
  /\ pre_fetch_buffer = <<>> /\ inst_buffer = <<>>
  /\ inside = 0
  /\ instructions_retired = 0 /\ backend_stall = "NONE" /\ retired = 0
  /\ total_cycles = 0
  /\ fetch_stall = [until |-> 0, reason |-> "NONE"] /\ deadline = 0
  /\ pht = [k \in 0 .. TableSize - 1 |-> 2] /\ history = 0
  /\ in_warmup = (mode = "RESTORE" /\ WARMUP_INSTRUCTIONS > 0)
  /\ inst_retired_baseline = 0 /\ total_cycles_baseline = 0
  /\ profiler = NewProfiler
  /\ stage = "loop" /\ group = 0 /\ line = 0
  /\ mem_busy = 0 /\ delays = 0

\* Mutant: the loop does not wait for the memory.
DrainedEarly == sim_end /\ inside = 0 /\ inst_buffer = <<>>

\* Nothing keeps the loop running.
Drained == sim_end /\ inside = 0 /\ inst_buffer = <<>> /\ mem_busy = 0

\* The loop's test, and process_returns.
BeginCycle ==
  /\ stage = "loop"
  /\ ~Drained
  /\ mem_busy' = IF mem_busy <= total_cycles THEN 0 ELSE mem_busy
  /\ stage' = "advance"
  /\ UNCHANGED <<buildVars, refVars, pre_fetch_buffer, inst_buffer, backVars,
                 total_cycles, stallVars, bpVars, warmupVars, profiler, group, line,
                 delays>>

Finish ==
  /\ stage = "loop"
  /\ Drained
  /\ stage' = "done"
  /\ UNCHANGED <<buildVars, refVars, pre_fetch_buffer, inst_buffer, backVars,
                 total_cycles, stallVars, bpVars, warmupVars, profiler, group, line,
                 memVars>>

-----------------------------------------------------------------------------
(* advance_cycle                                                           *)

rel_retired == instructions_retired - inst_retired_baseline

\* Mutant: the sample counts the warm-up.
LimitFromStart ==
  IF mode = "RESTORE"
  THEN SAMPLE_INSTRUCTIONS > 0 /\ instructions_retired >= SAMPLE_INSTRUCTIONS
  ELSE max_instructions > 0 /\ instructions_retired >= max_instructions

LimitReached ==
  IF mode = "RESTORE" THEN SAMPLE_INSTRUCTIONS > 0 /\ rel_retired >= SAMPLE_INSTRUCTIONS
                      ELSE max_instructions > 0 /\ instructions_retired >= max_instructions

afterAdvance == <<buildVars, trace, ebreak, pre_fetch_buffer, inst_buffer, backVars,
                  total_cycles, stallVars, bpVars, group, line, memVars>>

WarmupEnds ==
  /\ stage = "advance"
  /\ in_warmup /\ instructions_retired >= WARMUP_INSTRUCTIONS
  /\ in_warmup' = FALSE
  /\ inst_retired_baseline' = instructions_retired
  /\ total_cycles_baseline' = total_cycles
  /\ profiler' = reset(profiler)
  /\ stage' = "backend"
  /\ UNCHANGED <<afterAdvance, sim_end>>

StaysInWarmup ==
  /\ stage = "advance"
  /\ in_warmup /\ instructions_retired < WARMUP_INSTRUCTIONS
  /\ stage' = "backend"
  /\ UNCHANGED <<afterAdvance, sim_end, warmupVars, profiler>>

Measures ==
  /\ stage = "advance"
  /\ ~in_warmup
  /\ sim_end' = (sim_end \/ LimitReached)
  /\ stage' = "backend"
  /\ UNCHANGED <<afterAdvance, warmupVars, profiler>>

-----------------------------------------------------------------------------
(* The back end: commit, issue, dispatch and decode of one cycle           *)

\* "OTHER": a full resource, a trap that waits, or execution.
StallReasons == {"NONE", "MEMORY_WAIT", "OTHER"}

\* Retires n, decodes k, and may ask the memory for data.
BackEnd(n, k, reason, busy) ==
  /\ stage = "backend"
  /\ n <= COMMIT_WIDTH /\ n <= inside
  /\ delays' = delays + (IF inside > 0 /\ n = 0 THEN 1 ELSE 0)
                    + (IF busy # mem_busy THEN 1 ELSE 0)
  /\ delays' <= MaxDelays
  /\ k <= Len(inst_buffer)
  /\ inside = n /\ inst_buffer # <<>> => k > 0
  /\ inside = n => reason = "NONE"
  /\ busy # mem_busy => inside > n /\ busy > mem_busy
  /\ mem_busy' = busy
  /\ instructions_retired' = instructions_retired + n
  /\ retired' = n
  /\ inside' = inside - n + k
  /\ inst_buffer' = SubSeq(inst_buffer, k + 1, Len(inst_buffer))
  /\ backend_stall' = reason
  /\ stage' = "fetch"
  /\ UNCHANGED <<buildVars, refVars, pre_fetch_buffer, total_cycles, stallVars, bpVars,
                 warmupVars, profiler, group, line>>

-----------------------------------------------------------------------------
(* fetch_stage                                                             *)

frontend_can_fetch == /\ total_cycles >= fetch_stall.until
                      /\ Len(inst_buffer) < INST_BUFFER_SIZE

\* Mutant: only the reference CPU is asked.
ExhaustedBySimEnd == sim_end
frontend_trace_exhausted == sim_end /\ pre_fetch_buffer = <<>>

Fetching == /\ stage = "fetch" /\ group < FETCH_WIDTH
            /\ frontend_can_fetch /\ ~frontend_trace_exhausted

\* frontend_acquire_trace_inst: the position of i, and what is left behind.
Position == IF pre_fetch_buffer # <<>> THEN Head(pre_fetch_buffer) ELSE Len(trace) + 1
LeftBehind == IF pre_fetch_buffer # <<>> THEN Tail(pre_fetch_buffer) ELSE <<>>

Acquires(i) ==
  /\ Fetching
  /\ IF pre_fetch_buffer # <<>>
     THEN i = trace[Head(pre_fetch_buffer)] /\ UNCHANGED trace
     ELSE Len(trace) < MaxTrace /\ trace' = Append(trace, i)

\* Mutant: the buffer is tested before the instruction was taken from it.
RequeuedIfNew == IF pre_fetch_buffer = <<>> THEN <<Position>> ELSE LeftBehind

\* frontend_requeue_trace_inst
Requeued == IF LeftBehind = <<>> THEN <<Position>> ELSE LeftBehind

\* Mutant: the last stall asked for wins.
StallReplaced(stall, until, reason) == [until |-> until, reason |-> reason]

\* set_fetch_stall
Stalled(stall, until, reason) ==
  IF until > stall.until THEN [until |-> until, reason |-> reason] ELSE stall

Later(a, b) == IF a > b THEN a ELSE b

LineOf(i) == i.pc \div LineSize

gaveBack == <<buildVars, sim_end, ebreak, inst_buffer, backVars, total_cycles, bpVars, warmupVars,
              profiler, group>>

\* The I-cache refuses: only the line of the group is noted.
FetchBlocked(i) ==
  /\ Acquires(i)
  /\ group = 0 /\ mem_busy # 0 /\ delays < MaxDelays
  /\ line' = LineOf(i)
  /\ delays' = delays + 1
  /\ pre_fetch_buffer' = Requeued
  /\ stage' = "mark"
  /\ UNCHANGED <<gaveBack, stallVars, mem_busy>>

FetchMiss(i, ready) ==
  /\ Acquires(i)
  /\ group = 0 /\ delays < MaxDelays
  /\ line' = LineOf(i)
  /\ delays' = delays + 1
  /\ mem_busy' = Later(mem_busy, ready)
  /\ fetch_stall' = Stalled(fetch_stall, ready, "ICACHE_MISS")
  /\ deadline' = Later(deadline, ready)
  /\ pre_fetch_buffer' = Requeued
  /\ stage' = "mark"
  /\ UNCHANGED gaveBack

LineBoundary(i) ==
  /\ Acquires(i)
  /\ group > 0 /\ LineOf(i) # line
  /\ fetch_stall' = Stalled(fetch_stall, total_cycles + 1, "LINE_BOUNDARY")
  /\ deadline' = Later(deadline, total_cycles + 1)
  /\ pre_fetch_buffer' = Requeued
  /\ stage' = "mark"
  /\ UNCHANGED <<gaveBack, line, memVars>>

\* The stalls that delivering i sets, in the order of the code.
Redirect(stall) ==
  IF FETCH_REDIRECT_LATENCY > 0
  THEN Stalled(stall, total_cycles + FETCH_REDIRECT_LATENCY, "FETCH_REDIRECT") ELSE stall

AfterPrediction(i, pred_taken) ==
  IF IsBranch(i) /\ pred_taken # i.taken
  THEN Stalled(fetch_stall, total_cycles + BRANCH_MISPREDICT_PENALTY, "BRANCH_MISPREDICT")
  ELSE IF IsBranch(i) /\ i.taken THEN Redirect(fetch_stall) ELSE fetch_stall

AfterDelivery(i, pred_taken) ==
  IF i.kind = "jump" THEN Redirect(AfterPrediction(i, pred_taken))
  ELSE AfterPrediction(i, pred_taken)

StopsGroup(i, pred_taken) ==
  \/ i.kind \in {"trap", "jump"}
  \/ i.kind = "branch" /\ (i.taken \/ pred_taken # i.taken)

Counted(i, pred_taken) ==
  [profiler EXCEPT !.total_branches = IF IsBranch(i) THEN @ + 1 ELSE @,
                   !.correct_branches = IF IsBranch(i) /\ pred_taken = i.taken
                                        THEN @ + 1 ELSE @]

\* The cycles to the next fetch that i costs.
Owed(i, pred_taken) ==
  Later(IF IsBranch(i) /\ pred_taken # i.taken THEN BRANCH_MISPREDICT_PENALTY ELSE 0,
        IF i.kind = "jump" \/ (IsBranch(i) /\ i.taken /\ pred_taken)
        THEN FETCH_REDIRECT_LATENCY ELSE 0)

\* A hit, or an instruction of the group's line, enters inst_buffer.
Deliver(i, pred_taken) ==
  /\ Acquires(i)
  /\ group = 0 \/ LineOf(i) = line
  /\ pred_taken \in Predictions(i)
  /\ line' = LineOf(i)
  /\ pre_fetch_buffer' = LeftBehind
  /\ update(i)
  /\ profiler' = Counted(i, pred_taken)
  /\ fetch_stall' = AfterDelivery(i, pred_taken)
  /\ deadline' = Later(deadline, total_cycles + Owed(i, pred_taken))
  /\ inst_buffer' = Append(inst_buffer, Position)
  /\ group' = group + 1
  /\ stage' = IF StopsGroup(i, pred_taken) THEN "mark" ELSE "fetch"
  /\ UNCHANGED <<buildVars, sim_end, ebreak, backVars, total_cycles, warmupVars, memVars>>

\* EBREAK ends the trace and is not delivered.
EndTrace ==
  /\ Fetching
  /\ pre_fetch_buffer = <<>>
  /\ sim_end' = TRUE /\ ebreak' = TRUE
  /\ stage' = "mark"
  /\ UNCHANGED <<buildVars, trace, pre_fetch_buffer, inst_buffer, backVars, total_cycles,
                 stallVars, bpVars, warmupVars, profiler, group, line, memVars>>

FetchDone ==
  /\ stage = "fetch"
  /\ ~Fetching
  /\ stage' = "mark"
  /\ UNCHANGED <<buildVars, refVars, pre_fetch_buffer, inst_buffer, backVars, total_cycles,
                 stallVars, bpVars, warmupVars, profiler, group, line, memVars>>

-----------------------------------------------------------------------------
(* The end of a cycle                                                      *)

frontend_stalled == total_cycles + 1 < fetch_stall.until

MarkCycle ==
  LET bucket == Bucket(retired > 0, fetch_stall.reason, frontend_stalled, backend_stall)
  IN  /\ stage = "mark"
      /\ total_cycles' = total_cycles + 1
      /\ profiler' = [profiler EXCEPT !.retired_insts = @ + retired,
                                      !.total_cycles = total_cycles',
                                      !.topdown_counters[bucket] = @ + 1]
      /\ stage' = IF total_cycles' > MAX_SIM_TIME THEN "done" ELSE "loop"
      /\ group' = 0 /\ line' = 0 /\ retired' = 0 /\ backend_stall' = "NONE"
      /\ UNCHANGED <<buildVars, refVars, pre_fetch_buffer, inst_buffer, inside,
                     instructions_retired, stallVars, bpVars, warmupVars, memVars>>

-----------------------------------------------------------------------------
Next ==
  \/ BeginCycle \/ Finish
  \/ WarmupEnds \/ StaysInWarmup \/ Measures
  \/ \E n \in 0 .. COMMIT_WIDTH, k \in 0 .. Len(inst_buffer), reason \in StallReasons,
        busy \in {mem_busy} \cup {total_cycles + l : l \in Latencies} :
       BackEnd(n, k, reason, busy)
  \/ \E i \in Insts :
       \/ FetchBlocked(i)
       \/ \E l \in Latencies : FetchMiss(i, total_cycles + l)
       \/ LineBoundary(i)
       \/ \E pred_taken \in BOOLEAN : Deliver(i, pred_taken)
  \/ EndTrace \/ FetchDone \/ MarkCycle

Spec == Init /\ [][Next]_vars

\* run() is one thread in a loop that never waits.
FairSpec == Spec /\ WF_vars(Next)

-----------------------------------------------------------------------------
(* Properties                                                              *)

Positions == 1 .. MaxTrace
Counter == 0 .. 3
Profile == [total_cycles : Nat, retired_insts : Nat, total_cycles_baseline : Nat,
            retired_insts_baseline : Nat, total_branches : Nat, correct_branches : Nat,
            topdown_counters : [Buckets -> Nat]]

TypeOK ==
  /\ mode \in Modes /\ bp_type \in BP_TYPES
  /\ trace \in Seq(Insts)
  /\ {sim_end, ebreak, in_warmup} \subseteq BOOLEAN
  /\ {pre_fetch_buffer, inst_buffer} \subseteq Seq(Positions)
  /\ {inside, instructions_retired, retired, total_cycles, deadline, group, line,
      mem_busy, delays, inst_retired_baseline, total_cycles_baseline, history} \subseteq Nat
  /\ backend_stall \in StallReasons
  /\ fetch_stall \in [until : Nat, reason : {"NONE", "ICACHE_MISS", "FETCH_REDIRECT",
                                             "BRANCH_MISPREDICT", "LINE_BOUNDARY"}]
  /\ pht \in [0 .. TableSize - 1 -> Counter]
  /\ profiler \in Profile
  /\ stage \in {"loop", "advance", "backend", "fetch", "mark", "done"}

\* What the reference CPU executed is retired, in the back end, in
\* inst_buffer or given back, once and in this order: no refusal, stall or
\* line boundary loses or repeats an instruction (Frontend.cpp:36-51,
\* TraceSim.cpp:52-74).
TraceInOrder ==
  /\ Len(trace) = instructions_retired + inside + Len(inst_buffer) + Len(pre_fetch_buffer)
  /\ \A k \in DOMAIN inst_buffer : inst_buffer[k] = instructions_retired + inside + k
  /\ pre_fetch_buffer \in {<<>>, <<Len(trace)>>}

TimedOut == total_cycles > MAX_SIM_TIME

\* The loop does not look at pre_fetch_buffer, yet it never ends while an
\* instruction is in it: whatever delays that one keeps the loop running
\* (TraceSim.cpp:90).
NothingLeftBehind == stage = "done" /\ ~TimedOut => instructions_retired = Len(trace)

\* No instruction is fetched before the latest deadline that any miss,
\* boundary, redirect or misprediction has set, although one may be set
\* when a longer one is (TraceSim.h:119, Frontend.cpp:73-102).
StallsAreServed ==
  [][stage = "fetch" /\ (trace' # trace \/ pre_fetch_buffer' # pre_fetch_buffer)
       => total_cycles >= deadline]_vars

\* Between two cycles simulator and profiler agree on the clock, on what
\* retired and on where the measurement began, and each cycle since then is
\* in one bucket: the reset happens in the middle of a cycle, after the
\* clock was reported and before commit (TraceSim.cpp:42, Profiler.cpp:7).
CyclesAccounted ==
  stage \in {"loop", "done"} =>
    LET c == profiler.topdown_counters
    IN  /\ profiler.total_cycles = total_cycles
        /\ profiler.retired_insts = instructions_retired
        /\ profiler.total_cycles_baseline = total_cycles_baseline
        /\ profiler.retired_insts_baseline = inst_retired_baseline
        /\ total_cycles - total_cycles_baseline =
             c["RETIRING"] + c["FRONTEND_BOUND"] + c["BACKEND_MEMORY_BOUND"]
               + c["BACKEND_CORE_BOUND"] + c["BAD_SPECULATION"] + c["OTHER"]
        /\ c["RETIRING"] <= rel_retired /\ rel_retired <= COMMIT_WIDTH * c["RETIRING"]

\* A run that the program does not end retires all it was asked for: in
\* RESTORE mode the sample begins at the first cycle after the warm-up's
\* last instruction, and is complete (TraceSim.cpp:145-166).
MeasuresWholeSample ==
  /\ mode = "RESTORE" /\ ~in_warmup /\ WARMUP_INSTRUCTIONS > 0 =>
       inst_retired_baseline \in WARMUP_INSTRUCTIONS ..
                                 WARMUP_INSTRUCTIONS + COMMIT_WIDTH - 1
  /\ stage = "done" /\ ~TimedOut /\ ~ebreak =>
       IF mode = "RESTORE" THEN ~in_warmup /\ rel_retired >= SAMPLE_INSTRUCTIONS
                           ELSE instructions_retired >= max_instructions

\* The branches among the instructions of s, oldest first.
BranchesOf(s) ==
  LET found[n \in 0 .. Len(s)] ==
        IF n = 0 THEN <<>>
        ELSE IF IsBranch(s[n]) THEN Append(found[n - 1], s[n]) ELSE found[n - 1]
  IN  found[Len(s)]

Delivered == BranchesOf(SubSeq(trace, 1, Len(trace) - Len(pre_fetch_buffer)))

\* The history before branch j of bs: the outcomes of the ones before it.
HistoryBefore(bs, j) ==
  LET bit[d \in 0 .. HistoryBits] ==
        IF d = 0 THEN 0
        ELSE bit[d - 1] + (IF d < j THEN 2 ^ (d - 1) * Outcome(bs[j - d].taken) ELSE 0)
  IN  bit[HistoryBits]

\* A two-bit counter after one more outcome.
Nudged(counter, taken) ==
  LET sum == IF taken THEN counter + 1 ELSE counter - 1
  IN  IF sum \in Counter THEN sum ELSE counter

\* The counter of entry k after all of bs.
CounterAfter(bs, k) ==
  LET walk[n \in 0 .. Len(bs)] ==
        IF n = 0 THEN 2
        ELSE IF XorMasked(bs[n].pc, HistoryBefore(bs, n)) = k
             THEN Nudged(walk[n - 1], bs[n].taken) ELSE walk[n - 1]
  IN  walk[Len(bs)]

\* The predictor is the one that has seen each delivered branch once, in
\* program order: what was given back has not trained it, and training uses
\* the entry that predicted (Frontend.cpp:68-72, BranchPredictor.h:36-53).
PredictorIsReplay ==
  bp_type = "GSHARE" =>
    /\ history = HistoryBefore(Delivered, Len(Delivered) + 1)
    /\ \A k \in DOMAIN pht : pht[k] = CounterAfter(Delivered, k)

\* Every instruction the reference CPU executed retires: an instruction
\* that was given back is fetched in the end, and the run comes to its end
\* (MAX_SIM_TIME is out of its reach).
EveryInstructionRetires == <>[](instructions_retired = Len(trace))
=============================================================================

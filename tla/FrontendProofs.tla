--------------------------- MODULE FrontendProofs ---------------------------
(***************************************************************************)
(* Theorems about Frontend, for every trace, width, penalty, latency and   *)
(* predictor: the types, the order of the trace, the deadlines of fetch,   *)
(* the instruction that was given back, the profiler's accounts, the       *)
(* sample, and what has trained the branch predictor.                      *)
(***************************************************************************)
EXTENDS Frontend, SequenceTheorems, WellFoundedInduction, TLAPS

-----------------------------------------------------------------------------
(* Type correctness                                                        *)

Reasons == {"NONE", "ICACHE_MISS", "FETCH_REDIRECT", "BRANCH_MISPREDICT",
            "LINE_BOUNDARY"}
StallType == [until : Nat, reason : Reasons]

\* The numbers and the flags, one by one.
LEMMA Numbers ==
  ASSUME TypeOK
  PROVE  /\ inside \in Nat /\ instructions_retired \in Nat /\ retired \in Nat
         /\ total_cycles \in Nat /\ deadline \in Nat /\ group \in Nat /\ line \in Nat
         /\ mem_busy \in Nat /\ delays \in Nat /\ inst_retired_baseline \in Nat
         /\ total_cycles_baseline \in Nat /\ history \in Nat
BY DEF TypeOK

LEMMA Flags ==
  ASSUME TypeOK
  PROVE  /\ sim_end \in BOOLEAN /\ ebreak \in BOOLEAN /\ in_warmup \in BOOLEAN
BY DEF TypeOK

LEMMA Sequences2 ==
  ASSUME TypeOK
  PROVE  /\ trace \in Seq(Insts)
         /\ pre_fetch_buffer \in Seq(Positions) /\ inst_buffer \in Seq(Positions)
BY DEF TypeOK

LEMMA Sizes ==
  /\ HistoryBits \in Nat \ {0} /\ LineSize \in Nat \ {0} /\ FETCH_WIDTH \in Nat \ {0}
  /\ COMMIT_WIDTH \in Nat \ {0} /\ INST_BUFFER_SIZE \in Nat \ {0}
  /\ BRANCH_MISPREDICT_PENALTY \in Nat /\ FETCH_REDIRECT_LATENCY \in Nat
  /\ WARMUP_INSTRUCTIONS \in Nat /\ SAMPLE_INSTRUCTIONS \in Nat
  /\ max_instructions \in Nat /\ MAX_SIM_TIME \in Nat
  /\ MaxTrace \in Nat /\ MaxDelays \in Nat
BY FrontendAssumption

LEMMA StalledType ==
  ASSUME NEW s \in StallType, NEW u \in Nat, NEW r \in Reasons
  PROVE  Stalled(s, u, r) \in StallType
BY DEF Stalled, StallType

LEMMA DeliveryStallType ==
  ASSUME TypeOK, NEW i \in Insts, NEW p \in BOOLEAN
  PROVE  AfterDelivery(i, p) \in StallType
<1>0. fetch_stall \in StallType /\ total_cycles \in Nat
  BY Numbers DEF TypeOK, StallType, Reasons
<1>1. ASSUME NEW s \in StallType PROVE Redirect(s) \in StallType
  BY <1>0, <1>1, Sizes, StalledType DEF Redirect, Reasons
<1>2. AfterPrediction(i, p) \in StallType
  BY <1>0, <1>1, Sizes, StalledType DEF AfterPrediction, Reasons
<1>. QED  BY <1>1, <1>2 DEF AfterDelivery

\* The predictor's part of the type.
TablesOK == pht \in [0 .. TableSize - 1 -> Counter] /\ history \in Nat

LEMMA UpdateType ==
  ASSUME TypeOK, NEW i \in Insts, update(i)
  PROVE  TablesOK'
<1>0. /\ pht \in [0 .. TableSize - 1 -> Counter] /\ history \in Nat
      /\ i.taken \in BOOLEAN
  BY Numbers, FrontendAssumption DEF TypeOK
<1>1. ASSUME NEW c \in Counter PROVE Trained(c, i.taken) \in Counter
  BY <1>0, <1>1 DEF Trained, Saturated, Counter
<1>2. Shifted(history, i.taken) \in Nat
  BY <1>0, TableAssumption DEF Shifted, Outcome
<1>. QED  BY <1>0, <1>1, <1>2 DEF update, bpVars, TablesOK

\* The position that fetch is at, and what it leaves behind.
LEMMA AcquiresType ==
  ASSUME TypeOK, NEW i \in Insts, Acquires(i)
  PROVE  /\ trace' \in Seq(Insts)
         /\ Position \in Positions
         /\ LeftBehind \in Seq(Positions) /\ Requeued \in Seq(Positions)
<1>0. /\ trace \in Seq(Insts) /\ pre_fetch_buffer \in Seq(Positions)
      /\ MaxTrace \in Nat /\ Len(trace) \in Nat
  BY Sequences2, Sizes, LenProperties
<1>1. CASE pre_fetch_buffer # <<>>
  <2>1. Head(pre_fetch_buffer) \in Positions /\ Tail(pre_fetch_buffer) \in Seq(Positions)
    BY <1>0, <1>1, HeadTailProperties
  <2>2. Position \in Positions /\ LeftBehind \in Seq(Positions) /\ trace' \in Seq(Insts)
    BY <1>0, <1>1, <2>1 DEF Position, LeftBehind, Acquires
  <2>. QED  BY <2>2 DEF Requeued
<1>2. CASE pre_fetch_buffer = <<>>
  <2>1. Position \in Positions /\ LeftBehind \in Seq(Positions) /\ trace' \in Seq(Insts)
    BY <1>0, <1>2 DEF Position, LeftBehind, Acquires, Positions
  <2>. QED  BY <2>1 DEF Requeued
<1>. QED  BY <1>1, <1>2

LEMMA LineType ==
  ASSUME NEW i \in Insts
  PROVE  LineOf(i) \in Nat
<1>1. i.pc \in Nat
  BY FrontendAssumption
<1>. QED  BY <1>1, Sizes DEF LineOf

LEMMA LaterType ==
  ASSUME NEW a \in Nat, NEW b \in Nat
  PROVE  /\ Later(a, b) \in Nat /\ Later(a, b) >= a /\ Later(a, b) >= b
         /\ Later(a, b) = a \/ Later(a, b) = b
BY DEF Later

\* The rest of the type, by the actions that change it.
StateOK ==
  /\ mode \in Modes /\ bp_type \in BP_TYPES
  /\ backend_stall \in StallReasons
  /\ fetch_stall \in StallType
  /\ profiler \in Profile
  /\ stage \in {"loop", "advance", "backend", "fetch", "mark", "done"}
NumbersOK ==
  /\ inside \in Nat /\ instructions_retired \in Nat /\ retired \in Nat
  /\ total_cycles \in Nat /\ deadline \in Nat /\ group \in Nat /\ line \in Nat
  /\ mem_busy \in Nat /\ delays \in Nat /\ inst_retired_baseline \in Nat
  /\ total_cycles_baseline \in Nat
FlagsOK == sim_end \in BOOLEAN /\ ebreak \in BOOLEAN /\ in_warmup \in BOOLEAN
SequencesOK == /\ trace \in Seq(Insts)
               /\ pre_fetch_buffer \in Seq(Positions) /\ inst_buffer \in Seq(Positions)

LEMMA TypeParts ==
  TypeOK <=> StateOK /\ NumbersOK /\ FlagsOK /\ SequencesOK /\ TablesOK
BY DEF TypeOK, StateOK, NumbersOK, FlagsOK, SequencesOK, TablesOK, StallType, Reasons

LEMMA TypePartsAfter ==
  (StateOK /\ NumbersOK /\ FlagsOK /\ SequencesOK /\ TablesOK)' => TypeOK'
BY DEF TypeOK, StateOK, NumbersOK, FlagsOK, SequencesOK, TablesOK, StallType, Reasons

LEMMA InitType == Init => TypeOK
<1>. SUFFICES ASSUME Init PROVE TypeOK
  OBVIOUS
<1>1. SequencesOK
  BY EmptySeq DEF Init, SequencesOK
<1>2. NumbersOK /\ FlagsOK
  BY DEF Init, NumbersOK, FlagsOK
<1>3. TablesOK
  BY DEF Init, TablesOK, Counter
<1>4. NewProfiler \in Profile
  BY DEF NewProfiler, Profile, NoCycles
<1>5. StateOK
  BY <1>4 DEF Init, StateOK, StallType, Reasons, StallReasons
<1>. QED  BY <1>1, <1>2, <1>3, <1>5, TypeParts

\* What each action of fetch_stage that acquires an instruction leaves alone.
LEMMA BackEndType ==
  ASSUME TypeOK, NEW n \in 0 .. COMMIT_WIDTH, NEW k \in 0 .. Len(inst_buffer),
         NEW reason \in StallReasons, NEW busy \in Nat, BackEnd(n, k, reason, busy)
  PROVE  TypeOK'
<1>0. StateOK /\ NumbersOK /\ FlagsOK /\ SequencesOK /\ TablesOK
  BY TypeParts
<1>1. inst_buffer' \in Seq(Positions)
  <2>1. k + 1 \in 1 .. Len(inst_buffer) + 1 /\ Len(inst_buffer) \in Nat
    BY <1>0, LenProperties DEF SequencesOK
  <2>. QED  BY <1>0, <2>1, SubSeqProperties DEF SequencesOK, BackEnd
<1>2. n \in Nat /\ k \in Nat /\ inside - n + k \in Nat
  BY <1>0, Sizes, LenProperties DEF BackEnd, NumbersOK, SequencesOK
<1>3. NumbersOK'
  BY <1>0, <1>2 DEF NumbersOK, BackEnd, refVars, warmupVars, stallVars
<1>4. SequencesOK' /\ FlagsOK' /\ TablesOK'
  BY <1>0, <1>1 DEF SequencesOK, FlagsOK, TablesOK, BackEnd, refVars, warmupVars, bpVars
<1>5. StateOK'
  BY <1>0 DEF StateOK, BackEnd, buildVars, stallVars
<1>. QED  BY <1>3, <1>4, <1>5, TypePartsAfter

LEMMA FetchMissType ==
  ASSUME TypeOK, NEW i \in Insts, NEW ready \in Nat, FetchMiss(i, ready)
  PROVE  TypeOK'
<1>0. StateOK /\ NumbersOK /\ FlagsOK /\ SequencesOK /\ TablesOK
  BY TypeParts
<1>1. NumbersOK'
  BY <1>0, LineType, LaterType
     DEF NumbersOK, FetchMiss, gaveBack, backVars, warmupVars
<1>2. SequencesOK' /\ FlagsOK' /\ TablesOK'
  BY <1>0, AcquiresType
     DEF SequencesOK, FlagsOK, TablesOK, FetchMiss, gaveBack, warmupVars, bpVars
<1>3. StateOK'
  BY <1>0, StalledType DEF StateOK, FetchMiss, gaveBack, buildVars, backVars, Reasons
<1>. QED  BY <1>1, <1>2, <1>3, TypePartsAfter

LEMMA FetchBlockedType ==
  ASSUME TypeOK, NEW i \in Insts, FetchBlocked(i)
  PROVE  TypeOK'
<1>0. StateOK /\ NumbersOK /\ FlagsOK /\ SequencesOK /\ TablesOK
  BY TypeParts
<1>1. NumbersOK'
  BY <1>0, LineType DEF NumbersOK, FetchBlocked, gaveBack, backVars, warmupVars, stallVars
<1>2. SequencesOK' /\ FlagsOK' /\ TablesOK'
  BY <1>0, AcquiresType
     DEF SequencesOK, FlagsOK, TablesOK, FetchBlocked, gaveBack, warmupVars, bpVars
<1>3. StateOK'
  BY <1>0 DEF StateOK, FetchBlocked, gaveBack, buildVars, backVars, stallVars
<1>. QED  BY <1>1, <1>2, <1>3, TypePartsAfter

LEMMA LineBoundaryType ==
  ASSUME TypeOK, NEW i \in Insts, LineBoundary(i)
  PROVE  TypeOK'
<1>0. StateOK /\ NumbersOK /\ FlagsOK /\ SequencesOK /\ TablesOK
  BY TypeParts
<1>1. NumbersOK'
  BY <1>0, LaterType DEF NumbersOK, LineBoundary, gaveBack, backVars, warmupVars, memVars
<1>2. SequencesOK' /\ FlagsOK' /\ TablesOK'
  BY <1>0, AcquiresType
     DEF SequencesOK, FlagsOK, TablesOK, LineBoundary, gaveBack, warmupVars, bpVars
<1>3. total_cycles + 1 \in Nat
  BY <1>0 DEF NumbersOK
<1>4. StateOK'
  BY <1>0, <1>3, StalledType DEF StateOK, LineBoundary, gaveBack, buildVars, backVars, Reasons
<1>. QED  BY <1>1, <1>2, <1>4, TypePartsAfter

LEMMA DeliverType ==
  ASSUME TypeOK, NEW i \in Insts, NEW p \in BOOLEAN, Deliver(i, p)
  PROVE  TypeOK'
<1>0. StateOK /\ NumbersOK /\ FlagsOK /\ SequencesOK /\ TablesOK
  BY TypeParts
<1>1. Owed(i, p) \in Nat
  BY Sizes, LaterType DEF Owed
<1>2. NumbersOK'
  <2>1. total_cycles + Owed(i, p) \in Nat /\ deadline \in Nat
    BY <1>0, <1>1 DEF NumbersOK
  <2>2. deadline' \in Nat /\ line' \in Nat
    BY <2>1, LineType, LaterType DEF Deliver
  <2>. QED  BY <1>0, <2>2 DEF NumbersOK, Deliver, backVars, warmupVars, memVars
<1>3. Append(inst_buffer, Position) \in Seq(Positions)
  BY <1>0, AcquiresType, AppendProperties DEF SequencesOK, Deliver
<1>4. SequencesOK' /\ FlagsOK'
  BY <1>0, <1>3, AcquiresType DEF SequencesOK, FlagsOK, Deliver, warmupVars
<1>5. TablesOK'
  BY UpdateType DEF Deliver
<1>6. Counted(i, p) \in Profile
  <2>1. /\ profiler \in Profile
        /\ profiler.total_branches \in Nat /\ profiler.correct_branches \in Nat
    BY <1>0 DEF StateOK, Profile
  <2>2. ASSUME NEW b \in Nat, NEW c \in Nat
        PROVE  [profiler EXCEPT !.total_branches = b, !.correct_branches = c] \in Profile
    BY <2>1 DEF Profile
  <2>. DEFINE b == IF IsBranch(i) THEN profiler.total_branches + 1
                   ELSE profiler.total_branches
              c == IF IsBranch(i) /\ p = i.taken THEN profiler.correct_branches + 1
                   ELSE profiler.correct_branches
  <2>3. b \in Nat /\ c \in Nat
    BY <2>1
  <2>4. Counted(i, p) = [profiler EXCEPT !.total_branches = b, !.correct_branches = c]
    BY <2>1 DEF Counted, Profile
  <2>. HIDE DEF b, c
  <2>. QED  BY <2>2, <2>3, <2>4
<1>7. AfterDelivery(i, p) \in StallType
  BY DeliveryStallType
<1>8. StateOK'
  BY <1>0, <1>6, <1>7 DEF StateOK, Deliver, buildVars, backVars
<1>. QED  BY <1>2, <1>4, <1>5, <1>8, TypePartsAfter

LEMMA MarkCycleType ==
  ASSUME TypeOK, MarkCycle
  PROVE  TypeOK'
<1>0. StateOK /\ NumbersOK /\ FlagsOK /\ SequencesOK /\ TablesOK
  BY TypeParts
<1>1. NumbersOK'
  BY <1>0 DEF NumbersOK, MarkCycle, warmupVars, stallVars, memVars
<1>2. SequencesOK' /\ FlagsOK' /\ TablesOK'
  BY <1>0 DEF SequencesOK, FlagsOK, TablesOK, MarkCycle, refVars, warmupVars, bpVars
<1>3. profiler' \in Profile
  <2>1. PICK bucket \in Buckets :
          profiler' = [profiler EXCEPT !.retired_insts = @ + retired,
                                       !.total_cycles = total_cycles + 1,
                                       !.topdown_counters[bucket] = @ + 1]
    BY DEF MarkCycle, Bucket, Buckets
  <2>2. /\ profiler \in Profile
        /\ profiler.retired_insts + retired \in Nat /\ total_cycles + 1 \in Nat
        /\ profiler.topdown_counters \in [Buckets -> Nat]
    BY <1>0 DEF StateOK, NumbersOK, Profile
  <2>3. [profiler.topdown_counters EXCEPT ![bucket] = @ + 1] \in [Buckets -> Nat]
    BY <2>2
  <2>. QED  BY <2>1, <2>2, <2>3 DEF Profile
<1>4. StateOK'
  BY <1>0, <1>3 DEF StateOK, MarkCycle, buildVars, stallVars, StallReasons
<1>. QED  BY <1>1, <1>2, <1>4, TypePartsAfter

LEMMA WarmupEndsType ==
  ASSUME TypeOK, WarmupEnds
  PROVE  TypeOK'
<1>0. StateOK /\ NumbersOK /\ FlagsOK /\ SequencesOK /\ TablesOK
  BY TypeParts
<1>1. NumbersOK' /\ SequencesOK' /\ FlagsOK' /\ TablesOK'
  BY <1>0 DEF NumbersOK, SequencesOK, FlagsOK, TablesOK, WarmupEnds, afterAdvance,
              backVars, stallVars, bpVars, memVars
<1>2. profiler' \in Profile
  BY <1>0 DEF StateOK, Profile, WarmupEnds, reset, NoCycles
<1>3. StateOK'
  BY <1>0, <1>2 DEF StateOK, WarmupEnds, afterAdvance, buildVars, backVars, stallVars
<1>. QED  BY <1>1, <1>3, TypePartsAfter

\* The actions that change only the stage, flags and mem_busy.
LEMMA ControlType ==
  ASSUME TypeOK, BeginCycle \/ Finish \/ StaysInWarmup \/ Measures \/ EndTrace \/ FetchDone
  PROVE  TypeOK'
<1>0. StateOK /\ NumbersOK /\ FlagsOK /\ SequencesOK /\ TablesOK
  BY TypeParts
<1>. USE DEF StateOK, NumbersOK, FlagsOK, SequencesOK, TablesOK, buildVars, refVars, backVars,
             stallVars, bpVars, warmupVars, memVars
<1>1. CASE BeginCycle
  BY <1>0, <1>1, TypePartsAfter DEF BeginCycle
<1>2. CASE Finish
  BY <1>0, <1>2, TypePartsAfter DEF Finish
<1>3. CASE StaysInWarmup
  BY <1>0, <1>3, TypePartsAfter DEF StaysInWarmup, afterAdvance
<1>4. CASE Measures
  BY <1>0, <1>4, TypePartsAfter DEF Measures, afterAdvance
<1>5. CASE EndTrace
  BY <1>0, <1>5, TypePartsAfter DEF EndTrace
<1>6. CASE FetchDone
  BY <1>0, <1>6, TypePartsAfter DEF FetchDone
<1>. QED  BY <1>1, <1>2, <1>3, <1>4, <1>5, <1>6

\* The steps, with the types of what they choose.
LEMMA Steps ==
  ASSUME TypeOK, Next
  PROVE  \/ BeginCycle \/ Finish \/ WarmupEnds \/ StaysInWarmup \/ Measures
         \/ \E n \in 0 .. COMMIT_WIDTH, k \in 0 .. Len(inst_buffer),
               reason \in StallReasons, busy \in Nat : BackEnd(n, k, reason, busy)
         \/ \E i \in Insts : FetchBlocked(i)
         \/ \E i \in Insts, ready \in Nat : ready > total_cycles /\ FetchMiss(i, ready)
         \/ \E i \in Insts : LineBoundary(i)
         \/ \E i \in Insts, p \in BOOLEAN : Deliver(i, p)
         \/ EndTrace \/ FetchDone \/ MarkCycle
<1>0. /\ mem_busy \in Nat /\ total_cycles \in Nat
      /\ \A l \in Latencies : total_cycles + l \in Nat /\ total_cycles + l > total_cycles
  BY Numbers, FrontendAssumption
<1>. QED  BY <1>0 DEF Next

LEMMA StepType == TypeOK /\ [Next]_vars => TypeOK'
<1>. SUFFICES ASSUME TypeOK, [Next]_vars PROVE TypeOK'
  OBVIOUS
<1>1. CASE Next
  BY <1>1, Steps, ControlType, WarmupEndsType, BackEndType, FetchBlockedType,
     FetchMissType, LineBoundaryType, DeliverType, MarkCycleType
<1>2. CASE UNCHANGED vars
  BY <1>2 DEF TypeOK, vars, buildVars, refVars, backVars, stallVars, bpVars, warmupVars, memVars
<1>. QED  BY <1>1, <1>2

\* The front end's state keeps its shape.
THEOREM TypeCorrect == Spec => []TypeOK
<1>1. Init => TypeOK
  BY InitType
<1>2. TypeOK /\ [Next]_vars => TypeOK'
  BY StepType
<1>. QED  BY <1>1, <1>2, PTL DEF Spec
-----------------------------------------------------------------------------
(* The order of the trace                                                  *)

\* In the order of the trace there is at most one instruction to take up
\* again, the latest, so the next position is always the last one of trace.
LEMMA AcquiresInOrder ==
  ASSUME TypeOK, TraceInOrder, NEW i \in Insts, Acquires(i)
  PROVE  /\ LeftBehind = <<>>
         /\ Position = Len(trace') /\ Requeued = <<Len(trace')>>
         /\ Len(trace') = Len(trace) + 1 - Len(pre_fetch_buffer)
         /\ Len(trace) \in Nat
<1>0. trace \in Seq(Insts) /\ Len(trace) \in Nat
  BY Sequences2, LenProperties
<1>1. CASE pre_fetch_buffer = <<>>
  <2>1. Len(trace') = Len(trace) + 1
    BY <1>0, <1>1, AppendProperties DEF Acquires
  <2>. QED  BY <1>0, <1>1, <2>1 DEF LeftBehind, Position, Requeued
<1>2. CASE pre_fetch_buffer = <<Len(trace)>>
  <2>1. pre_fetch_buffer # <<>> /\ Len(pre_fetch_buffer) = 1
    BY <1>2
  <2>2. Head(pre_fetch_buffer) = Len(trace) /\ Tail(pre_fetch_buffer) = <<>>
    BY <1>2
  <2>3. trace' = trace
    BY <2>1 DEF Acquires
  <2>. QED  BY <1>0, <2>1, <2>2, <2>3 DEF LeftBehind, Position, Requeued
<1>. QED  BY <1>1, <1>2 DEF TraceInOrder

\* An instruction that is given back keeps its place.
LEMMA GivenBackInOrder ==
  ASSUME TypeOK, TraceInOrder, NEW i \in Insts, Acquires(i),
         pre_fetch_buffer' = Requeued,
         UNCHANGED <<inst_buffer, inside, instructions_retired>>
  PROVE  TraceInOrder'
<1>1. Len(inst_buffer) \in Nat /\ Len(pre_fetch_buffer) \in Nat /\ inside \in Nat
      /\ instructions_retired \in Nat
  BY Numbers, Sequences2, LenProperties
<1>2. Len(pre_fetch_buffer') = 1
  BY AcquiresInOrder
<1>. QED  BY <1>1, <1>2, AcquiresInOrder DEF TraceInOrder

LEMMA DeliverInOrder ==
  ASSUME TypeOK, TraceInOrder, NEW i \in Insts, NEW p \in BOOLEAN, Deliver(i, p)
  PROVE  TraceInOrder'
<1>1. Len(inst_buffer) \in Nat /\ Len(pre_fetch_buffer) \in Nat /\ inside \in Nat
      /\ instructions_retired \in Nat /\ inst_buffer \in Seq(Positions)
  BY Numbers, Sequences2, LenProperties
<1>2. /\ Acquires(i) /\ pre_fetch_buffer' = LeftBehind
      /\ inst_buffer' = Append(inst_buffer, Position)
      /\ inside' = inside /\ instructions_retired' = instructions_retired
  BY DEF Deliver, backVars
<1>3. /\ pre_fetch_buffer' = <<>> /\ Len(pre_fetch_buffer') = 0
      /\ Position = Len(trace')
  BY <1>2, AcquiresInOrder
<1>4. /\ Len(inst_buffer') = Len(inst_buffer) + 1
      /\ inst_buffer'[Len(inst_buffer) + 1] = Position
      /\ \A k \in 1 .. Len(inst_buffer) : inst_buffer'[k] = inst_buffer[k]
      /\ DOMAIN inst_buffer' = 1 .. Len(inst_buffer) + 1
      /\ DOMAIN inst_buffer = 1 .. Len(inst_buffer)
  BY <1>1, <1>2, AcquiresType, AppendProperties
<1>5. Len(trace') = instructions_retired + inside + Len(inst_buffer) + 1
  BY <1>1, <1>2, AcquiresInOrder DEF TraceInOrder
<1>6. \A k \in DOMAIN inst_buffer' : inst_buffer'[k] = instructions_retired + inside + k
  <2>. SUFFICES ASSUME NEW k \in DOMAIN inst_buffer'
                PROVE  inst_buffer'[k] = instructions_retired + inside + k
    OBVIOUS
  <2>1. CASE k \in DOMAIN inst_buffer
    BY <1>4, <2>1 DEF TraceInOrder
  <2>2. CASE k = Len(inst_buffer) + 1
    BY <1>1, <1>3, <1>4, <1>5, <2>2
  <2>3. k \in DOMAIN inst_buffer \/ k = Len(inst_buffer) + 1
    BY ONLY <1>1, <1>4, k \in DOMAIN inst_buffer'
  <2>. QED  BY ONLY <2>1, <2>2, <2>3
<1>. QED  BY <1>1, <1>2, <1>3, <1>4, <1>5, <1>6 DEF TraceInOrder

LEMMA BackEndInOrder ==
  ASSUME TypeOK, TraceInOrder, NEW n \in 0 .. COMMIT_WIDTH,
         NEW k \in 0 .. Len(inst_buffer),
         NEW reason \in StallReasons, NEW busy \in Nat, BackEnd(n, k, reason, busy)
  PROVE  TraceInOrder'
<1>. DEFINE size == Len(inst_buffer)
<1>1. /\ size \in Nat /\ Len(pre_fetch_buffer) \in Nat /\ inside \in Nat
      /\ instructions_retired \in Nat /\ inst_buffer \in Seq(Positions)
      /\ n \in Nat /\ k \in Nat
  BY Numbers, Sequences2, LenProperties, Sizes
<1>2. /\ trace' = trace /\ pre_fetch_buffer' = pre_fetch_buffer
      /\ inside' = inside - n + k /\ instructions_retired' = instructions_retired + n
  BY DEF BackEnd, refVars
<1>3. /\ Len(inst_buffer') = size - k
      /\ DOMAIN inst_buffer' = 1 .. size - k
      /\ \A j \in 1 .. size - k : inst_buffer'[j] = inst_buffer[j + k]
  <2>1. inst_buffer' = SubSeq(inst_buffer, k + 1, size)
    BY DEF BackEnd
  <2>. QED  BY <1>1, <2>1
<1>. HIDE DEF size
<1>4. instructions_retired' + inside' = instructions_retired + inside + k
  BY <1>1, <1>2
<1>5. Len(trace') = instructions_retired' + inside' + Len(inst_buffer')
                                          + Len(pre_fetch_buffer')
  <2>1. Len(trace) = instructions_retired + inside + size + Len(pre_fetch_buffer)
    BY DEF TraceInOrder, size
  <2>. QED  BY <1>1, <1>2, <1>3, <1>4, <2>1
<1>6. \A j \in DOMAIN inst_buffer' :
        inst_buffer'[j] = instructions_retired' + inside' + j
  <2>1. DOMAIN inst_buffer = 1 .. size
    BY <1>1 DEF size
  <2>2. TAKE j \in DOMAIN inst_buffer'
  <2>3. j \in 1 .. size - k /\ j \in Int /\ j + k \in DOMAIN inst_buffer
    BY <1>1, <1>3, <2>1, <2>2
  <2>4. inst_buffer[j + k] = instructions_retired + inside + (j + k)
    BY <2>3 DEF TraceInOrder
  <2>. QED  BY <1>1, <1>3, <1>4, <2>3, <2>4
<1>. QED  BY <1>2, <1>5, <1>6 DEF TraceInOrder

LEMMA StepInOrder == TypeOK /\ TraceInOrder /\ [Next]_vars => TraceInOrder'
<1>. SUFFICES ASSUME TypeOK, TraceInOrder, [Next]_vars PROVE TraceInOrder'
  OBVIOUS
<1>. DEFINE Still == UNCHANGED <<trace, pre_fetch_buffer, inst_buffer, inside, instructions_retired>>
<1>0. Still => TraceInOrder'
  BY DEF TraceInOrder
<1>. USE DEF refVars, backVars
<1>1. ASSUME NEW i \in Insts, FetchBlocked(i) PROVE TraceInOrder'
  BY <1>1, GivenBackInOrder DEF FetchBlocked, gaveBack
<1>2. ASSUME NEW i \in Insts, NEW ready \in Nat, FetchMiss(i, ready) PROVE TraceInOrder'
  BY <1>2, GivenBackInOrder DEF FetchMiss, gaveBack
<1>3. ASSUME NEW i \in Insts, LineBoundary(i) PROVE TraceInOrder'
  BY <1>3, GivenBackInOrder DEF LineBoundary, gaveBack
<1>4. ASSUME BeginCycle \/ Finish PROVE Still
  BY <1>4 DEF BeginCycle, Finish
<1>5. ASSUME WarmupEnds \/ StaysInWarmup \/ Measures PROVE Still
  BY <1>5 DEF WarmupEnds, StaysInWarmup, Measures, afterAdvance
<1>6. ASSUME EndTrace \/ FetchDone \/ MarkCycle PROVE Still
  BY <1>6 DEF EndTrace, FetchDone, MarkCycle
<1>7. ASSUME UNCHANGED vars PROVE Still
  BY <1>7 DEF vars
<1>. QED
  <2>. HIDE DEF Still
  <2>. QED  BY <1>0, <1>1, <1>2, <1>3, <1>4, <1>5, <1>6, <1>7, Steps, DeliverInOrder,
               BackEndInOrder

\* No refusal, miss, stall or line boundary loses, repeats or reorders an
\* instruction that the reference CPU executed.
THEOREM InstructionsInOrder == Spec => []TraceInOrder
<1>1. Init => TraceInOrder
  BY DEF Init, TraceInOrder
<1>2. TypeOK /\ TraceInOrder /\ [Next]_vars => TraceInOrder'
  BY StepInOrder
<1>. QED  BY <1>1, <1>2, TypeCorrect, PTL DEF Spec

-----------------------------------------------------------------------------
(* The stalls                                                              *)

\* The latest deadline is the stall's, or has passed.
DeadlineKept == deadline <= fetch_stall.until \/ deadline <= total_cycles

LEMMA StallNumbers ==
  ASSUME TypeOK
  PROVE  /\ fetch_stall \in StallType /\ fetch_stall.until \in Nat
         /\ total_cycles \in Nat /\ deadline \in Nat
BY Numbers DEF TypeOK, StallType, Reasons

\* A stall is never shortened, and lasts at least as long as asked.
LEMMA StalledLater ==
  ASSUME NEW s \in StallType, NEW u \in Nat, NEW r \in Reasons
  PROVE  /\ Stalled(s, u, r) \in StallType /\ Stalled(s, u, r).until \in Nat
         /\ s.until \in Nat
         /\ Stalled(s, u, r).until >= s.until /\ Stalled(s, u, r).until >= u
BY DEF Stalled, StallType

LEMMA RedirectLater ==
  ASSUME TypeOK, NEW s \in StallType
  PROVE  /\ Redirect(s) \in StallType /\ Redirect(s).until \in Nat /\ s.until \in Nat
         /\ Redirect(s).until >= s.until
         /\ \/ Redirect(s).until >= total_cycles + FETCH_REDIRECT_LATENCY
            \/ FETCH_REDIRECT_LATENCY = 0
<1>1. total_cycles + FETCH_REDIRECT_LATENCY \in Nat /\ FETCH_REDIRECT_LATENCY \in Nat
  BY StallNumbers, Sizes
<1>2. s.until \in Nat
  BY DEF StallType
<1>3. CASE FETCH_REDIRECT_LATENCY > 0
  <2>1. Redirect(s) = Stalled(s, total_cycles + FETCH_REDIRECT_LATENCY, "FETCH_REDIRECT")
        /\ "FETCH_REDIRECT" \in Reasons
    BY <1>3 DEF Redirect, Reasons
  <2>. QED  BY <1>1, <2>1, StalledLater
<1>4. CASE FETCH_REDIRECT_LATENCY = 0
  <2>1. Redirect(s) = s
    BY <1>4 DEF Redirect
  <2>. QED  BY <1>2, <1>4, <2>1
<1>. QED  BY <1>1, <1>3, <1>4

\* The stall after a delivery covers what the instruction owes.
LEMMA DeliveryServes ==
  ASSUME TypeOK, NEW i \in Insts, NEW p \in BOOLEAN
  PROVE  /\ AfterDelivery(i, p).until >= fetch_stall.until
         /\ \/ AfterDelivery(i, p).until >= total_cycles + Owed(i, p)
            \/ Owed(i, p) = 0
<1>. DEFINE after == AfterPrediction(i, p)
            wrong == IsBranch(i) /\ p # i.taken
            right == IsBranch(i) /\ p = i.taken /\ i.taken
<1>1. /\ BRANCH_MISPREDICT_PENALTY \in Nat /\ FETCH_REDIRECT_LATENCY \in Nat
      /\ total_cycles \in Nat /\ fetch_stall \in StallType /\ fetch_stall.until \in Nat
      /\ total_cycles + BRANCH_MISPREDICT_PENALTY \in Nat
  BY StallNumbers, Sizes
<1>2. i.taken \in BOOLEAN /\ (i.kind = "jump" => i.taken)
  BY FrontendAssumption
<1>3. /\ after \in StallType /\ after.until \in Nat /\ after.until >= fetch_stall.until
      /\ wrong => after.until >= total_cycles + BRANCH_MISPREDICT_PENALTY
      /\ right => \/ after.until >= total_cycles + FETCH_REDIRECT_LATENCY
                  \/ FETCH_REDIRECT_LATENCY = 0
  <2>1. CASE wrong
    <3>1. after = Stalled(fetch_stall, total_cycles + BRANCH_MISPREDICT_PENALTY,
                          "BRANCH_MISPREDICT")
      BY <2>1 DEF AfterPrediction
    <3>. QED  BY <1>1, <2>1, <3>1, StalledLater DEF Reasons
  <2>2. CASE right
    <3>1. after = Redirect(fetch_stall)
      BY <2>2 DEF AfterPrediction
    <3>. QED  BY <1>1, <2>2, <3>1, RedirectLater
  <2>3. CASE ~wrong /\ ~right
    <3>1. after = fetch_stall
      BY <2>3 DEF AfterPrediction
    <3>. QED  BY <1>1, <2>3, <3>1
  <2>. QED  BY <2>1, <2>2, <2>3
<1>4. CASE i.kind = "jump"
  <2>1. AfterDelivery(i, p) = Redirect(after)
    BY <1>4 DEF AfterDelivery
  <2>2. Owed(i, p) \in {FETCH_REDIRECT_LATENCY, BRANCH_MISPREDICT_PENALTY}
        /\ (Owed(i, p) # FETCH_REDIRECT_LATENCY => wrong)
    BY <1>1, <1>4 DEF Owed, Later
  <2>3. /\ Redirect(after).until \in Nat /\ Redirect(after).until >= after.until
        /\ \/ Redirect(after).until >= total_cycles + FETCH_REDIRECT_LATENCY
           \/ FETCH_REDIRECT_LATENCY = 0
    BY <1>3, RedirectLater
  <2>. HIDE DEF after, wrong, right
  <2>. QED  BY <1>1, <1>3, <2>1, <2>2, <2>3
<1>5. CASE i.kind # "jump"
  <2>1. AfterDelivery(i, p) = after
    BY <1>5 DEF AfterDelivery
  <2>2. /\ Owed(i, p) \in {0, FETCH_REDIRECT_LATENCY, BRANCH_MISPREDICT_PENALTY}
        /\ Owed(i, p) = 0 \/ (wrong /\ Owed(i, p) = BRANCH_MISPREDICT_PENALTY)
                          \/ (right /\ Owed(i, p) = FETCH_REDIRECT_LATENCY)
    BY <1>1, <1>2, <1>5 DEF Owed, Later
  <2>. HIDE DEF after, wrong, right
  <2>. QED  BY <1>1, <1>3, <2>1, <2>2
<1>. QED  BY <1>4, <1>5

LEMMA StepDeadline == TypeOK /\ DeadlineKept /\ [Next]_vars => DeadlineKept'
<1>. SUFFICES ASSUME TypeOK, DeadlineKept, [Next]_vars PROVE DeadlineKept'
  OBVIOUS
<1>. DEFINE Still == UNCHANGED <<total_cycles, fetch_stall, deadline>>
<1>0. Still => DeadlineKept'
  BY DEF DeadlineKept
<1>. USE DEF stallVars
<1>1. ASSUME NEW n \in 0 .. COMMIT_WIDTH, NEW k \in 0 .. Len(inst_buffer),
             NEW reason \in StallReasons, NEW busy \in Nat, BackEnd(n, k, reason, busy)
      PROVE  Still
  BY <1>1 DEF BackEnd
<1>2. ASSUME NEW i \in Insts, FetchBlocked(i) PROVE Still
  BY <1>2 DEF FetchBlocked, gaveBack
<1>3. ASSUME NEW i \in Insts, NEW ready \in Nat, FetchMiss(i, ready) PROVE DeadlineKept'
  <2>1. /\ fetch_stall' = Stalled(fetch_stall, ready, "ICACHE_MISS")
        /\ deadline' = Later(deadline, ready) /\ total_cycles' = total_cycles
    BY <1>3 DEF FetchMiss, gaveBack
  <2>2. /\ fetch_stall'.until \in Nat
        /\ fetch_stall'.until >= fetch_stall.until /\ fetch_stall'.until >= ready
    <3>1. "ICACHE_MISS" \in Reasons
      BY DEF Reasons
    <3>. QED  BY <2>1, <3>1, StallNumbers, StalledLater
  <2>. QED  BY <2>1, <2>2, StallNumbers DEF DeadlineKept, Later
<1>4. ASSUME NEW i \in Insts, LineBoundary(i) PROVE DeadlineKept'
  <2>1. /\ fetch_stall' = Stalled(fetch_stall, total_cycles + 1, "LINE_BOUNDARY")
        /\ deadline' = Later(deadline, total_cycles + 1) /\ total_cycles' = total_cycles
    BY <1>4 DEF LineBoundary, gaveBack
  <2>2. total_cycles + 1 \in Nat
    BY StallNumbers
  <2>3. /\ fetch_stall'.until \in Nat /\ fetch_stall'.until >= fetch_stall.until
        /\ fetch_stall'.until >= total_cycles + 1
    <3>1. "LINE_BOUNDARY" \in Reasons
      BY DEF Reasons
    <3>. QED  BY <2>1, <2>2, <3>1, StallNumbers, StalledLater
  <2>. QED  BY <2>1, <2>2, <2>3, StallNumbers DEF DeadlineKept, Later
<1>5. ASSUME NEW i \in Insts, NEW p \in BOOLEAN, Deliver(i, p) PROVE DeadlineKept'
  <2>1. /\ fetch_stall' = AfterDelivery(i, p) /\ total_cycles' = total_cycles
        /\ deadline' = Later(deadline, total_cycles + Owed(i, p))
    BY <1>5 DEF Deliver
  <2>2. AfterDelivery(i, p).until \in Nat /\ Owed(i, p) \in Nat
    BY DeliveryStallType, LaterType, Sizes DEF StallType, Owed
  <2>. QED  BY <2>1, <2>2, StallNumbers, DeliveryServes DEF DeadlineKept, Later
<1>6. ASSUME MarkCycle PROVE DeadlineKept'
  <2>1. /\ fetch_stall' = fetch_stall /\ deadline' = deadline
        /\ total_cycles' = total_cycles + 1
    BY <1>6 DEF MarkCycle
  <2>. QED  BY <2>1, StallNumbers DEF DeadlineKept
<1>7. ASSUME BeginCycle \/ Finish \/ EndTrace \/ FetchDone PROVE Still
  BY <1>7 DEF BeginCycle, Finish, EndTrace, FetchDone
<1>8. ASSUME WarmupEnds \/ StaysInWarmup \/ Measures PROVE Still
  BY <1>8 DEF WarmupEnds, StaysInWarmup, Measures, afterAdvance
<1>9. ASSUME UNCHANGED vars PROVE Still
  BY <1>9 DEF vars
<1>. QED
  <2>. HIDE DEF Still
  <2>. QED  BY <1>0, <1>1, <1>2, <1>3, <1>4, <1>5, <1>6, <1>7, <1>8, <1>9, Steps

\* The step property: what takes an instruction was allowed to fetch.
LEMMA FetchesAfterDeadline ==
  ASSUME TypeOK, DeadlineKept, [Next]_vars
  PROVE  stage = "fetch" /\ (trace' # trace \/ pre_fetch_buffer' # pre_fetch_buffer)
           => total_cycles >= deadline
<1>. DEFINE Untouched == UNCHANGED <<trace, pre_fetch_buffer>>
<1>1. ASSUME NEW i \in Insts, Acquires(i) PROVE total_cycles >= deadline
  BY <1>1, StallNumbers DEF Acquires, Fetching, frontend_can_fetch, DeadlineKept
<1>2. ASSUME NEW n \in 0 .. COMMIT_WIDTH, NEW k \in 0 .. Len(inst_buffer),
             NEW reason \in StallReasons, NEW busy \in Nat, BackEnd(n, k, reason, busy)
      PROVE  Untouched
  BY <1>2 DEF BackEnd, refVars
<1>3. ASSUME BeginCycle \/ Finish \/ EndTrace \/ FetchDone \/ MarkCycle PROVE Untouched
  BY <1>3 DEF BeginCycle, Finish, EndTrace, FetchDone, MarkCycle, refVars
<1>4. ASSUME WarmupEnds \/ StaysInWarmup \/ Measures PROVE Untouched
  BY <1>4 DEF WarmupEnds, StaysInWarmup, Measures, afterAdvance
<1>5. ASSUME UNCHANGED vars PROVE Untouched
  BY <1>5 DEF vars, refVars
<1>6. ASSUME NEW i \in Insts,
             FetchBlocked(i) \/ (\E ready \in Nat : FetchMiss(i, ready)) \/ LineBoundary(i)
               \/ (\E p \in BOOLEAN : Deliver(i, p))
      PROVE  Acquires(i)
  BY <1>6 DEF FetchBlocked, FetchMiss, LineBoundary, Deliver
<1>. QED  BY <1>1, <1>2, <1>3, <1>4, <1>5, <1>6, Steps

\* Nothing is fetched before the latest deadline that a miss, a boundary, a
\* redirect or a misprediction has set.
THEOREM DeadlinesHold == Spec => StallsAreServed
<1>1. Init => DeadlineKept
  BY DEF Init, DeadlineKept
<1>2. TypeOK /\ DeadlineKept /\ [Next]_vars => DeadlineKept'
  BY StepDeadline
<1>3. TypeOK /\ DeadlineKept /\ [Next]_vars =>
        [stage = "fetch" /\ (trace' # trace \/ pre_fetch_buffer' # pre_fetch_buffer)
           => total_cycles >= deadline]_vars
  BY FetchesAfterDeadline
<1>. QED  BY <1>1, <1>2, <1>3, TypeCorrect, PTL DEF Spec, StallsAreServed

-----------------------------------------------------------------------------
(* The instruction that was given back                                     *)

GivenBack == pre_fetch_buffer # <<>>

\* The stall is over by cycle c, or the memory is busy as long as it lasts.
StallCovered(c) == fetch_stall.until <= c \/ fetch_stall.until <= mem_busy

\* What the loop's test sees.
KeptRunning == inside > 0 \/ inst_buffer # <<>> \/ mem_busy # 0

BeforeFetch == stage \in {"loop", "advance", "backend"}

\* From where it is given back to the cycle in which it is fetched, something
\* the loop's test sees is left to do.
Awaited ==
  /\ BeforeFetch => group = 0
  /\ stage = "fetch" => (GivenBack => group = 0) /\ (group > 0 => inst_buffer # <<>>)
  /\ (BeforeFetch \/ stage = "fetch") /\ GivenBack => StallCovered(total_cycles)
  /\ stage = "mark" /\ GivenBack => StallCovered(total_cycles + 1)
  /\ stage \in {"mark", "loop"} /\ GivenBack => KeptRunning
  /\ stage = "done" => TimedOut \/ (inside = 0 /\ inst_buffer = <<>> /\ ~GivenBack)

LEMMA AwaitedNumbers ==
  ASSUME TypeOK
  PROVE  /\ fetch_stall.until \in Nat /\ total_cycles \in Nat /\ mem_busy \in Nat
         /\ group \in Nat /\ inside \in Nat
         /\ inst_buffer \in Seq(Positions) /\ Len(inst_buffer) \in Nat
         /\ INST_BUFFER_SIZE \in Nat \ {0} /\ FETCH_WIDTH \in Nat \ {0}
BY Numbers, StallNumbers, Sequences2, Sizes, LenProperties

\* The three ways to give an instruction back.
LEMMA GivingBackAwaited ==
  ASSUME TypeOK, Awaited, NEW i \in Insts, NEW ready \in Nat, ready > total_cycles,
         FetchBlocked(i) \/ FetchMiss(i, ready) \/ LineBoundary(i)
  PROVE  Awaited'
<1>0. /\ stage = "fetch" /\ fetch_stall.until <= total_cycles
  BY DEF FetchBlocked, FetchMiss, LineBoundary, Acquires, Fetching, frontend_can_fetch,
         gaveBack
<1>1. /\ stage' = "mark" /\ total_cycles' = total_cycles /\ inside' = inside
      /\ inst_buffer' = inst_buffer
  BY DEF FetchBlocked, FetchMiss, LineBoundary, gaveBack, backVars
<1>2. StallCovered(total_cycles + 1)' /\ KeptRunning'
  <2>1. CASE FetchBlocked(i)
    BY <1>0, <1>1, <2>1, AwaitedNumbers DEF FetchBlocked, StallCovered, KeptRunning, stallVars
  <2>2. CASE FetchMiss(i, ready)
    <3>1. /\ fetch_stall' = Stalled(fetch_stall, ready, "ICACHE_MISS")
          /\ mem_busy' = Later(mem_busy, ready)
      BY <2>2 DEF FetchMiss
    <3>2. fetch_stall'.until = ready
      BY <1>0, <3>1, AwaitedNumbers DEF Stalled
    <3>. QED  BY <1>0, <3>1, <3>2, AwaitedNumbers DEF Later, StallCovered, KeptRunning
  <2>3. CASE LineBoundary(i)
    <3>1. /\ fetch_stall' = Stalled(fetch_stall, total_cycles + 1, "LINE_BOUNDARY")
          /\ group > 0
      BY <2>3 DEF LineBoundary
    <3>2. fetch_stall'.until = total_cycles + 1
      BY <1>0, <3>1, AwaitedNumbers DEF Stalled
    <3>3. inst_buffer' # <<>>
      BY <1>0, <1>1, <3>1 DEF Awaited
    <3>. QED  BY <1>1, <3>2, <3>3, AwaitedNumbers DEF StallCovered, KeptRunning
  <2>. QED  BY <2>1, <2>2, <2>3
<1>. QED  BY <1>1, <1>2 DEF Awaited, BeforeFetch

LEMMA DeliverAwaited ==
  ASSUME TypeOK, TraceInOrder, Awaited, NEW i \in Insts, NEW p \in BOOLEAN, Deliver(i, p)
  PROVE  Awaited'
<1>1. pre_fetch_buffer' = <<>> /\ stage' \in {"mark", "fetch"}
  BY AcquiresInOrder DEF Deliver
<1>2. inst_buffer' # <<>>
  <2>1. inst_buffer' = Append(inst_buffer, Position) /\ Acquires(i)
    BY DEF Deliver
  <2>2. Len(inst_buffer') = Len(inst_buffer) + 1
    BY <2>1, AwaitedNumbers, AcquiresType, AppendProperties
  <2>. QED  BY <2>2, AwaitedNumbers
<1>. QED  BY <1>1, <1>2 DEF Awaited, BeforeFetch, GivenBack

\* If fetch does not take up the instruction, a stall or a full inst_buffer
\* keeps it.
LEMMA FetchDoneAwaited ==
  ASSUME TypeOK, Awaited, FetchDone
  PROVE  Awaited'
<1>1. /\ stage = "fetch" /\ ~Fetching /\ stage' = "mark"
      /\ UNCHANGED <<total_cycles, inside, inst_buffer, mem_busy, fetch_stall, pre_fetch_buffer>>
  BY DEF FetchDone, backVars, stallVars, memVars
<1>2. ASSUME GivenBack PROVE StallCovered(total_cycles + 1) /\ KeptRunning
  <2>1. group = 0 /\ StallCovered(total_cycles)
    BY <1>1, <1>2 DEF Awaited
  <2>2. total_cycles < fetch_stall.until \/ Len(inst_buffer) >= INST_BUFFER_SIZE
    BY <1>1, <1>2, <2>1, AwaitedNumbers
       DEF Fetching, frontend_can_fetch, frontend_trace_exhausted, GivenBack
  <2>3. CASE total_cycles < fetch_stall.until
    BY <2>1, <2>3, AwaitedNumbers DEF StallCovered, KeptRunning
  <2>4. CASE Len(inst_buffer) >= INST_BUFFER_SIZE
    <3>1. inst_buffer # <<>>
      BY <2>4, AwaitedNumbers
    <3>. QED  BY <2>1, <3>1, AwaitedNumbers DEF StallCovered, KeptRunning
  <2>. QED  BY <2>2, <2>3, <2>4
<1>. QED  BY <1>1, <1>2 DEF Awaited, BeforeFetch, GivenBack, StallCovered, KeptRunning

LEMMA StepAwaited == TypeOK /\ TraceInOrder /\ Awaited /\ [Next]_vars => Awaited'
<1>. SUFFICES ASSUME TypeOK, TraceInOrder, Awaited, [Next]_vars PROVE Awaited'
  OBVIOUS
<1>. USE DEF Awaited, BeforeFetch, GivenBack, StallCovered
<1>1. CASE BeginCycle
  <2>1. /\ stage = "loop" /\ stage' = "advance"
        /\ mem_busy' = IF mem_busy <= total_cycles THEN 0 ELSE mem_busy
        /\ UNCHANGED <<group, total_cycles, fetch_stall, pre_fetch_buffer>>
    BY <1>1 DEF BeginCycle, stallVars
  <2>. QED  BY <2>1, AwaitedNumbers
<1>2. CASE Finish
  <2>1. stage = "loop" /\ stage' = "done" /\ Drained
        /\ UNCHANGED <<inside, inst_buffer, pre_fetch_buffer>>
    BY <1>2 DEF Finish, backVars
  <2>. QED  BY <2>1, AwaitedNumbers DEF Drained, KeptRunning
<1>3. CASE WarmupEnds \/ StaysInWarmup \/ Measures
  <2>1. /\ stage = "advance" /\ stage' = "backend"
        /\ UNCHANGED <<group, total_cycles, fetch_stall, mem_busy, pre_fetch_buffer>>
    BY <1>3 DEF WarmupEnds, StaysInWarmup, Measures, afterAdvance, stallVars, memVars
  <2>. QED  BY <2>1
<1>4. ASSUME NEW n \in 0 .. COMMIT_WIDTH, NEW k \in 0 .. Len(inst_buffer),
             NEW reason \in StallReasons, NEW busy \in Nat, BackEnd(n, k, reason, busy)
      PROVE  Awaited'
  <2>1. /\ stage = "backend" /\ stage' = "fetch" /\ mem_busy' = busy
        /\ busy # mem_busy => busy > mem_busy
        /\ UNCHANGED <<group, total_cycles, fetch_stall, pre_fetch_buffer>>
    BY <1>4 DEF BackEnd, stallVars
  <2>2. group = 0
    BY <2>1
  <2>. QED  BY <2>1, <2>2, AwaitedNumbers
<1>5. CASE EndTrace
  <2>1. stage' = "mark" /\ pre_fetch_buffer = <<>> /\ pre_fetch_buffer' = pre_fetch_buffer
    BY <1>5 DEF EndTrace
  <2>. QED  BY <2>1
<1>6. CASE MarkCycle
  <2>1. /\ stage = "mark" /\ total_cycles' = total_cycles + 1 /\ group' = 0
        /\ stage' = IF total_cycles + 1 > MAX_SIM_TIME THEN "done" ELSE "loop"
        /\ UNCHANGED <<inside, inst_buffer, mem_busy, fetch_stall, pre_fetch_buffer>>
    BY <1>6 DEF MarkCycle, stallVars, memVars
  <2>. QED  BY <2>1 DEF KeptRunning, TimedOut
<1>7. CASE UNCHANGED vars
  BY <1>7 DEF vars, backVars, stallVars, memVars, KeptRunning, TimedOut
<1>8. ASSUME NEW i \in Insts, FetchBlocked(i) \/ LineBoundary(i) PROVE Awaited'
  <2>1. total_cycles + 1 \in Nat /\ total_cycles + 1 > total_cycles
    BY AwaitedNumbers
  <2>. HIDE DEF Awaited
  <2>. QED  BY <1>8, <2>1, GivingBackAwaited
<1>. QED
  <2>. HIDE DEF Awaited
  <2>. QED  BY <1>1, <1>2, <1>3, <1>4, <1>5, <1>6, <1>7, <1>8, Steps, GivingBackAwaited,
               DeliverAwaited, FetchDoneAwaited

\* The loop does not look at the instruction that was given back, yet never
\* ends while there is one.
THEOREM NoneLeftBehind == Spec => []NothingLeftBehind
<1>1. Init => Awaited
  BY DEF Init, Awaited, BeforeFetch, GivenBack
<1>2. TypeOK /\ TraceInOrder /\ Awaited /\ [Next]_vars => Awaited'
  BY StepAwaited
<1>3. TypeOK /\ TraceInOrder /\ Awaited => NothingLeftBehind
  <2>. SUFFICES ASSUME TypeOK, TraceInOrder, Awaited, stage = "done", ~TimedOut
                PROVE  instructions_retired = Len(trace)
    BY DEF NothingLeftBehind
  <2>1. inside = 0 /\ inst_buffer = <<>> /\ pre_fetch_buffer = <<>>
    BY DEF Awaited, GivenBack
  <2>2. Len(trace) = instructions_retired + inside + Len(inst_buffer) + Len(pre_fetch_buffer)
    BY DEF TraceInOrder
  <2>3. Len(inst_buffer) = 0 /\ Len(pre_fetch_buffer) = 0 /\ instructions_retired \in Nat
    BY <2>1, Numbers
  <2>. QED  BY <2>1, <2>2, <2>3
<1>. QED  BY <1>1, <1>2, <1>3, TypeCorrect, InstructionsInOrder, PTL DEF Spec
-----------------------------------------------------------------------------
(* The profiler's ledger                                                   *)

Sum(c) == c["RETIRING"] + c["FRONTEND_BOUND"] + c["BACKEND_MEMORY_BOUND"]
            + c["BACKEND_CORE_BOUND"] + c["BAD_SPECULATION"] + c["OTHER"]

\* The clocks and counts agree at every step, except for what retired in the
\* cycle that is not marked yet.
Ledger ==
  /\ profiler.total_cycles = total_cycles
  /\ profiler.total_cycles_baseline = total_cycles_baseline
  /\ profiler.retired_insts_baseline = inst_retired_baseline
  /\ profiler.retired_insts + retired = instructions_retired
  /\ total_cycles = total_cycles_baseline + Sum(profiler.topdown_counters)
  /\ profiler.topdown_counters["RETIRING"] <= profiler.retired_insts - inst_retired_baseline
  /\ profiler.retired_insts - inst_retired_baseline
       <= COMMIT_WIDTH * profiler.topdown_counters["RETIRING"]
  /\ retired <= COMMIT_WIDTH
  /\ stage \in {"loop", "advance", "backend", "done"} => retired = 0

LEMMA ProfileNumbers ==
  ASSUME TypeOK
  PROVE  /\ profiler \in Profile
         /\ profiler.total_cycles \in Nat /\ profiler.retired_insts \in Nat
         /\ profiler.total_cycles_baseline \in Nat
         /\ profiler.retired_insts_baseline \in Nat
         /\ profiler.topdown_counters \in [Buckets -> Nat]
         /\ \A b \in Buckets : profiler.topdown_counters[b] \in Nat
BY DEF TypeOK, Profile

\* One bucket more is one cycle more.
LEMMA SumOneMore ==
  ASSUME NEW c \in [Buckets -> Nat], NEW b \in Buckets
  PROVE  LET d == [c EXCEPT ![b] = @ + 1]
         IN  /\ Sum(d) = Sum(c) + 1
             /\ b = "RETIRING" => d["RETIRING"] = c["RETIRING"] + 1
             /\ b # "RETIRING" => d["RETIRING"] = c["RETIRING"]
<1>. DEFINE d == [c EXCEPT ![b] = @ + 1]
<1>1. \A x \in Buckets : c[x] \in Nat /\ d[x] = IF x = b THEN c[x] + 1 ELSE c[x]
  OBVIOUS
<1>. HIDE DEF d
<1>2. {"RETIRING", "FRONTEND_BOUND", "BACKEND_MEMORY_BOUND", "BACKEND_CORE_BOUND",
       "BAD_SPECULATION", "OTHER"} = Buckets
  BY DEF Buckets
<1>3. Sum(d) = Sum(c) + 1
  BY <1>1, <1>2 DEF Sum
<1>. QED  BY <1>1, <1>2, <1>3 DEF d

LEMMA MarkKeepsLedger ==
  ASSUME TypeOK, Ledger, MarkCycle
  PROVE  Ledger'
<1>. DEFINE c == profiler.topdown_counters
            b == Bucket(retired > 0, fetch_stall.reason, frontend_stalled, backend_stall)
            d == [c EXCEPT ![b] = @ + 1]
<1>1. /\ retired \in Nat /\ total_cycles \in Nat /\ instructions_retired \in Nat
      /\ inst_retired_baseline \in Nat /\ total_cycles_baseline \in Nat
      /\ COMMIT_WIDTH \in Nat \ {0}
      /\ profiler.retired_insts \in Nat /\ c \in [Buckets -> Nat] /\ profiler \in Profile
  BY Numbers, ProfileNumbers, Sizes
<1>2. b \in Buckets /\ (retired > 0 => b = "RETIRING") /\ (~(retired > 0) => b # "RETIRING")
  BY DEF Bucket, Buckets
<1>. HIDE DEF b
<1>3. profiler' = [profiler EXCEPT !.retired_insts = @ + retired,
                                   !.total_cycles = total_cycles + 1,
                                   !.topdown_counters[b] = @ + 1]
  BY DEF MarkCycle, b
<1>4. /\ profiler'.total_cycles = total_cycles + 1
      /\ profiler'.total_cycles_baseline = profiler.total_cycles_baseline
      /\ profiler'.retired_insts_baseline = profiler.retired_insts_baseline
      /\ profiler'.retired_insts = profiler.retired_insts + retired
      /\ profiler'.topdown_counters = d
  <2>. DEFINE q == [profiler EXCEPT !.retired_insts = @ + retired,
                                    !.total_cycles = total_cycles + 1]
  <2>1. /\ q.total_cycles = total_cycles + 1
        /\ q.total_cycles_baseline = profiler.total_cycles_baseline
        /\ q.retired_insts_baseline = profiler.retired_insts_baseline
        /\ q.retired_insts = profiler.retired_insts + retired
        /\ q.topdown_counters = c
    BY <1>1 DEF Profile
  <2>2. profiler' = [q EXCEPT !.topdown_counters = [c EXCEPT ![b] = @ + 1]]
    BY <1>3, <2>1
  <2>. HIDE DEF q
  <2>. QED  BY <2>1, <2>2
<1>5. /\ total_cycles' = total_cycles + 1 /\ retired' = 0
      /\ instructions_retired' = instructions_retired
      /\ inst_retired_baseline' = inst_retired_baseline
      /\ total_cycles_baseline' = total_cycles_baseline
  BY DEF MarkCycle, warmupVars
<1>6. /\ Sum(d) = Sum(c) + 1
      /\ b = "RETIRING" => d["RETIRING"] = c["RETIRING"] + 1
      /\ b # "RETIRING" => d["RETIRING"] = c["RETIRING"]
  BY <1>1, <1>2, SumOneMore
<1>7. Sum(c) \in Nat /\ c["RETIRING"] \in Nat
  BY <1>1 DEF Sum, Buckets
<1>. HIDE DEF c, d
<1>8. total_cycles' = total_cycles_baseline' + Sum(profiler'.topdown_counters)
  BY <1>1, <1>4, <1>5, <1>6, <1>7 DEF Ledger, c
<1>9. COMMIT_WIDTH * (c["RETIRING"] + 1) = COMMIT_WIDTH * c["RETIRING"] + COMMIT_WIDTH
      /\ COMMIT_WIDTH * c["RETIRING"] \in Nat
  BY <1>1, <1>7
<1>10. /\ d["RETIRING"] <= profiler'.retired_insts - inst_retired_baseline'
       /\ profiler'.retired_insts - inst_retired_baseline' <= COMMIT_WIDTH * d["RETIRING"]
  <2>1. /\ c["RETIRING"] <= profiler.retired_insts - inst_retired_baseline
        /\ profiler.retired_insts - inst_retired_baseline <= COMMIT_WIDTH * c["RETIRING"]
        /\ retired <= COMMIT_WIDTH
    BY DEF Ledger, c
  <2>2. CASE retired > 0
    <3>1. d["RETIRING"] = c["RETIRING"] + 1
      BY <1>2, <1>6, <2>2
    <3>. QED  BY <1>1, <1>4, <1>5, <1>7, <1>9, <2>1, <2>2, <3>1
  <2>3. CASE ~(retired > 0)
    <3>1. d["RETIRING"] = c["RETIRING"] /\ retired = 0
      BY <1>1, <1>2, <1>6, <2>3
    <3>. QED  BY <1>1, <1>4, <1>5, <1>7, <2>1, <3>1
  <2>. QED  BY <2>2, <2>3
<1>. QED  BY <1>1, <1>4, <1>5, <1>8, <1>10 DEF Ledger

LEMMA WarmupKeepsLedger ==
  ASSUME TypeOK, Ledger, WarmupEnds
  PROVE  Ledger'
<1>1. /\ retired \in Nat /\ total_cycles \in Nat /\ instructions_retired \in Nat
      /\ COMMIT_WIDTH \in Nat \ {0}
      /\ profiler.retired_insts \in Nat /\ profiler \in Profile
  BY Numbers, ProfileNumbers, Sizes
<1>2. /\ profiler'.total_cycles = profiler.total_cycles
      /\ profiler'.retired_insts = profiler.retired_insts
      /\ profiler'.total_cycles_baseline = profiler.total_cycles
      /\ profiler'.retired_insts_baseline = profiler.retired_insts
      /\ profiler'.topdown_counters = NoCycles
  BY <1>1 DEF WarmupEnds, reset, Profile
<1>3. /\ total_cycles' = total_cycles /\ retired' = retired /\ stage' = "backend"
      /\ instructions_retired' = instructions_retired
      /\ inst_retired_baseline' = instructions_retired
      /\ total_cycles_baseline' = total_cycles
  BY DEF WarmupEnds, afterAdvance, backVars
<1>4. Sum(NoCycles) = 0 /\ NoCycles["RETIRING"] = 0
  BY DEF Sum, NoCycles, Buckets
<1>5. retired = 0
  BY DEF Ledger, WarmupEnds
<1>. QED  BY <1>1, <1>2, <1>3, <1>4, <1>5 DEF Ledger

LEMMA DeliverKeepsLedger ==
  ASSUME TypeOK, Ledger, NEW i \in Insts, NEW p \in BOOLEAN, Deliver(i, p)
  PROVE  Ledger'
<1>1. profiler \in Profile
  BY ProfileNumbers
<1>2. profiler' = Counted(i, p)
  BY DEF Deliver
<1>3. /\ profiler'.total_cycles = profiler.total_cycles
      /\ profiler'.retired_insts = profiler.retired_insts
      /\ profiler'.total_cycles_baseline = profiler.total_cycles_baseline
      /\ profiler'.retired_insts_baseline = profiler.retired_insts_baseline
      /\ profiler'.topdown_counters = profiler.topdown_counters
  BY <1>1, <1>2 DEF Counted, Profile
<1>4. UNCHANGED <<total_cycles, retired, instructions_retired, inst_retired_baseline,
                  total_cycles_baseline>> /\ stage' \in {"mark", "fetch"}
  BY DEF Deliver, backVars, warmupVars
<1>. QED  BY <1>3, <1>4 DEF Ledger

LEMMA BackEndKeepsLedger ==
  ASSUME TypeOK, Ledger, NEW n \in 0 .. COMMIT_WIDTH, NEW k \in 0 .. Len(inst_buffer),
         NEW reason \in StallReasons, NEW busy \in Nat, BackEnd(n, k, reason, busy)
  PROVE  Ledger'
<1>1. /\ retired = 0 /\ retired' = n /\ stage' = "fetch"
      /\ instructions_retired' = instructions_retired + n
      /\ UNCHANGED <<profiler, total_cycles, inst_retired_baseline, total_cycles_baseline>>
  BY DEF BackEnd, Ledger, warmupVars
<1>2. profiler.retired_insts \in Nat /\ instructions_retired \in Nat /\ n \in Nat
      /\ n <= COMMIT_WIDTH
  BY Numbers, ProfileNumbers, Sizes
<1>. QED  BY <1>1, <1>2 DEF Ledger

LEMMA StepLedger == TypeOK /\ Ledger /\ [Next]_vars => Ledger'
<1>. SUFFICES ASSUME TypeOK, Ledger, [Next]_vars PROVE Ledger'
  OBVIOUS
<1>. DEFINE Still == /\ UNCHANGED <<profiler, total_cycles, retired, instructions_retired,
                                    inst_retired_baseline, total_cycles_baseline>>
                     /\ stage' \in {"loop", "advance", "backend", "done"} =>
                          stage \in {"loop", "advance", "backend", "done"}
<1>0. Still => Ledger'
  BY DEF Ledger
<1>. USE DEF backVars, warmupVars
<1>1. ASSUME NEW i \in Insts, FetchBlocked(i) PROVE Still
  BY <1>1 DEF FetchBlocked, gaveBack
<1>2. ASSUME NEW i \in Insts, NEW ready \in Nat, FetchMiss(i, ready) PROVE Still
  BY <1>2 DEF FetchMiss, gaveBack
<1>3. ASSUME NEW i \in Insts, LineBoundary(i) PROVE Still
  BY <1>3 DEF LineBoundary, gaveBack
<1>4. ASSUME BeginCycle \/ Finish PROVE Still
  BY <1>4 DEF BeginCycle, Finish
<1>5. ASSUME StaysInWarmup \/ Measures PROVE Still
  BY <1>5 DEF StaysInWarmup, Measures, afterAdvance
<1>6. ASSUME EndTrace \/ FetchDone PROVE Still
  BY <1>6 DEF EndTrace, FetchDone
<1>7. ASSUME UNCHANGED vars PROVE Still
  BY <1>7 DEF vars
<1>. QED
  <2>. HIDE DEF Still
  <2>. QED  BY <1>0, <1>1, <1>2, <1>3, <1>4, <1>5, <1>6, <1>7, Steps, DeliverKeepsLedger,
               BackEndKeepsLedger, MarkKeepsLedger, WarmupKeepsLedger

\* Between two cycles the profiler and the simulator agree, and each cycle
\* since the measurement began is in exactly one bucket.
THEOREM Accounts == Spec => []CyclesAccounted
<1>1. Init => Ledger
  BY Sizes DEF Init, Ledger, NewProfiler, NoCycles, Sum, Buckets
<1>2. TypeOK /\ Ledger /\ [Next]_vars => Ledger'
  BY StepLedger
<1>3. TypeOK /\ Ledger => CyclesAccounted
  <2>. SUFFICES ASSUME TypeOK, Ledger, stage \in {"loop", "done"} PROVE CyclesAccounted
    BY DEF CyclesAccounted
  <2>1. /\ retired = 0 /\ total_cycles \in Nat /\ total_cycles_baseline \in Nat
        /\ profiler.retired_insts \in Nat /\ Sum(profiler.topdown_counters) \in Nat
    BY Numbers, ProfileNumbers DEF Ledger, Sum, Buckets
  <2>2. profiler.retired_insts = instructions_retired
    BY <2>1 DEF Ledger
  <2>3. total_cycles - total_cycles_baseline = Sum(profiler.topdown_counters)
    BY <2>1 DEF Ledger
  <2>. QED  BY <2>2, <2>3 DEF Ledger, CyclesAccounted, rel_retired, Sum
<1>. QED  BY <1>1, <1>2, <1>3, TypeCorrect, PTL DEF Spec

-----------------------------------------------------------------------------
(* The warm-up and the sample                                              *)

\* The last count the warm-up can end with: the instructions of one cycle.
LastOfWarmup == WARMUP_INSTRUCTIONS + COMMIT_WIDTH - 1

\* While it lasts, the warm-up is not complete when a cycle begins.
WarmupRuns ==
  in_warmup => /\ mode = "RESTORE" /\ WARMUP_INSTRUCTIONS > 0
               /\ instructions_retired <= LastOfWarmup
               /\ stage = "backend" => instructions_retired < WARMUP_INSTRUCTIONS

\* The measurement began when the warm-up had just been completed.
WarmupEnded ==
  mode = "RESTORE" /\ ~in_warmup /\ WARMUP_INSTRUCTIONS > 0 =>
    inst_retired_baseline \in WARMUP_INSTRUCTIONS .. LastOfWarmup

\* What ends a trace that the program did not end.
SampleComplete ==
  IF mode = "RESTORE" THEN ~in_warmup /\ rel_retired >= SAMPLE_INSTRUCTIONS
                      ELSE instructions_retired >= max_instructions

Measurement ==
  /\ WarmupRuns
  /\ WarmupEnded
  /\ sim_end /\ ~ebreak => SampleComplete
  /\ stage = "done" => TimedOut \/ sim_end

LEMMA InitMeasurement == Init => Measurement
<1>. SUFFICES ASSUME Init PROVE Measurement
  OBVIOUS
<1>1. instructions_retired = 0 /\ stage = "loop" /\ ~sim_end
  BY DEF Init
<1>2. in_warmup <=> (mode = "RESTORE" /\ WARMUP_INSTRUCTIONS > 0)
  BY DEF Init
<1>3. 0 <= LastOfWarmup
  BY Sizes DEF LastOfWarmup
<1>. QED  BY <1>1, <1>2, <1>3 DEF Measurement, WarmupRuns, WarmupEnded

LEMMA StepMeasurement == TypeOK /\ Measurement /\ [Next]_vars => Measurement'
<1>. SUFFICES ASSUME TypeOK, Measurement, [Next]_vars PROVE Measurement'
  OBVIOUS
<1>0. /\ instructions_retired \in Nat /\ inst_retired_baseline \in Nat
      /\ total_cycles \in Nat
      /\ in_warmup \in BOOLEAN /\ sim_end \in BOOLEAN /\ ebreak \in BOOLEAN
      /\ WARMUP_INSTRUCTIONS \in Nat /\ COMMIT_WIDTH \in Nat \ {0}
      /\ SAMPLE_INSTRUCTIONS \in Nat /\ max_instructions \in Nat /\ MAX_SIM_TIME \in Nat
      /\ LastOfWarmup \in Nat
  BY Numbers, Flags, Sizes DEF LastOfWarmup
<1>. DEFINE Still == /\ UNCHANGED <<mode, in_warmup, instructions_retired,
                                    inst_retired_baseline, sim_end, ebreak>>
                     /\ stage' \notin {"backend", "done"}
<1>. USE DEF Measurement, WarmupRuns, WarmupEnded, SampleComplete, rel_retired, TimedOut
<1>1. Still => Measurement'
  OBVIOUS
<1>2. ASSUME UNCHANGED vars PROVE Measurement'
  BY <1>2 DEF vars, buildVars, refVars, backVars, warmupVars
<1>3. CASE BeginCycle
  BY <1>3, <1>1 DEF BeginCycle, buildVars, refVars, backVars, warmupVars
<1>4. CASE Finish
  BY <1>4 DEF Finish, Drained, buildVars, refVars, backVars, warmupVars
<1>5. CASE WarmupEnds
  <2>1. /\ in_warmup /\ in_warmup' = FALSE /\ mode' = mode /\ stage' = "backend"
        /\ WARMUP_INSTRUCTIONS <= instructions_retired
        /\ inst_retired_baseline' = instructions_retired
        /\ instructions_retired' = instructions_retired
        /\ sim_end' = sim_end /\ ebreak' = ebreak
    BY <1>0, <1>5 DEF WarmupEnds, afterAdvance, buildVars, backVars
  <2>2. mode = "RESTORE" /\ ~(sim_end /\ ~ebreak)
    BY <2>1
  <2>. QED  BY <1>0, <2>1, <2>2
<1>6. CASE StaysInWarmup
  BY <1>0, <1>6 DEF StaysInWarmup, afterAdvance, buildVars, backVars, warmupVars
<1>7. CASE Measures
  <2>1. /\ ~in_warmup /\ sim_end' = (sim_end \/ LimitReached) /\ stage' = "backend"
        /\ UNCHANGED <<mode, in_warmup, instructions_retired, inst_retired_baseline, ebreak>>
    BY <1>7 DEF Measures, afterAdvance, buildVars, backVars, warmupVars
  <2>2. LimitReached => SampleComplete
    BY <2>1 DEF LimitReached
  <2>3. SampleComplete' <=> SampleComplete
    BY <2>1
  <2>. HIDE DEF SampleComplete
  <2>. QED  BY <2>1, <2>2, <2>3
<1>8. ASSUME NEW n \in 0 .. COMMIT_WIDTH, NEW k \in 0 .. Len(inst_buffer),
             NEW reason \in StallReasons, NEW busy \in Nat, BackEnd(n, k, reason, busy)
      PROVE  Measurement'
  <2>1. /\ stage = "backend" /\ stage' = "fetch" /\ n \in Nat /\ n <= COMMIT_WIDTH
        /\ instructions_retired' = instructions_retired + n
        /\ UNCHANGED <<mode, in_warmup, inst_retired_baseline, sim_end, ebreak>>
    BY <1>0, <1>8 DEF BackEnd, buildVars, refVars, warmupVars
  <2>2. in_warmup => instructions_retired' <= LastOfWarmup
    BY <1>0, <2>1 DEF LastOfWarmup
  <2>. QED  BY <1>0, <2>1, <2>2
<1>9. ASSUME NEW i \in Insts, FetchBlocked(i) PROVE Still
  BY <1>9 DEF FetchBlocked, gaveBack, buildVars, backVars, warmupVars
<1>10. ASSUME NEW i \in Insts, NEW ready \in Nat, FetchMiss(i, ready) PROVE Still
  BY <1>10 DEF FetchMiss, gaveBack, buildVars, backVars, warmupVars
<1>11. ASSUME NEW i \in Insts, LineBoundary(i) PROVE Still
  BY <1>11 DEF LineBoundary, gaveBack, buildVars, backVars, warmupVars
<1>12. ASSUME NEW i \in Insts, NEW p \in BOOLEAN, Deliver(i, p) PROVE Still
  BY <1>12 DEF Deliver, buildVars, backVars, warmupVars
<1>13. CASE EndTrace
  BY <1>0, <1>13 DEF EndTrace, buildVars, backVars, warmupVars
<1>14. CASE FetchDone
  BY <1>14, <1>1 DEF FetchDone, buildVars, refVars, backVars, warmupVars
<1>15. CASE MarkCycle
  <2>1. /\ UNCHANGED <<mode, in_warmup, instructions_retired, inst_retired_baseline,
                       sim_end, ebreak>>
        /\ total_cycles' = total_cycles + 1
        /\ stage' = IF total_cycles + 1 > MAX_SIM_TIME THEN "done" ELSE "loop"
    BY <1>15 DEF MarkCycle, buildVars, refVars, warmupVars
  <2>. QED  BY <1>0, <2>1
<1>. QED
  <2>. HIDE DEF Measurement, Still
  <2>. QED  BY <1>1, <1>2, <1>3, <1>4, <1>5, <1>6, <1>7, <1>8, <1>9, <1>10, <1>11, <1>12,
               <1>13, <1>14, <1>15, Steps

\* The sample begins with the first cycle after the warm-up, and a run that
\* the program does not end measures all of it.
THEOREM SampleWhole == Spec => []MeasuresWholeSample
<1>1. Init => Measurement
  BY InitMeasurement
<1>2. TypeOK /\ Measurement /\ [Next]_vars => Measurement'
  BY StepMeasurement
<1>3. Measurement => MeasuresWholeSample
  BY DEF Measurement, WarmupEnded, LastOfWarmup, SampleComplete, MeasuresWholeSample
<1>. QED  BY <1>1, <1>2, <1>3, TypeCorrect, PTL DEF Spec

-----------------------------------------------------------------------------
(* Recursive functions over 0 .. N                                         *)

NatLess == OpToRel(<, Nat)

\* What holds of zero, and of a number if of the one before it, holds up to N.
LEMMA UpTo ==
  ASSUME NEW N \in Nat, NEW T, 0 \in T, \A n \in 1 .. N : n - 1 \in T => n \in T
  PROVE  0 .. N \subseteq T
<1>. DEFINE Rest == {n \in 0 .. N : n \notin T}
<1>. SUFFICES ASSUME Rest # {} PROVE FALSE
  OBVIOUS
<1>1. PICK x \in Rest : \A y \in Rest : <<y, x>> \notin NatLess
  <2>1. Rest \subseteq Nat
    OBVIOUS
  <2>. HIDE DEF Rest
  <2>. QED  BY <2>1, NatLessThanWellFounded, WFMin DEF NatLess
<1>2. \A a, b \in Nat : b < a => <<b, a>> \in NatLess
  BY DEF NatLess, OpToRel
<1>3. x \in 1 .. N /\ x - 1 \in 0 .. N
  OBVIOUS
<1>4. <<x - 1, x>> \in NatLess
  BY <1>2, <1>3
<1>5. x - 1 \notin Rest
  BY <1>1, <1>4
<1>. QED  BY <1>3, <1>5

\* f is given at zero, and by a step from the value before it.
Follows(f, m, base, step) ==
  f[0] = base /\ \A n \in 1 .. m : f[n] = step[n][f[n - 1]]

\* There is such a function: what the recursive definitions rest on.
LEMMA Recursion ==
  ASSUME NEW N \in Nat, NEW S, NEW base \in S, NEW step \in [1 .. N -> [S -> S]]
  PROVE  \E f \in [0 .. N -> S] : Follows(f, N, base, step)
<1>. DEFINE T == {m \in 0 .. N : \E f \in [0 .. m -> S] : Follows(f, m, base, step)}
<1>1. 0 \in T
  <2>. DEFINE g == [n \in 0 .. 0 |-> base]
  <2>1. g \in [0 .. 0 -> S] /\ Follows(g, 0, base, step)
    BY DEF Follows
  <2>. HIDE DEF g
  <2>. QED  BY <2>1
<1>2. ASSUME NEW m \in 1 .. N, m - 1 \in T
      PROVE  m \in T
  <2>1. PICK f \in [0 .. m - 1 -> S] : Follows(f, m - 1, base, step)
    BY <1>2
  <2>. DEFINE g == [n \in 0 .. m |-> IF n = m THEN step[m][f[m - 1]] ELSE f[n]]
  <2>2. m \in Nat /\ m - 1 \in 0 .. m - 1 /\ step[m][f[m - 1]] \in S
    OBVIOUS
  <2>3. g \in [0 .. m -> S]
    BY <2>2
  <2>4. Follows(g, m, base, step)
    BY <2>1, <2>2 DEF Follows
  <2>. HIDE DEF g
  <2>. QED  BY <2>3, <2>4
<1>. HIDE DEF T
<1>3. 0 .. N \subseteq T
  BY <1>1, <1>2, UpTo
<1>. QED  BY <1>3 DEF T

-----------------------------------------------------------------------------
(* The history                                                             *)

\* bit[d] is the history before branch j of bs in its d low bits.
LowBits(bit, bs, j) ==
  /\ bit[0] = 0
  /\ \A d \in 1 .. HistoryBits :
       bit[d] = bit[d - 1] + (IF d < j THEN 2 ^ (d - 1) * Outcome(bs[j - d].taken) ELSE 0)

\* HistoryBefore is what its recursive definition says.
LEMMA HistoryFunction ==
  ASSUME NEW bs \in Seq(Insts), NEW j \in 1 .. Len(bs) + 1
  PROVE  \E bit \in [0 .. HistoryBits -> Nat] :
           LowBits(bit, bs, j) /\ HistoryBefore(bs, j) = bit[HistoryBits]
<1>. DEFINE add(d) == IF d < j THEN 2 ^ (d - 1) * Outcome(bs[j - d].taken) ELSE 0
            Eq(f) == f = [d \in 0 .. HistoryBits |-> IF d = 0 THEN 0
                  ELSE f[d - 1] + add(d)]
            bit[d \in 0 .. HistoryBits] == IF d = 0 THEN 0
                  ELSE bit[d - 1] + (IF d < j THEN 2 ^ (d - 1) * Outcome(bs[j - d].taken) ELSE 0)
<1>1. HistoryBefore(bs, j) = bit[HistoryBits]
  BY DEF HistoryBefore
<1>2. ASSUME NEW f, Eq(f) PROVE Eq(bit)
  BY <1>2
<1>. DEFINE step == [d \in 1 .. HistoryBits |-> [b \in Nat |-> b + add(d)]]
<1>3. HistoryBits \in Nat /\ 2 ^ 0 = 1
  BY FrontendAssumption
<1>4. \A d \in 1 .. HistoryBits : add(d) \in Nat
  <2>. SUFFICES ASSUME NEW d \in 1 .. HistoryBits, d < j
                PROVE  2 ^ (d - 1) * Outcome(bs[j - d].taken) \in Nat
    OBVIOUS
  <2>1. 2 ^ (d - 1) \in Nat
    BY <1>3, PowerAssumption
  <2>2. Outcome(bs[j - d].taken) \in Nat
    BY DEF Outcome
  <2>. HIDE DEF add
  <2>. QED  BY ONLY <2>1, <2>2
<1>. HIDE DEF add
<1>5. step \in [1 .. HistoryBits -> [Nat -> Nat]]
  BY <1>4
<1>6. PICK f \in [0 .. HistoryBits -> Nat] : Follows(f, HistoryBits, 0, step)
  <2>. HIDE DEF step
  <2>. QED  BY <1>3, <1>5, Recursion
<1>7. Eq(f)
  <2>1. ASSUME NEW d \in 1 .. HistoryBits
        PROVE  d - 1 \in 0 .. HistoryBits /\ f[d] = step[d][f[d - 1]]
    <3>. HIDE DEF step
    <3>. QED  BY <1>3, <1>6 DEF Follows
  <2>2. ASSUME NEW d \in 1 .. HistoryBits
        PROVE  f[d] = f[d - 1] + add(d)
    BY <1>6, <2>1
  <2>3. \A d \in 0 .. HistoryBits : f[d] = IF d = 0 THEN 0 ELSE f[d - 1] + add(d)
    <3>1. f[0] = 0
      <4>. HIDE DEF step
      <4>. QED  BY <1>6 DEF Follows
    <3>2. \A d \in 0 .. HistoryBits : d # 0 => d \in 1 .. HistoryBits
      BY <1>3
    <3>. QED  BY <2>2, <3>1, <3>2
  <2>. QED  BY <1>6, <2>3
<1>8. Eq(bit)
  BY <1>2, <1>7
<1>. HIDE DEF bit
<1>9. /\ bit[0] = 0
      /\ \A d \in 1 .. HistoryBits : bit[d] = bit[d - 1] + add(d)
  BY <1>3, <1>8
<1>. DEFINE Natural == {d \in 0 .. HistoryBits : bit[d] \in Nat}
<1>10. 0 .. HistoryBits \subseteq Natural
  <2>1. ASSUME NEW d \in 1 .. HistoryBits, d - 1 \in Natural
        PROVE  d \in Natural
    BY <1>4, <1>9, <2>1
  <2>2. 0 \in Natural
    BY <1>3, <1>9
  <2>. HIDE DEF Natural
  <2>. QED  BY <1>3, <2>1, <2>2, UpTo
<1>11. bit \in [0 .. HistoryBits -> Nat]
  BY <1>8, <1>10
<1>12. LowBits(bit, bs, j)
  BY <1>9 DEF LowBits, add
<1>. QED  BY <1>1, <1>11, <1>12

\* The powers of two that PowerAssumption speaks of, zero included.
LEMMA Powers ==
  /\ HistoryBits \in Nat \ {0} /\ 2 ^ 0 = 1
  /\ \A d \in 0 .. HistoryBits : 2 ^ d \in Nat
  /\ \A d \in 1 .. HistoryBits : 2 ^ d = 2 * 2 ^ (d - 1)
  /\ TableSize = 2 ^ HistoryBits
<1>1. HistoryBits \in Nat \ {0} /\ 2 ^ 0 = 1
  BY FrontendAssumption
<1>2. \A d \in 0 .. HistoryBits : d = 0 \/ d \in 1 .. HistoryBits
  BY <1>1
<1>. QED  BY <1>1, <1>2, PowerAssumption DEF TableSize

\* A product of a power and an outcome.
LEMMA Weight ==
  ASSUME NEW p \in Nat, NEW taken
  PROVE  /\ p * Outcome(taken) \in {0, p}
         /\ 2 * (p * Outcome(taken)) = (2 * p) * Outcome(taken)
         /\ Outcome(taken) \in {0, 1}
BY DEF Outcome

\* One more branch: the history before the one that follows it.
LEMMA HistoryAppended ==
  ASSUME NEW bs \in Seq(Insts), NEW x \in Insts
  PROVE  HistoryBefore(Append(bs, x), Len(bs) + 2)
           = Shifted(HistoryBefore(bs, Len(bs) + 1), x.taken)
<1>. DEFINE n == Len(bs)
            cs == Append(bs, x)
            o == Outcome(x.taken)
            H == HistoryBits
<1>1. /\ n \in Nat /\ cs \in Seq(Insts) /\ Len(cs) = n + 1
      /\ cs[n + 1] = x /\ \A k \in 1 .. n : cs[k] = bs[k]
  BY AppendProperties
<1>. DEFINE old(d) == IF d < n + 1 THEN 2 ^ (d - 1) * Outcome(bs[n + 1 - d].taken) ELSE 0
            new(d) == IF d < n + 2 THEN 2 ^ (d - 1) * Outcome(cs[n + 2 - d].taken) ELSE 0
<1>2. PICK b \in [0 .. H -> Nat] :
        LowBits(b, bs, n + 1) /\ HistoryBefore(bs, n + 1) = b[H]
  BY <1>1, HistoryFunction
<1>3. PICK c \in [0 .. H -> Nat] :
        LowBits(c, cs, n + 2) /\ HistoryBefore(cs, n + 2) = c[H]
  <2>1. n + 2 \in 1 .. Len(cs) + 1
    BY <1>1
  <2>. HIDE DEF n, cs
  <2>. QED  BY <1>1, <2>1, HistoryFunction
<1>2a. b[0] = 0 /\ \A d \in 1 .. H : b[d] = b[d - 1] + old(d)
  BY <1>2 DEF LowBits
<1>3a. c[0] = 0 /\ \A d \in 1 .. H : c[d] = c[d - 1] + new(d)
  BY <1>3 DEF LowBits
<1>4. ASSUME NEW d \in 1 .. H
      PROVE  old(d) \in {0, 2 ^ (d - 1)}
  BY Powers, Weight
<1>5. new(1) = o
  BY <1>1, Powers DEF Outcome
<1>6. ASSUME NEW d \in 2 .. H
      PROVE  new(d) = 2 * old(d - 1)
  <2>1. d - 1 \in 1 .. H /\ d - 2 \in 0 .. H /\ d - 1 - 1 = d - 2 /\ n + 2 - d = n + 1 - (d - 1)
    BY <1>1, Powers
  <2>2. d < n + 2 <=> d - 1 < n + 1
    BY <1>1, <2>1
  <2>3. 2 ^ (d - 1) = 2 * 2 ^ (d - 2) /\ 2 ^ (d - 2) \in Nat
    BY <2>1, Powers
  <2>4. CASE d < n + 2
    <3>1. cs[n + 2 - d] = bs[n + 1 - (d - 1)]
      BY <1>1, <2>1, <2>4
    <3>. DEFINE taken == bs[n + 1 - (d - 1)].taken
                p == 2 ^ (d - 2)
    <3>2. p \in Nat /\ 2 ^ (d - 1) = 2 * p
      BY <2>3
    <3>3. new(d) = 2 ^ (d - 1) * Outcome(taken) /\ old(d - 1) = p * Outcome(taken)
      BY <2>1, <2>2, <2>4, <3>1
    <3>. HIDE DEF old, new, p, taken
    <3>4. 2 * (p * Outcome(taken)) = (2 * p) * Outcome(taken)
      BY <3>2, Weight
    <3>. QED  BY ONLY <3>2, <3>3, <3>4
  <2>5. CASE ~ (d < n + 2)
    BY <2>2, <2>5
  <2>. QED  BY <2>4, <2>5
<1>7. HistoryBits \in Nat \ {0} /\ o \in {0, 1}
  BY Powers, Weight
<1>. HIDE DEF old, new, n, cs, o
<1>. DEFINE Below == {d \in 0 .. H : b[d] < 2 ^ d}
            Double == {d \in 0 .. H : d = 0 \/ c[d] = o + 2 * b[d - 1]}
<1>8. 0 .. H \subseteq Below
  <2>1. 0 \in Below
    BY <1>2, <1>2a, Powers
  <2>2. ASSUME NEW d \in 1 .. H, d - 1 \in Below
        PROVE  d \in Below
    <3>1. d - 1 \in 0 .. H /\ d \in 0 .. H
      BY <1>7
    <3>2. b[d] = b[d - 1] + old(d) /\ b[d - 1] \in Nat /\ b[d - 1] < 2 ^ (d - 1)
      BY <1>2, <1>2a, <2>2, <3>1
    <3>3. 2 ^ d = 2 * 2 ^ (d - 1) /\ 2 ^ (d - 1) \in Nat
      BY <3>1, Powers
    <3>4. old(d) \in {0, 2 ^ (d - 1)}
      BY <1>4
    <3>5. b[d] < 2 ^ d
      BY ONLY <3>2, <3>3, <3>4
    <3>. QED  BY <3>1, <3>5
  <2>. HIDE DEF Below
  <2>. QED  BY <1>7, <2>1, <2>2, UpTo
<1>9. 0 .. H \subseteq Double
  <2>1. 0 \in Double
    BY <1>7
  <2>2. ASSUME NEW d \in 1 .. H, d - 1 \in Double
        PROVE  d \in Double
    <3>1. CASE d = 1
      BY <1>2, <1>2a, <1>3, <1>3a, <1>5, <1>7, <3>1
    <3>2. CASE d # 1
      <4>1. d \in 2 .. H /\ d - 1 \in 1 .. H /\ d - 2 \in 0 .. H /\ d - 1 - 1 = d - 2
        BY <1>7, <3>2
      <4>2. c[d] = c[d - 1] + new(d) /\ b[d - 1] = b[d - 2] + old(d - 1)
        BY <1>2, <1>2a, <1>3, <1>3a, <4>1
      <4>3. c[d - 1] = o + 2 * b[d - 2]
        BY <2>2, <4>1
      <4>4. new(d) = 2 * old(d - 1)
        BY <1>6, <4>1
      <4>5. old(d - 1) \in Nat
        <5>1. old(d - 1) \in {0, 2 ^ (d - 2)}
          BY <1>4, <4>1
        <5>. QED  BY <4>1, <5>1, Powers
      <4>6. b[d - 1] \in Nat /\ b[d - 2] \in Nat /\ o \in Nat
        BY <1>2, <1>2a, <1>7, <4>1
      <4>7. c[d] = o + 2 * b[d - 1]
        BY ONLY <4>2, <4>3, <4>4, <4>5, <4>6
      <4>. QED  BY <4>7, <1>7
    <3>. QED  BY <3>1, <3>2
  <2>. HIDE DEF Double
  <2>. QED  BY <1>7, <2>1, <2>2, UpTo
<1>10. b[H] < 2 ^ H /\ b[H] = b[H - 1] + old(H) /\ b[H - 1] < 2 ^ (H - 1)
       /\ c[H] = o + 2 * b[H - 1] /\ b[H] \in Nat /\ b[H - 1] \in Nat
  <2>1. H \in 1 .. H /\ H \in 0 .. H /\ H - 1 \in 0 .. H
    BY <1>7
  <2>. QED  BY <1>2, <1>2a, <1>7, <1>8, <1>9, <2>1
<1>11. old(H) \in {0, 2 ^ (H - 1)} /\ 2 ^ H = 2 * 2 ^ (H - 1) /\ 2 ^ (H - 1) \in Nat
  BY <1>4, <1>7, Powers
<1>12. c[H] = (2 * b[H] + o) % 2 ^ H
  <2>. DEFINE p == 2 ^ (H - 1)
              size == 2 ^ H
              low == b[H - 1]
              most == b[H]
              result == c[H]
              bit == old(H)
  <2>1. /\ p \in Nat /\ size = 2 * p /\ low \in Nat /\ low < p /\ bit \in {0, p}
        /\ most = low + bit /\ result = o + 2 * low /\ o \in {0, 1}
    BY <1>7, <1>10, <1>11
  <2>. HIDE DEF p, size, low, most, result, bit
  <2>2. result \in 0 .. size - 1 /\ size \in Nat \ {0}
    BY <2>1
  <2>3. 2 * most + o = result \/ 2 * most + o = result + size
    BY <2>1
  <2>4. result = (2 * most + o) % size
    BY ONLY <2>2, <2>3
  <2>. QED  BY <2>4 DEF size, most, result
<1>. DEFINE before == HistoryBefore(bs, n + 1)
            after == HistoryBefore(cs, n + 2)
<1>13. before = b[H] /\ after = c[H] /\ TableSize = 2 ^ H
  BY <1>2, <1>3, Powers
<1>. HIDE DEF before, after
<1>14. after = Shifted(before, x.taken)
  BY ONLY <1>12, <1>13 DEF Shifted, o
<1>. QED  BY <1>14 DEF before, after, n, cs

\* Branches appended do not change the history before earlier ones.
LEMMA HistoryKept ==
  ASSUME NEW bs \in Seq(Insts), NEW x \in Insts, NEW j \in 1 .. Len(bs) + 1
  PROVE  HistoryBefore(Append(bs, x), j) = HistoryBefore(bs, j)
<1>. DEFINE cs == Append(bs, x)
            H == HistoryBits
            add(s, d) == IF d < j THEN 2 ^ (d - 1) * Outcome(s[j - d].taken) ELSE 0
<1>1. /\ Len(bs) \in Nat /\ cs \in Seq(Insts) /\ Len(cs) = Len(bs) + 1
      /\ \A k \in 1 .. Len(bs) : cs[k] = bs[k]
  BY AppendProperties
<1>2. PICK b \in [0 .. H -> Nat] : LowBits(b, bs, j) /\ HistoryBefore(bs, j) = b[H]
  BY HistoryFunction
<1>3. PICK c \in [0 .. H -> Nat] : LowBits(c, cs, j) /\ HistoryBefore(cs, j) = c[H]
  <2>1. j \in 1 .. Len(cs) + 1
    BY <1>1
  <2>. HIDE DEF cs
  <2>. QED  BY <1>1, <2>1, HistoryFunction
<1>2a. b[0] = 0 /\ \A d \in 1 .. H : b[d] = b[d - 1] + add(bs, d)
  BY <1>2 DEF LowBits
<1>3a. c[0] = 0 /\ \A d \in 1 .. H : c[d] = c[d - 1] + add(cs, d)
  BY <1>3 DEF LowBits
<1>4. ASSUME NEW d \in 1 .. H
      PROVE  add(cs, d) = add(bs, d)
  <2>. SUFFICES ASSUME d < j PROVE cs[j - d] = bs[j - d]
    OBVIOUS
  <2>1. j - d \in 1 .. Len(bs)
    BY <1>1, Powers
  <2>. QED  BY <1>1, <2>1
<1>. HIDE DEF add, cs
<1>. DEFINE Same == {d \in 0 .. H : b[d] = c[d]}
<1>5. 0 .. H \subseteq Same
  <2>1. 0 \in Same
    BY <1>2, <1>2a, <1>3, <1>3a, Powers
  <2>2. ASSUME NEW d \in 1 .. H, d - 1 \in Same
        PROVE  d \in Same
    BY <1>2, <1>2a, <1>3, <1>3a, <1>4, <2>2
  <2>. HIDE DEF Same
  <2>. QED  BY <2>1, <2>2, UpTo, Powers
<1>. QED  BY <1>2, <1>2a, <1>3, <1>3a, <1>5, Powers DEF cs

-----------------------------------------------------------------------------
(* The branches of a trace                                                 *)

\* f[n]: the branches among the first n of s.
Found(f, s) ==
  /\ f \in [0 .. Len(s) -> Seq(Insts)]
  /\ f[0] = <<>>
  /\ \A n \in 1 .. Len(s) :
       f[n] = IF IsBranch(s[n]) THEN Append(f[n - 1], s[n]) ELSE f[n - 1]

\* BranchesOf is what its recursive definition says.
LEMMA BranchesFunction ==
  ASSUME NEW s \in Seq(Insts)
  PROVE  \E f : Found(f, s) /\ BranchesOf(s) = f[Len(s)]
<1>. DEFINE N == Len(s)
            Eq(f) == f = [n \in 0 .. N |->
                            IF n = 0 THEN <<>>
                            ELSE IF IsBranch(s[n]) THEN Append(f[n - 1], s[n]) ELSE f[n - 1]]
            found[n \in 0 .. N] ==
              IF n = 0 THEN <<>>
              ELSE IF IsBranch(s[n]) THEN Append(found[n - 1], s[n]) ELSE found[n - 1]
            step == [n \in 1 .. N |-> [t \in Seq(Insts) |->
                       IF IsBranch(s[n]) THEN Append(t, s[n]) ELSE t]]
<1>0. N \in Nat /\ <<>> \in Seq(Insts) /\ \A n \in 1 .. N : s[n] \in Insts
  OBVIOUS
<1>1. BranchesOf(s) = found[N]
  BY DEF BranchesOf
<1>2. ASSUME NEW f, Eq(f) PROVE Eq(found)
  BY <1>2
<1>3. \A n \in 1 .. N, t \in Seq(Insts) : Append(t, s[n]) \in Seq(Insts)
  BY <1>0
<1>4. step \in [1 .. N -> [Seq(Insts) -> Seq(Insts)]]
  BY <1>3
<1>5. PICK f \in [0 .. N -> Seq(Insts)] : Follows(f, N, <<>>, step)
  <2>. HIDE DEF step, N
  <2>. QED  BY <1>0, <1>4, Recursion
<1>6. ASSUME NEW n \in 1 .. N
      PROVE  f[n] = IF IsBranch(s[n]) THEN Append(f[n - 1], s[n]) ELSE f[n - 1]
  <2>1. f[n - 1] \in Seq(Insts) /\ f[n] = step[n][f[n - 1]]
    <3>. HIDE DEF step, N
    <3>. QED  BY <1>0, <1>5 DEF Follows
  <2>. HIDE DEF N
  <2>. QED  BY <2>1
<1>7. f[0] = <<>>
  <2>. HIDE DEF step
  <2>. QED  BY <1>5 DEF Follows
<1>8. Eq(f)
  <2>. HIDE DEF N
  <2>1. \A n \in 0 .. N : n # 0 => n \in 1 .. N
    BY <1>0
  <2>. QED  BY <1>5, <1>6, <1>7, <2>1
<1>9. Eq(found)
  BY <1>2, <1>8
<1>. HIDE DEF found, N
<1>10. /\ found[0] = <<>>
       /\ \A n \in 1 .. N : found[n] = IF IsBranch(s[n]) THEN Append(found[n - 1], s[n])
                                        ELSE found[n - 1]
  <2>1. 0 \in 0 .. N /\ \A n \in 1 .. N : n # 0 /\ n \in 0 .. N
    BY <1>0
  <2>. QED  BY <1>9, <2>1
<1>. DEFINE Typed == {n \in 0 .. N : found[n] \in Seq(Insts)}
<1>11. 0 .. N \subseteq Typed
  <2>1. ASSUME NEW n \in 1 .. N, n - 1 \in Typed
        PROVE  n \in Typed
    <3>1. found[n - 1] \in Seq(Insts) /\ n \in 0 .. N
      BY <1>0, <2>1
    <3>. QED  BY <1>3, <1>10, <3>1
  <2>2. 0 \in Typed
    <3>1. 0 \in 0 .. N /\ found[0] \in Seq(Insts)
      BY <1>0, <1>10
    <3>. QED  BY <3>1
  <2>. HIDE DEF Typed
  <2>. QED  BY <1>0, <2>1, <2>2, UpTo
<1>12. found \in [0 .. N -> Seq(Insts)]
  BY <1>9, <1>11
<1>. QED  BY <1>1, <1>10, <1>12 DEF Found, N

\* One more instruction.
LEMMA BranchesAppended ==
  ASSUME NEW s \in Seq(Insts), NEW i \in Insts
  PROVE  BranchesOf(Append(s, i))
           = IF IsBranch(i) THEN Append(BranchesOf(s), i) ELSE BranchesOf(s)
<1>. DEFINE N == Len(s)
            more == Append(s, i)
<1>1. /\ N \in Nat /\ more \in Seq(Insts) /\ Len(more) = N + 1
      /\ more[N + 1] = i /\ \A k \in 1 .. N : more[k] = s[k]
  BY AppendProperties
<1>2. PICK f : Found(f, s) /\ BranchesOf(s) = f[N]
  BY BranchesFunction
<1>. HIDE DEF more
<1>3. PICK g : Found(g, more) /\ BranchesOf(more) = g[N + 1]
  BY <1>1, BranchesFunction
<1>. DEFINE Same == {n \in 0 .. N : f[n] = g[n]}
<1>. HIDE DEF N
<1>4. 0 .. N \subseteq Same
  <2>1. 0 \in Same
    BY <1>1, <1>2, <1>3 DEF Found
  <2>2. ASSUME NEW n \in 1 .. N, n - 1 \in Same
        PROVE  n \in Same
    <3>1. n \in 1 .. N + 1 /\ more[n] = s[n]
      BY <1>1
    <3>2. f[n] = IF IsBranch(s[n]) THEN Append(f[n - 1], s[n]) ELSE f[n - 1]
      BY <1>2 DEF Found, N
    <3>3. g[n] = IF IsBranch(s[n]) THEN Append(g[n - 1], s[n]) ELSE g[n - 1]
      BY <1>1, <1>3, <3>1 DEF Found
    <3>. QED  BY <2>2, <3>2, <3>3
  <2>. HIDE DEF Same
  <2>. QED  BY <1>1, <2>1, <2>2, UpTo
<1>5. f[N] = g[N] /\ N + 1 \in 1 .. N + 1 /\ N + 1 - 1 = N
  BY <1>1, <1>4
<1>6. g[N + 1] = IF IsBranch(i) THEN Append(g[N], i) ELSE g[N]
  BY <1>1, <1>3, <1>5 DEF Found
<1>. QED  BY <1>2, <1>3, <1>5, <1>6 DEF more

LEMMA BranchesType ==
  ASSUME NEW s \in Seq(Insts)
  PROVE  BranchesOf(s) \in Seq(Insts)
<1>1. PICK f : Found(f, s) /\ BranchesOf(s) = f[Len(s)]
  BY BranchesFunction
<1>2. Len(s) \in 0 .. Len(s)
  OBVIOUS
<1>. QED  BY <1>1, <1>2 DEF Found

LEMMA NoBranches == BranchesOf(<<>>) = <<>>
<1>1. <<>> \in Seq(Insts) /\ Len(<<>>) = 0
  OBVIOUS
<1>. QED  BY <1>1, BranchesFunction DEF Found

-----------------------------------------------------------------------------
(* The counters                                                            *)

LEMMA NudgedType ==
  ASSUME NEW counter \in Counter, NEW taken
  PROVE  Nudged(counter, taken) \in Counter
BY DEF Nudged, Counter

\* The two ways to saturate are one.
LEMMA NudgedIsTrained ==
  ASSUME NEW counter \in Counter, NEW taken
  PROVE  Trained(counter, taken) = Nudged(counter, taken)
BY DEF Nudged, Trained, Saturated, Counter

\* walk[n]: the counter of entry k after the first n of bs.
Walked(walk, bs, k) ==
  /\ walk \in [0 .. Len(bs) -> Counter]
  /\ walk[0] = 2
  /\ \A n \in 1 .. Len(bs) :
       walk[n] = IF XorMasked(bs[n].pc, HistoryBefore(bs, n)) = k
                 THEN Nudged(walk[n - 1], bs[n].taken) ELSE walk[n - 1]

\* CounterAfter is what its recursive definition says.
LEMMA CounterFunction ==
  ASSUME NEW bs \in Seq(Insts), NEW k
  PROVE  \E walk : Walked(walk, bs, k) /\ CounterAfter(bs, k) = walk[Len(bs)]
<1>. DEFINE N == Len(bs)
            Eq(f) == f = [n \in 0 .. N |->
                            IF n = 0 THEN 2
                            ELSE IF XorMasked(bs[n].pc, HistoryBefore(bs, n)) = k
                                 THEN Nudged(f[n - 1], bs[n].taken) ELSE f[n - 1]]
            walk[n \in 0 .. N] ==
              IF n = 0 THEN 2
              ELSE IF XorMasked(bs[n].pc, HistoryBefore(bs, n)) = k
                   THEN Nudged(walk[n - 1], bs[n].taken) ELSE walk[n - 1]
            hit(n) == XorMasked(bs[n].pc, HistoryBefore(bs, n)) = k
            next(n, c) == IF hit(n) THEN Nudged(c, bs[n].taken) ELSE c
            step == [n \in 1 .. N |-> [c \in Counter |-> next(n, c)]]
<1>0. N \in Nat /\ 2 \in Counter
  BY DEF Counter
<1>1. CounterAfter(bs, k) = walk[N]
  BY DEF CounterAfter
<1>2. ASSUME NEW f, Eq(f) PROVE Eq(walk)
  BY <1>2
<1>3. ASSUME NEW n \in 1 .. N, NEW c \in Counter PROVE next(n, c) \in Counter
  BY NudgedType
<1>4. step \in [1 .. N -> [Counter -> Counter]]
  <2>. HIDE DEF next
  <2>. QED  BY <1>3
<1>5. PICK f \in [0 .. N -> Counter] : Follows(f, N, 2, step)
  <2>. HIDE DEF step, N
  <2>. QED  BY <1>0, <1>4, Recursion
<1>6. ASSUME NEW n \in 1 .. N
      PROVE  f[n] = next(n, f[n - 1])
  <2>1. f[n - 1] \in Counter /\ f[n] = step[n][f[n - 1]]
    <3>. HIDE DEF step, N
    <3>. QED  BY <1>0, <1>5 DEF Follows
  <2>. HIDE DEF N, next
  <2>. QED  BY <2>1
<1>7. f[0] = 2
  <2>. HIDE DEF step
  <2>. QED  BY <1>5 DEF Follows
<1>8. Eq(f)
  <2>. HIDE DEF N
  <2>1. \A n \in 0 .. N : n # 0 => n \in 1 .. N
    BY <1>0
  <2>. QED  BY <1>5, <1>6, <1>7, <2>1
<1>9. Eq(walk)
  BY <1>2, <1>8
<1>. HIDE DEF walk, N
<1>10. walk[0] = 2 /\ \A n \in 1 .. N : walk[n] = next(n, walk[n - 1])
  <2>1. 0 \in 0 .. N /\ \A n \in 1 .. N : n # 0 /\ n \in 0 .. N
    BY <1>0
  <2>. QED  BY <1>9, <2>1
<1>. HIDE DEF next
<1>. DEFINE Typed == {n \in 0 .. N : walk[n] \in Counter}
<1>11. 0 .. N \subseteq Typed
  <2>1. ASSUME NEW n \in 1 .. N, n - 1 \in Typed
        PROVE  n \in Typed
    <3>1. walk[n - 1] \in Counter /\ n \in 0 .. N
      BY <1>0, <2>1
    <3>. QED  BY <1>3, <1>10, <3>1
  <2>2. 0 \in Typed
    <3>1. 0 \in 0 .. N /\ walk[0] \in Counter
      BY <1>0, <1>10
    <3>. QED  BY <3>1
  <2>. HIDE DEF Typed
  <2>. QED  BY <1>0, <2>1, <2>2, UpTo
<1>12. walk \in [0 .. N -> Counter]
  BY <1>9, <1>11
<1>. QED  BY <1>1, <1>10, <1>12 DEF Walked, N, next

\* One more branch.
LEMMA CounterAppended ==
  ASSUME NEW bs \in Seq(Insts), NEW x \in Insts, NEW k
  PROVE  /\ CounterAfter(bs, k) \in Counter
         /\ CounterAfter(Append(bs, x), k)
              = IF XorMasked(x.pc, HistoryBefore(bs, Len(bs) + 1)) = k
                THEN Trained(CounterAfter(bs, k), x.taken) ELSE CounterAfter(bs, k)
<1>. DEFINE N == Len(bs)
            more == Append(bs, x)
<1>1. /\ N \in Nat /\ more \in Seq(Insts) /\ Len(more) = N + 1
      /\ more[N + 1] = x /\ \A j \in 1 .. N : more[j] = bs[j]
  BY AppendProperties
<1>2. \A j \in 1 .. N + 1 : HistoryBefore(more, j) = HistoryBefore(bs, j)
  BY HistoryKept
<1>3. PICK f : Walked(f, bs, k) /\ CounterAfter(bs, k) = f[N]
  BY CounterFunction
<1>. HIDE DEF more
<1>4. PICK g : Walked(g, more, k) /\ CounterAfter(more, k) = g[N + 1]
  BY <1>1, CounterFunction
<1>. DEFINE Same == {n \in 0 .. N : f[n] = g[n]}
<1>. HIDE DEF N
<1>5. 0 .. N \subseteq Same
  <2>1. 0 \in Same
    BY <1>1, <1>3, <1>4 DEF Walked
  <2>2. ASSUME NEW n \in 1 .. N, n - 1 \in Same
        PROVE  n \in Same
    <3>1. n \in 1 .. N + 1 /\ n \in 0 .. N /\ more[n] = bs[n] /\ f[n - 1] = g[n - 1]
      BY <1>1, <2>2
    <3>2. HistoryBefore(more, n) = HistoryBefore(bs, n)
      BY <1>2, <3>1
    <3>3. f[n] = IF XorMasked(bs[n].pc, HistoryBefore(bs, n)) = k
                 THEN Nudged(f[n - 1], bs[n].taken) ELSE f[n - 1]
      BY <1>3 DEF Walked, N
    <3>4. g[n] = IF XorMasked(more[n].pc, HistoryBefore(more, n)) = k
                 THEN Nudged(g[n - 1], more[n].taken) ELSE g[n - 1]
      BY <1>1, <1>4, <3>1 DEF Walked
    <3>. QED  BY <3>1, <3>2, <3>3, <3>4
  <2>. HIDE DEF Same
  <2>. QED  BY <1>1, <2>1, <2>2, UpTo
<1>6. f[N] = g[N] /\ N + 1 \in 1 .. N + 1 /\ N + 1 - 1 = N /\ N \in 0 .. N
  BY <1>1, <1>5
<1>7. f[N] \in Counter
  BY <1>3, <1>6 DEF Walked, N
<1>8. g[N + 1] = IF XorMasked(more[N + 1].pc, HistoryBefore(more, N + 1)) = k
                 THEN Nudged(g[N], more[N + 1].taken) ELSE g[N]
  BY <1>1, <1>4, <1>6 DEF Walked
<1>9. HistoryBefore(more, N + 1) = HistoryBefore(bs, N + 1) /\ more[N + 1] = x
  BY <1>1, <1>2, <1>6
<1>. QED  BY <1>3, <1>4, <1>6, <1>7, <1>8, <1>9, NudgedIsTrained DEF more, N

LEMMA NoHistory == HistoryBefore(<<>>, 1) = 0
<1>1. <<>> \in Seq(Insts) /\ Len(<<>>) = 0
  OBVIOUS
<1>2. PICK bit \in [0 .. HistoryBits -> Nat] :
        LowBits(bit, <<>>, 1) /\ HistoryBefore(<<>>, 1) = bit[HistoryBits]
  <2>1. 1 \in 1 .. Len(<<>>) + 1
    BY <1>1
  <2>. QED  BY <1>1, <2>1, HistoryFunction
<1>. DEFINE Zero == {d \in 0 .. HistoryBits : bit[d] = 0}
<1>3. 0 .. HistoryBits \subseteq Zero
  <2>1. 0 \in Zero
    BY <1>2, Powers DEF LowBits
  <2>2. ASSUME NEW d \in 1 .. HistoryBits, d - 1 \in Zero
        PROVE  d \in Zero
    <3>1. bit[d] = bit[d - 1] + 0 /\ d \in 0 .. HistoryBits /\ bit[d - 1] = 0
      BY <1>2, <2>2, Powers DEF LowBits
    <3>. QED  BY <3>1
  <2>. HIDE DEF Zero
  <2>. QED  BY <2>1, <2>2, Powers, UpTo
<1>. QED  BY <1>2, <1>3, Powers

LEMMA NoCounts ==
  ASSUME NEW k
  PROVE  CounterAfter(<<>>, k) = 2
<1>1. <<>> \in Seq(Insts) /\ Len(<<>>) = 0
  OBVIOUS
<1>2. PICK walk : Walked(walk, <<>>, k) /\ CounterAfter(<<>>, k) = walk[Len(<<>>)]
  BY <1>1, CounterFunction
<1>. QED  BY <1>1, <1>2 DEF Walked

-----------------------------------------------------------------------------
(* The predictor                                                           *)

\* The instructions that are delivered.
Seen == SubSeq(trace, 1, Len(trace) - Len(pre_fetch_buffer))

\* The tables are those that bs trained.
Replayed(bs) ==
  /\ history = HistoryBefore(bs, Len(bs) + 1)
  /\ \A k \in DOMAIN pht : pht[k] = CounterAfter(bs, k)

\* update trains the tables as the replay does.
LEMMA UpdateReplays ==
  ASSUME TypeOK, NEW bs \in Seq(Insts), NEW x \in Insts, Replayed(bs),
         bp_type = "GSHARE", IsBranch(x), update(x)
  PROVE  /\ history' = HistoryBefore(Append(bs, x), Len(Append(bs, x)) + 1)
         /\ \A k \in DOMAIN pht' : pht'[k] = CounterAfter(Append(bs, x), k)
<1>1. /\ history' = Shifted(history, x.taken)
      /\ pht' = [pht EXCEPT ![gshare_index(x.pc, history)] = Trained(@, x.taken)]
  BY DEF update
<1>2. history' = HistoryBefore(Append(bs, x), Len(Append(bs, x)) + 1)
  <2>1. Len(Append(bs, x)) = Len(bs) + 1 /\ Len(bs) \in Nat
    BY AppendProperties
  <2>2. Len(Append(bs, x)) + 1 = Len(bs) + 2
    BY <2>1
  <2>. QED  BY <1>1, <2>2, HistoryAppended DEF Replayed
<1>3. ASSUME NEW k \in DOMAIN pht'
      PROVE  pht'[k] = CounterAfter(Append(bs, x), k)
  <2>1. k \in DOMAIN pht /\ pht[k] = CounterAfter(bs, k)
    BY <1>1 DEF Replayed
  <2>2. pht'[k] = IF gshare_index(x.pc, history) = k THEN Trained(pht[k], x.taken) ELSE pht[k]
    BY <1>1, <2>1
  <2>. QED  BY <2>1, <2>2, CounterAppended DEF Replayed, gshare_index
<1>. QED  BY <1>2, <1>3

\* What fetch acquires comes after what it has delivered; what it gives
\* back it has not delivered.
LEMMA SeenSteps ==
  ASSUME TypeOK, TraceInOrder, NEW i \in Insts, Acquires(i)
  PROVE  /\ Seen \in Seq(Insts)
         /\ pre_fetch_buffer' = Requeued => Seen' = Seen
         /\ pre_fetch_buffer' = LeftBehind => Seen' = Append(Seen, i)
<1>0. trace \in Seq(Insts) /\ Len(trace) \in Nat /\ pre_fetch_buffer \in Seq(Positions)
  BY Sequences2, LenProperties
<1>1. CASE pre_fetch_buffer = <<>>
  <2>1. trace' = Append(trace, i) /\ Len(pre_fetch_buffer) = 0
    BY <1>1 DEF Acquires
  <2>2. Seen = trace
    BY <1>0, <2>1 DEF Seen
  <2>3. trace' \in Seq(Insts) /\ Len(trace') = Len(trace) + 1
        /\ \A k \in 1 .. Len(trace) : trace'[k] = trace[k]
    BY <1>0, <2>1, AppendProperties
  <2>4. SubSeq(trace', 1, Len(trace')) = trace'
    BY <2>3
  <2>5. SubSeq(trace', 1, Len(trace)) = trace
    BY <1>0, <2>3
  <2>6. ASSUME pre_fetch_buffer' = Requeued PROVE Seen' = trace
    <3>1. Len(pre_fetch_buffer') = 1
      BY <2>6, AcquiresInOrder
    <3>2. Len(trace') - Len(pre_fetch_buffer') = Len(trace)
      BY <1>0, <2>3, <3>1
    <3>. QED  BY <2>5, <3>2 DEF Seen
  <2>7. ASSUME pre_fetch_buffer' = LeftBehind PROVE Seen' = trace'
    <3>1. Len(pre_fetch_buffer') = 0
      BY <2>7, AcquiresInOrder
    <3>2. Len(trace') - Len(pre_fetch_buffer') = Len(trace')
      BY <1>0, <2>3, <3>1
    <3>. QED  BY <2>4, <3>2 DEF Seen
  <2>. QED  BY <1>0, <2>1, <2>2, <2>6, <2>7
<1>2. CASE pre_fetch_buffer = <<Len(trace)>>
  <2>1. pre_fetch_buffer # <<>> /\ Len(pre_fetch_buffer) = 1 /\ Head(pre_fetch_buffer) = Len(trace)
    BY <1>2
  <2>2. Len(trace) \in Nat \ {0}
    <3>1. Head(pre_fetch_buffer) \in Positions
      BY <1>0, <2>1
    <3>. QED  BY <1>0, <2>1, <3>1 DEF Positions
  <2>3. trace' = trace /\ i = trace[Len(trace)]
    BY <2>1 DEF Acquires
  <2>. DEFINE n == Len(trace)
  <2>4. SubSeq(trace, 1, n - 1) \in Seq(Insts) /\ Len(SubSeq(trace, 1, n - 1)) = n - 1
        /\ \A k \in 1 .. n - 1 : SubSeq(trace, 1, n - 1)[k] = trace[k]
    <3>1. n - 1 \in Nat /\ n \in Nat /\ 1 \in Int
      BY <2>2
    <3>2. \A k \in 1 .. n - 1 : k \in 1 .. n
      BY <3>1
    <3>3. \A k \in 1 .. n - 1 : trace[k] \in Insts
      BY <1>0, <3>2
    <3>. DEFINE m == n - 1
                s == SubSeq(trace, 1, m)
    <3>4. m \in Nat /\ n = m + 1
      BY <3>1
    <3>. HIDE DEF n, m, s
    <3>5. s \in Seq(Insts) /\ Len(s) = m /\ \A k \in 1 .. m : s[k] = trace[k]
      <4>1. /\ s \in Seq(Insts)
            /\ Len(s) = IF 1 <= m THEN m - 1 + 1 ELSE 0
            /\ \A k \in 1 .. m - 1 + 1 : s[k] = trace[1 + k - 1]
        BY <3>1, <3>3, <3>4, SubSeqProperties DEF s, m
      <4>. QED  BY ONLY <3>4, <4>1
    <3>. QED  BY <3>5 DEF s, m
  <2>5. Append(SubSeq(trace, 1, n - 1), i) = trace
    <3>. DEFINE s == SubSeq(trace, 1, n - 1)
    <3>. HIDE DEF s
    <3>1. s \in Seq(Insts) /\ Len(s) = n - 1 /\ \A k \in 1 .. n - 1 : s[k] = trace[k]
      BY <2>4 DEF s
    <3>2. Len(Append(s, i)) = n /\ Append(s, i) \in Seq(Insts)
          /\ \A k \in 1 .. n : Append(s, i)[k] = trace[k]
      BY <1>0, <2>2, <2>3, <3>1
    <3>3. Append(s, i) = trace
      BY <1>0, <3>2, SeqEqual
    <3>. QED  BY <3>3 DEF s
  <2>6. Seen = SubSeq(trace, 1, n - 1)
    BY <2>1 DEF Seen
  <2>7. ASSUME pre_fetch_buffer' = Requeued PROVE Seen' = SubSeq(trace, 1, n - 1)
    <3>1. Len(pre_fetch_buffer') = 1
      BY <2>7, AcquiresInOrder
    <3>. QED  BY <2>3, <3>1 DEF Seen
  <2>8. ASSUME pre_fetch_buffer' = LeftBehind PROVE Seen' = trace
    <3>1. Len(pre_fetch_buffer') = 0
      BY <2>8, AcquiresInOrder
    <3>2. n - 0 = n /\ SubSeq(trace, 1, n) = trace
      BY <1>0
    <3>. QED  BY <2>3, <3>1, <3>2 DEF Seen
  <2>. QED  BY <2>4, <2>5, <2>6, <2>7, <2>8
<1>. QED  BY <1>1, <1>2 DEF TraceInOrder

LEMMA StepReplay == TypeOK /\ TraceInOrder /\ PredictorIsReplay /\ [Next]_vars
                      => PredictorIsReplay'
<1>. SUFFICES ASSUME TypeOK, TraceInOrder, PredictorIsReplay, [Next]_vars
              PROVE  PredictorIsReplay'
  OBVIOUS
<1>. DEFINE Still == UNCHANGED <<Seen, bp_type, pht, history>>
<1>0. Still => PredictorIsReplay'
  BY DEF PredictorIsReplay, Delivered, Seen
<1>. USE DEF refVars, bpVars, buildVars
<1>1. ASSUME NEW i \in Insts, FetchBlocked(i) PROVE Still
  BY <1>1, SeenSteps DEF FetchBlocked, gaveBack
<1>2. ASSUME NEW i \in Insts, NEW ready \in Nat, FetchMiss(i, ready) PROVE Still
  BY <1>2, SeenSteps DEF FetchMiss, gaveBack
<1>3. ASSUME NEW i \in Insts, LineBoundary(i) PROVE Still
  BY <1>3, SeenSteps DEF LineBoundary, gaveBack
<1>4. ASSUME BeginCycle \/ Finish PROVE Still
  BY <1>4 DEF BeginCycle, Finish, Seen
<1>5. ASSUME WarmupEnds \/ StaysInWarmup \/ Measures PROVE Still
  BY <1>5 DEF WarmupEnds, StaysInWarmup, Measures, afterAdvance, Seen
<1>6. ASSUME EndTrace \/ FetchDone \/ MarkCycle PROVE Still
  BY <1>6 DEF EndTrace, FetchDone, MarkCycle, Seen
<1>7. ASSUME UNCHANGED vars PROVE Still
  BY <1>7 DEF vars, Seen
<1>8. ASSUME NEW n \in 0 .. COMMIT_WIDTH, NEW k \in 0 .. Len(inst_buffer),
             NEW reason \in StallReasons, NEW busy \in Nat, BackEnd(n, k, reason, busy)
      PROVE  Still
  BY <1>8 DEF BackEnd, Seen
<1>9. ASSUME NEW i \in Insts, NEW p \in BOOLEAN, Deliver(i, p) PROVE PredictorIsReplay'
  <2>1. Acquires(i) /\ pre_fetch_buffer' = LeftBehind /\ update(i) /\ bp_type' = bp_type
    BY <1>9 DEF Deliver
  <2>2. Seen \in Seq(Insts) /\ Seen' = Append(Seen, i)
    BY <2>1, SeenSteps
  <2>3. Delivered \in Seq(Insts) /\ Delivered = BranchesOf(Seen)
    BY <2>2, BranchesType DEF Delivered, Seen
  <2>4. Delivered' = BranchesOf(Append(Seen, i))
    BY <2>2 DEF Delivered, Seen
  <2>. SUFFICES ASSUME bp_type = "GSHARE" PROVE Replayed(Delivered)'
    BY <2>1 DEF PredictorIsReplay, Replayed
  <2>5. Replayed(Delivered)
    BY DEF PredictorIsReplay, Replayed
  <2>6. CASE IsBranch(i)
    <3>1. Delivered' = Append(Delivered, i)
      BY <2>2, <2>3, <2>4, <2>6, BranchesAppended
    <3>2. /\ history' = HistoryBefore(Append(Delivered, i), Len(Append(Delivered, i)) + 1)
          /\ \A k \in DOMAIN pht' : pht'[k] = CounterAfter(Append(Delivered, i), k)
      BY <2>1, <2>3, <2>5, <2>6, UpdateReplays
    <3>. QED  BY <3>1, <3>2 DEF Replayed
  <2>7. CASE ~ IsBranch(i)
    <3>1. Delivered' = Delivered
      BY <2>2, <2>3, <2>4, <2>7, BranchesAppended
    <3>2. pht' = pht /\ history' = history
      BY <2>1, <2>7 DEF update
    <3>. QED  BY <2>5, <3>1, <3>2 DEF Replayed
  <2>. QED  BY <2>6, <2>7
<1>. QED
  <2>. HIDE DEF Still
  <2>. QED  BY <1>0, <1>1, <1>2, <1>3, <1>4, <1>5, <1>6, <1>7, <1>8, <1>9, Steps

LEMMA InitReplay == Init => PredictorIsReplay
<1>. SUFFICES ASSUME Init PROVE PredictorIsReplay
  OBVIOUS
<1>1. trace = <<>> /\ pre_fetch_buffer = <<>> /\ history = 0
      /\ pht = [k \in 0 .. TableSize - 1 |-> 2]
  BY DEF Init
<1>2. Len(<<>>) = 0 /\ SubSeq(<<>>, 1, Len(<<>>) - Len(<<>>)) = <<>>
  OBVIOUS
<1>3. Delivered = <<>>
  BY <1>1, <1>2, NoBranches DEF Delivered
<1>. QED  BY <1>1, <1>2, <1>3, NoHistory, NoCounts DEF PredictorIsReplay

\* Whatever is refused, missed or given back, the branch predictor has been
\* trained by each delivered branch once, in program order.
THEOREM PredictorSound == Spec => []PredictorIsReplay
<1>1. Init => PredictorIsReplay
  BY InitReplay
<1>2. TypeOK /\ TraceInOrder /\ PredictorIsReplay /\ [Next]_vars => PredictorIsReplay'
  BY StepReplay
<1>. QED  BY <1>1, <1>2, TypeCorrect, InstructionsInOrder, PTL DEF Spec
=============================================================================

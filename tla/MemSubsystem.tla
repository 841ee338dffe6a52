---------------------------- MODULE MemSubsystem ----------------------------
(***************************************************************************)
(* The memory hierarchy of src/trace_sim/mem/MemSubsystem.cpp: an I-cache  *)
(* and a D-cache over one last-level cache, with a prefetch queue in front *)
(* of each L1, driven by the cycle of TraceSim::run.  The three caches are *)
(* instances of CacheOps.                                                  *)
(*                                                                         *)
(* The two callers are modelled by how they ask.  The load unit asks for   *)
(* every load it holds, oldest first, until LoadsPerCycle were accepted,   *)
(* and asks again in the next cycle for those refused.  The front end asks *)
(* for one line; refused, or after a miss, it asks again for that line.    *)
(***************************************************************************)
EXTENDS Prefetchers, Sequences, FiniteSets, SequencesExt

CONSTANTS
  Geometry,           \* by cache: NumSets, Assoc, MaxInflight, Policy
  L1HitLatency,       \* by L1: kIcacheHitLatency, LDU_LATENCY
  LLC_HIT_LATENCY,
  MEMORY_MISS_PENALTY,
  PrefetcherKind,     \* by L1
  QueueSize,          \* by L1
  IssuePerCycle,      \* by L1
  LoadsPerCycle,      \* LDU_COUNT
  Loads,              \* the loads that may arrive: [pc, line]
  CodeLines,          \* the lines the front end may ask for
  Pcs,                \* the pcs of loads and fetches
  MaxLoads,           \* bound: loads that arrive
  MaxFetches,         \* bound: lines the front end asks for
  LastArrival,        \* bound: no load or fetch arrives after this cycle
  MaxCycle            \* bound: the run stops here

L1s == {"icache", "dcache"}
Caches == L1s \cup {"llc"}

ASSUME HierarchyAssumption ==
  /\ Geometry \in [Caches -> [NumSets : Nat \ {0}, Assoc : Nat \ {0},
                              MaxInflight : Nat \ {0}, Policy : {"LRU", "FIFO"}]]
  /\ L1HitLatency \in [L1s -> Nat]
  /\ LLC_HIT_LATENCY \in Nat \ {0}
  /\ MEMORY_MISS_PENALTY \in Nat
  /\ PrefetcherKind \in [L1s -> {"NONE", "NEXT_LINE", "PC_STRIDE"}]
  /\ {QueueSize[k] : k \in L1s} \cup {IssuePerCycle[k] : k \in L1s} \subseteq Nat
  /\ Loads \subseteq [pc : Pcs, line : Lines]
  /\ CodeLines \subseteq Lines
  /\ {LoadsPerCycle, MaxLoads, MaxFetches, LastArrival, MaxCycle} \subseteq Nat

C(k) == INSTANCE CacheOps WITH
          NumSets <- Geometry[k].NumSets, Assoc <- Geometry[k].Assoc,
          MaxInflight <- Geometry[k].MaxInflight, Policy <- Geometry[k].Policy

NoLine == -1

VARIABLES
  cache,        \* icache, dcache and llc
  queue,        \* icache_prefetch_queue and dcache_prefetch_queue
  queue_stats,  \* prefetch_queue_stats, by L1
  table,        \* the stride tables, by L1
  cycle,        \* total_cycles
  stage, pos, count,   \* where in the cycle, the loop's iterator and counter
  waiting,      \* the loads the load unit holds, oldest first
  fetch_line,   \* the line of the instruction the front end was refused
  fetch_stall_until,
  arrived, fetches     \* budgets used of MaxLoads and MaxFetches

memVars == <<cache, queue, queue_stats, table>>
loopVars == <<stage, pos, count>>
fetchVars == <<fetch_line, fetch_stall_until, fetches>>
loadVars == <<waiting, arrived>>
vars == <<memVars, cycle, loopVars, loadVars, fetchVars>>

Init ==
  /\ cache = [k \in Caches |-> C(k)!EmptyCache]
  /\ queue = [k \in L1s |-> <<>>]
  /\ queue_stats = [k \in L1s |-> [filtered_hit |-> 0, duplicate |-> 0, drop |-> 0]]
  /\ table = [k \in L1s |-> [pc \in Pcs |-> NoEntry]]
  /\ cycle = 0
  /\ stage = "return_icache" /\ pos = 1 /\ count = 0
  /\ waiting = <<>> /\ arrived = 0
  /\ fetch_line = NoLine /\ fetch_stall_until = 0 /\ fetches = 0

GoTo(next) == stage' = next /\ pos' = 1 /\ count' = 0

-----------------------------------------------------------------------------
(* access_l1_hierarchy                                                     *)

L1Status(k, b, pf) == C(k)!RequestStatus(cache[k], b, pf)
LLCStatus(b, pf) == C("llc")!RequestStatus(cache["llc"], b, pf)

\* The L1 passes the access on, and the LLC refuses it.
LLCRefuses(k, b, pf) ==
  /\ L1Status(k, b, pf) = "MISS_NEW"
  /\ LLCStatus(b, pf) \in {"MISS_BLOCKED", "PREFETCH_DROPPED"}

blocked(k, b) == L1Status(k, b, FALSE) = "MISS_BLOCKED" \/ LLCRefuses(k, b, FALSE)

\* When the LLC has the line, for an access it does not refuse.
LLCReady(b, pf) ==
  CASE LLCStatus(b, pf) = "MISS_MERGED" -> cache["llc"].inflight[b].ready_cycle
    [] LLCStatus(b, pf) = "MISS_NEW"    -> cycle + LLC_HIT_LATENCY + MEMORY_MISS_PENALTY
    [] OTHER                            -> cycle + LLC_HIT_LATENCY

\* A demand access pays the L1's latency on top, a prefetch does not.
L1Ready(k, b, pf) == LLCReady(b, pf) + (IF pf THEN 0 ELSE L1HitLatency[k])

\* When a demand access merges with an MSHR of the L1.
MergedReady(k, b) == Max({cycle + L1HitLatency[k], cache[k].inflight[b].ready_cycle})

\* The LLC after an access that missed in the L1.
LLCAfter(b, pf) ==
  LET asked == C("llc")!RequestCache(cache["llc"], b, cycle, pf)
  IN  IF LLCStatus(b, pf) = "MISS_NEW"
      THEN C("llc")!schedule_fill(asked, b, LLCReady(b, pf), pf) ELSE asked

\* Mutant: the L1's MSHR is allocated before the LLC is asked.
L1ScheduledFirst(k, b, pf) ==
  LET asked == C(k)!RequestCache(cache[k], b, cycle, pf)
  IN  IF L1Status(k, b, pf) = "MISS_NEW"
      THEN C(k)!schedule_fill(asked, b, L1Ready(k, b, pf), pf) ELSE asked

L1After(k, b, pf) ==
  LET asked == C(k)!RequestCache(cache[k], b, cycle, pf)
  IN  IF L1Status(k, b, pf) = "MISS_NEW" /\ ~LLCRefuses(k, b, pf)
      THEN C(k)!schedule_fill(asked, b, L1Ready(k, b, pf), pf) ELSE asked

\* Mutant: an access merged in the L1 goes on to the LLC.
MergedAsksLLC(k, b, pf) ==
  [cache EXCEPT ![k] = L1After(k, b, pf),
                !["llc"] = IF L1Status(k, b, pf) # "HIT" THEN LLCAfter(b, pf) ELSE @]

\* The hierarchy after an access through L1 k, by demand or prefetch.
Accessed(k, b, pf) ==
  [cache EXCEPT ![k] = L1After(k, b, pf),
                !["llc"] = IF L1Status(k, b, pf) = "MISS_NEW"
                           THEN LLCAfter(b, pf) ELSE @]

-----------------------------------------------------------------------------
(* enqueue_prefetch                                                        *)

\* The queue after one candidate, and what is counted.
Filtered(k, caches, b) == C(k)!contains(caches[k], b)
Queued(k, b) == b \in ToSet(queue[k])
\* Mutant: the limit is off by one.
QueueFullLate(k) == Len(queue[k]) > QueueSize[k]
QueueFull(k) == Len(queue[k]) >= QueueSize[k]

Outcome(k, caches, b) == CASE Filtered(k, caches, b) -> "filtered_hit"
                           [] ~Filtered(k, caches, b) /\ Queued(k, b) -> "duplicate"
                           [] OTHER -> IF QueueFull(k) THEN "drop" ELSE "queued"

\* The L1's prefetcher sees the access and proposes at most one line.
enqueue_prefetch(k, caches, pc, b) ==
  LET proposed == Candidates(PrefetcherKind[k], table[k], pc, b)
      Counts(o) == Cardinality({p \in proposed : Outcome(k, caches, p) = o})
      taken == {p \in proposed : Outcome(k, caches, p) = "queued"}
  IN  /\ table' = [table EXCEPT ![k] = TableAfter(PrefetcherKind[k], @, pc, b)]
      /\ queue' = [queue EXCEPT ![k] = @ \o SetToSeq(taken)]
      /\ queue_stats' = [queue_stats EXCEPT ![k] =
                           [o \in DOMAIN @ |-> @[o] + Counts(o)]]

-----------------------------------------------------------------------------
(* process_returns: icache, dcache, llc, one completed block at a time     *)

ReturnStage == [icache |-> "return_icache", dcache |-> "return_dcache",
                llc |-> "return_llc"]
AfterReturns == [icache |-> "return_dcache", dcache |-> "return_llc", llc |-> "loads"]

outsideReturns == <<queue, queue_stats, table, cycle, loadVars, fetchVars>>

Return(k, b) ==
  /\ stage = ReturnStage[k]
  /\ b \in C(k)!Completed(cache[k], cycle)
  /\ cache' = [cache EXCEPT ![k] = C(k)!ReturnBlock(@, b, cycle)]
  /\ UNCHANGED <<outsideReturns, loopVars>>

ReturnsDone(k) ==
  /\ stage = ReturnStage[k]
  /\ C(k)!Completed(cache[k], cycle) = {}
  /\ GoTo(AfterReturns[k])
  /\ UNCHANGED <<outsideReturns, cache>>

-----------------------------------------------------------------------------
(* The load unit: execute_load_memory_access in the loop over ldu_iq       *)

Scanning == stage = "loads" /\ pos <= Len(waiting) /\ count < LoadsPerCycle

LoadAccepted ==
  LET l == waiting[pos]
  IN  /\ Scanning
      /\ ~blocked("dcache", l.line)
      /\ cache' = Accessed("dcache", l.line, FALSE)
      /\ enqueue_prefetch("dcache", cache', l.pc, l.line)
      /\ waiting' = RemoveAt(waiting, pos)
      /\ count' = count + 1
      /\ UNCHANGED <<cycle, stage, pos, arrived, fetchVars>>

LoadRefused ==
  /\ Scanning
  /\ blocked("dcache", waiting[pos].line)
  /\ cache' = Accessed("dcache", waiting[pos].line, FALSE)
  /\ pos' = pos + 1
  /\ UNCHANGED <<queue, queue_stats, table, cycle, stage, count, loadVars, fetchVars>>

LoadsDone ==
  /\ stage = "loads"
  /\ ~Scanning
  /\ GoTo("dispatch")
  /\ UNCHANGED <<memVars, cycle, loadVars, fetchVars>>

\* dispatch_stage adds loads behind those that wait.
LoadArrives(l) ==
  /\ stage = "dispatch"
  /\ arrived < MaxLoads /\ cycle <= LastArrival
  /\ waiting' = Append(waiting, l)
  /\ arrived' = arrived + 1
  /\ UNCHANGED <<memVars, cycle, loopVars, fetchVars>>

ArrivalsDone ==
  /\ stage = "dispatch"
  /\ GoTo("fetch")
  /\ UNCHANGED <<memVars, cycle, loadVars, fetchVars>>

-----------------------------------------------------------------------------
(* The front end: the first access of a fetch group                        *)

AsksFor(b) ==
  /\ stage = "fetch"
  /\ cycle >= fetch_stall_until
  /\ IF fetch_line = NoLine THEN fetches < MaxFetches /\ cycle <= LastArrival
                            ELSE b = fetch_line
  /\ fetches' = IF fetch_line = NoLine THEN fetches + 1 ELSE fetches

FetchHit(b, pc) ==
  /\ AsksFor(b)
  /\ L1Status("icache", b, FALSE) = "HIT"
  /\ cache' = Accessed("icache", b, FALSE)
  /\ enqueue_prefetch("icache", cache', pc, b)
  /\ fetch_line' = NoLine
  /\ GoTo("serve_icache")
  /\ UNCHANGED <<cycle, loadVars, fetch_stall_until>>

\* A miss stalls fetch until the line is there; a refused access does not.
FetchMiss(b) ==
  /\ AsksFor(b)
  /\ L1Status("icache", b, FALSE) # "HIT"
  /\ cache' = Accessed("icache", b, FALSE)
  /\ fetch_line' = b
  /\ fetch_stall_until' =
       CASE blocked("icache", b) -> fetch_stall_until
         [] L1Status("icache", b, FALSE) = "MISS_MERGED" -> MergedReady("icache", b)
         [] OTHER -> L1Ready("icache", b, FALSE)
  /\ GoTo("serve_icache")
  /\ UNCHANGED <<queue, queue_stats, table, cycle, loadVars>>

\* Fetch is stalled, its buffer is full, or the trace has ended.
FetchNothing ==
  /\ stage = "fetch"
  /\ fetch_line # NoLine => cycle < fetch_stall_until
  /\ GoTo("serve_icache")
  /\ UNCHANGED <<memVars, cycle, loadVars, fetchVars>>

-----------------------------------------------------------------------------
(* service_prefetch_queues                                                 *)

ServeStage == [icache |-> "serve_icache", dcache |-> "serve_dcache"]

CanIssue(k) == count < IssuePerCycle[k] /\ queue[k] # <<>>

issue_prefetch_to_l1(k) ==
  /\ stage = ServeStage[k]
  /\ CanIssue(k)
  /\ cache' = Accessed(k, Head(queue[k]), TRUE)
  /\ queue' = [queue EXCEPT ![k] = Tail(@)]
  /\ count' = count + 1
  /\ UNCHANGED <<queue_stats, table, cycle, stage, pos, loadVars, fetchVars>>

IcacheServed ==
  /\ stage = "serve_icache"
  /\ ~CanIssue("icache")
  /\ GoTo("serve_dcache")
  /\ UNCHANGED <<memVars, cycle, loadVars, fetchVars>>

NextCycle ==
  /\ stage = "serve_dcache"
  /\ ~CanIssue("dcache")
  /\ cycle < MaxCycle
  /\ cycle' = cycle + 1
  /\ GoTo("return_icache")
  /\ UNCHANGED <<memVars, loadVars, fetchVars>>

-----------------------------------------------------------------------------
Next ==
  \/ \E k \in Caches : ReturnsDone(k) \/ \E b \in Lines : Return(k, b)
  \/ LoadAccepted \/ LoadRefused \/ LoadsDone
  \/ \E l \in Loads : LoadArrives(l)
  \/ ArrivalsDone
  \/ \E b \in CodeLines : FetchMiss(b) \/ \E pc \in Pcs : FetchHit(b, pc)
  \/ FetchNothing
  \/ \E k \in L1s : issue_prefetch_to_l1(k)
  \/ IcacheServed \/ NextCycle

Spec == Init /\ [][Next]_vars

\* run() calls every stage once a cycle, in a loop that never waits.
FairSpec == Spec /\ WF_vars(Next)
-----------------------------------------------------------------------------
(* Properties                                                              *)

CacheType(k) ==
  /\ cache[k].sets \in [C(k)!Sets -> [C(k)!Ways -> C(k)!Line]]
  /\ DOMAIN cache[k].inflight \subseteq Lines
  /\ cache[k].inflight \in [DOMAIN cache[k].inflight -> C(k)!InflightRequest]
  /\ cache[k].stats \in [C(k)!Counters -> Nat]

\* A prefetch queue keeps to its limit and names a line once.
TypeOK ==
  /\ DOMAIN cache = Caches /\ \A k \in Caches : CacheType(k)
  /\ queue \in [L1s -> Seq(Lines)]
  /\ \A k \in L1s : Len(queue[k]) <= QueueSize[k] /\ IsInjective(queue[k])
  /\ queue_stats \in [L1s -> [{"filtered_hit", "duplicate", "drop"} -> Nat]]
  /\ table \in [L1s -> [Pcs -> StrideEntry]]
  /\ waiting \in Seq(Loads)
  /\ fetch_line \in CodeLines \cup {NoLine}
  /\ {cycle, pos, count, fetch_stall_until, fetches, arrived} \subseteq Nat

\* The counters of the levels agree: the LLC sees exactly the accesses the
\* L1s granted an MSHR to, demands and prefetches apart.
TrafficAgrees ==
  LET n(k, c) == cache[k].stats[c]
      Both(c) == n("icache", c) + n("dcache", c)
  IN  /\ n("llc", "access") = Both("miss_new")
      /\ n("llc", "prefetch") = Both("prefetch") - Both("prefetch_hit")
             - Both("prefetch_filtered_inflight") - Both("prefetch_dropped")

\* An L1 allocates an MSHR only for a line the LLC holds or has asked for,
\* and its data never arrives before the LLC's: an access the LLC refuses
\* leaves no MSHR behind in the L1.
FillsFromBelow ==
  [][\A k \in L1s : \A b \in DOMAIN cache'[k].inflight \ DOMAIN cache[k].inflight :
       \/ C("llc")!contains(cache'["llc"], b)
       \/ /\ b \in DOMAIN cache'["llc"].inflight
          /\ cache'["llc"].inflight[b].ready_cycle <= cache'[k].inflight[b].ready_cycle
    ]_vars

Whereabouts(k) == [b \in Lines |-> IF C(k)!contains(cache[k], b) THEN "resident"
                                   ELSE IF b \in DOMAIN cache[k].inflight
                                   THEN "inflight" ELSE "absent"]

ILife == INSTANCE BlockLife WITH
           Blocks <- Lines, NumSets <- Geometry["icache"].NumSets,
           Assoc <- Geometry["icache"].Assoc,
           MaxInflight <- Geometry["icache"].MaxInflight,
           where <- Whereabouts("icache")
DLife == INSTANCE BlockLife WITH
           Blocks <- Lines, NumSets <- Geometry["dcache"].NumSets,
           Assoc <- Geometry["dcache"].Assoc,
           MaxInflight <- Geometry["dcache"].MaxInflight,
           where <- Whereabouts("dcache")
LLife == INSTANCE BlockLife WITH
           Blocks <- Lines, NumSets <- Geometry["llc"].NumSets,
           Assoc <- Geometry["llc"].Assoc,
           MaxInflight <- Geometry["llc"].MaxInflight,
           where <- Whereabouts("llc")

\* Every level is a BlockLife, whatever the others do in the same step.
LevelsImplementBlockLife == ILife!LifeSpec /\ DLife!LifeSpec /\ LLife!LifeSpec

served == arrived - Len(waiting)

\* A load that was refused is accepted in the end, although fetches and
\* prefetches compete with it for the LLC's MSHRs; and a line the front end
\* waits for is fetched in the end: it is still in the I-cache when fetch asks
\* again, and refusals do not go on for ever.
EveryRequestServed ==
  /\ \A n \in 1 .. MaxLoads : (arrived >= n) ~> (served >= n)
  /\ (fetch_line # NoLine) ~> (fetch_line = NoLine)
=============================================================================

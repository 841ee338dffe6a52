------------------------------- MODULE Cache --------------------------------
(***************************************************************************)
(* One cache level driven by any caller that follows the protocol of       *)
(* MemSubsystem: in a cycle process_returns runs first, then any number of *)
(* requests; a request answered MISS_NEW is followed, before the next      *)
(* request to this cache, by schedule_fill with a later ready cycle or, if *)
(* the next level refuses the access, by nothing at all.                   *)
(***************************************************************************)
EXTENDS CacheOps

CONSTANTS
  Blocks,       \* the lines the caller touches
  MaxLatency,   \* bound: largest ready_cycle - cycle of a fill
  MaxCycle,     \* bound: the run stops here
  MaxAccess     \* bound: requests in one cycle

ASSUME CacheUnitAssumption ==
  /\ Blocks \subseteq Nat
  /\ MaxLatency \in Nat \ {0}
  /\ MaxCycle \in Nat
  /\ MaxAccess \in Nat

NoRequest == [block |-> -1, pf |-> FALSE]

VARIABLES
  cache,     \* sets, inflight, counters
  cycle,     \* the caller's current_cycle
  phase,     \* "returns" or "requests"
  pending,   \* the request just answered MISS_NEW, or NoRequest
  accesses,  \* requests made in this cycle
  abandoned  \* history: prefetches dropped after they were answered MISS_NEW

vars == <<cache, cycle, phase, pending, accesses, abandoned>>

Init ==
  /\ cache = EmptyCache
  /\ cycle = 0
  /\ phase = "returns"
  /\ pending = NoRequest
  /\ accesses = 0
  /\ abandoned = 0

\* process_returns completes one block; the map's iteration order is free.
Return(b) ==
  /\ phase = "returns"
  /\ b \in Completed(cache, cycle)
  /\ cache' = ReturnBlock(cache, b, cycle)
  /\ UNCHANGED <<cycle, phase, pending, accesses, abandoned>>

ReturnsDone ==
  /\ phase = "returns"
  /\ Completed(cache, cycle) = {}
  /\ phase' = "requests"
  /\ UNCHANGED <<cache, cycle, pending, accesses, abandoned>>

Request(b, pf) ==
  /\ phase = "requests"
  /\ pending = NoRequest
  /\ accesses < MaxAccess
  /\ cache' = RequestCache(cache, b, cycle, pf)
  /\ pending' = IF RequestStatus(cache, b, pf) = "MISS_NEW"
                THEN [block |-> b, pf |-> pf] ELSE NoRequest
  /\ accesses' = accesses + 1
  /\ UNCHANGED <<cycle, phase, abandoned>>

\* The caller found the data below and allocates an MSHR for it.
Schedule(latency) ==
  /\ pending # NoRequest
  /\ cache' = schedule_fill(cache, pending.block, cycle + latency, pending.pf)
  /\ pending' = NoRequest
  /\ UNCHANGED <<cycle, phase, accesses, abandoned>>

\* The next level was blocked: the caller drops the request (and retries).
Abandon ==
  /\ pending # NoRequest
  /\ pending' = NoRequest
  /\ abandoned' = abandoned + (IF pending.pf THEN 1 ELSE 0)
  /\ UNCHANGED <<cache, cycle, phase, accesses>>

NextCycle ==
  /\ phase = "requests"
  /\ pending = NoRequest
  /\ cycle < MaxCycle
  /\ cycle' = cycle + 1
  /\ phase' = "returns"
  /\ accesses' = 0
  /\ UNCHANGED <<cache, pending, abandoned>>

Next ==
  \/ \E b \in Blocks : Return(b)
  \/ ReturnsDone
  \/ \E b \in Blocks, pf \in BOOLEAN : Request(b, pf)
  \/ \E latency \in 1 .. MaxLatency : Schedule(latency)
  \/ Abandon
  \/ NextCycle

Spec == Init /\ [][Next]_vars
-----------------------------------------------------------------------------
(* Properties                                                              *)

\* The shape of the state, and what a caller can have pending.
TypeOK ==
  /\ cache = [sets |-> cache.sets, inflight |-> cache.inflight,
               stats |-> cache.stats]
  /\ cache.sets \in [Sets -> [Ways -> Line]]
  /\ DOMAIN cache.inflight \subseteq Blocks
  /\ cache.inflight \in [DOMAIN cache.inflight -> InflightRequest]
  /\ cache.stats \in [Counters -> Nat]
  /\ cycle \in Nat
  /\ phase \in {"returns", "requests"}
  /\ pending = NoRequest \/ pending \in [block : Blocks, pf : BOOLEAN]
  /\ accesses \in Nat
  /\ abandoned \in Nat

\* A line of memory is in at most one way of its set: request searches and
\* stops at the first match, so a second copy would never be hit or aged.
NoDuplicateLine ==
  \A s \in Sets : \A v, w \in Ways :
    /\ cache.sets[s][v].valid /\ cache.sets[s][w].valid
    /\ cache.sets[s][v].tag = cache.sets[s][w].tag
    => v = w

\* A block being fetched is not resident, and the block just answered
\* MISS_NEW is neither: otherwise its fill would make a second copy.
NotBothPlaces ==
  /\ \A b \in DOMAIN cache.inflight : ~contains(cache, b)
  /\ pending # NoRequest =>
       /\ ~contains(cache, pending.block)
       /\ pending.block \notin DOMAIN cache.inflight

\* The MSHRs are never oversubscribed, although request only looks at the
\* count and schedule_fill, called later, allocates without looking.
MSHRBound ==
  Cardinality(DOMAIN cache.inflight) + (IF pending # NoRequest THEN 1 ELSE 0)
    <= MaxInflight

\* While requests are served no fill is overdue: the ready cycle a merged
\* miss is given lies in the future, which the load unit relies on when it
\* computes the unsigned latency ready_cycle - total_cycles.
NoOverdue ==
  phase = "requests" =>
    \A b \in DOMAIN cache.inflight : cache.inflight[b].ready_cycle > cycle

\* The lines that print_cache_stats prints add up.  Every demand request is
\* counted in exactly one outcome.  Every prefetch that was requested found
\* its line or an MSHR there already, or no MSHR free, or was filled, is in
\* flight, is just being answered, or was refused by the level below: none
\* is lost and none is counted twice.
AccessAccounting ==
  LET n == cache.stats
      flying == {b \in DOMAIN cache.inflight : cache.inflight[b].is_prefetch}
  IN  /\ n["access"] = n["hit"] + n["miss_new"] + n["miss_merged"] + n["miss_blocked"]
      /\ n["prefetch"] = n["prefetch_hit"] + n["prefetch_filtered_inflight"]
                           + n["prefetch_dropped"] + n["prefetch_fill"]
                           + Cardinality(flying)
                           + (IF pending.pf THEN 1 ELSE 0) + abandoned

UnusedPrefetches ==
  {p \in Sets \X Ways : LET line == cache.sets[p[1]][p[2]]
                       IN  line.valid /\ line.prefetched /\ ~line.used_by_demand}

AwaitedPrefetches ==
  {b \in DOMAIN cache.inflight : /\ cache.inflight[b].is_prefetch
                                 /\ cache.inflight[b].has_demand_waiter}

\* Every line a prefetch filled is judged once: useful at its first demand
\* hit, useless at its eviction, undecided while it sits unused, or late
\* because a demand miss merged with it while it was in flight.
PrefetchVerdicts ==
  LET n == cache.stats
      judged == n["useful_prefetch"] + n["useless_prefetch"] + Cardinality(UnusedPrefetches)
  IN  /\ judged <= n["prefetch_fill"]
      /\ n["prefetch_fill"] + Cardinality(AwaitedPrefetches)
           <= judged + n["late_prefetch"]

\* Each block goes absent, in flight, resident, absent, with the MSHR and
\* capacity limits of BlockLife.
Whereabouts == [b \in Blocks |-> IF contains(cache, b) THEN "resident"
                                 ELSE IF b \in DOMAIN cache.inflight
                                 THEN "inflight" ELSE "absent"]

Life == INSTANCE BlockLife WITH where <- Whereabouts

ImplementsBlockLife == Life!LifeSpec
=============================================================================

------------------------------ MODULE CacheOps ------------------------------
(***************************************************************************)
(* The class Cache (src/trace_sim/mem/Cache.h) as a data type: a cache is  *)
(* a record of its lines, its in-flight requests (the MSHRs) and its       *)
(* counters, and each operator below is one of its methods.                *)
(*                                                                         *)
(* An address is abstracted to its line number (addr >> offset_bits): no   *)
(* method looks at the offset bits once the line is known.  fill_cycle is  *)
(* written and never read, so it is left out.                              *)
(***************************************************************************)
EXTENDS Integers, FiniteSets

CONSTANTS
  NumSets,      \* num_sets, a power of two
  Assoc,        \* assoc
  MaxInflight,  \* max_inflight: number of MSHRs
  Policy        \* the replacement policy: "LRU" or "FIFO"

ASSUME CacheAssumption ==
  /\ NumSets \in Nat \ {0}
  /\ Assoc \in Nat \ {0}
  /\ MaxInflight \in Nat \ {0}
  /\ Policy \in {"LRU", "FIFO"}

Sets == 0 .. NumSets - 1
Ways == 0 .. Assoc - 1

Index(b) == b % NumSets
Tag(b) == b \div NumSets

Line == [valid : BOOLEAN, tag : Nat, prefetched : BOOLEAN,
         used_by_demand : BOOLEAN, last_access : Nat, insertion_time : Nat]

EmptyLine == [valid |-> FALSE, tag |-> 0, prefetched |-> FALSE,
              used_by_demand |-> FALSE, last_access |-> 0,
              insertion_time |-> 0]

InflightRequest ==
  [ready_cycle : Nat, is_prefetch : BOOLEAN, has_demand_waiter : BOOLEAN]

Counters ==
  {"access", "hit", "miss_new", "miss_merged", "miss_blocked",
   "prefetch", "prefetch_hit", "prefetch_fill", "prefetch_dropped",
   "prefetch_filtered_inflight", "useful_prefetch", "useless_prefetch",
   "demand_merged_with_prefetch", "late_prefetch"}

EmptyCache ==
  [sets     |-> [s \in Sets |-> [w \in Ways |-> EmptyLine]],
   inflight |-> [b \in {} |-> {}],
   stats    |-> [k \in Counters |-> 0]]

\* stats with every counter named in ks incremented by one.
Count(stats, ks) ==
  [k \in Counters |-> stats[k] + (IF k \in ks THEN 1 ELSE 0)]

-----------------------------------------------------------------------------
(* Lookup                                                                  *)

Holds(c, b, w) == /\ c.sets[Index(b)][w].valid
                  /\ c.sets[Index(b)][w].tag = Tag(b)

contains(c, b) == \E w \in Ways : Holds(c, b, w)

\* The way the search loop of request stops at: the first that matches.
HitWay(c, b) == CHOOSE w \in Ways :
                  /\ Holds(c, b, w)
                  /\ \A v \in Ways : Holds(c, b, v) => w <= v

-----------------------------------------------------------------------------
(* request: classify the access, then count it and update what it touches. *)

\* Mutant: one MSHR too many is handed out.
StatusOneMore(c, b, pf) ==
  CASE contains(c, b)                                -> "HIT"
    [] b \in DOMAIN c.inflight                       -> "MISS_MERGED"
    [] Cardinality(DOMAIN c.inflight) <= MaxInflight -> "MISS_NEW"
    [] OTHER -> IF pf THEN "PREFETCH_DROPPED" ELSE "MISS_BLOCKED"

RequestStatus(c, b, pf) ==
  CASE contains(c, b)                              -> "HIT"
    [] ~contains(c, b) /\ b \in DOMAIN c.inflight  -> "MISS_MERGED"
    [] OTHER -> IF Cardinality(DOMAIN c.inflight) < MaxInflight
                THEN "MISS_NEW"
                ELSE IF pf THEN "PREFETCH_DROPPED" ELSE "MISS_BLOCKED"

\* Mutant: every demand hit on a prefetched line counts.
EveryUse(c, b, pf) == ~pf /\ c.sets[Index(b)][HitWay(c, b)].prefetched

\* A demand hit on a line that a prefetch brought in and nobody used yet.
FirstUse(c, b, pf) == LET line == c.sets[Index(b)][HitWay(c, b)]
                      IN  ~pf /\ line.prefetched /\ ~line.used_by_demand

CountedPrefetch(c, b) ==
  {"prefetch"} \cup
  CASE RequestStatus(c, b, TRUE) = "HIT"              -> {"prefetch_hit"}
    [] RequestStatus(c, b, TRUE) = "MISS_MERGED"      -> {"prefetch_filtered_inflight"}
    [] RequestStatus(c, b, TRUE) = "PREFETCH_DROPPED" -> {"prefetch_dropped"}
    [] OTHER                                          -> {}

CountedDemand(c, b) ==
  {"access"} \cup
  CASE RequestStatus(c, b, FALSE) = "HIT" ->
         {"hit"} \cup (IF FirstUse(c, b, FALSE) THEN {"useful_prefetch"} ELSE {})
    [] RequestStatus(c, b, FALSE) = "MISS_MERGED" ->
         {"miss_merged"} \cup
         (IF c.inflight[b].is_prefetch
          THEN {"demand_merged_with_prefetch", "late_prefetch"} ELSE {})
    [] RequestStatus(c, b, FALSE) = "MISS_BLOCKED" -> {"miss_blocked"}
    [] OTHER                                       -> {"miss_new"}

\* Mutant: a hit does not refresh the line's age.
TouchedNotStamped(line, cycle, first) == [line EXCEPT !.used_by_demand = @ \/ first]

\* on_cache_hit of the policy: LRU stamps the line, FIFO leaves it alone.
TouchedLine(line, cycle, first) ==
  [line EXCEPT !.last_access = IF Policy = "LRU" THEN cycle ELSE @,
               !.used_by_demand = @ \/ first]

\* The cache after request(b, cycle, pf).
RequestCache(c, b, cycle, pf) ==
  [sets |->
     IF contains(c, b)
     THEN [c.sets EXCEPT ![Index(b)][HitWay(c, b)] =
             TouchedLine(@, cycle, FirstUse(c, b, pf))]
     ELSE c.sets,
   inflight |->
     IF RequestStatus(c, b, pf) = "MISS_MERGED" /\ ~pf
     THEN [c.inflight EXCEPT ![b].has_demand_waiter = TRUE]
     ELSE c.inflight,
   stats |->
     Count(c.stats, IF pf THEN CountedPrefetch(c, b) ELSE CountedDemand(c, b))]

-----------------------------------------------------------------------------
(* schedule_fill: allocate an MSHR, or merge into the one that is there.   *)

ScheduledRequest(c, b, ready, pf) ==
  IF b \notin DOMAIN c.inflight
  THEN [ready_cycle |-> ready, is_prefetch |-> pf, has_demand_waiter |-> ~pf]
  ELSE LET old == c.inflight[b]
       IN  [ready_cycle       |-> IF ready > old.ready_cycle
                                  THEN ready ELSE old.ready_cycle,
            is_prefetch       |-> old.is_prefetch /\ pf,
            has_demand_waiter |-> old.has_demand_waiter \/ ~pf]

\* Mutant: the MSHR is filed under the next block.
ScheduleNextBlock(c, b, ready, pf) ==
  [c EXCEPT !.inflight = [x \in DOMAIN c.inflight \cup {b + 1} |->
                            IF x = b + 1 THEN ScheduledRequest(c, x, ready, pf)
                            ELSE c.inflight[x]]]

schedule_fill(c, b, ready, pf) ==
  [c EXCEPT !.inflight =
     [x \in DOMAIN c.inflight \cup {b} |->
        IF x = b THEN ScheduledRequest(c, b, ready, pf) ELSE c.inflight[x]]]

-----------------------------------------------------------------------------
(* process_returns: one iteration per completed block.                     *)

\* Mutant: a fill completes one cycle late.
CompletedLate(c, cycle) ==
  {b \in DOMAIN c.inflight : c.inflight[b].ready_cycle < cycle}

Completed(c, cycle) ==
  {b \in DOMAIN c.inflight : c.inflight[b].ready_cycle <= cycle}

\* What choose_victim minimises.
Age(line) == IF Policy = "LRU" THEN line.last_access ELSE line.insertion_time

\* choose_victim: the first invalid way, else the first way of least age.
Better(lines, w, v) ==
  IF lines[w].valid /\ lines[v].valid
  THEN \/ Age(lines[w]) < Age(lines[v])
       \/ Age(lines[w]) = Age(lines[v]) /\ w <= v
  ELSE ~lines[w].valid /\ (lines[v].valid \/ w <= v)

Victim(lines) == CHOOSE w \in Ways : \A v \in Ways : Better(lines, w, v)

FilledLine(b, cycle, req) ==
  [valid          |-> TRUE,
   tag            |-> Tag(b),
   prefetched     |-> req.is_prefetch,
   used_by_demand |-> req.has_demand_waiter \/ ~req.is_prefetch,
   last_access    |-> cycle,
   insertion_time |-> cycle]

\* Mutant: a prefetch that a demand miss merged with is not counted when it
\* is filled.
CountedTimelyFill(victim, req) ==
  (IF victim.valid /\ victim.prefetched /\ ~victim.used_by_demand
   THEN {"useless_prefetch"} ELSE {})
  \cup (IF req.is_prefetch /\ ~req.has_demand_waiter THEN {"prefetch_fill"} ELSE {})

CountedFill(victim, req) ==
  (IF victim.valid /\ victim.prefetched /\ ~victim.used_by_demand
   THEN {"useless_prefetch"} ELSE {})
  \cup (IF req.is_prefetch THEN {"prefetch_fill"} ELSE {})

\* Mutants: the MSHR is not released; every completed MSHR is released when
\* the first block is filled.
ReturnKept(c, b, cycle) ==
  [c EXCEPT !.sets[Index(b)][Victim(c.sets[Index(b)])] = FilledLine(b, cycle, c.inflight[b])]

ReturnLosing(c, b, cycle) ==
  [c EXCEPT !.sets[Index(b)][Victim(c.sets[Index(b)])] = FilledLine(b, cycle, c.inflight[b]),
            !.inflight = [x \in DOMAIN @ \ Completed(c, cycle) |-> @[x]]]

\* fill_block for the completed block b, and the erase that follows it.
ReturnBlock(c, b, cycle) ==
  LET s   == Index(b)
      w   == Victim(c.sets[s])
      req == c.inflight[b]
  IN  [sets     |-> [c.sets EXCEPT ![s][w] = FilledLine(b, cycle, req)],
       inflight |-> [x \in DOMAIN c.inflight \ {b} |-> c.inflight[x]],
       stats    |-> Count(c.stats, CountedFill(c.sets[s][w], req))]

=============================================================================

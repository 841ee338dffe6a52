------------------------- MODULE MemSubsystemProofs -------------------------
(***************************************************************************)
(* Theorems about MemSubsystem, for every geometry of the three caches,    *)
(* prefetcher, queue size, latency and load: the types, the traffic        *)
(* between the levels, and each level as a BlockLife.                      *)
(***************************************************************************)
EXTENDS MemSubsystem, SequenceTheorems, FiniteSetTheorems, WellFoundedInduction, TLAPS

LEMMA Geometries ==
  ASSUME NEW k \in Caches
  PROVE  /\ Geometry[k].NumSets \in Nat \ {0} /\ Geometry[k].Assoc \in Nat \ {0}
         /\ Geometry[k].MaxInflight \in Nat \ {0}
BY HierarchyAssumption

LEMMA LevelsAre ==
  /\ \A k \in L1s : k \in Caches /\ k # "llc"
  /\ "llc" \in Caches /\ "icache" \in L1s /\ "dcache" \in L1s
  /\ Caches = {"icache", "dcache", "llc"}
BY DEF Caches, L1s

-----------------------------------------------------------------------------
(* The methods of one cache                                                *)

LEMMA IndexRange ==
  ASSUME NEW k \in Caches, NEW b \in Lines
  PROVE  C(k)!Index(b) \in C(k)!Sets /\ C(k)!Tag(b) \in Nat
<1>. b \in Nat /\ Geometry[k].NumSets \in Nat \ {0}
  BY Geometries, PrefetcherAssumption DEF Lines
<1>. QED  BY DEF C!Index, C!Tag, C!Sets

CacheIs(k, c) ==
  /\ c = [sets |-> c.sets, inflight |-> c.inflight, stats |-> c.stats]
  /\ c.sets \in [C(k)!Sets -> [C(k)!Ways -> C(k)!Line]]
  /\ DOMAIN c.inflight \subseteq Lines
  /\ c.inflight \in [DOMAIN c.inflight -> C(k)!InflightRequest]
  /\ c.stats \in [C(k)!Counters -> Nat]

LEMMA EmptyIs == ASSUME NEW k \in Caches PROVE CacheIs(k, C(k)!EmptyCache)
BY DEF CacheIs, C!EmptyCache, C!EmptyLine, C!Line, C!InflightRequest

LEMMA CountType ==
  ASSUME NEW k \in Caches, NEW stats \in [C(k)!Counters -> Nat], NEW ks
  PROVE  /\ C(k)!Count(stats, ks) \in [C(k)!Counters -> Nat]
         /\ \A x \in C(k)!Counters :
              C(k)!Count(stats, ks)[x] = stats[x] + (IF x \in ks THEN 1 ELSE 0)
BY DEF C!Count

LEMMA StatusIs ==
  ASSUME NEW k \in Caches, NEW c, NEW b, NEW pf \in BOOLEAN
  PROVE  /\ C(k)!contains(c, b) => C(k)!RequestStatus(c, b, pf) = "HIT"
         /\ ~C(k)!contains(c, b) /\ b \in DOMAIN c.inflight
              => C(k)!RequestStatus(c, b, pf) = "MISS_MERGED"
         /\ ~C(k)!contains(c, b) /\ b \notin DOMAIN c.inflight
              => C(k)!RequestStatus(c, b, pf)
                   \in {"MISS_NEW", IF pf THEN "PREFETCH_DROPPED" ELSE "MISS_BLOCKED"}
<1>1. ASSUME C(k)!contains(c, b) PROVE C(k)!RequestStatus(c, b, pf) = "HIT"
  BY <1>1, Zenon DEF C!RequestStatus
<1>2. ASSUME ~C(k)!contains(c, b), b \in DOMAIN c.inflight
      PROVE  C(k)!RequestStatus(c, b, pf) = "MISS_MERGED"
  BY <1>2, Zenon DEF C!RequestStatus
<1>3. ASSUME ~C(k)!contains(c, b), b \notin DOMAIN c.inflight
      PROVE  C(k)!RequestStatus(c, b, pf)
               \in {"MISS_NEW", IF pf THEN "PREFETCH_DROPPED" ELSE "MISS_BLOCKED"}
  <2>1. C(k)!RequestStatus(c, b, pf) =
          IF C(k)!Cardinality(DOMAIN c.inflight) < Geometry[k].MaxInflight
          THEN "MISS_NEW" ELSE IF pf THEN "PREFETCH_DROPPED" ELSE "MISS_BLOCKED"
    BY <1>3, Zenon DEF C!RequestStatus
  <2>. QED  BY <2>1
<1>. QED  BY <1>1, <1>2, <1>3

\* request changes neither tags nor ready cycles, and allocates nothing.
LEMMA RequestKeeps ==
  ASSUME NEW k \in Caches, NEW c, CacheIs(k, c), NEW b \in Lines, NEW cyc \in Nat,
         NEW pf, pf \in BOOLEAN, NEW d, d = C(k)!RequestCache(c, b, cyc, pf)
  PROVE  /\ CacheIs(k, d)
         /\ DOMAIN d.inflight = DOMAIN c.inflight
         /\ \A x \in DOMAIN c.inflight :
              d.inflight[x].ready_cycle = c.inflight[x].ready_cycle
         /\ \A x \in Lines : C(k)!contains(d, x) <=> C(k)!contains(c, x)
         /\ \A s \in C(k)!Sets, w \in C(k)!Ways :
              /\ d.sets[s][w].valid = c.sets[s][w].valid
              /\ d.sets[s][w].tag = c.sets[s][w].tag
<1>1. /\ d = [sets |-> d.sets, inflight |-> d.inflight, stats |-> d.stats]
      /\ d.stats \in [C(k)!Counters -> Nat]
  BY CountType DEF C!RequestCache, CacheIs
<1>2. /\ d.sets \in [C(k)!Sets -> [C(k)!Ways -> C(k)!Line]]
      /\ \A s \in C(k)!Sets, w \in C(k)!Ways :
           /\ d.sets[s][w].valid = c.sets[s][w].valid
           /\ d.sets[s][w].tag = c.sets[s][w].tag
  <2>1. CASE ~C(k)!contains(c, b)
    BY <2>1 DEF C!RequestCache, CacheIs
  <2>2. CASE C(k)!contains(c, b)
    <3>. DEFINE i == C(k)!Index(b)
                v == C(k)!HitWay(c, b)
                first == C(k)!FirstUse(c, b, pf)
                T(line) == C(k)!TouchedLine(line, cyc, first)
    <3>1. d.sets = [c.sets EXCEPT ![i][v] = T(@)]
      BY <2>2 DEF C!RequestCache
    <3>2. \A line \in C(k)!Line : T(line) \in C(k)!Line
                                  /\ T(line).valid = line.valid /\ T(line).tag = line.tag
      BY DEF C!TouchedLine, C!Line
    <3>. DEFINE old == c.sets[i][v]
                new == T(old)
    <3>3. d.sets = [c.sets EXCEPT ![i][v] = new]
      BY <3>1
    <3>4. i \in C(k)!Sets
      BY IndexRange
    <3>5. v \in C(k)!Ways => old \in C(k)!Line
      BY <3>4 DEF CacheIs
    <3>6. v \in C(k)!Ways =>
            new \in C(k)!Line /\ new.valid = old.valid /\ new.tag = old.tag
      BY <3>2, <3>5
    <3>. HIDE DEF new, i, v
    <3>7. CASE v \in C(k)!Ways
      BY <3>3, <3>4, <3>6, <3>7 DEF CacheIs
    <3>8. CASE v \notin C(k)!Ways
      <4>. DEFINE same == [c.sets[i] EXCEPT ![v] = new]
      <4>1. c.sets[i] \in [C(k)!Ways -> C(k)!Line]
        BY <3>4 DEF CacheIs
      <4>2. same = c.sets[i]
        BY <3>8, <4>1
      <4>3. d.sets = [c.sets EXCEPT ![i] = same]
        BY <3>3
      <4>. HIDE DEF same
      <4>4. d.sets = c.sets
        BY <3>4, <4>2, <4>3 DEF CacheIs
      <4>. QED  BY <4>4 DEF CacheIs
    <3>. QED  BY <3>7, <3>8
  <2>. QED  BY <2>1, <2>2
<1>3. /\ DOMAIN d.inflight = DOMAIN c.inflight
      /\ d.inflight \in [DOMAIN c.inflight -> C(k)!InflightRequest]
      /\ \A x \in DOMAIN c.inflight :
           d.inflight[x].ready_cycle = c.inflight[x].ready_cycle
  <2>1. CASE C(k)!RequestStatus(c, b, pf) = "MISS_MERGED" /\ ~pf
    <3>. DEFINE old == c.inflight
                new == [old EXCEPT ![b].has_demand_waiter = TRUE]
    <3>1. d.inflight = new
      BY <2>1 DEF C!RequestCache
    <3>2. old \in [DOMAIN old -> C(k)!InflightRequest]
      BY DEF CacheIs
    <3>. HIDE DEF old
    <3>3. /\ DOMAIN new = DOMAIN old /\ new \in [DOMAIN old -> C(k)!InflightRequest]
          /\ \A x \in DOMAIN old : new[x].ready_cycle = old[x].ready_cycle
      BY <3>2 DEF C!InflightRequest
    <3>. HIDE DEF new
    <3>. QED  BY <3>1, <3>3 DEF old
  <2>2. CASE ~(C(k)!RequestStatus(c, b, pf) = "MISS_MERGED" /\ ~pf)
    BY <2>2 DEF C!RequestCache, CacheIs
  <2>. QED  BY <2>1, <2>2
<1>4. \A x \in Lines : C(k)!contains(d, x) <=> C(k)!contains(c, x)
  BY <1>2, IndexRange DEF C!contains, C!Holds
<1>. QED  BY <1>1, <1>2, <1>3, <1>4 DEF CacheIs
\* schedule_fill allocates an MSHR, or moves the one that is there to a later
\* ready cycle.
LEMMA ScheduleAdds ==
  ASSUME NEW k \in Caches, NEW c, CacheIs(k, c), NEW b \in Lines, NEW ready \in Nat,
         NEW pf \in BOOLEAN, NEW d, d = C(k)!schedule_fill(c, b, ready, pf)
  PROVE  /\ CacheIs(k, d) /\ d.sets = c.sets /\ d.stats = c.stats
         /\ DOMAIN d.inflight = DOMAIN c.inflight \cup {b}
         /\ b \notin DOMAIN c.inflight => d.inflight[b].ready_cycle = ready
         /\ \A x \in Lines : C(k)!contains(d, x) <=> C(k)!contains(c, x)
<1>1. /\ d = [sets |-> c.sets, inflight |-> d.inflight, stats |-> c.stats]
      /\ d.inflight = [x \in DOMAIN c.inflight \cup {b} |->
                         IF x = b THEN C(k)!ScheduledRequest(c, b, ready, pf)
                         ELSE c.inflight[x]]
  BY DEF C!schedule_fill, CacheIs
<1>2. /\ C(k)!ScheduledRequest(c, b, ready, pf) \in C(k)!InflightRequest
      /\ b \notin DOMAIN c.inflight =>
           C(k)!ScheduledRequest(c, b, ready, pf).ready_cycle = ready
  BY DEF C!ScheduledRequest, C!InflightRequest, CacheIs
<1>3. \A x \in Lines : C(k)!contains(d, x) <=> C(k)!contains(c, x)
  BY <1>1 DEF C!contains, C!Holds
<1>. QED  BY <1>1, <1>2, <1>3 DEF CacheIs

\* A fill replaces one line and frees an MSHR; the demand counters and those
\* of the prefetches that were asked for stay as they are.
LEMMA ReturnFills ==
  ASSUME NEW k \in Caches, NEW c, CacheIs(k, c), NEW b \in DOMAIN c.inflight,
         NEW cyc \in Nat, NEW d, d = C(k)!ReturnBlock(c, b, cyc)
  PROVE  /\ CacheIs(k, d)
         /\ DOMAIN d.inflight = DOMAIN c.inflight \ {b}
         /\ \A x \in C(k)!Counters \ {"useless_prefetch", "prefetch_fill"} :
              d.stats[x] = c.stats[x]
<1>. DEFINE i == C(k)!Index(b)
            v == C(k)!Victim(c.sets[i])
            new == C(k)!FilledLine(b, cyc, c.inflight[b])
            ks == C(k)!CountedFill(c.sets[i][v], c.inflight[b])
<1>1. d = [sets     |-> [c.sets EXCEPT ![i][v] = new],
           inflight |-> [x \in DOMAIN c.inflight \ {b} |-> c.inflight[x]],
           stats    |-> C(k)!Count(c.stats, ks)]
  BY DEF C!ReturnBlock
<1>2. i \in C(k)!Sets /\ C(k)!Tag(b) \in Nat
  BY IndexRange DEF CacheIs
<1>3. new \in C(k)!Line
  BY <1>2 DEF C!FilledLine, C!Line, C!InflightRequest, CacheIs
<1>4. ks \subseteq {"useless_prefetch", "prefetch_fill"}
  BY DEF C!CountedFill
<1>. HIDE DEF new, v, i, ks
<1>5. [c.sets EXCEPT ![i][v] = new] \in [C(k)!Sets -> [C(k)!Ways -> C(k)!Line]]
  BY <1>2, <1>3 DEF CacheIs
<1>6. /\ d.stats \in [C(k)!Counters -> Nat]
      /\ \A x \in C(k)!Counters : d.stats[x] = c.stats[x] + (IF x \in ks THEN 1 ELSE 0)
  BY <1>1, CountType DEF CacheIs
<1>7. \A x \in C(k)!Counters \ {"useless_prefetch", "prefetch_fill"} : d.stats[x] = c.stats[x]
  BY <1>4, <1>6 DEF CacheIs
<1>. QED  BY <1>1, <1>5, <1>6, <1>7 DEF CacheIs

-----------------------------------------------------------------------------
(* What a request counts                                                   *)

\* The counters that tell the traffic between the levels.
Told == {"access", "miss_new", "prefetch", "prefetch_hit", "prefetch_filtered_inflight",
         "prefetch_dropped"}

One(p) == IF p THEN 1 ELSE 0

\* A demand request is counted, and told as MISS_NEW when it goes on.
LEMMA DemandCounts ==
  ASSUME NEW k \in Caches, NEW c, NEW b, NEW ks, ks = C(k)!CountedDemand(c, b)
  PROVE  /\ "access" \in ks
         /\ "miss_new" \in ks <=> C(k)!RequestStatus(c, b, FALSE) = "MISS_NEW"
         /\ "prefetch" \notin ks /\ "prefetch_hit" \notin ks
         /\ "prefetch_filtered_inflight" \notin ks /\ "prefetch_dropped" \notin ks
<1>. DEFINE status == C(k)!RequestStatus(c, b, FALSE)
            first == C(k)!FirstUse(c, b, FALSE)
            joins == c.inflight[b].is_prefetch
            Others == {"hit", "useful_prefetch", "miss_merged", "miss_blocked",
                       "demand_merged_with_prefetch", "late_prefetch"}
<1>1. status \in {"HIT", "MISS_MERGED", "MISS_NEW", "MISS_BLOCKED"}
  BY StatusIs
<1>2. ASSUME status = "HIT" PROVE ks \subseteq {"access"} \cup Others /\ "access" \in ks
  <2>1. ks = {"access"} \cup ({"hit"} \cup (IF first THEN {"useful_prefetch"} ELSE {}))
    BY <1>2, Zenon DEF C!CountedDemand
  <2>. HIDE DEF first
  <2>. QED  BY ONLY <2>1
<1>3. ASSUME status = "MISS_MERGED"
      PROVE  ks \subseteq {"access"} \cup Others /\ "access" \in ks
  <2>1. ks = {"access"} \cup ({"miss_merged"} \cup
               (IF joins THEN {"demand_merged_with_prefetch", "late_prefetch"} ELSE {}))
    BY <1>3, Zenon DEF C!CountedDemand
  <2>. HIDE DEF joins
  <2>. QED  BY ONLY <2>1
<1>4. ASSUME status = "MISS_BLOCKED"
      PROVE  ks \subseteq {"access"} \cup Others /\ "access" \in ks
  <2>1. ks = {"access"} \cup {"miss_blocked"}
    BY <1>4, Zenon DEF C!CountedDemand
  <2>. QED  BY ONLY <2>1
<1>5. ASSUME status = "MISS_NEW" PROVE ks = {"access"} \cup {"miss_new"}
  BY <1>5, Zenon DEF C!CountedDemand
<1>. HIDE DEF status
<1>6. CASE status = "MISS_NEW"
  BY <1>5, <1>6 DEF status
<1>7. CASE status # "MISS_NEW"
  <2>1. ks \subseteq {"access"} \cup Others /\ "access" \in ks
    BY <1>1, <1>2, <1>3, <1>4, <1>7
  <2>. QED  BY <2>1, <1>7 DEF status
<1>. QED  BY <1>6, <1>7

\* A prefetch request is counted, and why it does not go on.
LEMMA PrefetchCounts ==
  ASSUME NEW k \in Caches, NEW c, NEW b, NEW ks, ks = C(k)!CountedPrefetch(c, b),
         NEW status, status = C(k)!RequestStatus(c, b, TRUE)
  PROVE  /\ "prefetch" \in ks /\ "access" \notin ks /\ "miss_new" \notin ks
         /\ One("prefetch_hit" \in ks) + One("prefetch_filtered_inflight" \in ks)
              + One("prefetch_dropped" \in ks)
              + One(status = "MISS_NEW") = 1
<1>. DEFINE Outcomes(s) == /\ "prefetch" \in ks /\ "access" \notin ks /\ "miss_new" \notin ks
                           /\ ("prefetch_hit" \in ks) <=> s = "HIT"
                           /\ ("prefetch_filtered_inflight" \in ks) <=> s = "MISS_MERGED"
                           /\ ("prefetch_dropped" \in ks) <=> s = "PREFETCH_DROPPED"
<1>1. status \in {"HIT", "MISS_MERGED", "MISS_NEW", "PREFETCH_DROPPED"}
  BY StatusIs
<1>2. ASSUME status = "HIT" PROVE Outcomes("HIT")
  <2>1. ks = {"prefetch"} \cup {"prefetch_hit"}
    BY <1>2, Zenon DEF C!CountedPrefetch
  <2>. QED  BY ONLY <2>1
<1>3. ASSUME status = "MISS_MERGED" PROVE Outcomes("MISS_MERGED")
  <2>1. ks = {"prefetch"} \cup {"prefetch_filtered_inflight"}
    BY <1>3, Zenon DEF C!CountedPrefetch
  <2>. QED  BY ONLY <2>1
<1>4. ASSUME status = "PREFETCH_DROPPED" PROVE Outcomes("PREFETCH_DROPPED")
  <2>1. ks = {"prefetch"} \cup {"prefetch_dropped"}
    BY <1>4, Zenon DEF C!CountedPrefetch
  <2>. QED  BY ONLY <2>1
<1>5. ASSUME status = "MISS_NEW" PROVE Outcomes("MISS_NEW")
  <2>1. ks = {"prefetch"} \cup {}
    BY <1>5, Zenon DEF C!CountedPrefetch
  <2>. QED  BY ONLY <2>1
<1>6. Outcomes(status)
  BY ONLY <1>1, <1>2, <1>3, <1>4, <1>5
<1>7. One("prefetch_hit" \in ks) + One("prefetch_filtered_inflight" \in ks)
        + One("prefetch_dropped" \in ks) + One(status = "MISS_NEW") = 1
  BY ONLY <1>1, <1>6 DEF One
<1>. QED  BY ONLY <1>6, <1>7, Zenon
\* The prefetches an L1 passes on, from its counters.
Forwarded(n) == n["prefetch"] - n["prefetch_hit"] - n["prefetch_filtered_inflight"]
                              - n["prefetch_dropped"]

\* A prefetch passes on unless the cache says otherwise.
LEMMA PrefetchTally ==
  ASSUME NEW m, NEW n, NEW ks, NEW goes,
         \A x \in Told : m[x] = n[x] + One(x \in ks) /\ n[x] \in Nat,
         "prefetch" \in ks, "access" \notin ks, "miss_new" \notin ks,
         One("prefetch_hit" \in ks) + One("prefetch_filtered_inflight" \in ks)
           + One("prefetch_dropped" \in ks) + goes = 1,
         goes \in {0, 1}
  PROVE  /\ m["access"] = n["access"] /\ m["miss_new"] = n["miss_new"]
         /\ m["prefetch"] = n["prefetch"] + 1
         /\ Forwarded(m) = Forwarded(n) + goes
<1>1. /\ m["access"] = n["access"] /\ m["miss_new"] = n["miss_new"]
      /\ m["prefetch"] = n["prefetch"] + 1 /\ n["prefetch"] \in Nat
  BY DEF Told, One
<1>2. PICK p \in {0, 1}, q \in {0, 1}, r \in {0, 1} :
        /\ p = One("prefetch_hit" \in ks) /\ q = One("prefetch_filtered_inflight" \in ks)
        /\ r = One("prefetch_dropped" \in ks)
  BY DEF One
<1>3. /\ m["prefetch_hit"] = n["prefetch_hit"] + p /\ n["prefetch_hit"] \in Nat
      /\ m["prefetch_filtered_inflight"] = n["prefetch_filtered_inflight"] + q
      /\ n["prefetch_filtered_inflight"] \in Nat
      /\ m["prefetch_dropped"] = n["prefetch_dropped"] + r /\ n["prefetch_dropped"] \in Nat
  BY <1>2 DEF Told
<1>4. p + q + r + goes = 1
  BY <1>2
<1>5. Forwarded(m) = Forwarded(n) + goes
  BY ONLY <1>1, <1>3, <1>4, goes \in {0, 1} DEF Forwarded
<1>. QED  BY <1>1, <1>5

\* A demand passes on when it is counted as MISS_NEW.
LEMMA DemandTally ==
  ASSUME NEW m, NEW n, NEW ks,
         \A x \in Told : m[x] = n[x] + One(x \in ks) /\ n[x] \in Nat,
         "access" \in ks, "prefetch" \notin ks, "prefetch_hit" \notin ks,
         "prefetch_filtered_inflight" \notin ks, "prefetch_dropped" \notin ks
  PROVE  /\ m["access"] = n["access"] + 1
         /\ m["miss_new"] = n["miss_new"] + One("miss_new" \in ks)
         /\ m["prefetch"] = n["prefetch"] /\ Forwarded(m) = Forwarded(n)
<1>1. \A x \in Told : x \notin ks => m[x] = n[x]
  BY DEF One
<1>2. Forwarded(m) = Forwarded(n)
  BY <1>1 DEF Told, Forwarded
<1>. QED  BY <1>1, <1>2 DEF Told, One

LEMMA CountedIs ==
  ASSUME NEW k \in Caches, NEW n \in [C(k)!Counters -> Nat], NEW ks, NEW m,
         m = C(k)!Count(n, ks)
  PROVE  \A x \in Told : m[x] = n[x] + One(x \in ks) /\ n[x] \in Nat
<1>1. Told \subseteq C(k)!Counters
  BY DEF Told, C!Counters
<1>. QED  BY <1>1, CountType DEF One

\* What a request moves in the told counters.
LEMMA DemandTold ==
  ASSUME NEW k \in Caches, NEW c, CacheIs(k, c), NEW b \in Lines, NEW cyc \in Nat,
         NEW pf, pf \in BOOLEAN, NEW d, d = C(k)!RequestCache(c, b, cyc, pf),
         NEW status, status = C(k)!RequestStatus(c, b, pf)
  PROVE  ~pf => /\ d.stats["access"] = c.stats["access"] + 1
                /\ d.stats["miss_new"] = c.stats["miss_new"]
                     + One(status = "MISS_NEW")
                /\ d.stats["prefetch"] = c.stats["prefetch"]
                /\ Forwarded(d.stats) = Forwarded(c.stats)
<1>. SUFFICES ASSUME ~pf
             PROVE  /\ d.stats["access"] = c.stats["access"] + 1
                    /\ d.stats["miss_new"] = c.stats["miss_new"]
                         + One(status = "MISS_NEW")
                    /\ d.stats["prefetch"] = c.stats["prefetch"]
                    /\ Forwarded(d.stats) = Forwarded(c.stats)
  OBVIOUS
<1>0. status = C(k)!RequestStatus(c, b, FALSE)
  OBVIOUS
<1>. DEFINE ks == C(k)!CountedDemand(c, b)
            n == c.stats
            m == d.stats
<1>1. m = C(k)!Count(n, ks) /\ n \in [C(k)!Counters -> Nat]
  <2>1. n \in [C(k)!Counters -> Nat]
    BY DEF CacheIs
  <2>2. m = C(k)!Count(n, ks)
    BY DEF C!RequestCache
  <2>. QED  BY <2>1, <2>2
<1>2. /\ "access" \in ks
      /\ "miss_new" \in ks <=> C(k)!RequestStatus(c, b, FALSE) = "MISS_NEW"
      /\ "prefetch" \notin ks /\ "prefetch_hit" \notin ks
      /\ "prefetch_filtered_inflight" \notin ks /\ "prefetch_dropped" \notin ks
  <2>1. ks = C(k)!CountedDemand(c, b)
    OBVIOUS
  <2>. HIDE DEF ks
  <2>. QED  BY <2>1, DemandCounts
<1>. HIDE DEF ks, m, n
<1>3. \A x \in Told : m[x] = n[x] + One(x \in ks) /\ n[x] \in Nat
  BY ONLY <1>1, k \in Caches, CountedIs
<1>4. /\ m["access"] = n["access"] + 1
      /\ m["miss_new"] = n["miss_new"] + One("miss_new" \in ks)
      /\ m["prefetch"] = n["prefetch"] /\ Forwarded(m) = Forwarded(n)
  BY ONLY <1>2, <1>3, DemandTally
<1>5. One("miss_new" \in ks) = One(status = "MISS_NEW")
  BY ONLY <1>0, <1>2 DEF One
<1>. QED  BY <1>4, <1>5 DEF m, n

LEMMA PrefetchTold ==
  ASSUME NEW k \in Caches, NEW c, CacheIs(k, c), NEW b \in Lines, NEW cyc \in Nat,
         NEW pf, pf \in BOOLEAN, NEW d, d = C(k)!RequestCache(c, b, cyc, pf),
         NEW status, status = C(k)!RequestStatus(c, b, pf)
  PROVE  pf => /\ d.stats["access"] = c.stats["access"]
               /\ d.stats["miss_new"] = c.stats["miss_new"]
               /\ d.stats["prefetch"] = c.stats["prefetch"] + 1
               /\ Forwarded(d.stats) = Forwarded(c.stats)
                    + One(status = "MISS_NEW")
<1>. SUFFICES ASSUME pf
             PROVE  /\ d.stats["access"] = c.stats["access"]
                    /\ d.stats["miss_new"] = c.stats["miss_new"]
                    /\ d.stats["prefetch"] = c.stats["prefetch"] + 1
                    /\ Forwarded(d.stats) = Forwarded(c.stats)
                         + One(status = "MISS_NEW")
  OBVIOUS
<1>0. status = C(k)!RequestStatus(c, b, TRUE)
  OBVIOUS
<1>. DEFINE ks == C(k)!CountedPrefetch(c, b)
            goes == One(status = "MISS_NEW")
            n == c.stats
            m == d.stats
<1>1. m = C(k)!Count(n, ks) /\ n \in [C(k)!Counters -> Nat]
  <2>1. n \in [C(k)!Counters -> Nat]
    BY DEF CacheIs
  <2>2. m = C(k)!Count(n, ks)
    BY DEF C!RequestCache
  <2>. QED  BY <2>1, <2>2
<1>2. /\ "prefetch" \in ks /\ "access" \notin ks /\ "miss_new" \notin ks
      /\ One("prefetch_hit" \in ks) + One("prefetch_filtered_inflight" \in ks)
           + One("prefetch_dropped" \in ks) + goes = 1
      /\ goes \in {0, 1}
  <2>1. ks = C(k)!CountedPrefetch(c, b) /\ status = C(k)!RequestStatus(c, b, TRUE)
    BY <1>0
  <2>. HIDE DEF ks
  <2>. QED  BY ONLY <2>1, k \in Caches, PrefetchCounts DEF One, goes
<1>. HIDE DEF ks, m, n, goes
<1>3. \A x \in Told : m[x] = n[x] + One(x \in ks) /\ n[x] \in Nat
  BY ONLY <1>1, k \in Caches, CountedIs
<1>4. /\ m["access"] = n["access"] /\ m["miss_new"] = n["miss_new"]
      /\ m["prefetch"] = n["prefetch"] + 1
      /\ Forwarded(m) = Forwarded(n) + goes
  BY ONLY <1>2, <1>3, PrefetchTally
<1>. QED  BY <1>4 DEF m, n, goes
-----------------------------------------------------------------------------
(* One access of the hierarchy                                             *)

CachesAre(c) == DOMAIN c = Caches /\ \A k \in Caches : CacheIs(k, c[k])

\* When the LLC has the line of an access it takes.
LEMMA LLCReadyIs ==
  ASSUME CachesAre(cache), cycle \in Nat, NEW b \in Lines, NEW pf, pf \in BOOLEAN,
         LLCStatus(b, pf) \notin {"MISS_BLOCKED", "PREFETCH_DROPPED"}
  PROVE  /\ LLCReady(b, pf) \in Nat
         /\ LLCStatus(b, pf) \in {"HIT", "MISS_MERGED", "MISS_NEW"}
         /\ LLCStatus(b, pf) = "HIT" => C("llc")!contains(cache["llc"], b)
         /\ LLCStatus(b, pf) = "MISS_MERGED" =>
              /\ b \in DOMAIN cache["llc"].inflight
              /\ LLCReady(b, pf) = cache["llc"].inflight[b].ready_cycle
         /\ LLCStatus(b, pf) = "MISS_NEW" => b \notin DOMAIN cache["llc"].inflight
<1>. DEFINE c == cache["llc"]
            status == LLCStatus(b, pf)
<1>1. CacheIs("llc", c)
  BY LevelsAre DEF CachesAre
<1>2. /\ C("llc")!contains(c, b) => status = "HIT"
      /\ ~C("llc")!contains(c, b) /\ b \in DOMAIN c.inflight => status = "MISS_MERGED"
      /\ ~C("llc")!contains(c, b) /\ b \notin DOMAIN c.inflight =>
           status \in {"MISS_NEW", "PREFETCH_DROPPED", "MISS_BLOCKED"}
  BY LevelsAre, StatusIs DEF LLCStatus
<1>3. status \in {"HIT", "MISS_MERGED", "MISS_NEW"}
  BY <1>2
<1>4. ASSUME status = "MISS_MERGED" PROVE LLCReady(b, pf) = c.inflight[b].ready_cycle
  BY <1>4, Zenon DEF LLCReady
<1>5. ASSUME status = "MISS_NEW"
      PROVE  LLCReady(b, pf) = cycle + LLC_HIT_LATENCY + MEMORY_MISS_PENALTY
  BY <1>5, Zenon DEF LLCReady
<1>6. ASSUME status = "HIT" PROVE LLCReady(b, pf) = cycle + LLC_HIT_LATENCY
  BY <1>6, Zenon DEF LLCReady
<1>7. b \in DOMAIN c.inflight => c.inflight[b].ready_cycle \in Nat
  BY <1>1 DEF CacheIs, C!InflightRequest
<1>8. LLC_HIT_LATENCY \in Nat /\ MEMORY_MISS_PENALTY \in Nat
  BY HierarchyAssumption
<1>. HIDE DEF status
<1>9. LLCReady(b, pf) \in Nat
  BY <1>2, <1>3, <1>4, <1>5, <1>6, <1>7, <1>8
<1>. QED  BY <1>2, <1>3, <1>4, <1>9 DEF status

\* The LLC's side: after an access that it takes it holds the line, or its
\* MSHR says when it will.
LEMMA LLCAccess ==
  ASSUME CachesAre(cache), cycle \in Nat, NEW b \in Lines, NEW pf, pf \in BOOLEAN,
         NEW d, d = LLCAfter(b, pf)
  PROVE  /\ CacheIs("llc", d)
         /\ d.stats = C("llc")!RequestCache(cache["llc"], b, cycle, pf).stats
         /\ LLCStatus(b, pf) \notin {"MISS_BLOCKED", "PREFETCH_DROPPED"} =>
              \/ C("llc")!contains(d, b)
              \/ /\ b \in DOMAIN d.inflight
                 /\ d.inflight[b].ready_cycle = LLCReady(b, pf)
<1>. DEFINE c == cache["llc"]
            e == C("llc")!RequestCache(c, b, cycle, pf)
            taken == LLCStatus(b, pf) \notin {"MISS_BLOCKED", "PREFETCH_DROPPED"}
<1>0. "llc" \in Caches /\ CacheIs("llc", c)
  BY LevelsAre DEF CachesAre
<1>1. e = C("llc")!RequestCache(c, b, cycle, pf)
  OBVIOUS
<1>. HIDE DEF c, e
<1>2. /\ CacheIs("llc", e) /\ DOMAIN e.inflight = DOMAIN c.inflight
      /\ \A x \in DOMAIN c.inflight : e.inflight[x].ready_cycle = c.inflight[x].ready_cycle
      /\ \A x \in Lines : C("llc")!contains(e, x) <=> C("llc")!contains(c, x)
  BY <1>0, <1>1, RequestKeeps
<1>3. CASE LLCStatus(b, pf) # "MISS_NEW"
  <2>1. d = e
    BY <1>3 DEF LLCAfter, e, c
  <2>2. ASSUME taken
        PROVE  \/ C("llc")!contains(d, b)
               \/ b \in DOMAIN d.inflight /\ d.inflight[b].ready_cycle = LLCReady(b, pf)
    <3>1. \/ C("llc")!contains(c, b)
          \/ /\ b \in DOMAIN c.inflight
             /\ LLCReady(b, pf) = c.inflight[b].ready_cycle
      BY <1>3, <2>2, LLCReadyIs DEF c
    <3>. QED  BY <1>2, <2>1, <3>1
  <2>. QED  BY <1>2, <2>1, <2>2 DEF e, c
<1>4. CASE LLCStatus(b, pf) = "MISS_NEW"
  <2>1. d = C("llc")!schedule_fill(e, b, LLCReady(b, pf), pf)
    BY <1>4 DEF LLCAfter, e, c
  <2>2. LLCReady(b, pf) \in Nat /\ b \notin DOMAIN e.inflight
    BY <1>2, <1>4, LLCReadyIs DEF c
  <2>3. /\ CacheIs("llc", d) /\ d.stats = e.stats
        /\ DOMAIN d.inflight = DOMAIN e.inflight \cup {b}
        /\ d.inflight[b].ready_cycle = LLCReady(b, pf)
    BY ONLY <1>0, <1>2, <2>1, <2>2, b \in Lines, pf \in BOOLEAN, ScheduleAdds
  <2>. QED  BY <2>3 DEF e, c
<1>. QED  BY <1>3, <1>4

\* The L1's side: it allocates only for a line the LLC does not refuse.
LEMMA L1Access ==
  ASSUME CachesAre(cache), cycle \in Nat, NEW k \in L1s, NEW b \in Lines,
         NEW pf, pf \in BOOLEAN, NEW d, d = L1After(k, b, pf)
  PROVE  /\ CacheIs(k, d)
         /\ d.stats = C(k)!RequestCache(cache[k], b, cycle, pf).stats
         /\ \A x \in DOMAIN d.inflight \ DOMAIN cache[k].inflight :
              /\ x = b /\ L1Status(k, b, pf) = "MISS_NEW"
              /\ LLCStatus(b, pf) \notin {"MISS_BLOCKED", "PREFETCH_DROPPED"}
              /\ LLCReady(b, pf) <= d.inflight[b].ready_cycle
<1>. DEFINE c == cache[k]
            e == C(k)!RequestCache(c, b, cycle, pf)
            goes == L1Status(k, b, pf) = "MISS_NEW" /\ ~LLCRefuses(k, b, pf)
<1>0. k \in Caches /\ CacheIs(k, c)
  BY LevelsAre DEF CachesAre
<1>1. e = C(k)!RequestCache(c, b, cycle, pf)
  OBVIOUS
<1>. HIDE DEF c, e
<1>2. CacheIs(k, e) /\ DOMAIN e.inflight = DOMAIN c.inflight
  BY <1>0, <1>1, RequestKeeps
<1>3. CASE ~goes
  <2>1. d = e
    BY <1>3 DEF L1After, e, c
  <2>. QED  BY <1>2, <2>1 DEF e, c
<1>4. CASE goes
  <2>1. d = C(k)!schedule_fill(e, b, L1Ready(k, b, pf), pf)
    BY <1>4 DEF L1After, e, c
  <2>2. LLCStatus(b, pf) \notin {"MISS_BLOCKED", "PREFETCH_DROPPED"}
    BY <1>4 DEF LLCRefuses
  <2>3. /\ LLCReady(b, pf) \in Nat /\ L1Ready(k, b, pf) \in Nat
        /\ LLCReady(b, pf) <= L1Ready(k, b, pf)
    <3>1. LLCReady(b, pf) \in Nat
      BY <2>2, LLCReadyIs
    <3>. QED  BY <3>1, HierarchyAssumption DEF L1Ready
  <2>4. b \notin DOMAIN c.inflight
    BY <1>0, <1>4, StatusIs DEF L1Status, c
  <2>5. /\ CacheIs(k, d) /\ d.stats = e.stats
        /\ DOMAIN d.inflight = DOMAIN e.inflight \cup {b}
        /\ d.inflight[b].ready_cycle = L1Ready(k, b, pf)
    <3>1. b \notin DOMAIN e.inflight
      BY <1>2, <2>4
    <3>. QED  BY ONLY <1>0, <1>2, <2>1, <2>3, <3>1, b \in Lines, pf \in BOOLEAN, ScheduleAdds
  <2>. QED  BY <1>2, <1>4, <2>2, <2>3, <2>5 DEF e, c
<1>. QED  BY <1>3, <1>4
\* TrafficAgrees and the step of FillsFromBelow, for given caches.
Traffic(c) ==
  /\ c["llc"].stats["access"] = c["icache"].stats["miss_new"] + c["dcache"].stats["miss_new"]
  /\ c["llc"].stats["prefetch"]
       = Forwarded(c["icache"].stats) + Forwarded(c["dcache"].stats)

FromBelow(c, d) ==
  \A k \in L1s : \A b \in DOMAIN d[k].inflight \ DOMAIN c[k].inflight :
    \/ C("llc")!contains(d["llc"], b)
    \/ /\ b \in DOMAIN d["llc"].inflight
       /\ d["llc"].inflight[b].ready_cycle <= d[k].inflight[b].ready_cycle

LEMMA ToldNumbers ==
  ASSUME NEW k \in Caches, NEW c, CacheIs(k, c)
  PROVE  /\ \A x \in Told : c.stats[x] \in Nat
         /\ Forwarded(c.stats) \in Int
<1>1. Told \subseteq C(k)!Counters
  BY DEF Told, C!Counters
<1>2. \A x \in Told : c.stats[x] \in Nat
  BY <1>1 DEF CacheIs
<1>. QED  BY <1>2 DEF Told, Forwarded

LEMMA AccessedIs ==
  ASSUME CachesAre(cache), NEW k \in L1s, NEW b, NEW pf, NEW d, d = Accessed(k, b, pf)
  PROVE  /\ DOMAIN d = Caches /\ d[k] = L1After(k, b, pf)
         /\ d["llc"] = IF L1Status(k, b, pf) = "MISS_NEW" THEN LLCAfter(b, pf) ELSE cache["llc"]
         /\ \A j \in L1s : j # k => d[j] = cache[j]
BY LevelsAre DEF Accessed, CachesAre

LEMMA AccessKeepsShape ==
  ASSUME CachesAre(cache), cycle \in Nat, NEW k \in L1s, NEW b \in Lines,
         NEW pf, pf \in BOOLEAN, NEW d, d = Accessed(k, b, pf)
  PROVE  CachesAre(d) /\ FromBelow(cache, d)
<1>1. /\ DOMAIN d = Caches /\ d[k] = L1After(k, b, pf)
      /\ d["llc"] = IF L1Status(k, b, pf) = "MISS_NEW" THEN LLCAfter(b, pf) ELSE cache["llc"]
      /\ \A j \in L1s : j # k => d[j] = cache[j]
  BY AccessedIs
<1>2. /\ CacheIs(k, d[k])
      /\ \A x \in DOMAIN d[k].inflight \ DOMAIN cache[k].inflight :
           /\ x = b /\ L1Status(k, b, pf) = "MISS_NEW"
           /\ LLCStatus(b, pf) \notin {"MISS_BLOCKED", "PREFETCH_DROPPED"}
           /\ LLCReady(b, pf) <= d[k].inflight[b].ready_cycle
  BY <1>1, L1Access
<1>3. /\ CacheIs("llc", LLCAfter(b, pf))
      /\ LLCStatus(b, pf) \notin {"MISS_BLOCKED", "PREFETCH_DROPPED"} =>
           \/ C("llc")!contains(LLCAfter(b, pf), b)
           \/ /\ b \in DOMAIN LLCAfter(b, pf).inflight
              /\ LLCAfter(b, pf).inflight[b].ready_cycle = LLCReady(b, pf)
  <2>. DEFINE e == LLCAfter(b, pf)
  <2>1. e = LLCAfter(b, pf)
    OBVIOUS
  <2>. HIDE DEF e
  <2>2. /\ CacheIs("llc", e)
        /\ LLCStatus(b, pf) \notin {"MISS_BLOCKED", "PREFETCH_DROPPED"} =>
             \/ C("llc")!contains(e, b)
             \/ /\ b \in DOMAIN e.inflight
                /\ e.inflight[b].ready_cycle = LLCReady(b, pf)
    BY <2>1, LLCAccess
  <2>. QED  BY <2>1, <2>2
<1>4. CachesAre(d)
  <2>1. CacheIs("llc", d["llc"])
    BY <1>1, <1>3, LevelsAre DEF CachesAre
  <2>2. \A j \in L1s : CacheIs(j, d[j])
    BY <1>1, <1>2, LevelsAre DEF CachesAre
  <2>. QED  BY <1>1, <2>1, <2>2 DEF CachesAre, Caches
<1>5. FromBelow(cache, d)
  <2>. SUFFICES ASSUME NEW j \in L1s,
                       NEW x \in DOMAIN d[j].inflight \ DOMAIN cache[j].inflight
                PROVE  \/ C("llc")!contains(d["llc"], x)
                       \/ /\ x \in DOMAIN d["llc"].inflight
                          /\ d["llc"].inflight[x].ready_cycle <= d[j].inflight[x].ready_cycle
    BY DEF FromBelow
  <2>1. j = k
    BY <1>1
  <2>2. /\ x = b /\ d["llc"] = LLCAfter(b, pf)
        /\ LLCReady(b, pf) <= d[k].inflight[b].ready_cycle
        /\ LLCStatus(b, pf) \notin {"MISS_BLOCKED", "PREFETCH_DROPPED"}
    BY <1>1, <1>2, <2>1
  <2>. QED  BY <1>3, <2>1, <2>2
<1>. QED  BY <1>4, <1>5

LEMMA RequestTold ==
  ASSUME NEW k \in Caches, NEW c, CacheIs(k, c), NEW b \in Lines, NEW cyc \in Nat,
         NEW pf, pf \in BOOLEAN, NEW d, d = C(k)!RequestCache(c, b, cyc, pf),
         NEW status, status = C(k)!RequestStatus(c, b, pf)
  PROVE  /\ pf => /\ d.stats["access"] = c.stats["access"]
                  /\ d.stats["miss_new"] = c.stats["miss_new"]
                  /\ d.stats["prefetch"] = c.stats["prefetch"] + 1
                  /\ Forwarded(d.stats) = Forwarded(c.stats) + One(status = "MISS_NEW")
         /\ ~pf => /\ d.stats["access"] = c.stats["access"] + 1
                   /\ d.stats["miss_new"] = c.stats["miss_new"] + One(status = "MISS_NEW")
                   /\ d.stats["prefetch"] = c.stats["prefetch"]
                   /\ Forwarded(d.stats) = Forwarded(c.stats)
<1>1. /\ pf => /\ d.stats["access"] = c.stats["access"]
               /\ d.stats["miss_new"] = c.stats["miss_new"]
               /\ d.stats["prefetch"] = c.stats["prefetch"] + 1
               /\ Forwarded(d.stats) = Forwarded(c.stats) + One(status = "MISS_NEW")
  BY PrefetchTold
<1>2. ~pf => /\ d.stats["access"] = c.stats["access"] + 1
             /\ d.stats["miss_new"] = c.stats["miss_new"] + One(status = "MISS_NEW")
             /\ d.stats["prefetch"] = c.stats["prefetch"]
             /\ Forwarded(d.stats) = Forwarded(c.stats)
  BY DemandTold
<1>. QED  BY ONLY <1>1, <1>2

\* What an L1 passes on and what the LLC is asked move together.
LEMMA AccessKeepsTraffic ==
  ASSUME CachesAre(cache), cycle \in Nat, NEW k \in L1s, NEW b \in Lines,
         NEW pf, pf \in BOOLEAN, NEW d, d = Accessed(k, b, pf), Traffic(cache)
  PROVE  Traffic(d)
<1>. DEFINE status == L1Status(k, b, pf)
            e == C(k)!RequestCache(cache[k], b, cycle, pf)
            f == C("llc")!RequestCache(cache["llc"], b, cycle, pf)
            g == LLCAfter(b, pf)
<1>1. /\ d[k] = L1After(k, b, pf)
      /\ d["llc"] = IF status = "MISS_NEW" THEN g ELSE cache["llc"]
      /\ \A j \in L1s : j # k => d[j] = cache[j]
  BY AccessedIs
<1>2. /\ k \in Caches /\ "llc" \in Caches
      /\ CacheIs(k, cache[k]) /\ CacheIs("llc", cache["llc"])
      /\ \A j \in L1s : CacheIs(j, cache[j]) /\ j \in Caches
  BY LevelsAre DEF CachesAre
<1>3. d[k].stats = e.stats /\ g.stats = f.stats
  <2>1. g = LLCAfter(b, pf)
    OBVIOUS
  <2>. HIDE DEF g
  <2>. QED  BY <1>1, <2>1, L1Access, LLCAccess
<1>4. /\ e = C(k)!RequestCache(cache[k], b, cycle, pf)
      /\ f = C("llc")!RequestCache(cache["llc"], b, cycle, pf)
      /\ status = C(k)!RequestStatus(cache[k], b, pf)
  BY DEF L1Status
<1>5. \A j \in L1s : cache[j].stats["miss_new"] \in Nat /\ Forwarded(cache[j].stats) \in Int
  BY <1>2, ToldNumbers DEF Told
<1>6. cache["llc"].stats["access"] \in Nat /\ cache["llc"].stats["prefetch"] \in Nat
  BY <1>2, ToldNumbers DEF Told
<1>. HIDE DEF status, e, f, g
<1>. DEFINE n == cache[k].stats
            l == cache["llc"].stats
            one == One(status = "MISS_NEW")
<1>7. one \in Nat /\ (status = "MISS_NEW" => one = 1) /\ (status # "MISS_NEW" => one = 0)
  BY DEF One
<1>8. /\ pf => /\ e.stats["miss_new"] = n["miss_new"]
               /\ Forwarded(e.stats) = Forwarded(n) + one
      /\ ~pf => /\ e.stats["miss_new"] = n["miss_new"] + one
                /\ Forwarded(e.stats) = Forwarded(n)
  BY ONLY <1>2, <1>4, pf \in BOOLEAN, b \in Lines, cycle \in Nat, RequestTold
<1>9. /\ pf => f.stats["access"] = l["access"] /\ f.stats["prefetch"] = l["prefetch"] + 1
      /\ ~pf => f.stats["access"] = l["access"] + 1 /\ f.stats["prefetch"] = l["prefetch"]
  <2>. DEFINE s == LLCStatus(b, pf)
  <2>1. s = C("llc")!RequestStatus(cache["llc"], b, pf)
    BY DEF LLCStatus
  <2>. HIDE DEF s
  <2>. QED  BY ONLY <1>2, <1>4, <2>1, pf \in BOOLEAN, b \in Lines, cycle \in Nat, RequestTold
<1>10. CASE pf
  <2>1. /\ e.stats["miss_new"] = n["miss_new"]
        /\ Forwarded(e.stats) = Forwarded(n) + one
    BY <1>8, <1>9, <1>10
  <2>2. f.stats["access"] = l["access"] /\ f.stats["prefetch"] = l["prefetch"] + 1
    BY <1>8, <1>9, <1>10
  <2>. HIDE DEF one
  <2>3. /\ d["llc"].stats["access"] = l["access"]
        /\ d["llc"].stats["prefetch"] = l["prefetch"] + one
    BY ONLY <1>1, <1>3, <1>6, <1>7, <2>2
  <2>4. /\ d[k].stats["miss_new"] = n["miss_new"]
        /\ Forwarded(d[k].stats) = Forwarded(n) + one
    BY ONLY <1>3, <2>1
  <2>5. CASE k = "icache"
    BY <1>1, <1>5, <1>6, <1>7, <2>3, <2>4, <2>5, LevelsAre DEF Traffic
  <2>6. CASE k = "dcache"
    BY <1>1, <1>5, <1>6, <1>7, <2>3, <2>4, <2>6, LevelsAre DEF Traffic
  <2>. QED  BY <2>5, <2>6 DEF L1s
<1>11. CASE ~pf
  <2>1. /\ e.stats["miss_new"] = n["miss_new"] + one
        /\ Forwarded(e.stats) = Forwarded(n)
    BY <1>8, <1>9, <1>11
  <2>2. f.stats["access"] = l["access"] + 1 /\ f.stats["prefetch"] = l["prefetch"]
    BY <1>8, <1>9, <1>11
  <2>. HIDE DEF one
  <2>3. /\ d["llc"].stats["access"] = l["access"] + one
        /\ d["llc"].stats["prefetch"] = l["prefetch"]
    BY ONLY <1>1, <1>3, <1>6, <1>7, <2>2
  <2>4. /\ d[k].stats["miss_new"] = n["miss_new"] + one
        /\ Forwarded(d[k].stats) = Forwarded(n)
    BY ONLY <1>3, <2>1
  <2>5. CASE k = "icache"
    BY <1>1, <1>5, <1>6, <1>7, <2>3, <2>4, <2>5, LevelsAre DEF Traffic
  <2>6. CASE k = "dcache"
    BY <1>1, <1>5, <1>6, <1>7, <2>3, <2>4, <2>6, LevelsAre DEF Traffic
  <2>. QED  BY <2>5, <2>6 DEF L1s
<1>. QED  BY <1>10, <1>11
-----------------------------------------------------------------------------
(* The prefetchers and their queues                                        *)

LEMMA LatestOfTwo == ASSUME NEW m \in Nat, NEW n \in Nat PROVE Max({m, n}) \in Nat
<1>1. \E x \in {m, n} : \A y \in {m, n} : x >= y
  OBVIOUS
<1>. QED  BY <1>1 DEF Max

\* erase(it) in the loop over ldu_iq.
LEMMA RemoveAtType ==
  ASSUME NEW S, NEW q \in Seq(S), NEW p \in 1 .. Len(q)
  PROVE  RemoveAt(q, p) \in Seq(S)
<1>1. SubSeq(q, 1, p - 1) \in Seq(S)
  BY SubSeqProperties
<1>2. SubSeq(q, p + 1, Len(q)) \in Seq(S)
  BY SubSeqProperties
<1>. QED  BY ONLY <1>1, <1>2, ConcatProperties DEF RemoveAt

\* An access makes a prefetcher propose at most one line.
LEMMA CandidatesAre ==
  ASSUME NEW kind \in {"NONE", "NEXT_LINE", "PC_STRIDE"}, NEW t, NEW pc,
         NEW b \in Lines, NEW S, S = Candidates(kind, t, pc, b),
         t[pc] \in StrideEntry
  PROVE  S \subseteq Lines /\ \A x, y \in S : x = y
<1>1. CASE kind = "NONE"
  <2>1. S = {}
    BY <1>1, Zenon DEF Candidates
  <2>. QED  BY <2>1
<1>2. CASE kind = "NEXT_LINE"
  <2>1. S = {(b + 1) % NumLines}
    BY <1>2, Zenon DEF Candidates, NextLine
  <2>2. (b + 1) % NumLines \in Lines
    BY PrefetcherAssumption DEF Lines
  <2>. QED  BY <2>1, <2>2
<1>3. CASE kind = "PC_STRIDE"
  <2>. DEFINE next == (b + Stride(t[pc], b)) % NumLines
  <2>1. S = StrideCandidates(t, pc, b)
    BY <1>3, Zenon DEF Candidates
  <2>2. S \subseteq {next}
    BY <2>1 DEF StrideCandidates
  <2>3. Stride(t[pc], b) \in Lines
    BY PrefetcherAssumption DEF Stride, Lines, StrideEntry
  <2>4. next \in Lines
    BY <2>3, PrefetcherAssumption DEF Lines
  <2>. HIDE DEF next
  <2>. QED  BY <2>2, <2>4
<1>. QED  BY <1>1, <1>2, <1>3

LEMMA TrainedType ==
  ASSUME NEW e \in StrideEntry, NEW b \in Lines PROVE Trained(e, b) \in StrideEntry
<1>1. Stride(e, b) \in Lines
  BY PrefetcherAssumption DEF Stride, Lines, StrideEntry
<1>2. Confidence(e, b) \in 0 .. kMaxConfidence
  <2>1. e.confidence \in 0 .. kMaxConfidence
    BY DEF StrideEntry
  <2>. QED  BY <2>1 DEF Confidence, Smaller, kMaxConfidence
<1>3. NoEntry \in StrideEntry
  BY PrefetcherAssumption DEF NoEntry, StrideEntry, Lines, kMaxConfidence
<1>. QED  BY <1>1, <1>2, <1>3 DEF Trained, StrideEntry, NoEntry

LEMMA TableAfterType ==
  ASSUME NEW kind, NEW t \in [Pcs -> StrideEntry], NEW pc \in Pcs, NEW b \in Lines
  PROVE  TableAfter(kind, t, pc, b) \in [Pcs -> StrideEntry]
BY TrainedType DEF TableAfter, StrideTable

\* The sequence of a set of at most one element.
LEMMA SeqOfOne ==
  ASSUME NEW S, \A x, y \in S : x = y, NEW s, s = SetToSeq(S)
  PROVE  /\ IsFiniteSet(S) /\ s \in Seq(S) /\ Len(s) \in {0, 1}
         /\ Len(s) = 1 => s[1] \in S
<1>1. CASE S = {}
  <2>1. IsFiniteSet(S) /\ Cardinality(S) = 0
    BY <1>1, FS_EmptySet
  <2>2. 1 .. 0 = {}
    OBVIOUS
  <2>3. \E f \in [1 .. Cardinality(S) -> S] : IsInjective(f)
    <3>1. [i \in 1 .. 0 |-> i] \in [1 .. Cardinality(S) -> S]
      BY <2>1, <2>2
    <3>2. IsInjective([i \in 1 .. 0 |-> i])
      BY <2>2 DEF IsInjective
    <3>. QED  BY <3>1, <3>2
  <2>4. s \in [1 .. 0 -> S]
    BY <2>1, <2>3 DEF SetToSeq
  <2>. QED  BY <2>1, <2>4
<1>2. CASE S # {}
  <2>1. PICK x : S = {x}
    BY <1>2
  <2>2. IsFiniteSet(S) /\ Cardinality(S) = 1
    BY <2>1, FS_Singleton
  <2>3. \E f \in [1 .. Cardinality(S) -> S] : IsInjective(f)
    <3>1. [i \in 1 .. 1 |-> x] \in [1 .. Cardinality(S) -> S]
      BY <2>1, <2>2
    <3>2. IsInjective([i \in 1 .. 1 |-> x])
      BY DEF IsInjective
    <3>. QED  BY <3>1, <3>2
  <2>4. s \in [1 .. 1 -> S]
    BY <2>2, <2>3 DEF SetToSeq
  <2>5. s \in Seq(S)
    <3>1. \E n \in Nat : s \in [1 .. n -> S]
      BY ONLY <2>4
    <3>. QED  BY ONLY <3>1
  <2>6. Len(s) = 1
    BY <2>4, <2>5, LenProperties
  <2>7. s[1] \in S
    BY ONLY <2>4
  <2>. QED  BY ONLY <2>2, <2>5, <2>6, <2>7
<1>. QED  BY <1>1, <1>2

\* A line is queued only when there is room for it and it is not there yet.
LEMMA OutcomeQueued ==
  ASSUME NEW k, NEW caches, NEW p, Outcome(k, caches, p) = "queued"
  PROVE  ~Queued(k, p) /\ ~QueueFull(k)
<1>1. ~Filtered(k, caches, p)
  <2>. SUFFICES ASSUME Filtered(k, caches, p) PROVE FALSE
    OBVIOUS
  <2>1. Outcome(k, caches, p) = "filtered_hit"
    BY Zenon DEF Outcome
  <2>. QED  BY <2>1
<1>2. ~Queued(k, p)
  <2>. SUFFICES ASSUME Queued(k, p) PROVE FALSE
    OBVIOUS
  <2>1. Outcome(k, caches, p) = "duplicate"
    BY <1>1, Zenon DEF Outcome
  <2>. QED  BY <2>1
<1>3. Outcome(k, caches, p) = IF QueueFull(k) THEN "drop" ELSE "queued"
  BY <1>1, <1>2, Zenon DEF Outcome
<1>. QED  BY <1>2, <1>3

QueueOf(k, q) == q \in Seq(Lines) /\ Len(q) <= QueueSize[k] /\ IsInjective(q)

\* What enqueue_prefetch appends: a line that is not in the queue, if any.
LEMMA QueueGrows ==
  ASSUME NEW k \in L1s, QueueOf(k, queue[k]), NEW caches, NEW S, S \subseteq Lines,
         \A x, y \in S : x = y,
         NEW T, T = {p \in S : Outcome(k, caches, p) = "queued"}
  PROVE  QueueOf(k, queue[k] \o SetToSeq(T))
<1>. DEFINE q == queue[k]
            s == SetToSeq(T)
<1>1. T \subseteq Lines /\ \A x, y \in T : x = y
  OBVIOUS
<1>2. s \in Seq(Lines) /\ Len(s) \in {0, 1} /\ (Len(s) = 1 => s[1] \in T)
  <2>1. s = SetToSeq(T)
    OBVIOUS
  <2>. HIDE DEF s
  <2>2. s \in Seq(T) /\ Len(s) \in {0, 1} /\ (Len(s) = 1 => s[1] \in T)
    BY ONLY <1>1, <2>1, SeqOfOne
  <2>. QED  BY <1>1, <2>2, SeqMonotonic
<1>3. QueueSize[k] \in Nat
  BY HierarchyAssumption
<1>4. q \in Seq(Lines) /\ Len(q) \in Nat /\ Len(q) <= QueueSize[k] /\ IsInjective(q)
      /\ DOMAIN q = 1 .. Len(q)
  BY LenProperties DEF QueueOf
<1>5. \A p \in T : ~Queued(k, p) /\ ~QueueFull(k)
  BY OutcomeQueued
<1>. HIDE DEF s, q
<1>6. /\ q \o s \in Seq(Lines) /\ Len(q \o s) = Len(q) + Len(s)
      /\ DOMAIN (q \o s) = 1 .. Len(q) + Len(s)
      /\ \A i \in 1 .. Len(q) + Len(s) :
           (q \o s)[i] = IF i <= Len(q) THEN q[i] ELSE s[i - Len(q)]
  BY <1>2, <1>4, ConcatProperties, LenProperties
<1>7. ASSUME Len(s) = 0 PROVE QueueOf(k, q \o s)
  <2>1. \A i \in 1 .. Len(q) : (q \o s)[i] = q[i]
    BY <1>4, <1>6, <1>7
  <2>2. DOMAIN (q \o s) = 1 .. Len(q) /\ Len(q \o s) <= QueueSize[k]
    BY <1>3, <1>4, <1>6, <1>7
  <2>3. IsInjective(q \o s)
    BY <1>4, <2>1, <2>2 DEF IsInjective
  <2>. QED  BY <1>6, <2>2, <2>3 DEF QueueOf
<1>8. ASSUME Len(s) = 1 PROVE QueueOf(k, q \o s)
  <2>1. s[1] \in T
    BY <1>2, <1>8
  <2>2. Len(q) < QueueSize[k] /\ \A i \in 1 .. Len(q) : q[i] # s[1]
    BY <1>3, <1>4, <1>5, <2>1 DEF QueueFull, Queued, ToSet, q
  <2>3. /\ (q \o s)[Len(q) + 1] = s[1]
        /\ \A i \in 1 .. Len(q) : (q \o s)[i] = q[i]
    BY <1>4, <1>6, <1>8
  <2>4. IsInjective(q \o s)
    <3>. SUFFICES ASSUME NEW i \in 1 .. Len(q) + 1, NEW j \in 1 .. Len(q) + 1,
                         (q \o s)[i] = (q \o s)[j]
                  PROVE  i = j
      BY <1>6, <1>8 DEF IsInjective
    <3>1. CASE i \in 1 .. Len(q) /\ j \in 1 .. Len(q)
      BY <1>4, <2>3, <3>1 DEF IsInjective
    <3>2. CASE i = Len(q) + 1 /\ j \in 1 .. Len(q)
      BY ONLY <2>2, <2>3, <3>2, (q \o s)[i] = (q \o s)[j]
    <3>3. CASE j = Len(q) + 1 /\ i \in 1 .. Len(q)
      BY ONLY <2>2, <2>3, <3>3, (q \o s)[i] = (q \o s)[j]
    <3>. QED  BY <1>4, <3>1, <3>2, <3>3
  <2>5. Len(q \o s) <= QueueSize[k]
    BY <1>3, <1>4, <1>6, <1>8, <2>2
  <2>. QED  BY <1>6, <2>4, <2>5 DEF QueueOf
<1>9. QueueOf(k, q \o s)
  BY <1>2, <1>7, <1>8
<1>. QED  BY <1>9 DEF q, s
QueueStats == [{"filtered_hit", "duplicate", "drop"} -> Nat]

\* enqueue_prefetch leaves the queue, its counters and the table well-formed.
LEMMA EnqueueKeeps ==
  ASSUME NEW k \in L1s, NEW pc \in Pcs, NEW b \in Lines,
         table \in [L1s -> [Pcs -> StrideEntry]], queue_stats \in [L1s -> QueueStats],
         queue \in [L1s -> Seq(Lines)], \A j \in L1s : QueueOf(j, queue[j]),
         enqueue_prefetch(k, cache', pc, b)
  PROVE  /\ table' \in [L1s -> [Pcs -> StrideEntry]]
         /\ queue_stats' \in [L1s -> QueueStats]
         /\ queue' \in [L1s -> Seq(Lines)] /\ \A j \in L1s : QueueOf(j, queue'[j])
<1>. DEFINE S == Candidates(PrefetcherKind[k], table[k], pc, b)
            T == {p \in S : Outcome(k, cache', p) = "queued"}
            N(o) == Cardinality({p \in S : Outcome(k, cache', p) = o})
            after == TableAfter(PrefetcherKind[k], table[k], pc, b)
            longer == queue[k] \o SetToSeq(T)
            counted == [o \in DOMAIN queue_stats[k] |-> queue_stats[k][o] + N(o)]
<1>1. /\ table' = [table EXCEPT ![k] = after]
      /\ queue' = [queue EXCEPT ![k] = longer]
      /\ queue_stats' = [queue_stats EXCEPT ![k] = counted]
  BY DEF enqueue_prefetch
<1>2. S \subseteq Lines /\ \A x, y \in S : x = y
  <2>1. PrefetcherKind[k] \in {"NONE", "NEXT_LINE", "PC_STRIDE"}
    BY HierarchyAssumption
  <2>2. table[k][pc] \in StrideEntry
    OBVIOUS
  <2>3. S = Candidates(PrefetcherKind[k], table[k], pc, b)
    OBVIOUS
  <2>. HIDE DEF S
  <2>. QED  BY <2>1, <2>2, <2>3, CandidatesAre
<1>3. \A o : N(o) \in Nat
  <2>. SUFFICES ASSUME NEW o PROVE N(o) \in Nat
    OBVIOUS
  <2>. DEFINE R == {p \in S : Outcome(k, cache', p) = o}
  <2>1. \A x, y \in R : x = y
    BY <1>2
  <2>. HIDE DEF R
  <2>2. IsFiniteSet(R)
    BY <2>1, SeqOfOne
  <2>. QED  BY <2>2, FS_CardinalityType DEF R
<1>4. after \in [Pcs -> StrideEntry]
  <2>1. table[k] \in [Pcs -> StrideEntry]
    OBVIOUS
  <2>. QED  BY <2>1, TableAfterType
<1>5. QueueOf(k, longer)
  <2>1. T = {p \in S : Outcome(k, cache', p) = "queued"}
    OBVIOUS
  <2>. HIDE DEF S, T
  <2>. QED  BY <1>2, <2>1, QueueGrows
<1>. HIDE DEF S, T, N, after, longer
<1>6. counted \in QueueStats
  BY <1>3 DEF QueueStats
<1>. HIDE DEF counted
<1>7. table' \in [L1s -> [Pcs -> StrideEntry]] /\ queue_stats' \in [L1s -> QueueStats]
  BY <1>1, <1>4, <1>6
<1>8. queue'[k] = longer /\ (\A j \in L1s : j # k => queue'[j] = queue[j]) /\ DOMAIN queue' = L1s
  BY <1>1
<1>9. \A j \in L1s : QueueOf(j, queue'[j])
  BY <1>5, <1>8
<1>10. queue' \in [L1s -> Seq(Lines)]
  <2>1. longer \in Seq(Lines)
    BY <1>5 DEF QueueOf
  <2>. QED  BY <1>1, <2>1
<1>. QED  BY <1>7, <1>9, <1>10

\* service_prefetch_queues takes the line in front.
LEMMA QueueShrinks ==
  ASSUME NEW k \in L1s, NEW q, QueueOf(k, q), q # <<>>
  PROVE  Head(q) \in Lines /\ QueueOf(k, Tail(q))
<1>1. /\ Head(q) \in Lines /\ Tail(q) \in Seq(Lines) /\ Len(Tail(q)) = Len(q) - 1
      /\ \A i \in 1 .. Len(Tail(q)) : Tail(q)[i] = q[i + 1]
  BY HeadTailProperties DEF QueueOf
<1>2. /\ Len(q) \in Nat /\ Len(q) <= QueueSize[k] /\ IsInjective(q) /\ DOMAIN q = 1 .. Len(q)
      /\ DOMAIN Tail(q) = 1 .. Len(q) - 1
  BY <1>1, LenProperties DEF QueueOf
<1>3. QueueSize[k] \in Nat
  BY HierarchyAssumption
<1>4. IsInjective(Tail(q))
  <2>. SUFFICES ASSUME NEW i \in 1 .. Len(q) - 1, NEW j \in 1 .. Len(q) - 1,
                       Tail(q)[i] = Tail(q)[j]
                PROVE  i = j
    BY <1>2 DEF IsInjective
  <2>1. i + 1 \in 1 .. Len(q) /\ j + 1 \in 1 .. Len(q) /\ q[i + 1] = q[j + 1]
    BY <1>1, <1>2
  <2>2. i + 1 = j + 1
    BY <1>2, <2>1 DEF IsInjective
  <2>. QED  BY <2>2
<1>. QED  BY <1>1, <1>2, <1>3, <1>4 DEF QueueOf

-----------------------------------------------------------------------------
(* The inductive invariant                                                 *)

\* The prefetchers' state and the two callers'.
Surroundings ==
  /\ queue \in [L1s -> Seq(Lines)] /\ \A k \in L1s : QueueOf(k, queue[k])
  /\ queue_stats \in [L1s -> QueueStats]
  /\ table \in [L1s -> [Pcs -> StrideEntry]]

Callers ==
  /\ waiting \in Seq(Loads)
  /\ fetch_line \in CodeLines \cup {NoLine}
  /\ cycle \in Nat /\ pos \in Nat \ {0} /\ count \in Nat
  /\ fetch_stall_until \in Nat /\ fetches \in Nat /\ arrived \in Nat

IInv == CachesAre(cache) /\ Surroundings /\ Callers /\ Traffic(cache)

\* What a step of the whole hierarchy gives.
StepOK == IInv' /\ FromBelow(cache, cache')

LEMMA InitIInv == Init => IInv
<1>. SUFFICES ASSUME Init PROVE IInv
  OBVIOUS
<1>1. CachesAre(cache)
  BY EmptyIs DEF CachesAre, Init
<1>2. Surroundings
  <2>1. NoEntry \in StrideEntry
    BY PrefetcherAssumption DEF NoEntry, StrideEntry, Lines, kMaxConfidence
  <2>2. \A k \in L1s : QueueOf(k, <<>>)
    <3>. SUFFICES ASSUME NEW k \in L1s PROVE QueueOf(k, <<>>)
      OBVIOUS
    <3>1. <<>> \in Seq(Lines) /\ Len(<<>>) = 0 /\ DOMAIN <<>> = {}
      BY EmptySeq
    <3>2. QueueSize[k] \in Nat
      BY HierarchyAssumption
    <3>. QED  BY <3>1, <3>2 DEF QueueOf, IsInjective
  <2>3. queue = [k \in L1s |-> <<>>]
    BY DEF Init
  <2>4. queue \in [L1s -> Seq(Lines)] /\ \A k \in L1s : QueueOf(k, queue[k])
    <3>1. <<>> \in Seq(Lines)
      BY EmptySeq
    <3>. QED  BY <2>2, <2>3, <3>1
  <2>. QED  BY <2>1, <2>4 DEF Surroundings, Init, QueueStats
<1>3. Callers
  BY EmptySeq DEF Callers, Init
<1>4. Traffic(cache)
  <2>1. \A k \in Caches : \A x \in Told : cache[k].stats[x] = 0
    BY DEF Init, C!EmptyCache, C!Counters, Told
  <2>. QED  BY <2>1, LevelsAre DEF Traffic, Forwarded, Told
<1>. QED  BY <1>1, <1>2, <1>3, <1>4 DEF IInv

\* What an access through an L1 gives, for a demand and for a prefetch.
LEMMA AccessStep ==
  ASSUME IInv, NEW k \in L1s, NEW b \in Lines, NEW pf, pf \in BOOLEAN,
         NEW d, d = Accessed(k, b, pf)
  PROVE  CachesAre(d) /\ FromBelow(cache, d) /\ Traffic(d)
<1>1. CachesAre(cache) /\ Traffic(cache) /\ cycle \in Nat
  BY DEF IInv, Callers
<1>2. CachesAre(d) /\ FromBelow(cache, d)
  BY <1>1, AccessKeepsShape
<1>3. Traffic(d)
  BY <1>1, AccessKeepsTraffic
<1>. QED  BY <1>2, <1>3
\* With the caches as they are, nothing is allocated.
LEMMA CachesUntouched ==
  ASSUME IInv, UNCHANGED cache PROVE CachesAre(cache)' /\ Traffic(cache)' /\ FromBelow(cache, cache')
BY DEF IInv, CachesAre, CacheIs, Traffic, FromBelow, Forwarded

\* A step that is not about the caches or the queues only moves the callers.
LEMMA OutsideStep ==
  ASSUME IInv, UNCHANGED memVars, Callers' PROVE StepOK
<1>1. CachesAre(cache)' /\ Traffic(cache)' /\ FromBelow(cache, cache')
  BY CachesUntouched DEF memVars
<1>2. Surroundings'
  BY DEF IInv, Surroundings, memVars
<1>. QED  BY <1>1, <1>2 DEF StepOK, IInv

LEMMA ReturnStep ==
  ASSUME IInv, NEW k \in Caches, NEW b \in Lines, Return(k, b) PROVE StepOK
<1>. DEFINE d == C(k)!ReturnBlock(cache[k], b, cycle)
<1>1. CachesAre(cache) /\ Traffic(cache) /\ cycle \in Nat
  BY DEF IInv, Callers
<1>2. b \in DOMAIN cache[k].inflight /\ CacheIs(k, cache[k])
  BY <1>1 DEF Return, C!Completed, CachesAre
<1>3. cache' = [cache EXCEPT ![k] = d]
  BY DEF Return
<1>4. /\ CacheIs(k, d) /\ DOMAIN d.inflight = DOMAIN cache[k].inflight \ {b}
      /\ \A x \in C(k)!Counters \ {"useless_prefetch", "prefetch_fill"} :
           d.stats[x] = cache[k].stats[x]
  <2>1. d = C(k)!ReturnBlock(cache[k], b, cycle)
    OBVIOUS
  <2>. HIDE DEF d
  <2>. QED  BY <1>1, <1>2, <2>1, ReturnFills
<1>. HIDE DEF d
<1>5. DOMAIN cache' = Caches /\ cache'[k] = d /\ \A j \in Caches : j # k => cache'[j] = cache[j]
  BY <1>1, <1>3 DEF CachesAre
<1>6. CachesAre(cache')
  BY <1>1, <1>4, <1>5 DEF CachesAre
<1>7. FromBelow(cache, cache')
  BY <1>4, <1>5, LevelsAre DEF FromBelow
<1>8. \A x \in Told : d.stats[x] = cache[k].stats[x]
  BY <1>4 DEF Told, C!Counters
<1>9. \A j \in Caches : \A x \in Told : cache'[j].stats[x] = cache[j].stats[x]
  BY <1>5, <1>8
<1>10. Traffic(cache')
  BY <1>1, <1>9, LevelsAre DEF Traffic, Forwarded, Told
<1>11. Surroundings' /\ Callers'
  BY DEF IInv, Return, outsideReturns, loopVars, loadVars, fetchVars, Surroundings, Callers
<1>. QED  BY <1>6, <1>7, <1>10, <1>11 DEF StepOK, IInv

LEMMA ReturnsDoneStep ==
  ASSUME IInv, NEW k \in Caches, ReturnsDone(k) PROVE StepOK
<1>1. Callers' /\ UNCHANGED memVars
  BY DEF IInv, ReturnsDone, GoTo, outsideReturns, loadVars, fetchVars, Callers, memVars
<1>. QED  BY <1>1, OutsideStep

\* The load in hand.
LEMMA ScannedLoad ==
  ASSUME IInv, Scanning
  PROVE  /\ pos \in 1 .. Len(waiting) /\ waiting[pos] \in Loads
         /\ waiting[pos].line \in Lines /\ waiting[pos].pc \in Pcs
<1>1. waiting \in Seq(Loads) /\ pos \in Nat \ {0}
  BY DEF IInv, Callers
<1>2. pos \in 1 .. Len(waiting)
  BY <1>1, LenProperties DEF Scanning
<1>3. waiting[pos] \in Loads
  BY <1>1, <1>2, ElementOfSeq
<1>. QED  BY <1>2, <1>3, HierarchyAssumption

LEMMA LoadAcceptedStep == ASSUME IInv, LoadAccepted PROVE StepOK
<1>. DEFINE b == waiting[pos].line
<1>1. /\ pos \in 1 .. Len(waiting) /\ b \in Lines /\ waiting[pos].pc \in Pcs
      /\ "dcache" \in L1s
  BY ScannedLoad, LevelsAre DEF LoadAccepted
<1>2. CachesAre(cache') /\ FromBelow(cache, cache') /\ Traffic(cache')
  <2>1. PICK pf \in BOOLEAN : pf = FALSE
    OBVIOUS
  <2>2. cache' = Accessed("dcache", b, pf)
    BY <2>1 DEF LoadAccepted
  <2>. QED  BY ONLY <1>1, <2>2, pf \in BOOLEAN, IInv, AccessStep
<1>3. Surroundings'
  <2>1. enqueue_prefetch("dcache", cache', waiting[pos].pc, b)
    BY DEF LoadAccepted
  <2>. QED  BY <1>1, <2>1, EnqueueKeeps DEF IInv, Surroundings
<1>4. Callers'
  <2>1. RemoveAt(waiting, pos) \in Seq(Loads)
    BY <1>1, RemoveAtType DEF IInv, Callers
  <2>. QED  BY <2>1 DEF IInv, LoadAccepted, Callers, fetchVars
<1>. QED  BY <1>2, <1>3, <1>4 DEF StepOK, IInv

LEMMA LoadRefusedStep == ASSUME IInv, LoadRefused PROVE StepOK
<1>. DEFINE b == waiting[pos].line
<1>1. b \in Lines /\ "dcache" \in L1s
  BY ScannedLoad, LevelsAre DEF LoadRefused
<1>2. CachesAre(cache') /\ FromBelow(cache, cache') /\ Traffic(cache')
  <2>1. PICK pf \in BOOLEAN : pf = FALSE
    OBVIOUS
  <2>2. cache' = Accessed("dcache", b, pf)
    BY <2>1 DEF LoadRefused
  <2>. QED  BY ONLY <1>1, <2>2, pf \in BOOLEAN, IInv, AccessStep
<1>3. Surroundings' /\ Callers'
  BY DEF IInv, LoadRefused, Surroundings, Callers, loadVars, fetchVars
<1>. QED  BY <1>2, <1>3 DEF StepOK, IInv

LEMMA LoadsDoneStep == ASSUME IInv, LoadsDone PROVE StepOK
<1>1. Callers' /\ UNCHANGED memVars
  BY DEF IInv, LoadsDone, GoTo, loadVars, fetchVars, Callers
<1>. QED  BY <1>1, OutsideStep

LEMMA LoadArrivesStep == ASSUME IInv, NEW l \in Loads, LoadArrives(l) PROVE StepOK
<1>1. Append(waiting, l) \in Seq(Loads)
  BY AppendProperties DEF IInv, Callers
<1>2. Callers' /\ UNCHANGED memVars
  BY <1>1 DEF IInv, LoadArrives, loopVars, fetchVars, Callers
<1>. QED  BY <1>2, OutsideStep

LEMMA ArrivalsDoneStep == ASSUME IInv, ArrivalsDone PROVE StepOK
<1>1. Callers' /\ UNCHANGED memVars
  BY DEF IInv, ArrivalsDone, GoTo, loadVars, fetchVars, Callers
<1>. QED  BY <1>1, OutsideStep

LEMMA FetchHitStep ==
  ASSUME IInv, NEW b \in CodeLines, NEW pc \in Pcs, FetchHit(b, pc) PROVE StepOK
<1>1. b \in Lines /\ "icache" \in L1s
  BY HierarchyAssumption, LevelsAre
<1>2. CachesAre(cache') /\ FromBelow(cache, cache') /\ Traffic(cache')
  <2>1. PICK pf \in BOOLEAN : pf = FALSE
    OBVIOUS
  <2>2. cache' = Accessed("icache", b, pf)
    BY <2>1 DEF FetchHit
  <2>. QED  BY ONLY <1>1, <2>2, pf \in BOOLEAN, IInv, AccessStep
<1>3. Surroundings'
  <2>1. enqueue_prefetch("icache", cache', pc, b)
    BY DEF FetchHit
  <2>. QED  BY <1>1, <2>1, EnqueueKeeps DEF IInv, Surroundings
<1>4. Callers'
  BY DEF IInv, FetchHit, AsksFor, GoTo, Callers, loadVars
<1>. QED  BY <1>2, <1>3, <1>4 DEF StepOK, IInv

\* How long fetch waits for the line it missed.
LEMMA FetchWaits ==
  ASSUME IInv, NEW b \in CodeLines, FetchMiss(b) PROVE fetch_stall_until' \in Nat
<1>. DEFINE status == L1Status("icache", b, FALSE)
<1>1. b \in Lines /\ "icache" \in L1s /\ cycle \in Nat /\ fetch_stall_until \in Nat
      /\ CachesAre(cache) /\ L1HitLatency["icache"] \in Nat
  BY HierarchyAssumption, LevelsAre DEF IInv, Callers
<1>2. CASE blocked("icache", b)
  <2>0. status # "MISS_MERGED"
    BY <1>2 DEF blocked, LLCRefuses
  <2>1. fetch_stall_until' = fetch_stall_until
    BY <1>2, <2>0, Zenon DEF FetchMiss
  <2>. QED  BY <1>1, <2>1
<1>3. CASE ~blocked("icache", b) /\ status = "MISS_MERGED"
  <2>1. fetch_stall_until' = MergedReady("icache", b) \/ fetch_stall_until' = fetch_stall_until
    BY <1>3, Zenon DEF FetchMiss
  <2>2. b \in DOMAIN cache["icache"].inflight
    BY <1>1, <1>3, LevelsAre, StatusIs DEF L1Status
  <2>3. cache["icache"].inflight[b].ready_cycle \in Nat
    BY <1>1, <2>2, LevelsAre DEF CachesAre, CacheIs, C!InflightRequest
  <2>4. MergedReady("icache", b) \in Nat
    BY <1>1, <2>3, LatestOfTwo DEF MergedReady
  <2>. QED  BY <1>1, <2>1, <2>4
<1>4. CASE ~blocked("icache", b) /\ status # "MISS_MERGED"
  <2>1. fetch_stall_until' = L1Ready("icache", b, FALSE)
    BY <1>4, Zenon DEF FetchMiss
  <2>2. status = "MISS_NEW"
    <3>1. status # "HIT" /\ status # "MISS_BLOCKED"
      BY <1>4 DEF FetchMiss, blocked
    <3>. QED  BY <1>1, <1>4, <3>1, LevelsAre, StatusIs DEF L1Status
  <2>3. LLCStatus(b, FALSE) \notin {"MISS_BLOCKED", "PREFETCH_DROPPED"}
    BY <1>4, <2>2 DEF blocked, LLCRefuses
  <2>4. LLCReady(b, FALSE) \in Nat
    <3>1. PICK pf \in BOOLEAN : pf = FALSE
      OBVIOUS
    <3>2. LLCStatus(b, pf) \notin {"MISS_BLOCKED", "PREFETCH_DROPPED"}
      BY <2>3, <3>1
    <3>3. LLCReady(b, pf) \in Nat
      BY ONLY <1>1, <3>2, pf \in BOOLEAN, LLCReadyIs
    <3>. QED  BY <3>1, <3>3
  <2>5. L1Ready("icache", b, FALSE) = LLCReady(b, FALSE) + L1HitLatency["icache"]
    BY Zenon DEF L1Ready
  <2>6. \A n \in Nat : n + L1HitLatency["icache"] \in Nat
    BY <1>1
  <2>. QED  BY <2>1, <2>4, <2>5, <2>6, Zenon
<1>. QED  BY <1>2, <1>3, <1>4

LEMMA FetchMissStep == ASSUME IInv, NEW b \in CodeLines, FetchMiss(b) PROVE StepOK
<1>1. b \in Lines /\ "icache" \in L1s
  BY HierarchyAssumption, LevelsAre
<1>2. CachesAre(cache') /\ FromBelow(cache, cache') /\ Traffic(cache')
  <2>1. PICK pf \in BOOLEAN : pf = FALSE
    OBVIOUS
  <2>2. cache' = Accessed("icache", b, pf)
    BY <2>1 DEF FetchMiss
  <2>. QED  BY ONLY <1>1, <2>2, pf \in BOOLEAN, IInv, AccessStep
<1>3. Surroundings'
  BY DEF IInv, FetchMiss, Surroundings
<1>4. fetch_stall_until' \in Nat
  BY FetchWaits
<1>5. /\ fetch_line' = b /\ pos' = 1 /\ count' = 0 /\ UNCHANGED <<cycle, waiting, arrived>>
      /\ fetches' = IF fetch_line = NoLine THEN fetches + 1 ELSE fetches
  BY DEF FetchMiss, AsksFor, GoTo, loadVars
<1>6. Callers'
  BY <1>4, <1>5 DEF IInv, Callers
<1>. QED  BY <1>2, <1>3, <1>6 DEF StepOK, IInv

LEMMA FetchNothingStep == ASSUME IInv, FetchNothing PROVE StepOK
<1>1. Callers' /\ UNCHANGED memVars
  BY DEF IInv, FetchNothing, GoTo, loadVars, fetchVars, Callers
<1>. QED  BY <1>1, OutsideStep

LEMMA PrefetchStep ==
  ASSUME IInv, NEW k \in L1s, issue_prefetch_to_l1(k) PROVE StepOK
<1>. DEFINE q == queue[k]
<1>1. QueueOf(k, q) /\ q # <<>> /\ queue \in [L1s -> Seq(Lines)]
  BY DEF IInv, Surroundings, issue_prefetch_to_l1, CanIssue
<1>2. Head(q) \in Lines /\ QueueOf(k, Tail(q))
  BY <1>1, QueueShrinks
<1>3. CachesAre(cache') /\ FromBelow(cache, cache') /\ Traffic(cache')
  <2>1. PICK pf \in BOOLEAN : pf = TRUE
    OBVIOUS
  <2>2. cache' = Accessed(k, Head(q), pf)
    BY <2>1 DEF issue_prefetch_to_l1
  <2>. QED  BY ONLY <1>2, <2>2, pf \in BOOLEAN, k \in L1s, IInv, AccessStep
<1>4. Surroundings'
  <2>1. queue' = [queue EXCEPT ![k] = Tail(q)]
    BY DEF issue_prefetch_to_l1
  <2>. HIDE DEF q
  <2>2. Tail(q) \in Seq(Lines)
    BY <1>2 DEF QueueOf
  <2>3. queue' \in [L1s -> Seq(Lines)] /\ \A j \in L1s : QueueOf(j, queue'[j])
    BY <1>1, <1>2, <2>1, <2>2 DEF IInv, Surroundings
  <2>. QED  BY <2>3 DEF IInv, Surroundings, issue_prefetch_to_l1
<1>5. Callers'
  BY DEF IInv, Callers, issue_prefetch_to_l1, loadVars, fetchVars
<1>. QED  BY <1>3, <1>4, <1>5 DEF StepOK, IInv

LEMMA IcacheServedStep == ASSUME IInv, IcacheServed PROVE StepOK
<1>1. Callers' /\ UNCHANGED memVars
  BY DEF IInv, IcacheServed, GoTo, loadVars, fetchVars, Callers
<1>. QED  BY <1>1, OutsideStep

LEMMA NextCycleStep == ASSUME IInv, NextCycle PROVE StepOK
<1>1. Callers' /\ UNCHANGED memVars
  BY DEF IInv, NextCycle, GoTo, loadVars, fetchVars, Callers
<1>. QED  BY <1>1, OutsideStep

LEMMA NextStep == ASSUME IInv, [Next]_vars PROVE StepOK
<1>1. CASE UNCHANGED vars
  <2>1. Callers' /\ UNCHANGED memVars
    BY <1>1 DEF IInv, Callers, vars, loopVars, loadVars, fetchVars
  <2>. QED  BY <2>1, OutsideStep
<1>2. ASSUME NEW k \in Caches, ReturnsDone(k) PROVE StepOK
  BY <1>2, ReturnsDoneStep
<1>3. ASSUME NEW k \in Caches, NEW b \in Lines, Return(k, b) PROVE StepOK
  BY <1>3, ReturnStep
<1>4. CASE LoadAccepted \/ LoadRefused \/ LoadsDone
  BY <1>4, LoadAcceptedStep, LoadRefusedStep, LoadsDoneStep
<1>5. ASSUME NEW l \in Loads, LoadArrives(l) PROVE StepOK
  BY <1>5, LoadArrivesStep
<1>6. ASSUME NEW b \in CodeLines, FetchMiss(b) PROVE StepOK
  BY <1>6, FetchMissStep
<1>7. ASSUME NEW b \in CodeLines, NEW pc \in Pcs, FetchHit(b, pc) PROVE StepOK
  BY <1>7, FetchHitStep
<1>8. CASE ArrivalsDone \/ FetchNothing \/ IcacheServed \/ NextCycle
  BY <1>8, ArrivalsDoneStep, FetchNothingStep, IcacheServedStep, NextCycleStep
<1>9. ASSUME NEW k \in L1s, issue_prefetch_to_l1(k) PROVE StepOK
  BY <1>9, PrefetchStep
<1>. QED
  BY <1>1, <1>2, <1>3, <1>4, <1>5, <1>6, <1>7, <1>8, <1>9 DEF Next

LEMMA IInvHolds == Spec => []IInv
<1>1. IInv /\ [Next]_vars => IInv'
  BY NextStep DEF StepOK
<1>. QED  BY <1>1, InitIInv, PTL DEF Spec

-----------------------------------------------------------------------------
(* The theorems                                                            *)

\* The three caches, the prefetch queues, their counters and the stride
\* tables stay well-formed; a prefetch queue never holds more lines than its
\* limit nor one line twice, whatever the prefetchers propose.
THEOREM TypeCorrect == Spec => []TypeOK
<1>1. IInv => TypeOK
  <2>. SUFFICES ASSUME IInv PROVE TypeOK
    OBVIOUS
  <2>1. DOMAIN cache = Caches /\ \A k \in Caches : CacheType(k)
    BY DEF IInv, CachesAre, CacheIs, CacheType
  <2>2. \A k \in L1s : Len(queue[k]) <= QueueSize[k] /\ IsInjective(queue[k])
    BY DEF IInv, Surroundings, QueueOf
  <2>. QED  BY <2>1, <2>2 DEF IInv, Surroundings, Callers, QueueStats, TypeOK
<1>. QED  BY <1>1, IInvHolds, PTL

\* The LLC is asked for exactly what the L1s passed on: its demand accesses
\* are their new misses, and its prefetches are theirs less those that hit,
\* joined an MSHR or were dropped.
THEOREM TrafficBalances == Spec => []TrafficAgrees
<1>1. IInv => TrafficAgrees
  <2>. SUFFICES ASSUME IInv PROVE TrafficAgrees
    OBVIOUS
  <2>1. \A k \in Caches : \A x \in Told : cache[k].stats[x] \in Nat
    BY ToldNumbers DEF IInv, CachesAre
  <2>. QED  BY <2>1, LevelsAre DEF IInv, Traffic, Forwarded, Told, TrafficAgrees
<1>. QED  BY <1>1, IInvHolds, PTL

\* In every step an L1 takes an MSHR only for a line that the LLC holds or
\* will have no later: an access the LLC refuses leaves nothing in flight
\* above it.
THEOREM FillsComeFromBelow == Spec => FillsFromBelow
<1>. DEFINE Step == \A k \in L1s : \A b \in DOMAIN cache'[k].inflight \ DOMAIN cache[k].inflight :
                      \/ C("llc")!contains(cache'["llc"], b)
                      \/ /\ b \in DOMAIN cache'["llc"].inflight
                         /\ cache'["llc"].inflight[b].ready_cycle
                              <= cache'[k].inflight[b].ready_cycle
<1>1. ASSUME IInv, [Next]_vars PROVE [Step]_vars
  BY <1>1, NextStep DEF StepOK, FromBelow
<1>. HIDE DEF Step
<1>2. IInv /\ [Next]_vars => [Step]_vars
  BY <1>1
<1>3. Spec => [][Step]_vars
  BY <1>2, IInvHolds, PTL DEF Spec
<1>. QED  BY <1>3 DEF Step, FillsFromBelow
-----------------------------------------------------------------------------
(* One level as a BlockLife                                                *)

\* A line number is its tag and its index.
LEMMA TagIndex ==
  ASSUME NEW k \in Caches, NEW a \in Lines, NEW b \in Lines,
         C(k)!Index(a) = C(k)!Index(b), C(k)!Tag(a) = C(k)!Tag(b)
  PROVE  a = b
<1>. DEFINE n == Geometry[k].NumSets
<1>1. n \in Nat \ {0} /\ a \in Nat /\ b \in Nat
  BY Geometries, PrefetcherAssumption DEF Lines
<1>2. a % n = b % n /\ a \div n = b \div n
  BY DEF C!Index, C!Tag
<1>. HIDE DEF n
<1>. QED  BY ONLY <1>1, <1>2

NatLess == OpToRel(<, Nat)

\* A nonempty set of naturals has a least element.
LEMMA LeastElement ==
  ASSUME NEW S \in SUBSET Nat, S # {}
  PROVE  \E x \in S : \A y \in S : x <= y
<1>1. \E x \in S : \A y \in S : <<y, x>> \notin NatLess
  BY NatLessThanWellFounded, WFMin DEF NatLess
<1>2. \A x, y \in Nat : y < x => <<y, x>> \in NatLess
  BY DEF NatLess, OpToRel
<1>3. PICK x \in S : \A y \in S : <<y, x>> \notin NatLess
  BY <1>1
<1>4. ASSUME NEW y \in S PROVE x <= y
  <2>1. ~(y < x)
    BY <1>2, <1>3
  <2>. QED  BY <2>1
<1>. QED  BY <1>4

LEMMA WaysAre ==
  ASSUME NEW k \in Caches
  PROVE  /\ C(k)!Ways \in SUBSET Nat /\ C(k)!Ways # {}
         /\ IsFiniteSet(C(k)!Ways) /\ Cardinality(C(k)!Ways) = Geometry[k].Assoc
<1>. DEFINE n == Geometry[k].Assoc
<1>1. n \in Nat \ {0} /\ C(k)!Ways = 0 .. n - 1
  BY Geometries DEF C!Ways
<1>. HIDE DEF n
<1>2. IsFiniteSet(0 .. n - 1) /\ Cardinality(0 .. n - 1) = n
  BY <1>1, FS_Interval
<1>3. 0 .. n - 1 \subseteq Nat /\ 0 \in 0 .. n - 1
  BY <1>1
<1>. QED  BY <1>1, <1>2, <1>3 DEF n

\* choose_victim finds a way under either policy.
LEMMA VictimIs ==
  ASSUME NEW k \in Caches, NEW lines \in [C(k)!Ways -> C(k)!Line], NEW v,
         v = C(k)!Victim(lines)
  PROVE  v \in C(k)!Ways /\ \A w \in C(k)!Ways : C(k)!Better(lines, v, w)
<1>. DEFINE W == C(k)!Ways
            Age(w) == C(k)!Age(lines[w])
            Free == {w \in W : ~lines[w].valid}
            Ages == {Age(w) : w \in W}
<1>0. W \in SUBSET Nat /\ W # {}
  BY WaysAre
<1>1. ASSUME Free # {} PROVE \E w \in W : \A x \in W : C(k)!Better(lines, w, x)
  <2>1. PICK w \in Free : \A x \in Free : w <= x
    BY <1>0, <1>1, LeastElement
  <2>. QED  BY <2>1 DEF C!Better
<1>2. ASSUME Free = {} PROVE \E w \in W : \A x \in W : C(k)!Better(lines, w, x)
  <2>1. \A w \in W : Age(w) \in Nat
    BY DEF C!Age, C!Line
  <2>2. Ages \in SUBSET Nat /\ Ages # {}
    BY <1>0, <2>1
  <2>3. PICK a \in Ages : \A x \in Ages : a <= x
    BY <2>2, LeastElement
  <2>. DEFINE Oldest == {w \in W : Age(w) = a}
  <2>4. Oldest \in SUBSET Nat /\ Oldest # {}
    BY <1>0
  <2>5. PICK w \in Oldest : \A x \in Oldest : w <= x
    BY <2>4, LeastElement
  <2>6. ASSUME NEW x \in W PROVE C(k)!Better(lines, w, x)
    <3>1. Age(w) = a /\ Age(x) \in Ages /\ a <= Age(x) /\ w \in W
      BY <2>3
    <3>2. lines[w].valid /\ lines[x].valid
      BY <1>2
    <3>3. CASE Age(x) = a
      BY <2>5, <3>1, <3>2, <3>3 DEF C!Better
    <3>4. CASE Age(x) # a
      BY <2>1, <3>1, <3>2, <3>4 DEF C!Better
    <3>. QED  BY <3>3, <3>4
  <2>. QED  BY <2>6
<1>3. \E w \in W : \A x \in W : C(k)!Better(lines, w, x)
  BY <1>1, <1>2
<1>. QED  BY <1>3 DEF C!Victim

\* The block a line of set s holds, and the ways of s that hold one.
BlockOf(k, s, line) == line.tag * Geometry[k].NumSets + s
ValidWays(k, c, s) == {w \in C(k)!Ways : c.sets[s][w].valid}

LEMMA BlockOfTag ==
  ASSUME NEW k \in Caches, NEW b \in Lines, NEW s \in C(k)!Sets, NEW line \in C(k)!Line
  PROVE  BlockOf(k, s, line) = b <=> (s = C(k)!Index(b) /\ line.tag = C(k)!Tag(b))
<1>. DEFINE t == line.tag
            n == Geometry[k].NumSets
<1>1. t \in Nat /\ s \in Nat /\ s < n /\ n \in Nat \ {0} /\ b \in Nat
  BY Geometries, PrefetcherAssumption DEF C!Line, C!Sets, Lines
<1>2. C(k)!Index(b) = b % n /\ C(k)!Tag(b) = b \div n
  BY DEF C!Index, C!Tag
<1>. HIDE DEF t, n
<1>3. t * n + s = b => b % n = s /\ b \div n = t
  BY ONLY <1>1
<1>4. b % n = s /\ b \div n = t => t * n + s = b
  BY ONLY <1>1
<1>. QED  BY ONLY <1>2, <1>3, <1>4 DEF BlockOf, t, n

\* One copy of a line, none of a line in flight, no more in flight than there
\* are MSHRs, and nothing but lines of memory.
LevelOK(k, c) ==
  /\ CacheIs(k, c)
  /\ \A s \in C(k)!Sets : \A v, w \in C(k)!Ways :
       c.sets[s][v].valid /\ c.sets[s][w].valid /\ c.sets[s][v].tag = c.sets[s][w].tag => v = w
  /\ \A b \in DOMAIN c.inflight : ~C(k)!contains(c, b)
  /\ Cardinality(DOMAIN c.inflight) <= Geometry[k].MaxInflight
  /\ \A s \in C(k)!Sets, w \in C(k)!Ways :
       c.sets[s][w].valid => BlockOf(k, s, c.sets[s][w]) \in Lines

\* Where the lines are in cache c of level k, as Whereabouts has it.
Where(k, c) == [b \in Lines |-> IF C(k)!contains(c, b) THEN "resident"
                                ELSE IF b \in DOMAIN c.inflight THEN "inflight" ELSE "absent"]

Residents(k, f, s) ==
  {b \in {x \in Lines : f[x] = "resident"} : b % Geometry[k].NumSets = s}
InFlight(f) == {x \in Lines : f[x] = "inflight"}

\* The steps of BlockLife, or none.
Lives(k, f, g) ==
  \/ g = f
  \/ \E b \in Lines :
       \/ /\ f[b] = "absent" /\ Cardinality(InFlight(f)) < Geometry[k].MaxInflight
          /\ g = [f EXCEPT ![b] = "inflight"]
       \/ /\ f[b] = "inflight"
          /\ Cardinality(Residents(k, f, b % Geometry[k].NumSets)) < Geometry[k].Assoc
          /\ g = [f EXCEPT ![b] = "resident"]
       \/ \E v \in Lines :
            /\ f[b] = "inflight" /\ v \in Residents(k, f, b % Geometry[k].NumSets)
            /\ Cardinality(Residents(k, f, b % Geometry[k].NumSets)) = Geometry[k].Assoc
            /\ g = [f EXCEPT ![b] = "resident", ![v] = "absent"]

\* A set has as many resident lines as valid ways.
LEMMA ResidentsCount ==
  ASSUME NEW k \in Caches, NEW c, LevelOK(k, c), NEW s \in C(k)!Sets
  PROVE  /\ IsFiniteSet(ValidWays(k, c, s))
         /\ Cardinality(Residents(k, Where(k, c), s)) = Cardinality(ValidWays(k, c, s))
<1>. DEFINE V == ValidWays(k, c, s)
            R == Residents(k, Where(k, c), s)
            g == [w \in V |-> BlockOf(k, s, c.sets[s][w])]
<1>1. IsFiniteSet(V)
  <2>1. V \in SUBSET C(k)!Ways
    BY DEF ValidWays
  <2>. QED  BY <2>1, WaysAre, FS_Subset
<1>2. \A w \in V : c.sets[s][w] \in C(k)!Line /\ c.sets[s][w].valid /\ w \in C(k)!Ways
  BY DEF ValidWays, LevelOK, CacheIs
<1>3. R = {b \in Lines : C(k)!contains(c, b) /\ C(k)!Index(b) = s}
  BY DEF Residents, Where, C!Index
<1>4. \A w \in V, b \in Lines : g[w] = b <=> C(k)!Index(b) = s /\ C(k)!Holds(c, b, w)
  <2>. SUFFICES ASSUME NEW w \in V, NEW b \in Lines
                PROVE  g[w] = b <=> C(k)!Index(b) = s /\ C(k)!Holds(c, b, w)
    OBVIOUS
  <2>1. g[w] = BlockOf(k, s, c.sets[s][w])
    OBVIOUS
  <2>. QED  BY <1>2, <2>1, BlockOfTag DEF C!Holds
<1>5. g \in Bijection(V, R)
  <2>1. \A w \in V : g[w] \in R
    <3>. SUFFICES ASSUME NEW w \in V PROVE g[w] \in R
      OBVIOUS
    <3>1. g[w] \in Lines
      BY <1>2 DEF LevelOK
    <3>2. C(k)!Index(g[w]) = s /\ C(k)!Holds(c, g[w], w)
      BY <1>4, <3>1
    <3>. QED  BY <1>2, <1>3, <3>1, <3>2 DEF C!contains
  <2>2. ASSUME NEW v \in V, NEW w \in V, g[v] = g[w] PROVE v = w
    <3>1. g[v] \in Lines
      BY <1>2 DEF LevelOK
    <3>2. C(k)!Index(g[v]) = s /\ C(k)!Holds(c, g[v], v) /\ C(k)!Holds(c, g[v], w)
      BY <1>4, <2>2, <3>1
    <3>. QED  BY <1>2, <3>2 DEF C!Holds, LevelOK
  <2>3. ASSUME NEW b \in R PROVE \E w \in V : g[w] = b
    <3>1. b \in Lines /\ C(k)!Index(b) = s
      BY <1>3
    <3>2. PICK w \in C(k)!Ways : C(k)!Holds(c, b, w)
      BY <1>3 DEF C!contains
    <3>3. w \in V
      BY <3>1, <3>2 DEF C!Holds, ValidWays
    <3>. QED  BY <1>4, <3>1, <3>2, <3>3
  <2>. HIDE DEF R, V
  <2>4. g \in [V -> R]
    BY <2>1
  <2>5. g \in Injection(V, R)
    BY <2>2, <2>4 DEF Injection, IsInjective
  <2>. QED  BY <2>3, <2>4, <2>5 DEF Bijection, Surjection
<1>6. ExistsBijection(V, R)
  BY <1>5 DEF ExistsBijection
<1>. QED  BY <1>1, <1>6, FS_Bijection

\* The victim is a valid way only of a full set.
LEMMA VictimOfFullSet ==
  ASSUME NEW k \in Caches, NEW c, CacheIs(k, c), NEW s \in C(k)!Sets,
         NEW w, w = C(k)!Victim(c.sets[s])
  PROVE  /\ w \in C(k)!Ways
         /\ c.sets[s][w].valid => Cardinality(ValidWays(k, c, s)) = Geometry[k].Assoc
         /\ ~c.sets[s][w].valid => Cardinality(ValidWays(k, c, s)) < Geometry[k].Assoc
<1>. DEFINE V == ValidWays(k, c, s)
            W == C(k)!Ways
<1>1. w \in W /\ \A v \in W : C(k)!Better(c.sets[s], w, v)
  BY VictimIs DEF CacheIs
<1>2. IsFiniteSet(W) /\ Cardinality(W) = Geometry[k].Assoc /\ Geometry[k].Assoc \in Nat
  BY WaysAre, Geometries
<1>3. /\ V \in SUBSET W /\ Cardinality(V) <= Geometry[k].Assoc /\ Cardinality(V) \in Nat
      /\ Cardinality(V) = Geometry[k].Assoc => V = W
  <2>1. V \in SUBSET W
    BY DEF ValidWays
  <2>. HIDE DEF V, W
  <2>2. /\ IsFiniteSet(V) /\ Cardinality(V) <= Cardinality(W)
        /\ Cardinality(V) = Cardinality(W) => V = W
    BY <1>2, <2>1, FS_Subset
  <2>. QED  BY <1>2, <2>1, <2>2, FS_CardinalityType
<1>4. ASSUME c.sets[s][w].valid PROVE Cardinality(V) = Geometry[k].Assoc
  <2>1. \A v \in W : c.sets[s][v].valid
    BY <1>1, <1>4 DEF C!Better
  <2>2. V = W
    BY <2>1 DEF ValidWays
  <2>. QED  BY <1>2, <2>2
<1>5. ASSUME ~c.sets[s][w].valid PROVE Cardinality(V) < Geometry[k].Assoc
  <2>1. V # W
    BY <1>1, <1>5 DEF ValidWays
  <2>. HIDE DEF V, W
  <2>. QED  BY <1>2, <1>3, <2>1
<1>. QED  BY <1>1, <1>4, <1>5
LEMMA LinesFinite == IsFiniteSet(Lines)
<1>1. NumLines - 1 \in Int
  BY PrefetcherAssumption
<1>. QED  BY <1>1, FS_Interval DEF Lines

\* What the methods do to a level: an access that allocates nothing, one that
\* does, and a fill.
Asked(k, c, d) ==
  \E b \in Lines, pf \in BOOLEAN : d = C(k)!RequestCache(c, b, cycle, pf)
Granted(k, c, d) ==
  \E b \in Lines, pf \in BOOLEAN, ready \in Nat :
    /\ C(k)!RequestStatus(c, b, pf) = "MISS_NEW"
    /\ d = C(k)!schedule_fill(C(k)!RequestCache(c, b, cycle, pf), b, ready, pf)
Filled(k, c, d) ==
  \E b \in DOMAIN c.inflight : d = C(k)!ReturnBlock(c, b, cycle)

Moves(k, c, d) == d = c \/ Asked(k, c, d) \/ Granted(k, c, d) \/ Filled(k, c, d)

\* The library's Cardinality under the names the instances give it.
LEMMA SameCount ==
  ASSUME NEW S, NEW k
  PROVE  /\ C(k)!Cardinality(S) = Cardinality(S) /\ ILife!Cardinality(S) = Cardinality(S)
         /\ DLife!Cardinality(S) = Cardinality(S) /\ LLife!Cardinality(S) = Cardinality(S)
BY DEF C!Cardinality, ILife!Cardinality, DLife!Cardinality, LLife!Cardinality, Cardinality

\* A cache with the same tags and MSHRs has its lines where they were.
LEMMA SameWhere ==
  ASSUME NEW k \in Caches, NEW c, LevelOK(k, c), NEW d, CacheIs(k, d),
         DOMAIN d.inflight = DOMAIN c.inflight,
         \A x \in Lines : C(k)!contains(d, x) <=> C(k)!contains(c, x),
         \A s \in C(k)!Sets, w \in C(k)!Ways :
           /\ d.sets[s][w].valid = c.sets[s][w].valid
           /\ d.sets[s][w].tag = c.sets[s][w].tag
  PROVE  LevelOK(k, d) /\ Where(k, d) = Where(k, c)
<1>1. Where(k, d) = Where(k, c)
  BY DEF Where
<1>2. \A b \in DOMAIN d.inflight : ~C(k)!contains(d, b)
  BY DEF LevelOK, CacheIs
<1>3. \A s \in C(k)!Sets, w \in C(k)!Ways :
        d.sets[s][w].valid => BlockOf(k, s, d.sets[s][w]) \in Lines
  BY DEF LevelOK, BlockOf
<1>4. \A s \in C(k)!Sets : \A v, w \in C(k)!Ways :
        d.sets[s][v].valid /\ d.sets[s][w].valid /\ d.sets[s][v].tag = d.sets[s][w].tag => v = w
  BY DEF LevelOK
<1>. QED  BY <1>1, <1>2, <1>3, <1>4 DEF LevelOK

LEMMA AskedLives ==
  ASSUME NEW k \in Caches, NEW c, LevelOK(k, c), NEW d, Asked(k, c, d), cycle \in Nat
  PROVE  LevelOK(k, d) /\ Where(k, d) = Where(k, c)
<1>1. PICK b \in Lines, pf \in BOOLEAN : d = C(k)!RequestCache(c, b, cycle, pf)
  BY DEF Asked
<1>2. CacheIs(k, c) /\ pf \in BOOLEAN
  BY DEF LevelOK
<1>3. /\ CacheIs(k, d) /\ DOMAIN d.inflight = DOMAIN c.inflight
      /\ \A x \in Lines : C(k)!contains(d, x) <=> C(k)!contains(c, x)
      /\ \A s \in C(k)!Sets, w \in C(k)!Ways :
           /\ d.sets[s][w].valid = c.sets[s][w].valid
           /\ d.sets[s][w].tag = c.sets[s][w].tag
  BY ONLY <1>1, <1>2, cycle \in Nat, k \in Caches, RequestKeeps
<1>. QED  BY <1>3, SameWhere

LEMMA GrantedLives ==
  ASSUME NEW k \in Caches, NEW c, LevelOK(k, c), NEW d, Granted(k, c, d), cycle \in Nat
  PROVE  LevelOK(k, d) /\ Lives(k, Where(k, c), Where(k, d))
<1>1. PICK b \in Lines, pf \in BOOLEAN, ready \in Nat :
        /\ C(k)!RequestStatus(c, b, pf) = "MISS_NEW"
        /\ d = C(k)!schedule_fill(C(k)!RequestCache(c, b, cycle, pf), b, ready, pf)
  BY DEF Granted
<1>. DEFINE e == C(k)!RequestCache(c, b, cycle, pf)
<1>2. LevelOK(k, e) /\ Where(k, e) = Where(k, c) /\ CacheIs(k, e)
      /\ DOMAIN e.inflight = DOMAIN c.inflight
      /\ \A x \in Lines : C(k)!contains(e, x) <=> C(k)!contains(c, x)
  <2>1. Asked(k, c, e) /\ pf \in BOOLEAN /\ CacheIs(k, c)
    BY DEF Asked, LevelOK
  <2>2. e = C(k)!RequestCache(c, b, cycle, pf)
    OBVIOUS
  <2>. HIDE DEF e
  <2>3. LevelOK(k, e) /\ Where(k, e) = Where(k, c)
    BY <2>1, AskedLives
  <2>4. DOMAIN e.inflight = DOMAIN c.inflight
        /\ \A x \in Lines : C(k)!contains(e, x) <=> C(k)!contains(c, x)
    BY ONLY <2>1, <2>2, b \in Lines, cycle \in Nat, k \in Caches, RequestKeeps
  <2>. QED  BY <2>3, <2>4 DEF LevelOK
<1>3. d = C(k)!schedule_fill(e, b, ready, pf)
  BY <1>1
<1>. HIDE DEF e
<1>4. /\ CacheIs(k, d) /\ d.sets = e.sets /\ d.stats = e.stats
      /\ DOMAIN d.inflight = DOMAIN e.inflight \cup {b}
      /\ \A x \in Lines : C(k)!contains(d, x) <=> C(k)!contains(e, x)
  BY <1>2, <1>3, ScheduleAdds
<1>5. ~C(k)!contains(c, b) /\ b \notin DOMAIN c.inflight
  BY <1>1, StatusIs
<1>6. IsFiniteSet(DOMAIN c.inflight)
  <2>1. IsFiniteSet(Lines) /\ DOMAIN c.inflight \in SUBSET Lines
    BY LinesFinite DEF LevelOK, CacheIs
  <2>. QED  BY <2>1, FS_Subset
<1>7. /\ Cardinality(DOMAIN c.inflight) < Geometry[k].MaxInflight
      /\ Cardinality(DOMAIN d.inflight) <= Geometry[k].MaxInflight
  <2>1. C(k)!Cardinality(DOMAIN c.inflight) < Geometry[k].MaxInflight
    <3>1. C(k)!RequestStatus(c, b, pf) =
            IF C(k)!Cardinality(DOMAIN c.inflight) < Geometry[k].MaxInflight
            THEN "MISS_NEW" ELSE IF pf THEN "PREFETCH_DROPPED" ELSE "MISS_BLOCKED"
      BY <1>5, Zenon DEF C!RequestStatus
    <3>. QED  BY <1>1, <3>1
  <2>2. Cardinality(DOMAIN c.inflight) < Geometry[k].MaxInflight
    BY <2>1, SameCount
  <2>3. /\ Cardinality(DOMAIN d.inflight) = Cardinality(DOMAIN c.inflight) + 1
        /\ Cardinality(DOMAIN c.inflight) \in Nat
    <3>1. DOMAIN d.inflight = DOMAIN c.inflight \cup {b} /\ b \notin DOMAIN c.inflight
      BY <1>2, <1>4, <1>5
    <3>. QED  BY ONLY <1>6, <3>1, FS_AddElement, FS_CardinalityType
  <2>. QED  BY <2>2, <2>3, Geometries
<1>8. LevelOK(k, d)
  <2>1. \A x \in DOMAIN d.inflight : ~C(k)!contains(d, x)
    BY <1>2, <1>4, <1>5 DEF LevelOK, CacheIs
  <2>. QED  BY <1>2, <1>4, <1>7, <2>1 DEF LevelOK
<1>9. Where(k, d) = [Where(k, c) EXCEPT ![b] = "inflight"] /\ Where(k, c)[b] = "absent"
  <2>1. DOMAIN d.inflight = DOMAIN c.inflight \cup {b}
    BY <1>2, <1>4
  <2>2. \A x \in Lines : C(k)!contains(d, x) <=> C(k)!contains(c, x)
    BY <1>2, <1>4
  <2>. QED  BY ONLY <1>5, <2>1, <2>2, b \in Lines DEF Where
<1>10. InFlight(Where(k, c)) = DOMAIN c.inflight
  BY DEF InFlight, Where, LevelOK, CacheIs
<1>. QED  BY <1>7, <1>8, <1>9, <1>10 DEF Lives

\* fill_block puts the line in a free way, or in the place of one resident
\* line of a full set; nothing else moves.
LEMMA FilledLives ==
  ASSUME NEW k \in Caches, NEW c, LevelOK(k, c), NEW d, Filled(k, c, d), cycle \in Nat
  PROVE  LevelOK(k, d) /\ Lives(k, Where(k, c), Where(k, d))
<1>0. PICK b \in DOMAIN c.inflight : d = C(k)!ReturnBlock(c, b, cycle)
  BY DEF Filled
<1>. DEFINE s == C(k)!Index(b)
            w == C(k)!Victim(c.sets[s])
            old == c.sets[s][w]
            new == C(k)!FilledLine(b, cycle, c.inflight[b])
            f == Where(k, c)
            n == Cardinality(Residents(k, f, s))
<1>1. /\ CacheIs(k, c) /\ b \in Lines /\ s \in C(k)!Sets /\ C(k)!Tag(b) \in Nat
      /\ ~C(k)!contains(c, b)
  BY IndexRange DEF LevelOK, CacheIs
<1>2. CacheIs(k, d) /\ DOMAIN d.inflight = DOMAIN c.inflight \ {b}
  BY <1>0, <1>1, ReturnFills
<1>3. new \in C(k)!Line /\ new.valid /\ new.tag = C(k)!Tag(b)
  BY <1>1 DEF C!FilledLine, C!Line, C!InflightRequest, CacheIs
<1>4. d.sets = [c.sets EXCEPT ![s][w] = new]
  BY <1>0 DEF C!ReturnBlock
<1>5. w \in C(k)!Ways
  BY <1>1, VictimOfFullSet
<1>6. /\ n = Cardinality(ValidWays(k, c, s))
      /\ old.valid => n = Geometry[k].Assoc
      /\ ~old.valid => n < Geometry[k].Assoc
  BY <1>1, ResidentsCount, VictimOfFullSet
<1>7. s = b % Geometry[k].NumSets
  BY DEF C!Index
<1>. HIDE DEF new, w
<1>8. \A t \in C(k)!Sets, v \in C(k)!Ways :
        d.sets[t][v] = IF t = s /\ v = w THEN new ELSE c.sets[t][v]
  BY <1>1, <1>4, <1>5 DEF CacheIs
<1>9. \A x \in Lines : C(k)!Index(x) \in C(k)!Sets
  BY IndexRange
<1>10. C(k)!contains(d, b)
  BY <1>1, <1>3, <1>5, <1>8 DEF C!contains, C!Holds
<1>11. \A x \in Lines : x # b /\ ~(old.valid /\ C(k)!Holds(c, x, w) /\ C(k)!Index(x) = s) =>
         (C(k)!contains(d, x) <=> C(k)!contains(c, x))
  <2>. SUFFICES ASSUME NEW x \in Lines, x # b, NEW v \in C(k)!Ways,
                       ~(old.valid /\ C(k)!Holds(c, x, w) /\ C(k)!Index(x) = s)
                PROVE  C(k)!Holds(d, x, v) <=> C(k)!Holds(c, x, v)
    BY DEF C!contains
  <2>1. CASE C(k)!Index(x) = s /\ v = w
    <3>1. C(k)!Tag(x) # C(k)!Tag(b)
      BY <1>1, <2>1, TagIndex
    <3>. QED  BY <1>3, <1>8, <1>9, <2>1, <3>1 DEF C!Holds
  <2>2. CASE ~(C(k)!Index(x) = s /\ v = w)
    BY <1>8, <1>9, <2>2 DEF C!Holds
  <2>. QED  BY <2>1, <2>2
<1>12. \A x \in Lines : C(k)!contains(d, x) => x = b \/ C(k)!contains(c, x)
  <2>. SUFFICES ASSUME NEW x \in Lines, NEW v \in C(k)!Ways, C(k)!Holds(d, x, v), x # b
                PROVE  C(k)!Holds(c, x, v)
    BY DEF C!contains
  <2>1. ~(C(k)!Index(x) = s /\ v = w)
    BY <1>1, <1>3, <1>8, TagIndex DEF C!Holds
  <2>. QED  BY <1>8, <1>9, <2>1 DEF C!Holds
<1>13. LevelOK(k, d)
  <2>1. \A t \in C(k)!Sets : \A v, u \in C(k)!Ways :
          d.sets[t][v].valid /\ d.sets[t][u].valid /\ d.sets[t][v].tag = d.sets[t][u].tag => v = u
    <3>. SUFFICES ASSUME NEW t \in C(k)!Sets, NEW v \in C(k)!Ways, NEW u \in C(k)!Ways,
                         d.sets[t][v].valid, d.sets[t][u].valid,
                         d.sets[t][v].tag = d.sets[t][u].tag
                  PROVE  v = u
      OBVIOUS
    <3>1. CASE t = s /\ (v = w \/ u = w)
      BY <1>1, <1>3, <1>8, <3>1 DEF C!contains, C!Holds
    <3>2. CASE ~(t = s /\ (v = w \/ u = w))
      BY <1>8, <3>2 DEF LevelOK
    <3>. QED  BY <3>1, <3>2
  <2>2. \A x \in DOMAIN d.inflight : ~C(k)!contains(d, x)
    BY <1>1, <1>2, <1>12 DEF LevelOK, CacheIs
  <2>3. Cardinality(DOMAIN d.inflight) <= Geometry[k].MaxInflight
    <3>1. IsFiniteSet(DOMAIN c.inflight)
      <4>1. IsFiniteSet(Lines) /\ DOMAIN c.inflight \in SUBSET Lines
        BY <1>1, LinesFinite DEF CacheIs
      <4>. QED  BY <4>1, FS_Subset
    <3>2. /\ Cardinality(DOMAIN d.inflight) = Cardinality(DOMAIN c.inflight) - 1
          /\ Cardinality(DOMAIN c.inflight) \in Nat
      BY <1>2, <3>1, FS_RemoveElement, FS_CardinalityType
    <3>. QED  BY <3>2, Geometries DEF LevelOK
  <2>4. BlockOf(k, s, new) \in Lines
    BY <1>1, <1>3, BlockOfTag
  <2>5. \A t \in C(k)!Sets, v \in C(k)!Ways :
          d.sets[t][v].valid => BlockOf(k, t, d.sets[t][v]) \in Lines
    BY <1>8, <2>4 DEF LevelOK
  <2>. QED  BY <1>2, <2>1, <2>2, <2>3, <2>5 DEF LevelOK
<1>14. f[b] = "inflight" /\ f \in [Lines -> {"absent", "inflight", "resident"}]
  BY <1>1 DEF Where
<1>15. CASE ~old.valid
  <2>1. \A x \in Lines : x # b => (C(k)!contains(d, x) <=> C(k)!contains(c, x))
    BY <1>11, <1>15
  <2>2. Where(k, d) = [f EXCEPT ![b] = "resident"]
    BY <1>2, <1>10, <2>1 DEF Where
  <2>3. n < Geometry[k].Assoc
    BY <1>6, <1>15
  <2>. QED  BY <1>1, <1>7, <1>13, <1>14, <2>2, <2>3 DEF Lives
<1>16. CASE old.valid
  <2>. DEFINE v == BlockOf(k, s, old)
  <2>1. v \in Lines /\ old \in C(k)!Line
    BY <1>1, <1>5, <1>16 DEF LevelOK, CacheIs
  <2>2. C(k)!Index(v) = s /\ old.tag = C(k)!Tag(v)
    BY <1>1, <2>1, BlockOfTag
  <2>. HIDE DEF v
  <2>3. C(k)!contains(c, v) /\ v # b
    BY <1>1, <1>5, <1>16, <2>2 DEF C!contains, C!Holds
  <2>4. ~C(k)!contains(d, v)
    <3>. SUFFICES ASSUME NEW u \in C(k)!Ways, C(k)!Holds(d, v, u) PROVE FALSE
      BY DEF C!contains
    <3>1. u # w
      <4>1. C(k)!Tag(v) # C(k)!Tag(b)
        BY <1>1, <2>1, <2>2, <2>3, TagIndex
      <4>. QED  BY <1>1, <1>3, <1>8, <2>2, <4>1 DEF C!Holds
    <3>2. C(k)!Holds(c, v, u)
      BY <1>1, <1>8, <2>2, <3>1 DEF C!Holds
    <3>. QED  BY <1>1, <1>5, <1>16, <2>2, <3>1, <3>2 DEF C!Holds, LevelOK
  <2>5. v \notin DOMAIN c.inflight
    BY <2>1, <2>3 DEF LevelOK
  <2>6. \A x \in Lines : x # b /\ x # v => (C(k)!contains(d, x) <=> C(k)!contains(c, x))
    <3>. SUFFICES ASSUME NEW x \in Lines, C(k)!Holds(c, x, w), C(k)!Index(x) = s
                  PROVE  x = v
      BY <1>11
    <3>. QED  BY <2>1, <2>2, TagIndex DEF C!Holds
  <2>7. Where(k, d) = [f EXCEPT ![b] = "resident", ![v] = "absent"]
    BY <1>2, <1>10, <2>1, <2>3, <2>4, <2>5, <2>6 DEF Where
  <2>8. v \in Residents(k, f, s)
    BY <2>1, <2>2, <2>3 DEF Residents, Where, C!Index
  <2>9. n = Geometry[k].Assoc
    BY <1>6, <1>16
  <2>. QED  BY <1>1, <1>7, <1>13, <1>14, <2>1, <2>7, <2>8, <2>9 DEF Lives
<1>. QED  BY <1>15, <1>16

LEMMA MovesLives ==
  ASSUME NEW k \in Caches, NEW c, LevelOK(k, c), NEW d, Moves(k, c, d), cycle \in Nat
  PROVE  LevelOK(k, d) /\ Lives(k, Where(k, c), Where(k, d))
BY AskedLives, GrantedLives, FilledLives DEF Moves, Lives
\* Every step moves every level by one of its methods, or not at all.
LEMMA AccessMoves ==
  ASSUME CachesAre(cache), cycle \in Nat, NEW k \in L1s, NEW b \in Lines,
         NEW pf, pf \in BOOLEAN, NEW d, d = Accessed(k, b, pf), NEW j \in Caches
  PROVE  Moves(j, cache[j], d[j])
<1>1. /\ d[k] = L1After(k, b, pf)
      /\ d["llc"] = IF L1Status(k, b, pf) = "MISS_NEW" THEN LLCAfter(b, pf) ELSE cache["llc"]
      /\ \A i \in L1s : i # k => d[i] = cache[i]
  BY AccessedIs
<1>2. CASE j = k
  <2>1. CASE ~(L1Status(k, b, pf) = "MISS_NEW" /\ ~LLCRefuses(k, b, pf))
    <3>1. d[k] = C(k)!RequestCache(cache[k], b, cycle, pf)
      BY <1>1, <2>1 DEF L1After
    <3>. QED  BY <1>2, <3>1 DEF Moves, Asked
  <2>2. CASE L1Status(k, b, pf) = "MISS_NEW" /\ ~LLCRefuses(k, b, pf)
    <3>1. LLCStatus(b, pf) \notin {"MISS_BLOCKED", "PREFETCH_DROPPED"}
      BY <2>2 DEF LLCRefuses
    <3>2. L1Ready(k, b, pf) \in Nat
      <4>1. LLCReady(b, pf) \in Nat
        BY <3>1, LLCReadyIs
      <4>. QED  BY <4>1, HierarchyAssumption DEF L1Ready
    <3>3. d[k] = C(k)!schedule_fill(C(k)!RequestCache(cache[k], b, cycle, pf), b,
                                    L1Ready(k, b, pf), pf)
      BY <1>1, <2>2 DEF L1After
    <3>4. C(k)!RequestStatus(cache[k], b, pf) = "MISS_NEW"
      BY <2>2 DEF L1Status
    <3>. QED  BY <1>2, <3>2, <3>3, <3>4 DEF Moves, Granted
  <2>. QED  BY <2>1, <2>2
<1>3. CASE j = "llc" /\ L1Status(k, b, pf) # "MISS_NEW"
  BY <1>1, <1>3 DEF Moves
<1>4. CASE j = "llc" /\ L1Status(k, b, pf) = "MISS_NEW" /\ LLCStatus(b, pf) # "MISS_NEW"
  <2>1. d["llc"] = C("llc")!RequestCache(cache["llc"], b, cycle, pf)
    BY <1>1, <1>4 DEF LLCAfter
  <2>. QED  BY <1>4, <2>1 DEF Moves, Asked
<1>5. CASE j = "llc" /\ L1Status(k, b, pf) = "MISS_NEW" /\ LLCStatus(b, pf) = "MISS_NEW"
  <2>1. d["llc"] = C("llc")!schedule_fill(C("llc")!RequestCache(cache["llc"], b, cycle, pf), b,
                                          LLCReady(b, pf), pf)
    BY <1>1, <1>5 DEF LLCAfter
  <2>2. LLCReady(b, pf) \in Nat
    BY <1>5, LLCReadyIs
  <2>3. C("llc")!RequestStatus(cache["llc"], b, pf) = "MISS_NEW"
    BY <1>5 DEF LLCStatus
  <2>. QED  BY <1>5, <2>1, <2>2, <2>3 DEF Moves, Granted
<1>6. CASE j \in L1s /\ j # k
  BY <1>1, <1>6 DEF Moves
<1>. QED  BY <1>2, <1>3, <1>4, <1>5, <1>6 DEF Caches

LEMMA StepMoves ==
  ASSUME IInv, [Next]_vars, NEW j \in Caches PROVE Moves(j, cache[j], cache'[j])
<1>0. CachesAre(cache) /\ cycle \in Nat
  BY DEF IInv, Callers
<1>1. ASSUME UNCHANGED cache PROVE Moves(j, cache[j], cache'[j])
  BY <1>1 DEF Moves
<1>2. ASSUME NEW k \in L1s, NEW b \in Lines, NEW pf \in BOOLEAN, cache' = Accessed(k, b, pf)
      PROVE  Moves(j, cache[j], cache'[j])
  <2>1. pf \in BOOLEAN /\ k \in L1s /\ b \in Lines /\ j \in Caches
    OBVIOUS
  <2>. QED  BY ONLY <1>0, <1>2, <2>1, AccessMoves
<1>3. ASSUME NEW k \in Caches, NEW b \in Lines, Return(k, b)
      PROVE  Moves(j, cache[j], cache'[j])
  <2>1. b \in DOMAIN cache[k].inflight
    BY <1>3 DEF Return, C!Completed
  <2>2. cache' = [cache EXCEPT ![k] = C(k)!ReturnBlock(cache[k], b, cycle)]
    BY <1>3 DEF Return
  <2>3. CASE j = k
    BY <1>0, <2>1, <2>2, <2>3 DEF Moves, Filled, CachesAre
  <2>4. CASE j # k
    BY <1>0, <2>2, <2>4 DEF Moves, CachesAre
  <2>. QED  BY <2>3, <2>4
<1>4. CASE LoadAccepted \/ LoadRefused
  <2>1. waiting[pos].line \in Lines /\ "dcache" \in L1s
    BY <1>4, ScannedLoad, LevelsAre DEF LoadAccepted, LoadRefused
  <2>2. cache' = Accessed("dcache", waiting[pos].line, FALSE)
    BY <1>4 DEF LoadAccepted, LoadRefused
  <2>. QED  BY <1>2, <2>1, <2>2
<1>5. ASSUME NEW b \in CodeLines, FetchMiss(b) \/ \E pc \in Pcs : FetchHit(b, pc)
      PROVE  Moves(j, cache[j], cache'[j])
  <2>1. cache' = Accessed("icache", b, FALSE)
    BY <1>5 DEF FetchMiss, FetchHit
  <2>2. b \in Lines /\ "icache" \in L1s
    BY HierarchyAssumption, LevelsAre
  <2>. QED  BY <1>2, <2>1, <2>2
<1>6. ASSUME NEW k \in L1s, issue_prefetch_to_l1(k) PROVE Moves(j, cache[j], cache'[j])
  <2>1. cache' = Accessed(k, Head(queue[k]), TRUE)
    BY <1>6 DEF issue_prefetch_to_l1
  <2>2. Head(queue[k]) \in Lines
    BY <1>6, QueueShrinks DEF IInv, Surroundings, issue_prefetch_to_l1, CanIssue
  <2>. QED  BY <1>2, <2>1, <2>2
<1>7. CASE UNCHANGED vars
  BY <1>1, <1>7 DEF vars, memVars
<1>8. ASSUME NEW k \in Caches, ReturnsDone(k) PROVE Moves(j, cache[j], cache'[j])
  BY <1>1, <1>8 DEF ReturnsDone
<1>9. CASE LoadsDone \/ ArrivalsDone \/ FetchNothing \/ IcacheServed \/ NextCycle
  BY <1>1, <1>9 DEF LoadsDone, ArrivalsDone, FetchNothing, IcacheServed, NextCycle, memVars
<1>10. ASSUME NEW l \in Loads, LoadArrives(l) PROVE Moves(j, cache[j], cache'[j])
  BY <1>1, <1>10 DEF LoadArrives, memVars
<1>. QED
  BY <1>3, <1>4, <1>5, <1>6, <1>7, <1>8, <1>9, <1>10 DEF Next

Levels == \A k \in Caches : LevelOK(k, cache[k])

LEMMA LevelsInitially == Init => Levels
<1>. SUFFICES ASSUME Init, NEW k \in Caches PROVE LevelOK(k, cache[k])
  BY DEF Levels
<1>. DEFINE c == cache[k]
<1>1. c = C(k)!EmptyCache
  BY DEF Init
<1>2. CacheIs(k, c)
  BY <1>1, EmptyIs
<1>3. DOMAIN c.inflight = {} /\ \A s \in C(k)!Sets, w \in C(k)!Ways : ~c.sets[s][w].valid
  BY <1>1 DEF C!EmptyCache, C!EmptyLine
<1>4. Cardinality(DOMAIN c.inflight) <= Geometry[k].MaxInflight
  BY <1>3, FS_EmptySet, Geometries
<1>. QED  BY <1>2, <1>3, <1>4 DEF LevelOK

LEMMA LevelsStep ==
  ASSUME IInv, Levels, [Next]_vars
  PROVE  Levels' /\ \A k \in Caches : Lives(k, Whereabouts(k), Whereabouts(k)')
<1>. SUFFICES ASSUME NEW k \in Caches
              PROVE  LevelOK(k, cache'[k]) /\ Lives(k, Whereabouts(k), Whereabouts(k)')
  BY DEF Levels
<1>1. LevelOK(k, cache'[k]) /\ Lives(k, Where(k, cache[k]), Where(k, cache'[k]))
  BY StepMoves, MovesLives DEF Levels, IInv, Callers
<1>2. Whereabouts(k) = Where(k, cache[k]) /\ Whereabouts(k)' = Where(k, cache'[k])
  BY DEF Whereabouts, Where
<1>. QED  BY <1>1, <1>2

LEMMA LifeInitially == Init => ILife!LifeInit /\ DLife!LifeInit /\ LLife!LifeInit
<1>. SUFFICES ASSUME Init PROVE \A k \in Caches : Whereabouts(k) = [b \in Lines |-> "absent"]
  BY LevelsAre DEF ILife!LifeInit, DLife!LifeInit, LLife!LifeInit
<1>. SUFFICES ASSUME NEW k \in Caches, NEW b \in Lines
              PROVE  ~C(k)!contains(cache[k], b) /\ b \notin DOMAIN cache[k].inflight
  BY DEF Whereabouts
<1>1. C(k)!Index(b) \in C(k)!Sets
  BY IndexRange
<1>. QED  BY <1>1 DEF Init, C!EmptyCache, C!EmptyLine, C!contains, C!Holds

LEMMA LifeStep ==
  ASSUME IInv, Levels, [Next]_vars
  PROVE  /\ [ILife!LifeNext]_(Whereabouts("icache"))
         /\ [DLife!LifeNext]_(Whereabouts("dcache"))
         /\ [LLife!LifeNext]_(Whereabouts("llc"))
<1>1. \A k \in Caches : Lives(k, Whereabouts(k), Whereabouts(k)')
  BY LevelsStep
<1>2. [ILife!LifeNext]_(Whereabouts("icache"))
  <2>1. Lives("icache", Whereabouts("icache"), Whereabouts("icache")')
    BY <1>1, LevelsAre
  <2>. DEFINE f == Whereabouts("icache")
              geo == Geometry["icache"]
  <2>2. /\ ILife!In("inflight") = InFlight(f)
        /\ \A n : ILife!Residents(n) = Residents("icache", f, n)
    BY DEF ILife!In, ILife!Residents, InFlight, Residents
  <2>3. ASSUME NEW b \in Lines, f[b] = "absent", Cardinality(InFlight(f)) < geo.MaxInflight,
               f' = [f EXCEPT ![b] = "inflight"]
        PROVE  ILife!LifeNext
    <3>1. ILife!Allocate(b)
      BY <2>2, <2>3, SameCount DEF ILife!Allocate
    <3>. QED  BY <3>1 DEF ILife!LifeNext
  <2>4. ASSUME NEW b \in Lines, f[b] = "inflight",
               Cardinality(Residents("icache", f, b % geo.NumSets)) < geo.Assoc,
               f' = [f EXCEPT ![b] = "resident"]
        PROVE  ILife!LifeNext
    <3>1. ILife!CompleteInFreeWay(b)
      BY <2>2, <2>4, SameCount DEF ILife!CompleteInFreeWay
    <3>. QED  BY <3>1 DEF ILife!LifeNext
  <2>5. ASSUME NEW b \in Lines, NEW v \in Lines, f[b] = "inflight",
               v \in Residents("icache", f, b % geo.NumSets),
               Cardinality(Residents("icache", f, b % geo.NumSets)) = geo.Assoc,
               f' = [f EXCEPT ![b] = "resident", ![v] = "absent"]
        PROVE  ILife!LifeNext
    <3>1. ILife!CompleteByEviction(b, v)
      BY <2>2, <2>5, SameCount DEF ILife!CompleteByEviction
    <3>. QED  BY <3>1 DEF ILife!LifeNext
  <2>. HIDE DEF f
  <2>. QED  BY <2>1, <2>3, <2>4, <2>5, Zenon DEF Lives, f
<1>3. [DLife!LifeNext]_(Whereabouts("dcache"))
  <2>1. Lives("dcache", Whereabouts("dcache"), Whereabouts("dcache")')
    BY <1>1, LevelsAre
  <2>. DEFINE f == Whereabouts("dcache")
              geo == Geometry["dcache"]
  <2>2. /\ DLife!In("inflight") = InFlight(f)
        /\ \A n : DLife!Residents(n) = Residents("dcache", f, n)
    BY DEF DLife!In, DLife!Residents, InFlight, Residents
  <2>3. ASSUME NEW b \in Lines, f[b] = "absent", Cardinality(InFlight(f)) < geo.MaxInflight,
               f' = [f EXCEPT ![b] = "inflight"]
        PROVE  DLife!LifeNext
    <3>1. DLife!Allocate(b)
      BY <2>2, <2>3, SameCount DEF DLife!Allocate
    <3>. QED  BY <3>1 DEF DLife!LifeNext
  <2>4. ASSUME NEW b \in Lines, f[b] = "inflight",
               Cardinality(Residents("dcache", f, b % geo.NumSets)) < geo.Assoc,
               f' = [f EXCEPT ![b] = "resident"]
        PROVE  DLife!LifeNext
    <3>1. DLife!CompleteInFreeWay(b)
      BY <2>2, <2>4, SameCount DEF DLife!CompleteInFreeWay
    <3>. QED  BY <3>1 DEF DLife!LifeNext
  <2>5. ASSUME NEW b \in Lines, NEW v \in Lines, f[b] = "inflight",
               v \in Residents("dcache", f, b % geo.NumSets),
               Cardinality(Residents("dcache", f, b % geo.NumSets)) = geo.Assoc,
               f' = [f EXCEPT ![b] = "resident", ![v] = "absent"]
        PROVE  DLife!LifeNext
    <3>1. DLife!CompleteByEviction(b, v)
      BY <2>2, <2>5, SameCount DEF DLife!CompleteByEviction
    <3>. QED  BY <3>1 DEF DLife!LifeNext
  <2>. HIDE DEF f
  <2>. QED  BY <2>1, <2>3, <2>4, <2>5, Zenon DEF Lives, f
<1>4. [LLife!LifeNext]_(Whereabouts("llc"))
  <2>1. Lives("llc", Whereabouts("llc"), Whereabouts("llc")')
    BY <1>1, LevelsAre
  <2>. DEFINE f == Whereabouts("llc")
              geo == Geometry["llc"]
  <2>2. /\ LLife!In("inflight") = InFlight(f)
        /\ \A n : LLife!Residents(n) = Residents("llc", f, n)
    BY DEF LLife!In, LLife!Residents, InFlight, Residents
  <2>3. ASSUME NEW b \in Lines, f[b] = "absent", Cardinality(InFlight(f)) < geo.MaxInflight,
               f' = [f EXCEPT ![b] = "inflight"]
        PROVE  LLife!LifeNext
    <3>1. LLife!Allocate(b)
      BY <2>2, <2>3, SameCount DEF LLife!Allocate
    <3>. QED  BY <3>1 DEF LLife!LifeNext
  <2>4. ASSUME NEW b \in Lines, f[b] = "inflight",
               Cardinality(Residents("llc", f, b % geo.NumSets)) < geo.Assoc,
               f' = [f EXCEPT ![b] = "resident"]
        PROVE  LLife!LifeNext
    <3>1. LLife!CompleteInFreeWay(b)
      BY <2>2, <2>4, SameCount DEF LLife!CompleteInFreeWay
    <3>. QED  BY <3>1 DEF LLife!LifeNext
  <2>5. ASSUME NEW b \in Lines, NEW v \in Lines, f[b] = "inflight",
               v \in Residents("llc", f, b % geo.NumSets),
               Cardinality(Residents("llc", f, b % geo.NumSets)) = geo.Assoc,
               f' = [f EXCEPT ![b] = "resident", ![v] = "absent"]
        PROVE  LLife!LifeNext
    <3>1. LLife!CompleteByEviction(b, v)
      BY <2>2, <2>5, SameCount DEF LLife!CompleteByEviction
    <3>. QED  BY <3>1 DEF LLife!LifeNext
  <2>. HIDE DEF f
  <2>. QED  BY <2>1, <2>3, <2>4, <2>5, Zenon DEF Lives, f
<1>. QED  BY <1>2, <1>3, <1>4

\* Each of the three caches is a BlockLife of its own geometry, however
\* their accesses, fills and refusals interleave: a line is fetched through a
\* free MSHR and leaves only for a line of its own, full, set.
THEOREM LevelsRefineBlockLife == Spec => LevelsImplementBlockLife
<1>1. Spec => [](IInv /\ Levels)
  <2>1. IInv /\ Levels /\ [Next]_vars => IInv' /\ Levels'
    BY NextStep, LevelsStep DEF StepOK
  <2>. QED  BY <2>1, InitIInv, LevelsInitially, PTL DEF Spec
<1>2. IInv /\ Levels /\ [Next]_vars =>
        /\ [ILife!LifeNext]_(Whereabouts("icache"))
        /\ [DLife!LifeNext]_(Whereabouts("dcache"))
        /\ [LLife!LifeNext]_(Whereabouts("llc"))
  BY LifeStep
<1>. QED
  BY <1>1, <1>2, LifeInitially, PTL
     DEF Spec, LevelsImplementBlockLife, ILife!LifeSpec, DLife!LifeSpec, LLife!LifeSpec
=============================================================================

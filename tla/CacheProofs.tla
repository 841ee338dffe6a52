---------------------------- MODULE CacheProofs -----------------------------
(***************************************************************************)
(* Theorems about Cache, for every geometry, MSHR count and policy.        *)
(***************************************************************************)
EXTENDS CacheAges, FiniteSetTheorems, WellFoundedInduction, TLAPS

\* A line number is its tag and its index: equal tags in equal sets, equal
\* lines (Cache::request compares nothing else).
LEMMA TagIndex ==
  ASSUME NEW a \in Nat, NEW b \in Nat, Index(a) = Index(b), Tag(a) = Tag(b)
  PROVE  a = b
BY CacheAssumption DEF Index, Tag

LEMMA IndexRange ==
  ASSUME NEW b \in Nat
  PROVE  Index(b) \in Sets /\ Tag(b) \in Nat
BY CacheAssumption DEF Index, Tag, Sets

NatLess == OpToRel(<, Nat)

\* A nonempty set of naturals has a least element.
LEMMA LeastElement ==
  ASSUME NEW S \in SUBSET Nat, S # {}
  PROVE  \E x \in S : \A y \in S : x <= y
<1>1. \E x \in S : \A y \in S : <<y, x>> \notin NatLess
  BY NatLessThanWellFounded, WFMin DEF NatLess
<1>2. \A x, y \in Nat : y < x => <<y, x>> \in NatLess
  BY DEF NatLess, OpToRel
<1>3. PICK x \in S : \A y \in S : <<y, x>> \notin NatLess
  BY <1>1
<1>4. ASSUME NEW y \in S PROVE x <= y
  <2>1. ~(y < x)
    BY <1>2, <1>3
  <2>. QED  BY <2>1
<1>. QED  BY <1>4

-----------------------------------------------------------------------------
(* choose_victim and the lookup loop return a way of the set               *)

LEMMA VictimExists ==
  ASSUME NEW lines \in [Ways -> Line]
  PROVE  \E w \in Ways : \A v \in Ways : Better(lines, w, v)
<1>. DEFINE Free == {w \in Ways : ~lines[w].valid}
            Ages == {Age(lines[w]) : w \in Ways}
<1>0. Ways \in SUBSET Nat /\ Ways # {}
  BY CacheAssumption DEF Ways
<1>1. CASE Free # {}
  <2>1. PICK w \in Free : \A v \in Free : w <= v
    BY <1>0, <1>1, LeastElement
  <2>. QED  BY <2>1 DEF Better
<1>2. CASE Free = {}
  <2>1. \A w \in Ways : Age(lines[w]) \in Nat
    BY DEF Age, Line
  <2>2. Ages \in SUBSET Nat /\ Ages # {}
    BY <1>0, <2>1
  <2>3. PICK a \in Ages : \A x \in Ages : a <= x
    BY <2>2, LeastElement
  <2>. DEFINE Oldest == {w \in Ways : Age(lines[w]) = a}
  <2>4. Oldest \in SUBSET Nat /\ Oldest # {}
    BY <1>0
  <2>5. PICK w \in Oldest : \A v \in Oldest : w <= v
    BY <2>4, LeastElement
  <2>6. ASSUME NEW v \in Ways PROVE Better(lines, w, v)
    <3>1. Age(lines[w]) = a /\ Age(lines[v]) \in Ages /\ a <= Age(lines[v])
      BY <2>3
    <3>2. lines[w].valid /\ lines[v].valid
      BY <1>2
    <3>3. CASE Age(lines[v]) = a
      BY <2>5, <3>1, <3>2, <3>3 DEF Better
    <3>4. CASE Age(lines[v]) # a
      BY <2>1, <3>1, <3>2, <3>4 DEF Better
    <3>. QED  BY <3>3, <3>4
  <2>. QED  BY <2>6
<1>. QED  BY <1>1, <1>2

LEMMA VictimWay ==
  ASSUME NEW lines \in [Ways -> Line]
  PROVE  Victim(lines) \in Ways
BY VictimExists DEF Victim

LEMMA HitWayHolds ==
  ASSUME NEW c, NEW b, contains(c, b)
  PROVE  HitWay(c, b) \in Ways /\ Holds(c, b, HitWay(c, b))
<1>. DEFINE Matches == {w \in Ways : Holds(c, b, w)}
<1>1. Matches \in SUBSET Nat /\ Matches # {}
  BY CacheAssumption DEF Ways, contains
<1>2. PICK w \in Matches : \A v \in Matches : w <= v
  BY <1>1, LeastElement
<1>. QED  BY <1>2 DEF HitWay

-----------------------------------------------------------------------------
(* What each method does to the shape of a cache                           *)

CacheShape(c) ==
  /\ c = [sets |-> c.sets, inflight |-> c.inflight, stats |-> c.stats]
  /\ c.sets \in [Sets -> [Ways -> Line]]
  /\ DOMAIN c.inflight \subseteq Blocks
  /\ c.inflight \in [DOMAIN c.inflight -> InflightRequest]
  /\ c.stats \in [Counters -> Nat]

LEMMA CountType ==
  ASSUME NEW stats \in [Counters -> Nat], NEW ks
  PROVE  Count(stats, ks) \in [Counters -> Nat]
BY DEF Count

LEMMA EmptyShape == CacheShape(EmptyCache)
BY DEF CacheShape, EmptyCache, EmptyLine, Line, InflightRequest

\* request changes neither the tags nor the ready cycles: it only stamps a
\* line and marks a waiter.
LEMMA RequestKeeps ==
  ASSUME NEW c, CacheShape(c), NEW b \in Blocks, NEW cyc \in Nat,
         NEW pf \in BOOLEAN
  PROVE  LET d == RequestCache(c, b, cyc, pf)
         IN  /\ CacheShape(d)
             /\ DOMAIN d.inflight = DOMAIN c.inflight
             /\ \A x \in DOMAIN c.inflight :
                  d.inflight[x].ready_cycle = c.inflight[x].ready_cycle
             /\ \A s \in Sets, w \in Ways :
                  /\ d.sets[s][w].valid = c.sets[s][w].valid
                  /\ d.sets[s][w].tag = c.sets[s][w].tag
<1>. DEFINE d == RequestCache(c, b, cyc, pf)
            w == HitWay(c, b)
            s == Index(b)
<1>. b \in Nat
  BY CacheUnitAssumption
<1>0. s \in Sets
  BY IndexRange
<1>1. /\ d = [sets |-> d.sets, inflight |-> d.inflight, stats |-> d.stats]
      /\ d.stats \in [Counters -> Nat]
  BY CountType DEF RequestCache, CacheShape
<1>2. /\ d.sets \in [Sets -> [Ways -> Line]]
      /\ \A t \in Sets, v \in Ways :
           /\ d.sets[t][v].valid = c.sets[t][v].valid
           /\ d.sets[t][v].tag = c.sets[t][v].tag
  <2>1. CASE ~contains(c, b)
    BY <2>1 DEF RequestCache, CacheShape
  <2>2. CASE contains(c, b)
    <3>. DEFINE old == c.sets[s][w]
                new == TouchedLine(old, cyc, FirstUse(c, b, pf))
    <3>1. w \in Ways
      BY <2>2, HitWayHolds
    <3>2. old \in Line
      BY <1>0, <3>1 DEF CacheShape
    <3>3. FirstUse(c, b, pf) \in BOOLEAN
      BY <3>2 DEF FirstUse, Line
    <3>4. new \in Line /\ new.valid = old.valid /\ new.tag = old.tag
      BY <3>2, <3>3 DEF TouchedLine, Line
    <3>5. d.sets = [c.sets EXCEPT ![s][w] = new]
      BY <2>2 DEF RequestCache
    <3>. HIDE DEF new, old, w, s
    <3>. QED  BY <1>0, <3>1, <3>2, <3>4, <3>5 DEF CacheShape, old
  <2>. QED  BY <2>1, <2>2
<1>3. /\ DOMAIN d.inflight = DOMAIN c.inflight
      /\ d.inflight \in [DOMAIN c.inflight -> InflightRequest]
      /\ \A x \in DOMAIN c.inflight :
           d.inflight[x].ready_cycle = c.inflight[x].ready_cycle
  <2>1. CASE RequestStatus(c, b, pf) = "MISS_MERGED" /\ ~pf
    BY <2>1 DEF RequestCache, CacheShape, InflightRequest
  <2>2. CASE ~(RequestStatus(c, b, pf) = "MISS_MERGED" /\ ~pf)
    BY <2>2 DEF RequestCache, CacheShape
  <2>. QED  BY <2>1, <2>2
<1>. QED  BY <1>1, <1>2, <1>3 DEF CacheShape

\* schedule_fill for a block that is not in flight adds it and nothing else.
LEMMA ScheduleAdds ==
  ASSUME NEW c, CacheShape(c), NEW b \in Blocks, b \notin DOMAIN c.inflight,
         NEW ready \in Nat, NEW pf \in BOOLEAN
  PROVE  LET d == schedule_fill(c, b, ready, pf)
         IN  /\ CacheShape(d)
             /\ d.sets = c.sets
             /\ DOMAIN d.inflight = DOMAIN c.inflight \cup {b}
             /\ d.inflight[b].ready_cycle = ready
             /\ \A x \in DOMAIN c.inflight : d.inflight[x] = c.inflight[x]
BY DEF schedule_fill, ScheduledRequest, CacheShape, InflightRequest

\* Filling b replaces one line of its set and frees its MSHR.
LEMMA ReturnFills ==
  ASSUME NEW c, CacheShape(c), NEW b \in DOMAIN c.inflight, NEW cyc \in Nat
  PROVE  LET d == ReturnBlock(c, b, cyc)
         IN  /\ CacheShape(d)
             /\ DOMAIN d.inflight = DOMAIN c.inflight \ {b}
             /\ \A x \in DOMAIN d.inflight : d.inflight[x] = c.inflight[x]
             /\ Victim(c.sets[Index(b)]) \in Ways
             /\ d.sets = [c.sets EXCEPT ![Index(b)][Victim(c.sets[Index(b)])] =
                            FilledLine(b, cyc, c.inflight[b])]
             /\ FilledLine(b, cyc, c.inflight[b]) \in Line
<1>. b \in Nat /\ Index(b) \in Sets /\ Tag(b) \in Nat
  BY IndexRange, CacheUnitAssumption DEF CacheShape
<1>1. Victim(c.sets[Index(b)]) \in Ways
  BY VictimWay DEF CacheShape
<1>2. FilledLine(b, cyc, c.inflight[b]) \in Line
  BY DEF FilledLine, Line, CacheShape, InflightRequest
<1>. QED  BY <1>1, <1>2, CountType DEF ReturnBlock, CacheShape

-----------------------------------------------------------------------------
(* The inductive invariant                                                 *)

\* NoDuplicateLine is kept by a fill only because the block filled is not
\* resident (NotBothPlaces), which a request keeps only because it answers
\* MISS_NEW after both look-ups failed; MSHRBound needs the finiteness.
IInv == /\ TypeOK
        /\ NoDuplicateLine
        /\ NotBothPlaces
        /\ MSHRBound
        /\ NoOverdue
        /\ IsFiniteSet(DOMAIN cache.inflight)

LEMMA TypeShape == TypeOK => CacheShape(cache)
BY DEF TypeOK, CacheShape

LEMMA InitInv == Init => IInv
<1>. SUFFICES ASSUME Init PROVE IInv
  OBVIOUS
<1>1. TypeOK
  BY EmptyShape DEF Init, TypeOK, CacheShape
<1>2. DOMAIN cache.inflight = {} /\ \A s \in Sets, w \in Ways : ~cache.sets[s][w].valid
  BY DEF Init, EmptyCache, EmptyLine
<1>3. IsFiniteSet(DOMAIN cache.inflight) /\ Cardinality(DOMAIN cache.inflight) = 0
  BY <1>2, FS_EmptySet
<1>4. MSHRBound
  BY <1>3, CacheAssumption DEF MSHRBound, Init
<1>. QED
  BY <1>1, <1>2, <1>3, <1>4
     DEF IInv, NoDuplicateLine, NotBothPlaces, NoOverdue, Init

LEMMA ReturnInv ==
  ASSUME IInv, NEW b \in Blocks, Return(b)
  PROVE  IInv'
<1>. DEFINE s == Index(b)
            w == Victim(cache.sets[s])
            new == FilledLine(b, cycle, cache.inflight[b])
<1>1. /\ phase = "returns" /\ b \in DOMAIN cache.inflight
      /\ cache' = ReturnBlock(cache, b, cycle)
      /\ UNCHANGED <<cycle, phase, pending, accesses, abandoned>>
  BY DEF Return, Completed
<1>2. TypeOK /\ CacheShape(cache) /\ b \in Nat /\ s \in Sets /\ cycle \in Nat
  BY TypeShape, IndexRange, CacheUnitAssumption DEF IInv, TypeOK
<1>3. /\ CacheShape(cache')
      /\ DOMAIN cache'.inflight = DOMAIN cache.inflight \ {b}
      /\ w \in Ways
      /\ cache'.sets = [cache.sets EXCEPT ![s][w] = new]
  <2>1. b \in DOMAIN cache.inflight /\ cycle \in Nat /\ CacheShape(cache)
    BY <1>1, <1>2
  <2>. HIDE DEF CacheShape
  <2>2. LET d == ReturnBlock(cache, b, cycle)
        IN  /\ CacheShape(d)
            /\ DOMAIN d.inflight = DOMAIN cache.inflight \ {b}
            /\ Victim(cache.sets[Index(b)]) \in Ways
            /\ d.sets = [cache.sets EXCEPT ![Index(b)][Victim(cache.sets[Index(b)])] =
                           FilledLine(b, cycle, cache.inflight[b])]
    BY ONLY <2>1, ReturnFills
  <2>. QED  BY ONLY <1>1, <2>2
<1>4. new.valid /\ new.tag = Tag(b)
  BY DEF FilledLine
<1>5. \A t \in Sets, v \in Ways :
        cache'.sets[t][v] = IF t = s /\ v = w THEN new ELSE cache.sets[t][v]
  BY <1>2, <1>3 DEF CacheShape
<1>6. TypeOK'
  BY <1>1, <1>2, <1>3 DEF TypeOK, CacheShape
<1>7. ~contains(cache, b)
  BY <1>1 DEF IInv, NotBothPlaces
<1>8. NoDuplicateLine'
  <2>. SUFFICES ASSUME NEW t \in Sets, NEW v \in Ways, NEW u \in Ways,
                       cache'.sets[t][v].valid, cache'.sets[t][u].valid,
                       cache'.sets[t][v].tag = cache'.sets[t][u].tag
                PROVE  v = u
    BY DEF NoDuplicateLine
  <2>1. CASE t = s /\ (v = w \/ u = w)
    BY <1>4, <1>5, <1>7, <2>1 DEF contains, Holds
  <2>2. CASE ~(t = s /\ (v = w \/ u = w))
    BY <1>5, <2>2 DEF IInv, NoDuplicateLine
  <2>. QED  BY <2>1, <2>2
<1>9. \A x \in Blocks : contains(cache', x) => x = b \/ contains(cache, x)
  <2>. SUFFICES ASSUME NEW x \in Blocks, NEW v \in Ways, Holds(cache', x, v),
                       x # b
                PROVE  Holds(cache, x, v)
    BY DEF contains
  <2>1. x \in Nat /\ Index(x) \in Sets
    BY IndexRange, CacheUnitAssumption
  <2>2. ~(Index(x) = s /\ v = w)
    BY <1>2, <1>4, <1>5, <2>1, TagIndex DEF Holds
  <2>. QED  BY <1>5, <2>1, <2>2 DEF Holds
<1>10. NotBothPlaces'
  <2>1. \A x \in DOMAIN cache'.inflight : x \in Blocks /\ x # b /\ ~contains(cache, x)
    BY <1>2, <1>3 DEF IInv, NotBothPlaces, CacheShape
  <2>2. pending # NoRequest =>
          /\ pending.block \in Blocks /\ pending.block # b
          /\ ~contains(cache, pending.block)
          /\ pending.block \notin DOMAIN cache.inflight
    BY <1>1, <1>2 DEF IInv, NotBothPlaces, TypeOK
  <2>. QED  BY <1>1, <1>3, <1>9, <2>1, <2>2 DEF NotBothPlaces
<1>11. /\ IsFiniteSet(DOMAIN cache'.inflight)
       /\ Cardinality(DOMAIN cache'.inflight) = Cardinality(DOMAIN cache.inflight) - 1
       /\ Cardinality(DOMAIN cache.inflight) \in Nat
  BY <1>1, <1>3, FS_RemoveElement, FS_CardinalityType DEF IInv
<1>12. MSHRBound'
  BY <1>1, <1>11, CacheAssumption DEF IInv, MSHRBound
<1>13. NoOverdue'
  BY <1>1 DEF NoOverdue
<1>. QED  BY <1>6, <1>8, <1>10, <1>11, <1>12, <1>13 DEF IInv

LEMMA RequestInv ==
  ASSUME IInv, NEW b \in Blocks, NEW pf \in BOOLEAN, Request(b, pf)
  PROVE  IInv'
<1>1. /\ phase = "requests" /\ pending = NoRequest
      /\ cache' = RequestCache(cache, b, cycle, pf)
      /\ pending' = IF RequestStatus(cache, b, pf) = "MISS_NEW"
                    THEN [block |-> b, pf |-> pf] ELSE NoRequest
      /\ accesses' = accesses + 1
      /\ UNCHANGED <<cycle, phase, abandoned>>
  BY DEF Request
<1>2. TypeOK /\ CacheShape(cache) /\ cycle \in Nat
  BY TypeShape DEF IInv, TypeOK
<1>3. /\ CacheShape(cache')
      /\ DOMAIN cache'.inflight = DOMAIN cache.inflight
      /\ \A x \in DOMAIN cache.inflight :
           cache'.inflight[x].ready_cycle = cache.inflight[x].ready_cycle
      /\ \A s \in Sets, w \in Ways :
           /\ cache'.sets[s][w].valid = cache.sets[s][w].valid
           /\ cache'.sets[s][w].tag = cache.sets[s][w].tag
  BY <1>1, <1>2, RequestKeeps
<1>4. TypeOK'
  BY <1>1, <1>2, <1>3 DEF TypeOK, CacheShape
<1>5. NoDuplicateLine'
  BY <1>3 DEF IInv, NoDuplicateLine
<1>6. \A x \in Blocks : contains(cache', x) = contains(cache, x)
  <2>. SUFFICES ASSUME NEW x \in Blocks, NEW w \in Ways
                PROVE  Holds(cache', x, w) <=> Holds(cache, x, w)
    BY DEF contains
  <2>1. Index(x) \in Sets
    BY IndexRange, CacheUnitAssumption
  <2>. QED  BY <1>3, <2>1 DEF Holds
<1>7. pending' # NoRequest =>
        /\ pending'.block = b
        /\ ~contains(cache, b)
        /\ b \notin DOMAIN cache.inflight
        /\ Cardinality(DOMAIN cache.inflight) < MaxInflight
  BY <1>1 DEF RequestStatus
<1>8. NotBothPlaces'
  BY <1>2, <1>3, <1>6, <1>7 DEF IInv, NotBothPlaces, CacheShape
<1>9. Cardinality(DOMAIN cache.inflight) \in Nat
  BY FS_CardinalityType DEF IInv
<1>10. MSHRBound'
  BY <1>1, <1>3, <1>7, <1>9, CacheAssumption DEF IInv, MSHRBound
<1>11. NoOverdue'
  BY <1>1, <1>3 DEF IInv, NoOverdue
<1>. QED  BY <1>3, <1>4, <1>5, <1>8, <1>10, <1>11 DEF IInv

LEMMA ScheduleInv ==
  ASSUME IInv, NEW latency \in 1 .. MaxLatency, Schedule(latency)
  PROVE  IInv'
<1>. DEFINE b == pending.block
<1>1. /\ pending # NoRequest /\ pending' = NoRequest
      /\ cache' = schedule_fill(cache, b, cycle + latency, pending.pf)
      /\ UNCHANGED <<cycle, phase, accesses, abandoned>>
  BY DEF Schedule
<1>2. /\ TypeOK /\ CacheShape(cache) /\ cycle \in Nat /\ latency \in Nat \ {0}
      /\ b \in Blocks /\ pending.pf \in BOOLEAN /\ b \notin DOMAIN cache.inflight
      /\ ~contains(cache, b)
  BY <1>1, TypeShape, CacheUnitAssumption DEF IInv, TypeOK, NotBothPlaces
<1>3. /\ CacheShape(cache')
      /\ cache'.sets = cache.sets
      /\ DOMAIN cache'.inflight = DOMAIN cache.inflight \cup {b}
      /\ cache'.inflight[b].ready_cycle = cycle + latency
      /\ \A x \in DOMAIN cache.inflight : cache'.inflight[x] = cache.inflight[x]
  BY <1>1, <1>2, ScheduleAdds
<1>4. TypeOK'
  BY <1>1, <1>2, <1>3 DEF TypeOK, CacheShape
<1>5. NoDuplicateLine'
  BY <1>3 DEF IInv, NoDuplicateLine
<1>6. \A x \in Blocks : contains(cache', x) = contains(cache, x)
  BY <1>3 DEF contains, Holds
<1>7. NotBothPlaces'
  BY <1>1, <1>2, <1>3, <1>6 DEF IInv, NotBothPlaces, CacheShape
<1>8. /\ IsFiniteSet(DOMAIN cache'.inflight)
      /\ Cardinality(DOMAIN cache'.inflight) = Cardinality(DOMAIN cache.inflight) + 1
      /\ Cardinality(DOMAIN cache.inflight) \in Nat
  <2>. DEFINE D == DOMAIN cache.inflight
  <2>1. IsFiniteSet(D) /\ b \notin D
    BY <1>2 DEF IInv
  <2>2. /\ IsFiniteSet(D \cup {b}) /\ Cardinality(D \cup {b}) = Cardinality(D) + 1
        /\ Cardinality(D) \in Nat
    BY ONLY <2>1, FS_AddElement, FS_CardinalityType
  <2>. QED  BY ONLY <1>3, <2>2
<1>9. MSHRBound'
  BY <1>1, <1>8, CacheAssumption DEF IInv, MSHRBound
<1>10. NoOverdue'
  BY <1>1, <1>2, <1>3 DEF IInv, NoOverdue
<1>. QED  BY <1>4, <1>5, <1>7, <1>8, <1>9, <1>10 DEF IInv

\* The steps that leave the cache alone.
LEMMA OtherInv ==
  ASSUME IInv, ReturnsDone \/ Abandon \/ NextCycle \/ UNCHANGED vars
  PROVE  IInv'
<1>1. cache' = cache
  BY DEF ReturnsDone, Abandon, NextCycle, vars
<1>2. TypeOK'
  BY <1>1 DEF IInv, TypeOK, ReturnsDone, Abandon, NextCycle, vars
<1>3. pending' = pending \/ pending' = NoRequest
  BY DEF ReturnsDone, Abandon, NextCycle, vars
<1>4. NoDuplicateLine' /\ NotBothPlaces' /\ IsFiniteSet(DOMAIN cache'.inflight)
  BY <1>1, <1>3 DEF IInv, NoDuplicateLine, NotBothPlaces, contains, Holds
<1>5. MSHRBound'
  BY <1>1, <1>3, FS_CardinalityType, CacheAssumption DEF IInv, MSHRBound
<1>6. NoOverdue'
  <2>1. CASE ReturnsDone
    <3>1. \A b \in DOMAIN cache.inflight :
            cache.inflight[b].ready_cycle \in Nat /\ cycle \in Nat
      BY DEF IInv, TypeOK, InflightRequest
    <3>. QED  BY <1>1, <2>1, <3>1 DEF ReturnsDone, Completed, NoOverdue
  <2>2. CASE Abandon \/ NextCycle \/ UNCHANGED vars
    BY <1>1, <2>2 DEF IInv, NoOverdue, Abandon, NextCycle, vars
  <2>. QED  BY <2>1, <2>2
<1>. QED  BY <1>2, <1>4, <1>5, <1>6 DEF IInv

LEMMA Inductive == IInv /\ [Next]_vars => IInv'
<1>. SUFFICES ASSUME IInv, [Next]_vars PROVE IInv'
  OBVIOUS
<1>1. ASSUME NEW b \in Blocks, Return(b) PROVE IInv'
  BY <1>1, ReturnInv
<1>2. ASSUME NEW b \in Blocks, NEW pf \in BOOLEAN, Request(b, pf) PROVE IInv'
  BY <1>2, RequestInv
<1>3. ASSUME NEW latency \in 1 .. MaxLatency, Schedule(latency) PROVE IInv'
  BY <1>3, ScheduleInv
<1>4. CASE ReturnsDone \/ Abandon \/ NextCycle \/ UNCHANGED vars
  BY <1>4, OtherInv
<1>. QED  BY <1>1, <1>2, <1>3, <1>4 DEF Next

\* Every reachable state of a cache has the inductive invariant.
THEOREM CacheInvariant == Spec => []IInv
BY InitInv, Inductive, PTL DEF Spec

\* The state of Cache.h keeps its types, whatever the geometry.
THEOREM TypeCorrect == Spec => []TypeOK
BY CacheInvariant, PTL DEF IInv

\* No line of memory is ever in two ways, nor resident while in flight.
THEOREM SingleCopy == Spec => [](NoDuplicateLine /\ NotBothPlaces)
BY CacheInvariant, PTL DEF IInv

\* The number of allocated MSHRs never exceeds max_inflight.
THEOREM MSHRsBounded == Spec => []MSHRBound
BY CacheInvariant, PTL DEF IInv

\* A merged miss is always given a ready cycle in the future.
THEOREM FillsInFuture == Spec => []NoOverdue
BY CacheInvariant, PTL DEF IInv
-----------------------------------------------------------------------------
(* What request and fill_block count                                       *)

One(p) == IF p THEN 1 ELSE 0

LEMMA OneType == ASSUME NEW p PROVE One(p) \in {0, 1} /\ (p => One(p) = 1) /\ (~p => One(p) = 0)
BY DEF One

\* A set that differs from another in one element at most.
LEMMA OneApart ==
  ASSUME NEW F, NEW G, IsFiniteSet(F), NEW x,
         \A y : y # x => (y \in F <=> y \in G)
  PROVE  /\ IsFiniteSet(G) /\ Cardinality(F) \in Nat /\ Cardinality(G) \in Nat
         /\ Cardinality(G) + One(x \in F) = Cardinality(F) + One(x \in G)
<1>. DEFINE H == F \ {x}
<1>1. /\ IsFiniteSet(H) /\ Cardinality(H) \in Nat /\ Cardinality(F) \in Nat
      /\ Cardinality(H) = IF x \in F THEN Cardinality(F) - 1 ELSE Cardinality(F)
  BY FS_RemoveElement, FS_CardinalityType
<1>2. x \notin H /\ H = G \ {x}
  OBVIOUS
<1>. HIDE DEF H
<1>3. Cardinality(H) + One(x \in F) = Cardinality(F)
  BY <1>1 DEF One
<1>4. CASE x \in G
  <2>1. G = H \cup {x}
    BY <1>2, <1>4
  <2>2. IsFiniteSet(G) /\ Cardinality(G) = Cardinality(H) + 1
    <3>1. /\ IsFiniteSet(H \cup {x})
          /\ Cardinality(H \cup {x}) = IF x \in H THEN Cardinality(H) ELSE Cardinality(H) + 1
      BY ONLY <1>1, FS_AddElement
    <3>. QED  BY ONLY <1>2, <2>1, <3>1
  <2>. QED  BY <1>1, <1>3, <1>4, <2>2 DEF One
<1>5. CASE x \notin G
  <2>1. G = H
    BY <1>2, <1>5
  <2>. QED  BY <1>1, <1>3, <1>5, <2>1 DEF One
<1>. QED  BY <1>4, <1>5

LEMMA StatusIs ==
  ASSUME NEW c, NEW b, NEW pf \in BOOLEAN
  PROVE  /\ contains(c, b) => RequestStatus(c, b, pf) = "HIT"
         /\ ~contains(c, b) /\ b \in DOMAIN c.inflight => RequestStatus(c, b, pf) = "MISS_MERGED"
         /\ ~contains(c, b) /\ b \notin DOMAIN c.inflight =>
              RequestStatus(c, b, pf) \in {"MISS_NEW", IF pf THEN "PREFETCH_DROPPED"
                                                             ELSE "MISS_BLOCKED"}
<1>1. ASSUME contains(c, b) PROVE RequestStatus(c, b, pf) = "HIT"
  BY <1>1, Zenon DEF RequestStatus
<1>2. ASSUME ~contains(c, b), b \in DOMAIN c.inflight
      PROVE  RequestStatus(c, b, pf) = "MISS_MERGED"
  BY <1>2, Zenon DEF RequestStatus
<1>3. ASSUME ~contains(c, b), b \notin DOMAIN c.inflight
      PROVE  RequestStatus(c, b, pf) \in {"MISS_NEW", IF pf THEN "PREFETCH_DROPPED"
                                                            ELSE "MISS_BLOCKED"}
  <2>1. RequestStatus(c, b, pf) = IF Cardinality(DOMAIN c.inflight) < MaxInflight
                                  THEN "MISS_NEW"
                                  ELSE IF pf THEN "PREFETCH_DROPPED" ELSE "MISS_BLOCKED"
    BY <1>3, Zenon DEF RequestStatus
  <2>. QED  BY <2>1
<1>. QED  BY <1>1, <1>2, <1>3

\* What a demand request counts: its access and one outcome, the first use
\* of a prefetched line and a merge with a prefetch, nothing else.
LEMMA DemandCounts ==
  ASSUME NEW c, NEW b, NEW ks, ks = CountedDemand(c, b)
  PROVE  /\ "access" \in ks
         /\ One("hit" \in ks) + One("miss_new" \in ks) + One("miss_merged" \in ks)
              + One("miss_blocked" \in ks) = 1
         /\ "useful_prefetch" \in ks <=> contains(c, b) /\ FirstUse(c, b, FALSE)
         /\ "late_prefetch" \in ks <=> /\ ~contains(c, b) /\ b \in DOMAIN c.inflight
                                       /\ c.inflight[b].is_prefetch
         /\ "prefetch" \notin ks /\ "prefetch_hit" \notin ks
         /\ "prefetch_dropped" \notin ks /\ "prefetch_fill" \notin ks
         /\ "prefetch_filtered_inflight" \notin ks /\ "useless_prefetch" \notin ks
<1>. DEFINE status == RequestStatus(c, b, FALSE)
            None == /\ "prefetch" \notin ks /\ "prefetch_hit" \notin ks
                    /\ "prefetch_dropped" \notin ks /\ "prefetch_fill" \notin ks
                    /\ "prefetch_filtered_inflight" \notin ks
                    /\ "useless_prefetch" \notin ks
<1>1. CASE contains(c, b)
  <2>. DEFINE P == FirstUse(c, b, FALSE)
  <2>1. status = "HIT"
    BY <1>1, StatusIs
  <2>2. ks = {"access"} \cup ({"hit"} \cup (IF P THEN {"useful_prefetch"} ELSE {}))
    BY <2>1, Zenon DEF CountedDemand
  <2>. HIDE DEF P
  <2>3. /\ "access" \in ks /\ "hit" \in ks /\ "miss_new" \notin ks
        /\ "miss_merged" \notin ks /\ "miss_blocked" \notin ks /\ "late_prefetch" \notin ks
    BY ONLY <2>2
  <2>4. ("useful_prefetch" \in ks <=> P) /\ None
    BY ONLY <2>2
  <2>5. One("hit" \in ks) + One("miss_new" \in ks) + One("miss_merged" \in ks)
          + One("miss_blocked" \in ks) = 1
    BY ONLY <2>3 DEF One
  <2>. QED  BY ONLY <1>1, <2>3, <2>4, <2>5, Zenon DEF P
<1>2. CASE ~contains(c, b) /\ b \in DOMAIN c.inflight
  <2>. DEFINE P == c.inflight[b].is_prefetch
  <2>1. status = "MISS_MERGED"
    BY <1>2, StatusIs
  <2>2. ks = {"access"} \cup ({"miss_merged"} \cup
                 (IF P THEN {"demand_merged_with_prefetch", "late_prefetch"} ELSE {}))
    BY <2>1, Zenon DEF CountedDemand
  <2>. HIDE DEF P
  <2>3. /\ "access" \in ks /\ "hit" \notin ks /\ "miss_new" \notin ks
        /\ "miss_merged" \in ks /\ "miss_blocked" \notin ks /\ "useful_prefetch" \notin ks
    BY ONLY <2>2
  <2>4. ("late_prefetch" \in ks <=> P) /\ None
    BY ONLY <2>2
  <2>5. One("hit" \in ks) + One("miss_new" \in ks) + One("miss_merged" \in ks)
          + One("miss_blocked" \in ks) = 1
    BY ONLY <2>3 DEF One
  <2>. QED  BY ONLY <1>2, <2>3, <2>4, <2>5, Zenon DEF P
<1>3. CASE ~contains(c, b) /\ b \notin DOMAIN c.inflight
  <2>1. status \in {"MISS_NEW", "MISS_BLOCKED"}
    BY <1>3, StatusIs
  <2>2. ASSUME status = "MISS_NEW" PROVE ks = {"access"} \cup {"miss_new"}
    BY <2>2, Zenon DEF CountedDemand
  <2>3. ASSUME status = "MISS_BLOCKED" PROVE ks = {"access"} \cup {"miss_blocked"}
    BY <2>3, Zenon DEF CountedDemand
  <2>4. \E k \in {"miss_new", "miss_blocked"} : ks = {"access", k}
    BY ONLY <2>1, <2>2, <2>3
  <2>5. /\ "access" \in ks /\ "hit" \notin ks /\ "miss_merged" \notin ks
        /\ "miss_new" \in ks <=> "miss_blocked" \notin ks
        /\ "useful_prefetch" \notin ks /\ "late_prefetch" \notin ks /\ None
    BY ONLY <2>4
  <2>6. One("hit" \in ks) + One("miss_new" \in ks) + One("miss_merged" \in ks)
          + One("miss_blocked" \in ks) = 1
    BY ONLY <2>5 DEF One
  <2>. QED  BY ONLY <1>3, <2>5, <2>6, Zenon
<1>. QED  BY <1>1, <1>2, <1>3

\* What a prefetch request counts: itself and why it goes no further, when
\* it does not.
LEMMA PrefetchCounts ==
  ASSUME NEW c, NEW b, NEW ks, ks = CountedPrefetch(c, b)
  PROVE  /\ "prefetch" \in ks
         /\ One("prefetch_hit" \in ks) + One("prefetch_filtered_inflight" \in ks)
              + One("prefetch_dropped" \in ks)
              + One(RequestStatus(c, b, TRUE) = "MISS_NEW") = 1
         /\ "access" \notin ks /\ "hit" \notin ks /\ "miss_new" \notin ks
         /\ "miss_merged" \notin ks /\ "miss_blocked" \notin ks
         /\ "prefetch_fill" \notin ks /\ "useful_prefetch" \notin ks
         /\ "useless_prefetch" \notin ks /\ "late_prefetch" \notin ks
<1>. DEFINE status == RequestStatus(c, b, TRUE)
            None == /\ "access" \notin ks /\ "hit" \notin ks /\ "miss_new" \notin ks
                    /\ "miss_merged" \notin ks /\ "miss_blocked" \notin ks
                    /\ "prefetch_fill" \notin ks /\ "useful_prefetch" \notin ks
                    /\ "useless_prefetch" \notin ks /\ "late_prefetch" \notin ks
            Outcome(s) == /\ "prefetch" \in ks /\ None
                          /\ ("prefetch_hit" \in ks) <=> s = "HIT"
                          /\ ("prefetch_filtered_inflight" \in ks) <=> s = "MISS_MERGED"
                          /\ ("prefetch_dropped" \in ks) <=> s = "PREFETCH_DROPPED"
<1>1. status \in {"HIT", "MISS_MERGED", "MISS_NEW", "PREFETCH_DROPPED"}
  BY StatusIs
<1>2. ASSUME status = "HIT" PROVE Outcome("HIT")
  <2>1. ks = {"prefetch"} \cup {"prefetch_hit"}
    BY <1>2, Zenon DEF CountedPrefetch
  <2>. QED  BY ONLY <2>1
<1>3. ASSUME status = "MISS_MERGED" PROVE Outcome("MISS_MERGED")
  <2>1. ks = {"prefetch"} \cup {"prefetch_filtered_inflight"}
    BY <1>3, Zenon DEF CountedPrefetch
  <2>. QED  BY ONLY <2>1
<1>4. ASSUME status = "PREFETCH_DROPPED" PROVE Outcome("PREFETCH_DROPPED")
  <2>1. ks = {"prefetch"} \cup {"prefetch_dropped"}
    BY <1>4, Zenon DEF CountedPrefetch
  <2>. QED  BY ONLY <2>1
<1>5. ASSUME status = "MISS_NEW" PROVE Outcome("MISS_NEW")
  <2>1. ks = {"prefetch"} \cup {}
    BY <1>5, Zenon DEF CountedPrefetch
  <2>. QED  BY ONLY <2>1
<1>6. Outcome(status)
  BY ONLY <1>1, <1>2, <1>3, <1>4, <1>5
<1>. HIDE DEF status
<1>7. One("prefetch_hit" \in ks) + One("prefetch_filtered_inflight" \in ks)
        + One("prefetch_dropped" \in ks) + One(status = "MISS_NEW") = 1
  BY ONLY <1>1, <1>6 DEF One
<1>. QED  BY ONLY <1>6, <1>7, Zenon DEF status

LEMMA CountIs ==
  ASSUME NEW stats \in [Counters -> Nat], NEW ks
  PROVE  \A k \in Counters : Count(stats, ks)[k] = stats[k] + One(k \in ks)
BY DEF Count, One
-----------------------------------------------------------------------------
(* The accounts of print_cache_stats                                       *)

Flying(c) == {x \in DOMAIN c.inflight : c.inflight[x].is_prefetch}
Awaited(c) == {x \in DOMAIN c.inflight : /\ c.inflight[x].is_prefetch
                                         /\ c.inflight[x].has_demand_waiter}
Idle(line) == line.valid /\ line.prefetched /\ ~line.used_by_demand
Unused(c) == {p \in Sets \X Ways : Idle(c.sets[p[1]][p[2]])}

LEMMA CountedSets ==
  ASSUME NEW c, IsFiniteSet(DOMAIN c.inflight)
  PROVE  /\ IsFiniteSet(Flying(c)) /\ Cardinality(Flying(c)) \in Nat
         /\ IsFiniteSet(Awaited(c)) /\ Cardinality(Awaited(c)) \in Nat
         /\ IsFiniteSet(Unused(c)) /\ Cardinality(Unused(c)) \in Nat
<1>1. IsFiniteSet(Flying(c)) /\ IsFiniteSet(Awaited(c))
  BY FS_Subset DEF Flying, Awaited
<1>2. IsFiniteSet(Sets) /\ IsFiniteSet(Ways)
  BY FS_Interval, CacheAssumption DEF Sets, Ways
<1>3. IsFiniteSet(Sets \X Ways)
  BY <1>2, FS_Product
<1>4. IsFiniteSet(Unused(c))
  BY <1>3, FS_Subset DEF Unused
<1>. QED  BY <1>1, <1>4, FS_CardinalityType

\* What request writes besides the counters: the age of the line it hits, its
\* first use, and the waiter of a prefetch it merges with.
LEMMA RequestMarks ==
  ASSUME NEW c, CacheShape(c), NEW b \in Blocks, NEW cyc \in Nat, NEW pf \in BOOLEAN,
         NEW d, d = RequestCache(c, b, cyc, pf)
  PROVE  /\ d.stats = Count(c.stats, IF pf THEN CountedPrefetch(c, b)
                                           ELSE CountedDemand(c, b))
         /\ DOMAIN d.inflight = DOMAIN c.inflight
         /\ \A x \in DOMAIN c.inflight :
              /\ d.inflight[x].is_prefetch = c.inflight[x].is_prefetch
              /\ x # b => d.inflight[x] = c.inflight[x]
         /\ pf \/ contains(c, b) => d.inflight = c.inflight
         /\ ~contains(c, b) => d.sets = c.sets
         /\ contains(c, b) =>
              /\ Index(b) \in Sets /\ HitWay(c, b) \in Ways
              /\ c.sets[Index(b)][HitWay(c, b)].valid
              /\ \A s \in Sets, w \in Ways :
                   d.sets[s][w] = IF s = Index(b) /\ w = HitWay(c, b)
                                  THEN TouchedLine(c.sets[s][w], cyc, FirstUse(c, b, pf))
                                  ELSE c.sets[s][w]
<1>1. d.stats = Count(c.stats, IF pf THEN CountedPrefetch(c, b) ELSE CountedDemand(c, b))
  BY DEF RequestCache
<1>2. /\ DOMAIN d.inflight = DOMAIN c.inflight
      /\ \A x \in DOMAIN c.inflight :
           /\ d.inflight[x].is_prefetch = c.inflight[x].is_prefetch
           /\ x # b => d.inflight[x] = c.inflight[x]
  <2>1. CASE RequestStatus(c, b, pf) = "MISS_MERGED" /\ ~pf
    BY <2>1 DEF RequestCache, CacheShape, InflightRequest
  <2>2. CASE ~(RequestStatus(c, b, pf) = "MISS_MERGED" /\ ~pf)
    BY <2>2 DEF RequestCache, CacheShape
  <2>. QED  BY <2>1, <2>2
<1>3. pf \/ contains(c, b) => d.inflight = c.inflight
  BY StatusIs DEF RequestCache
<1>4. ~contains(c, b) => d.sets = c.sets
  BY DEF RequestCache
<1>5. ASSUME contains(c, b)
      PROVE  /\ Index(b) \in Sets /\ HitWay(c, b) \in Ways
             /\ c.sets[Index(b)][HitWay(c, b)].valid
             /\ \A s \in Sets, w \in Ways :
                  d.sets[s][w] = IF s = Index(b) /\ w = HitWay(c, b)
                                 THEN TouchedLine(c.sets[s][w], cyc, FirstUse(c, b, pf))
                                 ELSE c.sets[s][w]
  <2>. DEFINE w0 == HitWay(c, b)
              s0 == Index(b)
              first == FirstUse(c, b, pf)
  <2>1. s0 \in Sets
    BY IndexRange, CacheUnitAssumption
  <2>2. w0 \in Ways /\ c.sets[s0][w0].valid
    BY <1>5, HitWayHolds DEF Holds
  <2>3. d.sets = [c.sets EXCEPT ![s0][w0] = TouchedLine(c.sets[s0][w0], cyc, first)]
    BY <1>5 DEF RequestCache
  <2>. HIDE DEF w0, s0, first
  <2>4. \A s \in Sets, w \in Ways :
           d.sets[s][w] = IF s = s0 /\ w = w0
                          THEN TouchedLine(c.sets[s][w], cyc, first) ELSE c.sets[s][w]
    BY <2>1, <2>2, <2>3 DEF CacheShape
  <2>. QED  BY <2>1, <2>2, <2>4 DEF w0, s0, first
<1>. QED  BY <1>1, <1>2, <1>3, <1>4, <1>5

\* A request uses a prefetched line once, and makes one prefetch awaited.
LEMMA RequestCountsSets ==
  ASSUME NEW c, CacheShape(c), IsFiniteSet(DOMAIN c.inflight),
         NEW b \in Blocks, NEW cyc \in Nat, NEW pf \in BOOLEAN,
         NEW d, d = RequestCache(c, b, cyc, pf)
  PROVE  /\ Flying(d) = Flying(c)
         /\ Cardinality(Awaited(d)) <= Cardinality(Awaited(c))
              + One(~pf /\ ~contains(c, b) /\ b \in DOMAIN c.inflight
                      /\ c.inflight[b].is_prefetch)
         /\ Cardinality(Unused(d)) + One(contains(c, b) /\ FirstUse(c, b, pf))
              = Cardinality(Unused(c))
<1>1. /\ DOMAIN d.inflight = DOMAIN c.inflight
      /\ \A x \in DOMAIN c.inflight :
           /\ d.inflight[x].is_prefetch = c.inflight[x].is_prefetch
           /\ x # b => d.inflight[x] = c.inflight[x]
      /\ pf \/ contains(c, b) => d.inflight = c.inflight
      /\ ~contains(c, b) => d.sets = c.sets
  BY RequestMarks
<1>2. Flying(d) = Flying(c)
  BY <1>1 DEF Flying
<1>3. Cardinality(Awaited(c)) \in Nat /\ Cardinality(Unused(c)) \in Nat
      /\ IsFiniteSet(Awaited(c)) /\ IsFiniteSet(Unused(c))
  BY CountedSets
<1>. DEFINE merges == ~pf /\ ~contains(c, b) /\ b \in DOMAIN c.inflight
                        /\ c.inflight[b].is_prefetch
            first == contains(c, b) /\ FirstUse(c, b, pf)
<1>4. Cardinality(Awaited(d)) <= Cardinality(Awaited(c)) + One(merges)
  <2>1. CASE pf \/ contains(c, b)
    <3>1. Awaited(d) = Awaited(c)
      BY <1>1, <2>1 DEF Awaited
    <3>2. One(merges) \in {0, 1}
      BY OneType
    <3>. HIDE DEF merges
    <3>. QED  BY <1>3, <3>1, <3>2
  <2>2. CASE ~(pf \/ contains(c, b))
    <3>1. \A y : y # b => (y \in Awaited(c) <=> y \in Awaited(d))
      BY <1>1 DEF Awaited
    <3>2. /\ Cardinality(Awaited(d)) \in Nat
          /\ Cardinality(Awaited(d)) + One(b \in Awaited(c))
               = Cardinality(Awaited(c)) + One(b \in Awaited(d))
      BY <1>3, <3>1, OneApart
    <3>3. b \in Awaited(d) => merges
      BY <1>1, <2>2 DEF Awaited
    <3>4. One(b \in Awaited(c)) \in {0, 1} /\ One(b \in Awaited(d)) <= One(merges)
      <4>. HIDE DEF merges
      <4>. QED  BY <3>3 DEF One
    <3>5. One(b \in Awaited(d)) \in {0, 1} /\ One(merges) \in {0, 1}
      BY OneType
    <3>. HIDE DEF merges
    <3>. QED  BY <1>3, <3>2, <3>4, <3>5
  <2>. QED  BY <2>1, <2>2
<1>5. Cardinality(Unused(d)) + One(first) = Cardinality(Unused(c))
  <2>1. CASE ~contains(c, b)
    <3>1. Unused(d) = Unused(c)
      BY <1>1, <2>1 DEF Unused
    <3>2. One(first) = 0
      BY <2>1, OneType
    <3>. HIDE DEF first
    <3>. QED  BY <1>3, <3>1, <3>2
  <2>2. CASE contains(c, b)
    <3>. DEFINE s0 == Index(b)
                w0 == HitWay(c, b)
                old == c.sets[s0][w0]
                x == <<s0, w0>>
    <3>1. /\ s0 \in Sets /\ w0 \in Ways /\ old.valid
          /\ \A s \in Sets, w \in Ways :
               d.sets[s][w] = IF s = s0 /\ w = w0
                              THEN TouchedLine(c.sets[s][w], cyc, FirstUse(c, b, pf))
                              ELSE c.sets[s][w]
      BY <2>2, RequestMarks
    <3>2. old \in Line /\ FirstUse(c, b, pf) = (~pf /\ old.prefetched /\ ~old.used_by_demand)
      BY <3>1 DEF FirstUse, CacheShape
    <3>3. /\ Idle(old) <=> old.prefetched /\ ~old.used_by_demand
          /\ Idle(TouchedLine(old, cyc, FirstUse(c, b, pf)))
               <=> Idle(old) /\ ~FirstUse(c, b, pf)
      BY <3>1, <3>2 DEF Idle, TouchedLine, Line
    <3>. HIDE DEF s0, w0, old
    <3>4. \A y : y # x => (y \in Unused(c) <=> y \in Unused(d))
      BY <3>1 DEF Unused
    <3>5. /\ x \in Unused(c) <=> Idle(old)
          /\ x \in Unused(d) <=> Idle(old) /\ ~FirstUse(c, b, pf)
      BY <3>1, <3>3 DEF Unused, old
    <3>6. FirstUse(c, b, pf) => Idle(old)
      BY <3>2, <3>3
    <3>7. /\ Cardinality(Unused(d)) \in Nat
          /\ Cardinality(Unused(d)) + One(x \in Unused(c))
               = Cardinality(Unused(c)) + One(x \in Unused(d))
      BY ONLY <1>3, <3>4, OneApart
    <3>8. One(x \in Unused(c)) = One(x \in Unused(d)) + One(first)
      BY <2>2, <3>5, <3>6 DEF One
    <3>9. One(x \in Unused(d)) \in {0, 1} /\ One(first) \in {0, 1}
      BY OneType
    <3>. HIDE DEF first
    <3>. QED  BY <1>3, <3>7, <3>8, <3>9
  <2>. QED  BY <2>1, <2>2
<1>. QED  BY <1>2, <1>4, <1>5
\* A fill ends a prefetch, judges the line it evicts and leaves its own line
\* unused exactly when nobody waited for the prefetch.
LEMMA ReturnCountsSets ==
  ASSUME NEW c, CacheShape(c), IsFiniteSet(DOMAIN c.inflight),
         NEW b \in DOMAIN c.inflight, NEW cyc \in Nat,
         NEW d, d = ReturnBlock(c, b, cyc), NEW old, NEW req,
         old = c.sets[Index(b)][Victim(c.sets[Index(b)])], req = c.inflight[b]
  PROVE  /\ Cardinality(Flying(d)) + One(req.is_prefetch) = Cardinality(Flying(c))
         /\ Cardinality(Awaited(d)) + One(req.is_prefetch /\ req.has_demand_waiter)
              = Cardinality(Awaited(c))
         /\ Cardinality(Unused(d)) + One(Idle(old))
              = Cardinality(Unused(c)) + One(req.is_prefetch /\ ~req.has_demand_waiter)
         /\ d.stats = Count(c.stats, CountedFill(old, req))
         /\ "useless_prefetch" \in CountedFill(old, req) <=> Idle(old)
         /\ "prefetch_fill" \in CountedFill(old, req) <=> req.is_prefetch
         /\ \A k \in Counters : k \in CountedFill(old, req) =>
              k \in {"useless_prefetch", "prefetch_fill"}
<1>. DEFINE s0 == Index(b)
            w0 == Victim(c.sets[s0])
            new == FilledLine(b, cyc, req)
            x == <<s0, w0>>
<1>1. /\ DOMAIN d.inflight = DOMAIN c.inflight \ {b}
      /\ \A y \in DOMAIN d.inflight : d.inflight[y] = c.inflight[y]
      /\ w0 \in Ways
      /\ d.sets = [c.sets EXCEPT ![s0][w0] = new]
      /\ new \in Line
  BY ReturnFills
<1>2. s0 \in Sets /\ req \in InflightRequest
  BY IndexRange, CacheUnitAssumption DEF CacheShape
<1>3. /\ IsFiniteSet(Flying(c)) /\ IsFiniteSet(Awaited(c)) /\ IsFiniteSet(Unused(c))
  BY CountedSets
<1>4. Cardinality(Flying(d)) + One(req.is_prefetch) = Cardinality(Flying(c))
  <2>1. \A y : y # b => (y \in Flying(c) <=> y \in Flying(d))
    BY <1>1 DEF Flying
  <2>2. b \notin Flying(d) /\ (b \in Flying(c) <=> req.is_prefetch)
    BY <1>1 DEF Flying
  <2>3. /\ Cardinality(Flying(d)) \in Nat /\ Cardinality(Flying(c)) \in Nat
        /\ Cardinality(Flying(d)) + One(b \in Flying(c))
             = Cardinality(Flying(c)) + One(b \in Flying(d))
    BY <1>3, <2>1, OneApart
  <2>. QED  BY <2>2, <2>3 DEF One
<1>5. Cardinality(Awaited(d)) + One(req.is_prefetch /\ req.has_demand_waiter)
        = Cardinality(Awaited(c))
  <2>1. \A y : y # b => (y \in Awaited(c) <=> y \in Awaited(d))
    BY <1>1 DEF Awaited
  <2>2. /\ b \notin Awaited(d)
        /\ b \in Awaited(c) <=> req.is_prefetch /\ req.has_demand_waiter
    BY <1>1 DEF Awaited
  <2>3. /\ Cardinality(Awaited(d)) \in Nat /\ Cardinality(Awaited(c)) \in Nat
        /\ Cardinality(Awaited(d)) + One(b \in Awaited(c))
             = Cardinality(Awaited(c)) + One(b \in Awaited(d))
    BY <1>3, <2>1, OneApart
  <2>. QED  BY <2>2, <2>3 DEF One
<1>6. Cardinality(Unused(d)) + One(Idle(old))
        = Cardinality(Unused(c)) + One(req.is_prefetch /\ ~req.has_demand_waiter)
  <2>1. Idle(new) <=> req.is_prefetch /\ ~req.has_demand_waiter
    BY <1>2 DEF Idle, FilledLine, InflightRequest
  <2>. HIDE DEF new, s0, w0
  <2>2. \A s \in Sets, w \in Ways :
           d.sets[s][w] = IF s = s0 /\ w = w0 THEN new ELSE c.sets[s][w]
    BY <1>1, <1>2 DEF CacheShape
  <2>3. \A y : y # x => (y \in Unused(c) <=> y \in Unused(d))
    BY <2>2 DEF Unused
  <2>4. (x \in Unused(c) <=> Idle(old)) /\ (x \in Unused(d) <=> Idle(new))
    BY <1>1, <1>2, <2>2 DEF Unused, s0, w0
  <2>5. /\ Cardinality(Unused(d)) \in Nat /\ Cardinality(Unused(c)) \in Nat
        /\ Cardinality(Unused(d)) + One(x \in Unused(c))
             = Cardinality(Unused(c)) + One(x \in Unused(d))
    BY ONLY <1>3, <2>3, OneApart
  <2>. QED  BY <2>1, <2>4, <2>5 DEF One
<1>7. d.stats = Count(c.stats, CountedFill(old, req))
  BY DEF ReturnBlock
<1>. QED  BY <1>4, <1>5, <1>6, <1>7 DEF CountedFill, Idle

\* Both accounts of print_cache_stats, with the invariant they need.
Books == IInv /\ AccessAccounting /\ PrefetchVerdicts

LEMMA BookSets ==
  /\ {b \in DOMAIN cache.inflight : cache.inflight[b].is_prefetch} = Flying(cache)
  /\ AwaitedPrefetches = Awaited(cache)
  /\ UnusedPrefetches = Unused(cache)
BY DEF Flying, Awaited, AwaitedPrefetches, UnusedPrefetches, Unused, Idle

\* The accounts in numbers.
Balanced(n, flying, waiting, gone, unused, awaited) ==
  /\ n["access"] = n["hit"] + n["miss_new"] + n["miss_merged"] + n["miss_blocked"]
  /\ n["prefetch"] = n["prefetch_hit"] + n["prefetch_filtered_inflight"]
                       + n["prefetch_dropped"] + n["prefetch_fill"]
                       + flying + waiting + gone
  /\ n["useful_prefetch"] + n["useless_prefetch"] + unused <= n["prefetch_fill"]
  /\ n["prefetch_fill"] + awaited
       <= n["useful_prefetch"] + n["useless_prefetch"] + unused + n["late_prefetch"]

LEMMA BooksAre ==
  AccessAccounting /\ PrefetchVerdicts
    <=> Balanced(cache.stats, Cardinality(Flying(cache)), One(pending.pf), abandoned,
                 Cardinality(Unused(cache)), Cardinality(Awaited(cache)))
BY BookSets DEF AccessAccounting, PrefetchVerdicts, Balanced, One

LEMMA BooksAreNext ==
  (AccessAccounting /\ PrefetchVerdicts)'
    <=> Balanced(cache'.stats, Cardinality(Flying(cache')), One(pending'.pf), abandoned',
                 Cardinality(Unused(cache')), Cardinality(Awaited(cache')))
BY DEF Flying, Awaited, AwaitedPrefetches, UnusedPrefetches, Unused, Idle,
       AccessAccounting, PrefetchVerdicts, Balanced, One
LEMMA DemandBooks ==
  ASSUME Books, NEW b \in Blocks, NEW pf \in BOOLEAN, ~pf, Request(b, pf)
  PROVE  (AccessAccounting /\ PrefetchVerdicts)'
<1>. DEFINE n == cache.stats
            m == cache'.stats
            ks == CountedDemand(cache, b)
            first == contains(cache, b) /\ FirstUse(cache, b, FALSE)
            merges == /\ ~contains(cache, b) /\ b \in DOMAIN cache.inflight
                      /\ cache.inflight[b].is_prefetch
            f == Cardinality(Flying(cache))
            u == Cardinality(Unused(cache))
            a == Cardinality(Awaited(cache))
<1>1. /\ CacheShape(cache) /\ IsFiniteSet(DOMAIN cache.inflight) /\ cycle \in Nat
      /\ n \in [Counters -> Nat] /\ pending = NoRequest
      /\ cache' = RequestCache(cache, b, cycle, pf)
      /\ ~pending.pf /\ ~pending'.pf /\ abandoned \in Nat /\ abandoned' = abandoned
  BY TypeShape DEF Books, IInv, TypeOK, Request, NoRequest
<1>2. m = Count(n, ks) /\ IsFiniteSet(DOMAIN cache'.inflight)
  <2>1. /\ m = Count(n, IF pf THEN CountedPrefetch(cache, b) ELSE CountedDemand(cache, b))
        /\ DOMAIN cache'.inflight = DOMAIN cache.inflight
    BY ONLY <1>1, b \in Blocks, pf \in BOOLEAN, RequestMarks
  <2>2. m = Count(n, CountedDemand(cache, b))
    BY <2>1
  <2>3. IsFiniteSet(DOMAIN cache'.inflight)
    BY <1>1, <2>1
  <2>. QED  BY <2>2, <2>3
<1>3. \A k \in Counters : m[k] = n[k] + One(k \in ks) /\ n[k] \in Nat
  BY ONLY <1>1, <1>2, CountIs
<1>4. /\ Flying(cache') = Flying(cache)
      /\ Cardinality(Awaited(cache')) <= a + One(merges)
      /\ Cardinality(Unused(cache')) + One(first) = u
  <2>1. FirstUse(cache, b, pf) <=> FirstUse(cache, b, FALSE)
    BY DEF FirstUse
  <2>. QED  BY <1>1, <2>1, RequestCountsSets DEF One
<1>5. {f, u, a} \subseteq Nat /\ {Cardinality(Awaited(cache')), Cardinality(Unused(cache'))} \subseteq Nat
  BY <1>1, <1>2, CountedSets
<1>6. Balanced(n, f, One(pending.pf), abandoned, u, a)
  BY BooksAre DEF Books
<1>7. /\ "access" \in ks
      /\ One("hit" \in ks) + One("miss_new" \in ks) + One("miss_merged" \in ks)
           + One("miss_blocked" \in ks) = 1
      /\ "useful_prefetch" \in ks <=> first
      /\ "late_prefetch" \in ks <=> merges
      /\ "prefetch" \notin ks /\ "prefetch_hit" \notin ks
      /\ "prefetch_dropped" \notin ks /\ "prefetch_fill" \notin ks
      /\ "prefetch_filtered_inflight" \notin ks /\ "useless_prefetch" \notin ks
  <2>1. ks = CountedDemand(cache, b)
    OBVIOUS
  <2>. HIDE DEF ks
  <2>. QED  BY <2>1, DemandCounts
<1>. HIDE DEF ks, first, merges, f, u, a, n, m
<1>8. /\ m["access"] = n["access"] + 1
      /\ m["hit"] = n["hit"] + One("hit" \in ks)
      /\ m["miss_new"] = n["miss_new"] + One("miss_new" \in ks)
      /\ m["miss_merged"] = n["miss_merged"] + One("miss_merged" \in ks)
      /\ m["miss_blocked"] = n["miss_blocked"] + One("miss_blocked" \in ks)
  BY ONLY <1>3, <1>7, OneType DEF Counters
<1>9. /\ m["prefetch"] = n["prefetch"] /\ m["prefetch_hit"] = n["prefetch_hit"]
      /\ m["prefetch_dropped"] = n["prefetch_dropped"]
      /\ m["prefetch_fill"] = n["prefetch_fill"]
      /\ m["prefetch_filtered_inflight"] = n["prefetch_filtered_inflight"]
      /\ m["useless_prefetch"] = n["useless_prefetch"]
  BY ONLY <1>3, <1>7, OneType DEF Counters
<1>10. /\ m["useful_prefetch"] = n["useful_prefetch"] + One(first)
       /\ m["late_prefetch"] = n["late_prefetch"] + One(merges)
  BY ONLY <1>3, <1>7 DEF Counters, One
<1>11. /\ One(first) \in {0, 1} /\ One(merges) \in {0, 1} /\ One("hit" \in ks) \in {0, 1}
       /\ One("miss_new" \in ks) \in {0, 1} /\ One("miss_merged" \in ks) \in {0, 1}
       /\ One("miss_blocked" \in ks) \in {0, 1}
       /\ One(pending.pf) = 0 /\ One(pending'.pf) = 0
  BY <1>1, OneType
<1>12. \A k \in Counters : n[k] \in Nat
  BY <1>3
<1>13. /\ {n["access"], n["hit"], n["miss_new"], n["miss_merged"], n["miss_blocked"]} \subseteq Nat
       /\ {n["prefetch"], n["prefetch_hit"], n["prefetch_dropped"], n["prefetch_fill"]} \subseteq Nat
       /\ {n["prefetch_filtered_inflight"], n["useful_prefetch"], n["useless_prefetch"]} \subseteq Nat
       /\ n["late_prefetch"] \in Nat
  BY ONLY <1>12 DEF Counters
<1>14. Balanced(m, f, One(pending'.pf), abandoned', Cardinality(Unused(cache')), Cardinality(Awaited(cache')))
  <2>1. m["access"] = m["hit"] + m["miss_new"] + m["miss_merged"] + m["miss_blocked"]
    BY ONLY <1>6, <1>7, <1>8, <1>11, <1>13 DEF Balanced
  <2>2. m["prefetch"] = m["prefetch_hit"] + m["prefetch_filtered_inflight"]
                          + m["prefetch_dropped"] + m["prefetch_fill"]
                          + f + One(pending'.pf) + abandoned'
    BY ONLY <1>1, <1>6, <1>9, <1>11 DEF Balanced
  <2>3. m["useful_prefetch"] + m["useless_prefetch"] + Cardinality(Unused(cache'))
          <= m["prefetch_fill"]
    BY ONLY <1>4, <1>5, <1>6, <1>9, <1>10, <1>11, <1>13 DEF Balanced
  <2>4. m["prefetch_fill"] + Cardinality(Awaited(cache'))
          <= m["useful_prefetch"] + m["useless_prefetch"] + Cardinality(Unused(cache'))
               + m["late_prefetch"]
    BY ONLY <1>4, <1>5, <1>6, <1>9, <1>10, <1>11, <1>13 DEF Balanced
  <2>. QED  BY ONLY <2>1, <2>2, <2>3, <2>4 DEF Balanced
<1>. QED  BY <1>4, <1>14, BooksAreNext DEF m, f

LEMMA PrefetchBooks ==
  ASSUME Books, NEW b \in Blocks, NEW pf \in BOOLEAN, pf, Request(b, pf)
  PROVE  (AccessAccounting /\ PrefetchVerdicts)'
<1>. DEFINE n == cache.stats
            m == cache'.stats
            ks == CountedPrefetch(cache, b)
            new == RequestStatus(cache, b, TRUE) = "MISS_NEW"
            f == Cardinality(Flying(cache))
            u == Cardinality(Unused(cache))
            a == Cardinality(Awaited(cache))
<1>1. /\ CacheShape(cache) /\ IsFiniteSet(DOMAIN cache.inflight) /\ cycle \in Nat
      /\ n \in [Counters -> Nat] /\ pending = NoRequest
      /\ cache' = RequestCache(cache, b, cycle, pf)
      /\ ~pending.pf /\ pending'.pf = new /\ abandoned \in Nat /\ abandoned' = abandoned
  BY TypeShape DEF Books, IInv, TypeOK, Request, NoRequest
<1>2. /\ m = Count(n, ks) /\ IsFiniteSet(DOMAIN cache'.inflight)
      /\ cache'.inflight = cache.inflight
  <2>1. m = Count(n, IF pf THEN CountedPrefetch(cache, b) ELSE CountedDemand(cache, b))
    BY ONLY <1>1, b \in Blocks, pf \in BOOLEAN, RequestMarks
  <2>2. pf \/ contains(cache, b) => cache'.inflight = cache.inflight
    BY ONLY <1>1, b \in Blocks, pf \in BOOLEAN, RequestMarks
  <2>. QED  BY <1>1, <2>1, <2>2
<1>3. \A k \in Counters : m[k] = n[k] + One(k \in ks) /\ n[k] \in Nat
  BY ONLY <1>1, <1>2, CountIs
<1>4. Flying(cache') = Flying(cache) /\ Cardinality(Awaited(cache')) <= a
      /\ Cardinality(Unused(cache')) = u
  <2>. DEFINE first == contains(cache, b) /\ FirstUse(cache, b, pf)
  <2>2. Cardinality(Unused(cache')) + One(first) = u
    BY <1>1, RequestCountsSets
  <2>3. One(first) = 0
    BY OneType DEF FirstUse
  <2>4. Cardinality(Unused(cache')) \in Nat /\ u \in Nat /\ a \in Nat
    BY <1>1, <1>2, CountedSets
  <2>5. Awaited(cache') = Awaited(cache) /\ Flying(cache') = Flying(cache)
    BY <1>2 DEF Awaited, Flying
  <2>. HIDE DEF u, a, first
  <2>6. Cardinality(Unused(cache')) = u
    BY ONLY <2>2, <2>3, <2>4
  <2>7. Cardinality(Awaited(cache')) = a
    BY <2>5 DEF a
  <2>. QED  BY <2>4, <2>5, <2>6, <2>7
<1>5. {f, u, a} \subseteq Nat /\ Cardinality(Awaited(cache')) \in Nat
  BY <1>1, <1>2, CountedSets
<1>6. Balanced(n, f, One(pending.pf), abandoned, u, a)
  BY BooksAre DEF Books
<1>7. /\ "prefetch" \in ks
      /\ One("prefetch_hit" \in ks) + One("prefetch_filtered_inflight" \in ks)
           + One("prefetch_dropped" \in ks) + One(new) = 1
      /\ "access" \notin ks /\ "hit" \notin ks /\ "miss_new" \notin ks
      /\ "miss_merged" \notin ks /\ "miss_blocked" \notin ks
      /\ "prefetch_fill" \notin ks /\ "useful_prefetch" \notin ks
      /\ "useless_prefetch" \notin ks /\ "late_prefetch" \notin ks
  <2>1. ks = CountedPrefetch(cache, b)
    OBVIOUS
  <2>. HIDE DEF ks
  <2>. QED  BY <2>1, PrefetchCounts
<1>. HIDE DEF ks, new, f, u, a, n, m
<1>8. /\ m["prefetch"] = n["prefetch"] + 1
      /\ m["prefetch_hit"] = n["prefetch_hit"] + One("prefetch_hit" \in ks)
      /\ m["prefetch_dropped"] = n["prefetch_dropped"] + One("prefetch_dropped" \in ks)
      /\ m["prefetch_filtered_inflight"]
           = n["prefetch_filtered_inflight"] + One("prefetch_filtered_inflight" \in ks)
  BY ONLY <1>3, <1>7, OneType DEF Counters
<1>9. /\ m["access"] = n["access"] /\ m["hit"] = n["hit"]
      /\ m["miss_new"] = n["miss_new"] /\ m["miss_merged"] = n["miss_merged"]
      /\ m["miss_blocked"] = n["miss_blocked"]
      /\ m["prefetch_fill"] = n["prefetch_fill"]
  BY ONLY <1>3, <1>7, OneType DEF Counters
<1>10. /\ m["useful_prefetch"] = n["useful_prefetch"]
       /\ m["useless_prefetch"] = n["useless_prefetch"]
       /\ m["late_prefetch"] = n["late_prefetch"]
  BY ONLY <1>3, <1>7, OneType DEF Counters
<1>11. /\ One(new) \in {0, 1} /\ One("prefetch_hit" \in ks) \in {0, 1}
       /\ One("prefetch_dropped" \in ks) \in {0, 1}
       /\ One("prefetch_filtered_inflight" \in ks) \in {0, 1}
       /\ One(pending.pf) = 0 /\ One(pending'.pf) = One(new)
  BY <1>1, OneType DEF One
<1>12. \A k \in Counters : n[k] \in Nat
  BY <1>3
<1>13. /\ {n["prefetch"], n["prefetch_hit"], n["prefetch_dropped"], n["prefetch_fill"]} \subseteq Nat
       /\ {n["prefetch_filtered_inflight"], n["useful_prefetch"], n["useless_prefetch"]} \subseteq Nat
       /\ n["late_prefetch"] \in Nat
  BY ONLY <1>12 DEF Counters
<1>14. Balanced(m, f, One(pending'.pf), abandoned', u, Cardinality(Awaited(cache')))
  <2>1. m["prefetch"] = m["prefetch_hit"] + m["prefetch_filtered_inflight"]
                          + m["prefetch_dropped"] + m["prefetch_fill"]
                          + f + One(pending'.pf) + abandoned'
    BY ONLY <1>1, <1>5, <1>6, <1>7, <1>8, <1>9, <1>11, <1>13 DEF Balanced
  <2>2. m["prefetch_fill"] + Cardinality(Awaited(cache'))
          <= m["useful_prefetch"] + m["useless_prefetch"] + u + m["late_prefetch"]
    BY ONLY <1>4, <1>5, <1>6, <1>9, <1>10, <1>13 DEF Balanced
  <2>. QED  BY ONLY <1>6, <1>9, <1>10, <2>1, <2>2 DEF Balanced
<1>. QED  BY <1>4, <1>14, BooksAreNext DEF m, f

\* The caller allocates the MSHR, or drops the request.
LEMMA ScheduleBooks ==
  ASSUME Books, NEW latency \in 1 .. MaxLatency, Schedule(latency)
  PROVE  (AccessAccounting /\ PrefetchVerdicts)'
<1>. DEFINE b == pending.block
            f == Cardinality(Flying(cache))
            n == cache.stats
<1>1. /\ pending # NoRequest /\ pending' = NoRequest /\ CacheShape(cache)
      /\ cache' = schedule_fill(cache, b, cycle + latency, pending.pf)
      /\ b \in Blocks /\ pending.pf \in BOOLEAN /\ b \notin DOMAIN cache.inflight
      /\ cycle + latency \in Nat /\ IsFiniteSet(DOMAIN cache.inflight)
      /\ abandoned \in Nat /\ abandoned' = abandoned
  BY TypeShape, CacheUnitAssumption DEF Schedule, Books, IInv, TypeOK, NotBothPlaces
<1>2. /\ cache'.sets = cache.sets /\ cache'.stats = n
      /\ DOMAIN cache'.inflight = DOMAIN cache.inflight \cup {b}
      /\ cache'.inflight[b].is_prefetch = pending.pf
      /\ cache'.inflight[b].has_demand_waiter = ~pending.pf
      /\ \A x \in DOMAIN cache.inflight : cache'.inflight[x] = cache.inflight[x]
  BY <1>1 DEF schedule_fill, ScheduledRequest, CacheShape
<1>3. Unused(cache') = Unused(cache) /\ Awaited(cache') = Awaited(cache)
  BY <1>1, <1>2 DEF Unused, Awaited
<1>4. Cardinality(Flying(cache')) = f + One(pending.pf) /\ f \in Nat
  <2>1. \A y : y # b => (y \in Flying(cache) <=> y \in Flying(cache'))
    BY <1>2 DEF Flying
  <2>2. b \notin Flying(cache) /\ (b \in Flying(cache') <=> pending.pf)
    BY <1>1, <1>2 DEF Flying
  <2>3. IsFiniteSet(Flying(cache)) /\ f \in Nat
    BY <1>1, CountedSets
  <2>4. /\ Cardinality(Flying(cache')) \in Nat
        /\ Cardinality(Flying(cache')) + One(b \in Flying(cache))
             = f + One(b \in Flying(cache'))
    BY <2>1, <2>3, OneApart
  <2>. QED  BY <2>2, <2>3, <2>4 DEF One
<1>5. One(pending.pf) \in {0, 1} /\ One(pending'.pf) = 0
  BY <1>1, OneType DEF NoRequest
<1>6. Balanced(n, f, One(pending.pf), abandoned, Cardinality(Unused(cache)), Cardinality(Awaited(cache)))
  BY BooksAre DEF Books
<1>7. /\ {n["prefetch_hit"], n["prefetch_filtered_inflight"]} \subseteq Nat
      /\ {n["prefetch_dropped"], n["prefetch_fill"]} \subseteq Nat
      /\ abandoned \in Nat /\ abandoned' = abandoned
  BY <1>1 DEF CacheShape, Counters
<1>. HIDE DEF f, n
<1>8. Balanced(n, Cardinality(Flying(cache')), One(pending'.pf), abandoned',
               Cardinality(Unused(cache)), Cardinality(Awaited(cache)))
  BY ONLY <1>4, <1>5, <1>6, <1>7 DEF Balanced
<1>. QED  BY <1>2, <1>3, <1>8, BooksAreNext

LEMMA ReturnBooks ==
  ASSUME Books, NEW b \in Blocks, Return(b)
  PROVE  (AccessAccounting /\ PrefetchVerdicts)'
<1>. DEFINE n == cache.stats
            m == cache'.stats
            req == cache.inflight[b]
            old == cache.sets[Index(b)][Victim(cache.sets[Index(b)])]
            ks == CountedFill(old, req)
            pf == req.is_prefetch
            waits == req.has_demand_waiter
            f == Cardinality(Flying(cache))
            u == Cardinality(Unused(cache))
            a == Cardinality(Awaited(cache))
<1>1. /\ CacheShape(cache) /\ IsFiniteSet(DOMAIN cache.inflight) /\ cycle \in Nat
      /\ n \in [Counters -> Nat] /\ pending' = pending
      /\ abandoned \in Nat /\ abandoned' = abandoned
      /\ b \in DOMAIN cache.inflight
      /\ cache' = ReturnBlock(cache, b, cycle)
  BY TypeShape DEF Books, IInv, TypeOK, Return, Completed
<1>2. /\ Cardinality(Flying(cache')) + One(pf) = f
      /\ Cardinality(Awaited(cache')) + One(pf /\ waits) = a
      /\ Cardinality(Unused(cache')) + One(Idle(old)) = u + One(pf /\ ~waits)
      /\ m = Count(n, ks)
      /\ "useless_prefetch" \in ks <=> Idle(old)
      /\ "prefetch_fill" \in ks <=> pf
      /\ \A k \in Counters : k \in ks => k \in {"useless_prefetch", "prefetch_fill"}
  BY <1>1, ReturnCountsSets
<1>3. \A k \in Counters : m[k] = n[k] + One(k \in ks) /\ n[k] \in Nat
  BY ONLY <1>1, <1>2, CountIs
<1>4. /\ {f, u, a} \subseteq Nat
      /\ {Cardinality(Flying(cache')), Cardinality(Awaited(cache')),
          Cardinality(Unused(cache'))} \subseteq Nat
  <2>1. DOMAIN cache'.inflight = DOMAIN cache.inflight \ {b}
    BY <1>1, ReturnFills
  <2>2. IsFiniteSet(DOMAIN cache'.inflight)
    BY <1>1, <2>1, FS_RemoveElement
  <2>. QED  BY <1>1, <2>2, CountedSets
<1>5. Balanced(n, f, One(pending.pf), abandoned, u, a)
  BY BooksAre DEF Books
<1>. DEFINE idle == Idle(old)
<1>. HIDE DEF ks, f, u, a, n, m, pf, waits, idle
<1>6. /\ m["prefetch_fill"] = n["prefetch_fill"] + One(pf)
      /\ m["useless_prefetch"] = n["useless_prefetch"] + One(idle)
  BY ONLY <1>2, <1>3 DEF Counters, One, idle
<1>7. /\ "access" \notin ks /\ "hit" \notin ks /\ "miss_new" \notin ks
       /\ "miss_merged" \notin ks /\ "miss_blocked" \notin ks /\ "prefetch" \notin ks
       /\ "prefetch_hit" \notin ks /\ "prefetch_dropped" \notin ks
       /\ "prefetch_filtered_inflight" \notin ks /\ "useful_prefetch" \notin ks
       /\ "late_prefetch" \notin ks
  BY ONLY <1>2 DEF Counters
<1>8. \A k \in Counters : k \notin ks => m[k] = n[k]
  <2>. SUFFICES ASSUME NEW k \in Counters, k \notin ks PROVE m[k] = n[k]
    OBVIOUS
  <2>1. m[k] = n[k] + One(k \in ks) /\ n[k] \in Nat
    BY <1>3
  <2>2. One(k \in ks) = 0
    BY DEF One
  <2>. QED  BY ONLY <2>1, <2>2
<1>9. /\ m["access"] = n["access"] /\ m["hit"] = n["hit"]
      /\ m["miss_new"] = n["miss_new"] /\ m["miss_merged"] = n["miss_merged"]
      /\ m["miss_blocked"] = n["miss_blocked"]
  BY ONLY <1>7, <1>8 DEF Counters
<1>10. /\ m["prefetch"] = n["prefetch"] /\ m["prefetch_hit"] = n["prefetch_hit"]
      /\ m["prefetch_dropped"] = n["prefetch_dropped"]
      /\ m["prefetch_filtered_inflight"] = n["prefetch_filtered_inflight"]
      /\ m["useful_prefetch"] = n["useful_prefetch"]
      /\ m["late_prefetch"] = n["late_prefetch"]
  BY ONLY <1>7, <1>8 DEF Counters
<1>11. /\ {n["prefetch"], n["prefetch_hit"], n["prefetch_dropped"], n["prefetch_fill"]} \subseteq Nat
      /\ {n["prefetch_filtered_inflight"], n["useful_prefetch"], n["useless_prefetch"]} \subseteq Nat
      /\ n["late_prefetch"] \in Nat
  BY ONLY <1>3 DEF Counters
<1>12. /\ One(idle) \in {0, 1} /\ One(pf) \in {0, 1}
       /\ One(pf /\ waits) \in {0, 1} /\ One(pf /\ ~waits) \in {0, 1}
       /\ One(pf) = One(pf /\ waits) + One(pf /\ ~waits)
       /\ One(pending.pf) \in {0, 1}
  BY DEF One
<1>13. Balanced(m, Cardinality(Flying(cache')), One(pending.pf), abandoned,
                Cardinality(Unused(cache')), Cardinality(Awaited(cache')))
  <2>1. m["prefetch"] = m["prefetch_hit"] + m["prefetch_filtered_inflight"]
                          + m["prefetch_dropped"] + m["prefetch_fill"]
                          + Cardinality(Flying(cache')) + One(pending.pf) + abandoned
    BY ONLY <1>1, <1>2, <1>4, <1>5, <1>6, <1>10, <1>11, <1>12 DEF Balanced
  <2>2. m["useful_prefetch"] + m["useless_prefetch"] + Cardinality(Unused(cache'))
          <= m["prefetch_fill"]
    BY ONLY <1>2, <1>4, <1>5, <1>6, <1>10, <1>11, <1>12 DEF Balanced, idle
  <2>3. m["prefetch_fill"] + Cardinality(Awaited(cache'))
          <= m["useful_prefetch"] + m["useless_prefetch"] + Cardinality(Unused(cache'))
               + m["late_prefetch"]
    BY ONLY <1>2, <1>4, <1>5, <1>6, <1>10, <1>11, <1>12 DEF Balanced, idle
  <2>. QED  BY ONLY <1>5, <1>9, <2>1, <2>2, <2>3 DEF Balanced
<1>. QED  BY <1>1, <1>13, BooksAreNext DEF m

\* The steps that leave the cache alone: a prefetch given up passes from the
\* pending ones to the abandoned ones.
LEMMA OtherBooks ==
  ASSUME Books, ReturnsDone \/ Abandon \/ NextCycle \/ UNCHANGED vars
  PROVE  (AccessAccounting /\ PrefetchVerdicts)'
<1>. DEFINE n == cache.stats
            f == Cardinality(Flying(cache))
<1>1. cache' = cache /\ (pending' = pending \/ pending' = NoRequest)
  BY DEF ReturnsDone, Abandon, NextCycle, vars
<1>2. /\ CacheShape(cache) /\ IsFiniteSet(DOMAIN cache.inflight)
      /\ n \in [Counters -> Nat]
  BY TypeShape DEF Books, IInv, TypeOK
<1>3. f \in Nat
  BY <1>2, CountedSets
<1>4. Balanced(n, f, One(pending.pf), abandoned, Cardinality(Unused(cache)), Cardinality(Awaited(cache)))
  BY BooksAre DEF Books
<1>5. /\ {One(pending.pf), One(pending'.pf), abandoned, abandoned'} \subseteq Nat
      /\ One(pending'.pf) + abandoned' = One(pending.pf) + abandoned
  <2>1. abandoned \in Nat /\ {One(pending.pf), One(pending'.pf)} \subseteq Nat
    BY OneType DEF Books, IInv, TypeOK
  <2>2. CASE Abandon
    <3>1. ~pending'.pf /\ abandoned' = abandoned + One(pending.pf)
      BY <2>2 DEF Abandon, NoRequest, One
    <3>2. One(pending'.pf) = 0
      BY <3>1, OneType
    <3>. QED  BY ONLY <2>1, <3>1, <3>2
  <2>3. CASE ReturnsDone \/ NextCycle \/ UNCHANGED vars
    <3>1. pending' = pending /\ abandoned' = abandoned
      BY <2>3 DEF ReturnsDone, NextCycle, vars
    <3>. QED  BY <2>1, <3>1
  <2>. QED  BY <2>2, <2>3
<1>6. /\ {n["prefetch"], n["prefetch_hit"], n["prefetch_dropped"]} \subseteq Nat
      /\ {n["prefetch_filtered_inflight"], n["prefetch_fill"]} \subseteq Nat
  BY <1>2 DEF Counters
<1>. HIDE DEF f, n
<1>7. Balanced(n, f, One(pending'.pf), abandoned', Cardinality(Unused(cache)), Cardinality(Awaited(cache)))
  BY ONLY <1>3, <1>4, <1>5, <1>6 DEF Balanced
<1>. QED  BY <1>1, <1>7, BooksAreNext DEF f, n

LEMMA InitBooks == Init => Books
<1>. SUFFICES ASSUME Init PROVE Books
  OBVIOUS
<1>1. /\ Flying(cache) = {} /\ Awaited(cache) = {} /\ Unused(cache) = {}
      /\ ~pending.pf /\ \A k \in Counters : cache.stats[k] = 0
  BY DEF Init, EmptyCache, EmptyLine, NoRequest, Flying, Awaited, Unused, Idle
<1>2. Balanced(cache.stats, Cardinality(Flying(cache)), One(pending.pf), abandoned,
               Cardinality(Unused(cache)), Cardinality(Awaited(cache)))
  <2>1. One(pending.pf) = 0 /\ abandoned = 0
    BY <1>1, OneType DEF Init
  <2>. QED  BY <1>1, <2>1, FS_EmptySet DEF Balanced, Counters
<1>. QED  BY <1>2, InitInv, BooksAre DEF Books

LEMMA BooksInductive == Books /\ [Next]_vars => Books'
<1>. SUFFICES ASSUME Books, [Next]_vars PROVE Books'
  OBVIOUS
<1>1. IInv'
  BY Inductive DEF Books
<1>2. ASSUME NEW b \in Blocks, Return(b) PROVE (AccessAccounting /\ PrefetchVerdicts)'
  BY <1>2, ReturnBooks
<1>3. ASSUME NEW b \in Blocks, NEW pf \in BOOLEAN, Request(b, pf) PROVE (AccessAccounting /\ PrefetchVerdicts)'
  <2>1. CASE pf
    BY <1>3, <2>1, PrefetchBooks
  <2>2. CASE ~pf
    BY <1>3, <2>2, DemandBooks
  <2>. QED  BY <2>1, <2>2
<1>4. ASSUME NEW latency \in 1 .. MaxLatency, Schedule(latency) PROVE (AccessAccounting /\ PrefetchVerdicts)'
  BY <1>4, ScheduleBooks
<1>5. ASSUME ReturnsDone \/ Abandon \/ NextCycle \/ UNCHANGED vars
      PROVE  (AccessAccounting /\ PrefetchVerdicts)'
  BY <1>5, OtherBooks
<1>6. (AccessAccounting /\ PrefetchVerdicts)'
  BY <1>2, <1>3, <1>4, <1>5 DEF Next
<1>. QED  BY <1>1, <1>6 DEF Books

\* Every demand request is counted in one outcome, and every prefetch that
\* was requested in exactly one of its seven fates, in every cache.
THEOREM AccountsBalance == Spec => []AccessAccounting
BY InitBooks, BooksInductive, PTL DEF Spec, Books

\* Every prefetched line gets at most one verdict, and only a prefetch that
\* a demand miss joined gets none of its own.
THEOREM VerdictsBalance == Spec => []PrefetchVerdicts
BY InitBooks, BooksInductive, PTL DEF Spec, Books
-----------------------------------------------------------------------------
(* The cache implements BlockLife                                          *)

\* The block a line of set s holds.
BlockOf(s, line) == line.tag * NumSets + s

ValidWays(c, s) == {w \in Ways : c.sets[s][w].valid}

\* Every line held is a line of memory somebody asked for.
Owned == \A s \in Sets, w \in Ways :
           cache.sets[s][w].valid => BlockOf(s, cache.sets[s][w]) \in Blocks

LEMMA BlockOfTag ==
  ASSUME NEW b \in Nat, NEW s \in Sets, NEW line \in Line
  PROVE  BlockOf(s, line) = b <=> (s = Index(b) /\ line.tag = Tag(b))
<1>. DEFINE t == line.tag
            x == t * NumSets + s
<1>1. t \in Nat /\ s \in Nat /\ s < NumSets /\ NumSets \in Nat \ {0}
  BY CacheAssumption DEF Line, Sets
<1>. HIDE DEF t
<1>2. x \in Nat /\ x % NumSets = s /\ x \div NumSets = t
  BY ONLY <1>1
<1>3. Index(x) = s /\ Tag(x) = t
  BY ONLY <1>2 DEF Index, Tag
<1>. HIDE DEF x
<1>4. (s = Index(b) /\ t = Tag(b)) => x = b
  BY <1>2, <1>3, TagIndex
<1>. QED  BY ONLY <1>3, <1>4 DEF BlockOf, x, t
\* The lines a caller asked for and the ways that hold them correspond: a
\* set has as many resident blocks as valid ways.
LEMMA ResidentsCount ==
  ASSUME IInv, Owned, NEW s \in Sets
  PROVE  /\ IsFiniteSet(ValidWays(cache, s))
         /\ Cardinality(Life!Residents(s)) = Cardinality(ValidWays(cache, s))
<1>. DEFINE V == ValidWays(cache, s)
            R == Life!Residents(s)
            g == [w \in V |-> BlockOf(s, cache.sets[s][w])]
<1>1. IsFiniteSet(V)
  <2>1. IsFiniteSet(Ways) /\ V \in SUBSET Ways
    BY FS_Interval, CacheAssumption DEF Ways, ValidWays
  <2>. QED  BY <2>1, FS_Subset
<1>2. \A w \in V : cache.sets[s][w] \in Line /\ cache.sets[s][w].valid /\ w \in Ways
  BY DEF ValidWays, IInv, TypeOK
<1>3. R = {b \in Blocks : contains(cache, b) /\ Index(b) = s}
  BY DEF Life!Residents, Life!In, Whereabouts, Index
<1>4. \A w \in V, b \in Blocks : g[w] = b <=> Index(b) = s /\ Holds(cache, b, w)
  <2>. SUFFICES ASSUME NEW w \in V, NEW b \in Blocks
                PROVE  g[w] = b <=> Index(b) = s /\ Holds(cache, b, w)
    OBVIOUS
  <2>1. g[w] = BlockOf(s, cache.sets[s][w]) /\ b \in Nat
    BY CacheUnitAssumption
  <2>. QED  BY <1>2, <2>1, BlockOfTag DEF Holds
<1>5. g \in Bijection(V, R)
  <2>1. \A w \in V : g[w] \in R
    <3>. SUFFICES ASSUME NEW w \in V PROVE g[w] \in R
      OBVIOUS
    <3>1. g[w] \in Blocks
      BY <1>2 DEF Owned
    <3>2. Index(g[w]) = s /\ Holds(cache, g[w], w)
      BY <1>4, <3>1
    <3>. QED  BY <1>2, <1>3, <3>1, <3>2 DEF contains
  <2>2. ASSUME NEW v \in V, NEW w \in V, g[v] = g[w] PROVE v = w
    <3>1. g[v] \in Blocks
      BY <1>2 DEF Owned
    <3>2. Index(g[v]) = s /\ Holds(cache, g[v], v) /\ Holds(cache, g[v], w)
      BY <1>4, <2>2, <3>1
    <3>. QED  BY <1>2, <3>2 DEF Holds, IInv, NoDuplicateLine
  <2>3. ASSUME NEW b \in R PROVE \E w \in V : g[w] = b
    <3>1. b \in Blocks /\ Index(b) = s
      BY <1>3
    <3>2. PICK w \in Ways : Holds(cache, b, w)
      BY <1>3 DEF contains
    <3>3. w \in V
      BY <3>1, <3>2 DEF Holds, ValidWays
    <3>. QED  BY <1>4, <3>1, <3>2, <3>3
  <2>. HIDE DEF R, V
  <2>4. g \in [V -> R]
    BY <2>1
  <2>5. g \in Injection(V, R)
    BY <2>2, <2>4 DEF Injection, IsInjective
  <2>. QED  BY <2>3, <2>4, <2>5 DEF Bijection, Surjection
<1>6. ExistsBijection(V, R)
  BY <1>5 DEF ExistsBijection
<1>. QED  BY <1>1, <1>6, FS_Bijection

\* The victim is a valid way only of a full set.
LEMMA VictimOfFullSet ==
  ASSUME CacheShape(cache), NEW s \in Sets
  PROVE  LET w == Victim(cache.sets[s])
         IN  /\ w \in Ways
             /\ cache.sets[s][w].valid =>
                  Cardinality(ValidWays(cache, s)) = Assoc
             /\ ~cache.sets[s][w].valid =>
                  /\ Cardinality(ValidWays(cache, s)) < Assoc
                  /\ Cardinality(ValidWays(cache, s)) \in Nat
<1>. DEFINE w == Victim(cache.sets[s])
            V == ValidWays(cache, s)
<1>1. w \in Ways /\ \A v \in Ways : Better(cache.sets[s], w, v)
  BY VictimExists DEF Victim, CacheShape
<1>2. IsFiniteSet(Ways) /\ Cardinality(Ways) = Assoc
  BY FS_Interval, CacheAssumption DEF Ways
<1>3. /\ V \in SUBSET Ways /\ Cardinality(V) <= Assoc /\ Cardinality(V) \in Nat
      /\ Cardinality(V) = Assoc => V = Ways
  <2>1. V \in SUBSET Ways
    BY DEF ValidWays
  <2>2. /\ IsFiniteSet(V) /\ Cardinality(V) <= Cardinality(Ways)
        /\ Cardinality(V) = Cardinality(Ways) => V = Ways
    BY <1>2, <2>1, FS_Subset
  <2>. QED  BY <1>2, <2>1, <2>2, FS_CardinalityType
<1>4. ASSUME cache.sets[s][w].valid PROVE Cardinality(V) = Assoc
  <2>1. \A v \in Ways : cache.sets[s][v].valid
    BY <1>1, <1>4 DEF Better
  <2>2. V = Ways
    BY <2>1 DEF ValidWays
  <2>. QED  BY <1>2, <2>2
<1>5. ASSUME ~cache.sets[s][w].valid PROVE Cardinality(V) < Assoc
  <2>1. V # Ways
    BY <1>1, <1>5 DEF ValidWays
  <2>. HIDE DEF V
  <2>. QED  BY <1>3, <2>1, CacheAssumption
<1>. QED  BY <1>1, <1>3, <1>4, <1>5

\* Nobody's line gets into the cache.
LEMMA OwnedKept == IInv /\ Owned /\ [Next]_vars => Owned'
<1>. SUFFICES ASSUME IInv, Owned, [Next]_vars PROVE Owned'
  OBVIOUS
<1>0. TypeOK /\ CacheShape(cache) /\ cycle \in Nat
  BY TypeShape DEF IInv, TypeOK
<1>1. ASSUME NEW b \in Blocks, Return(b) PROVE Owned'
  <2>. DEFINE i == Index(b)
              v == Victim(cache.sets[i])
              new == FilledLine(b, cycle, cache.inflight[b])
  <2>1. /\ v \in Ways /\ new \in Line
        /\ cache'.sets = [cache.sets EXCEPT ![i][v] = new]
    BY <1>0, <1>1, ReturnFills DEF Return, Completed
  <2>2. i \in Sets /\ b \in Nat
    BY IndexRange, CacheUnitAssumption
  <2>3. BlockOf(i, new) \in Blocks
    BY <2>1, <2>2, BlockOfTag DEF FilledLine
  <2>. HIDE DEF new, v, i
  <2>4. \A s \in Sets, w \in Ways :
          cache'.sets[s][w] = IF s = i /\ w = v THEN new ELSE cache.sets[s][w]
    BY <1>0, <2>1, <2>2 DEF CacheShape
  <2>. QED  BY <2>3, <2>4 DEF Owned
<1>2. ASSUME NEW b \in Blocks, NEW pf \in BOOLEAN, Request(b, pf) PROVE Owned'
  <2>1. \A s \in Sets, w \in Ways :
          /\ cache'.sets[s][w].valid = cache.sets[s][w].valid
          /\ cache'.sets[s][w].tag = cache.sets[s][w].tag
    BY <1>0, <1>2, RequestKeeps DEF Request
  <2>. QED  BY <2>1 DEF Owned, BlockOf
<1>3. ASSUME NEW latency \in 1 .. MaxLatency, Schedule(latency) PROVE Owned'
  BY <1>3 DEF Schedule, schedule_fill, Owned, BlockOf, IInv, TypeOK
<1>4. CASE ReturnsDone \/ Abandon \/ NextCycle \/ UNCHANGED vars
  BY <1>4 DEF ReturnsDone, Abandon, NextCycle, vars, Owned, BlockOf
<1>. QED  BY <1>1, <1>2, <1>3, <1>4 DEF Next
\* BlockLife counts with the operator the cache counts with.
LEMMA SameCount == ASSUME NEW S PROVE Life!Cardinality(S) = Cardinality(S)
BY DEF Life!Cardinality, Cardinality

LEMMA LifeInitially == Init => Life!LifeInit
<1>. SUFFICES ASSUME Init PROVE Life!LifeInit
  OBVIOUS
<1>1. DOMAIN cache.inflight = {} /\ \A s \in Sets, w \in Ways : ~cache.sets[s][w].valid
  BY DEF Init, EmptyCache, EmptyLine
<1>2. \A b \in Blocks : Index(b) \in Sets
  BY IndexRange, CacheUnitAssumption
<1>3. \A b \in Blocks : ~contains(cache, b)
  BY <1>1, <1>2 DEF contains, Holds
<1>. QED  BY <1>1, <1>3 DEF Life!LifeInit, Whereabouts

\* A step that moves no tag and no MSHR moves no block.
LEMMA SameWhereabouts ==
  ASSUME \A x \in Blocks : contains(cache', x) <=> contains(cache, x),
         DOMAIN cache'.inflight = DOMAIN cache.inflight
  PROVE  Whereabouts' = Whereabouts
BY DEF Whereabouts

\* schedule_fill allocates one of the free MSHRs to an absent block.
LEMMA ScheduleAllocates ==
  ASSUME IInv, NEW latency \in 1 .. MaxLatency, Schedule(latency)
  PROVE  Life!Allocate(pending.block)
<1>. DEFINE b == pending.block
<1>1. /\ pending # NoRequest /\ CacheShape(cache)
      /\ cache' = schedule_fill(cache, b, cycle + latency, pending.pf)
      /\ b \in Blocks /\ b \notin DOMAIN cache.inflight /\ ~contains(cache, b)
  BY TypeShape DEF Schedule, IInv, TypeOK, NotBothPlaces
<1>2. /\ cache'.sets = cache.sets
      /\ DOMAIN cache'.inflight = DOMAIN cache.inflight \cup {b}
  BY <1>1 DEF schedule_fill, CacheShape
<1>3. \A x \in Blocks : contains(cache', x) <=> contains(cache, x)
  BY <1>2 DEF contains, Holds
<1>4. Life!In("inflight") = DOMAIN cache.inflight
  BY <1>1 DEF Life!In, Whereabouts, IInv, NotBothPlaces, CacheShape
<1>5. Cardinality(DOMAIN cache.inflight) < MaxInflight
  BY <1>1, FS_CardinalityType, CacheAssumption DEF IInv, MSHRBound
<1>6. Whereabouts' = [Whereabouts EXCEPT ![b] = "inflight"]
  BY <1>1, <1>2, <1>3 DEF Whereabouts
<1>7. Whereabouts[b] = "absent"
  BY <1>1 DEF Whereabouts
<1>. QED  BY <1>4, <1>5, <1>6, <1>7, SameCount DEF Life!Allocate

\* fill_block puts the block in a free way, or in the place of one resident
\* block of a full set; nothing else moves.
LEMMA ReturnCompletes ==
  ASSUME IInv, Owned, NEW b \in Blocks, Return(b)
  PROVE  \/ Life!CompleteInFreeWay(b)
         \/ \E v \in Blocks : Life!CompleteByEviction(b, v)
<1>. DEFINE s == Index(b)
            w == Victim(cache.sets[s])
            old == cache.sets[s][w]
            new == FilledLine(b, cycle, cache.inflight[b])
            n == Cardinality(Life!Residents(s))
<1>1. /\ CacheShape(cache) /\ cycle \in Nat /\ b \in DOMAIN cache.inflight
      /\ cache' = ReturnBlock(cache, b, cycle) /\ ~contains(cache, b)
  BY TypeShape DEF Return, Completed, IInv, TypeOK, NotBothPlaces
<1>2. b \in Nat /\ s \in Sets
  BY IndexRange, CacheUnitAssumption
<1>3. /\ DOMAIN cache'.inflight = DOMAIN cache.inflight \ {b}
      /\ w \in Ways /\ new \in Line /\ new.valid /\ new.tag = Tag(b)
      /\ cache'.sets = [cache.sets EXCEPT ![s][w] = new]
  BY <1>1, ReturnFills DEF FilledLine
<1>. HIDE DEF new, w
<1>4. \A t \in Sets, v \in Ways :
        cache'.sets[t][v] = IF t = s /\ v = w THEN new ELSE cache.sets[t][v]
  BY <1>1, <1>2, <1>3 DEF CacheShape
<1>5. contains(cache', b)
  BY <1>2, <1>3, <1>4 DEF contains, Holds
<1>6. /\ n = Cardinality(ValidWays(cache, s))
      /\ old.valid => n = Assoc
      /\ ~old.valid => n < Assoc
  BY <1>1, <1>2, ResidentsCount, VictimOfFullSet DEF w
<1>7. /\ Whereabouts[b] = "inflight" /\ s = b % NumSets
      /\ Whereabouts \in [Blocks -> {"absent", "inflight", "resident"}]
  BY <1>1 DEF Whereabouts, Index
<1>8. \A x \in Blocks : x # b /\ ~(old.valid /\ Holds(cache, x, w) /\ Index(x) = s) =>
        (contains(cache', x) <=> contains(cache, x))
  <2>. SUFFICES ASSUME NEW x \in Blocks, x # b, NEW v \in Ways,
                       ~(old.valid /\ Holds(cache, x, w) /\ Index(x) = s)
                PROVE  Holds(cache', x, v) <=> Holds(cache, x, v)
    BY DEF contains
  <2>1. x \in Nat /\ Index(x) \in Sets
    BY IndexRange, CacheUnitAssumption
  <2>2. CASE Index(x) = s /\ v = w
    <3>1. Tag(x) # Tag(b)
      BY <1>2, <2>1, <2>2, TagIndex
    <3>. QED  BY <1>3, <1>4, <2>1, <2>2, <3>1 DEF Holds
  <2>3. CASE ~(Index(x) = s /\ v = w)
    BY <1>4, <2>1, <2>3 DEF Holds
  <2>. QED  BY <2>2, <2>3
<1>9. CASE ~old.valid
  <2>1. \A x \in Blocks : x # b => (contains(cache', x) <=> contains(cache, x))
    BY <1>8, <1>9
  <2>2. Whereabouts' = [Whereabouts EXCEPT ![b] = "resident"]
    BY <1>3, <1>5, <2>1 DEF Whereabouts
  <2>3. Life!CompleteInFreeWay(b)
    BY <1>6, <1>7, <1>9, <2>2, SameCount DEF Life!CompleteInFreeWay, Index
  <2>. QED  BY <2>3
<1>10. CASE old.valid
  <2>. DEFINE v == BlockOf(s, old)
  <2>1. v \in Blocks /\ old \in Line
    BY <1>1, <1>2, <1>3, <1>10 DEF Owned, CacheShape
  <2>2. v \in Nat
    BY <2>1, CacheUnitAssumption
  <2>3. Index(v) = s /\ old.tag = Tag(v)
    BY <1>2, <2>1, <2>2, BlockOfTag
  <2>. HIDE DEF v
  <2>4. contains(cache, v) /\ v # b
    BY <1>1, <1>3, <1>10, <2>3 DEF contains, Holds
  <2>5. ~contains(cache', v)
    <3>. SUFFICES ASSUME NEW u \in Ways, Holds(cache', v, u) PROVE FALSE
      BY DEF contains
    <3>1. u # w
      <4>1. Tag(v) # Tag(b)
        BY <1>2, <2>2, <2>3, <2>4, TagIndex
      <4>. QED  BY <1>2, <1>3, <1>4, <2>3, <4>1 DEF Holds
    <3>2. Holds(cache, v, u)
      BY <1>2, <1>4, <2>3, <3>1 DEF Holds
    <3>. QED  BY <1>2, <1>3, <1>10, <2>3, <3>1, <3>2 DEF Holds, IInv, NoDuplicateLine
  <2>6. v \notin DOMAIN cache.inflight
    BY <2>1, <2>4 DEF IInv, NotBothPlaces
  <2>7. \A x \in Blocks : x # b /\ x # v => (contains(cache', x) <=> contains(cache, x))
    <3>. SUFFICES ASSUME NEW x \in Blocks, Holds(cache, x, w), Index(x) = s
                  PROVE  x = v
      BY <1>8
    <3>. QED  BY <2>2, <2>3, TagIndex, CacheUnitAssumption DEF Holds
  <2>8. Whereabouts' = [Whereabouts EXCEPT ![b] = "resident", ![v] = "absent"]
    BY <1>3, <1>5, <2>1, <2>4, <2>5, <2>6, <2>7 DEF Whereabouts
  <2>9. v \in Life!Residents(s)
    BY <2>1, <2>3, <2>4 DEF Life!Residents, Life!In, Whereabouts, Index
  <2>10. Life!CompleteByEviction(b, v)
    BY <1>6, <1>7, <1>10, <2>8, <2>9, SameCount DEF Life!CompleteByEviction, Index
  <2>. QED  BY <2>1, <2>10
<1>. QED  BY <1>9, <1>10

LEMMA LifeStep == IInv /\ Owned /\ [Next]_vars => [Life!LifeNext]_Whereabouts
<1>. SUFFICES ASSUME IInv, Owned, [Next]_vars PROVE Life!LifeNext \/ Whereabouts' = Whereabouts
  OBVIOUS
<1>1. ASSUME NEW b \in Blocks, Return(b) PROVE Life!LifeNext
  BY <1>1, ReturnCompletes DEF Life!LifeNext
<1>2. ASSUME NEW b \in Blocks, NEW pf \in BOOLEAN, Request(b, pf)
      PROVE  Whereabouts' = Whereabouts
  <2>1. /\ DOMAIN cache'.inflight = DOMAIN cache.inflight
        /\ \A s \in Sets, w \in Ways :
             /\ cache'.sets[s][w].valid = cache.sets[s][w].valid
             /\ cache'.sets[s][w].tag = cache.sets[s][w].tag
    BY <1>2, TypeShape, RequestKeeps DEF Request, IInv, TypeOK
  <2>2. \A x \in Blocks : Index(x) \in Sets
    BY IndexRange, CacheUnitAssumption
  <2>3. \A x \in Blocks : contains(cache', x) <=> contains(cache, x)
    BY <2>1, <2>2 DEF contains, Holds
  <2>. QED  BY <2>1, <2>3, SameWhereabouts
<1>3. ASSUME NEW latency \in 1 .. MaxLatency, Schedule(latency) PROVE Life!LifeNext
  <2>1. pending.block \in Blocks
    BY <1>3 DEF Schedule, IInv, TypeOK
  <2>. QED  BY <1>3, <2>1, ScheduleAllocates DEF Life!LifeNext
<1>4. ASSUME ReturnsDone \/ Abandon \/ NextCycle \/ UNCHANGED vars
      PROVE  Whereabouts' = Whereabouts
  BY <1>4 DEF ReturnsDone, Abandon, NextCycle, vars, Whereabouts, contains, Holds
<1>. QED  BY <1>1, <1>2, <1>3, <1>4 DEF Next

LEMMA OwnedInitially == Init => Owned
BY DEF Init, EmptyCache, EmptyLine, Owned

\* The cache implements BlockLife whatever its geometry, MSHR count and
\* policy: a block is fetched through a free MSHR and leaves only for a
\* block of its own, full, set.
THEOREM CacheRefinesBlockLife == Spec => ImplementsBlockLife
<1>1. Spec => [](IInv /\ Owned)
  BY InitInv, OwnedInitially, Inductive, OwnedKept, PTL DEF Spec
<1>. QED
  BY <1>1, LifeInitially, LifeStep, PTL DEF Spec, ImplementsBlockLife, Life!LifeSpec

-----------------------------------------------------------------------------
(* The oldest block leaves                                                 *)

\* The stamps of the lines are what the observer saw.
Dated ==
  /\ since \in [Blocks -> Nat]
  /\ \A b \in Blocks, w \in Ways :
       Holds(cache, b, w) => Age(cache.sets[Index(b)][w]) = since[b]

\* A request renews the line that it hits, under LRU, and no other.
LEMMA RequestAges ==
  ASSUME IInv, NEW x \in Blocks, NEW pf \in BOOLEAN, Request(x, pf),
         NEW b \in Blocks, NEW w \in Ways
  PROVE  /\ Holds(cache', b, w) <=> Holds(cache, b, w)
         /\ Holds(cache, b, w) =>
              Age(cache'.sets[Index(b)][w])
                = IF b = x /\ Policy = "LRU" THEN cycle ELSE Age(cache.sets[Index(b)][w])
<1>. DEFINE v == HitWay(cache, x)
            s == Index(x)
            new == TouchedLine(cache.sets[s][v], cycle, FirstUse(cache, x, pf))
<1>0. TypeOK /\ CacheShape(cache) /\ cycle \in Nat /\ b \in Nat /\ x \in Nat
      /\ Index(b) \in Sets /\ s \in Sets
  BY TypeShape, IndexRange, CacheUnitAssumption DEF IInv, TypeOK
<1>1. cache' = RequestCache(cache, x, cycle, pf)
  BY DEF Request
<1>2. Holds(cache', b, w) <=> Holds(cache, b, w)
  <2>1. \A t \in Sets, u \in Ways :
          /\ cache'.sets[t][u].valid = cache.sets[t][u].valid
          /\ cache'.sets[t][u].tag = cache.sets[t][u].tag
    BY <1>0, <1>1, RequestKeeps
  <2>. QED  BY <1>0, <2>1 DEF Holds
<1>3. CASE ~contains(cache, x)
  <2>1. cache'.sets = cache.sets
    BY <1>1, <1>3 DEF RequestCache
  <2>2. Holds(cache, b, w) => b # x
    BY <1>3 DEF contains
  <2>. QED  BY <1>2, <2>1, <2>2
<1>4. CASE contains(cache, x)
  <2>1. v \in Ways /\ Holds(cache, x, v)
    BY <1>4, HitWayHolds
  <2>2. cache'.sets = [cache.sets EXCEPT ![s][v] = new]
    BY <1>1, <1>4 DEF RequestCache
  <2>3. cache.sets[s][v] \in Line
    BY <1>0, <2>1 DEF CacheShape
  <2>4. Age(new) = IF Policy = "LRU" THEN cycle ELSE Age(cache.sets[s][v])
    BY <2>3 DEF TouchedLine, Age, Line
  <2>. HIDE DEF new
  <2>5. cache'.sets[Index(b)][w] = IF Index(b) = s /\ w = v THEN new
                                   ELSE cache.sets[Index(b)][w]
    BY <1>0, <2>1, <2>2 DEF CacheShape
  <2>6. ASSUME Holds(cache, b, w) PROVE b = x <=> Index(b) = s /\ w = v
    <3>1. ASSUME Index(b) = s, w = v PROVE b = x
      BY <1>0, <2>1, <2>6, <3>1, TagIndex DEF Holds
    <3>2. ASSUME b = x PROVE w = v
      BY <1>0, <2>1, <2>6, <3>2 DEF Holds, IInv, NoDuplicateLine
    <3>. QED  BY <3>1, <3>2
  <2>. QED  BY <1>2, <2>4, <2>5, <2>6
<1>. QED  BY <1>3, <1>4

\* A fill stamps the line of the block that arrives and leaves the others.
LEMMA ReturnAges ==
  ASSUME IInv, NEW x \in Blocks, Return(x), NEW b \in Blocks, NEW w \in Ways
  PROVE  LET s == Index(x)
             v == Victim(cache.sets[s])
         IN  /\ v \in Ways /\ s \in Sets
             /\ ~contains(cache, x) /\ contains(cache', x)
             /\ Holds(cache', x, w) => Age(cache'.sets[s][w]) = cycle
             /\ Index(b) # s \/ w # v =>
                  cache'.sets[Index(b)][w] = cache.sets[Index(b)][w]
             /\ b # x /\ Holds(cache', b, w) => Index(b) # s \/ w # v
<1>. DEFINE s == Index(x)
            v == Victim(cache.sets[s])
            new == FilledLine(x, cycle, cache.inflight[x])
<1>0. TypeOK /\ CacheShape(cache) /\ cycle \in Nat /\ b \in Nat /\ x \in Nat
      /\ Index(b) \in Sets /\ s \in Sets /\ x \in DOMAIN cache.inflight
  BY TypeShape, IndexRange, CacheUnitAssumption DEF IInv, TypeOK, Return, Completed
<1>1. v \in Ways /\ cache'.sets = [cache.sets EXCEPT ![s][v] = new]
  <2>1. cache' = ReturnBlock(cache, x, cycle)
    BY DEF Return
  <2>. QED  BY <1>0, <2>1, ReturnFills
<1>2. new.valid /\ new.tag = Tag(x) /\ Age(new) = cycle
  BY DEF FilledLine, Age
<1>. HIDE DEF new, v, s
<1>3. \A t \in Sets, u \in Ways :
        cache'.sets[t][u] = IF t = s /\ u = v THEN new ELSE cache.sets[t][u]
  BY <1>0, <1>1 DEF CacheShape
<1>4. ~contains(cache, x)
  BY <1>0 DEF IInv, NotBothPlaces
<1>5. Holds(cache', x, v)
  BY <1>0, <1>1, <1>2, <1>3 DEF Holds, s
<1>6. Holds(cache', x, w) => w = v
  BY <1>0, <1>3, <1>4 DEF Holds, contains, s
<1>7. b # x /\ Holds(cache', b, w) => Index(b) # s \/ w # v
  <2>. SUFFICES ASSUME Holds(cache', b, w), Index(b) = s, w = v PROVE b = x
    OBVIOUS
  <2>1. cache'.sets[Index(b)][w] = new
    BY <1>0, <1>3
  <2>. QED  BY <1>0, <1>2, <2>1, TagIndex DEF Holds, s
<1>8. /\ Holds(cache', x, w) => Age(cache'.sets[s][w]) = cycle
      /\ Index(b) # s \/ w # v => cache'.sets[Index(b)][w] = cache.sets[Index(b)][w]
  BY <1>0, <1>1, <1>2, <1>3, <1>6
<1>9. contains(cache', x)
  BY <1>1, <1>5 DEF contains
<1>. QED  BY <1>0, <1>1, <1>4, <1>7, <1>8, <1>9 DEF s, v

\* The steps that leave the lines alone.
LEMMA LinesStay ==
  ASSUME IInv, \/ \E latency \in 1 .. MaxLatency : Schedule(latency)
               \/ ReturnsDone \/ Abandon \/ NextCycle \/ UNCHANGED vars
  PROVE  cache'.sets = cache.sets
BY DEF Schedule, schedule_fill, ReturnsDone, Abandon, NextCycle, vars, IInv, TypeOK

LEMMA StepDated == IInv /\ Dated /\ [AgesNext]_agevars => Dated'
<1>. SUFFICES ASSUME IInv, Dated, [AgesNext]_agevars PROVE Dated'
  OBVIOUS
<1>0. TypeOK /\ cycle \in Nat /\ \A b \in Blocks : Index(b) \in Sets
  BY IndexRange, CacheUnitAssumption DEF IInv, TypeOK
<1>1. CASE UNCHANGED agevars
  BY <1>1 DEF agevars, vars, Dated, Holds, Age
<1>2. CASE AgesNext
  <2>0. since' = [b \in Blocks |-> IF b \in Renewed THEN cycle ELSE since[b]]
    BY <1>2 DEF AgesNext
  <2>1. since' \in [Blocks -> Nat]
    BY <1>0, <2>0 DEF Dated
  <2>. SUFFICES ASSUME NEW b \in Blocks, NEW w \in Ways, Holds(cache', b, w)
                PROVE  Age(cache'.sets[Index(b)][w])
                         = IF b \in Renewed THEN cycle ELSE since[b]
    BY <2>0, <2>1 DEF Dated
  <2>2. ASSUME NEW x \in Blocks, NEW pf \in BOOLEAN, Request(x, pf)
        PROVE  Age(cache'.sets[Index(b)][w]) = IF b \in Renewed THEN cycle ELSE since[b]
    <3>1. /\ Holds(cache, b, w)
          /\ Age(cache'.sets[Index(b)][w])
               = IF b = x /\ Policy = "LRU" THEN cycle ELSE Age(cache.sets[Index(b)][w])
      BY <2>2, RequestAges
    <3>2. contains(cache, b) /\ Age(cache.sets[Index(b)][w]) = since[b]
      BY <3>1 DEF contains, Dated
    <3>3. b \notin Arrived
      BY <3>2 DEF Arrived
    <3>4. CASE b \in Renewed
      <4>1. Policy = "LRU" /\ b \in Asked
        BY <3>3, <3>4 DEF Renewed
      <4>2. PICK qf \in BOOLEAN : Request(b, qf)
        BY <4>1 DEF Asked
      <4>3. Age(cache'.sets[Index(b)][w]) = cycle
        BY <3>1, <4>1, <4>2, RequestAges
      <4>. QED  BY <3>4, <4>3
    <3>5. CASE b \notin Renewed
      <4>1. ~(b = x /\ Policy = "LRU")
        BY <2>2, <3>2, <3>5 DEF Renewed, Asked
      <4>. QED  BY <3>1, <3>2, <3>5, <4>1
    <3>. QED  BY <3>4, <3>5
  <2>3. ASSUME NEW x \in Blocks, Return(x)
        PROVE  Age(cache'.sets[Index(b)][w]) = IF b \in Renewed THEN cycle ELSE since[b]
    <3>0. phase = "returns"
      BY <2>3 DEF Return
    <3>1. Asked = {}
      BY <3>0 DEF Asked, Request
    <3>2. CASE b = x
      <4>1. b \in Renewed
        BY <2>3, <3>2, ReturnAges DEF Renewed, Arrived
      <4>. QED  BY <2>3, <3>2, <4>1, ReturnAges
    <3>3. CASE b # x
      <4>1. cache'.sets[Index(b)][w] = cache.sets[Index(b)][w]
        BY <2>3, <3>3, ReturnAges
      <4>2. Holds(cache, b, w)
        BY <4>1 DEF Holds
      <4>3. b \notin Renewed
        BY <3>1, <4>2 DEF Renewed, Arrived, contains
      <4>. QED  BY <4>1, <4>2, <4>3 DEF Dated
    <3>. QED  BY <3>2, <3>3
  <2>4. ASSUME \/ \E latency \in 1 .. MaxLatency : Schedule(latency)
               \/ ReturnsDone \/ Abandon \/ NextCycle
        PROVE  Age(cache'.sets[Index(b)][w]) = IF b \in Renewed THEN cycle ELSE since[b]
    <3>1. cache'.sets = cache.sets
      BY <2>4, LinesStay
    <3>2. Holds(cache, b, w)
      BY <3>1 DEF Holds
    <3>3. b \notin Renewed \/ Age(cache.sets[Index(b)][w]) = cycle
      <4>1. b \notin Arrived
        BY <3>2 DEF Arrived, contains
      <4>2. ASSUME Policy = "LRU", b \in Asked
            PROVE  Age(cache.sets[Index(b)][w]) = cycle
        <5>1. PICK qf \in BOOLEAN : Request(b, qf)
          BY <4>2 DEF Asked
        <5>. QED  BY <3>1, <3>2, <4>2, <5>1, RequestAges
      <4>. QED  BY <4>1, <4>2 DEF Renewed
    <3>. QED  BY <3>1, <3>2, <3>3 DEF Dated
  <2>. QED  BY <1>2, <2>2, <2>3, <2>4 DEF AgesNext, Next
<1>. QED  BY <1>1, <1>2

\* A block leaves only as the victim of its full set.
LEMMA StepEvicts ==
  ASSUME IInv, Dated, [AgesNext]_agevars, NEW b \in Blocks, NEW c \in Blocks,
         contains(cache, b), ~contains(cache', b), contains(cache, c), Index(b) = Index(c)
  PROVE  since[b] <= since[c]
<1>0. TypeOK /\ CacheShape(cache)
  BY TypeShape DEF IInv
<1>1. PICK w \in Ways : Holds(cache, b, w)
  BY DEF contains
<1>2. PICK v \in Ways : Holds(cache, c, v)
  BY DEF contains
<1>3. ~Holds(cache', b, w)
  BY DEF contains
<1>4. ASSUME NEW x \in Blocks, NEW pf \in BOOLEAN, Request(x, pf) PROVE FALSE
  BY <1>1, <1>3, <1>4, RequestAges
<1>5. ASSUME \/ \E latency \in 1 .. MaxLatency : Schedule(latency)
             \/ ReturnsDone \/ Abandon \/ NextCycle \/ UNCHANGED vars
      PROVE  FALSE
  BY <1>1, <1>3, <1>5, LinesStay DEF Holds
<1>6. ASSUME NEW x \in Blocks, Return(x) PROVE since[b] <= since[c]
  <2>. DEFINE s == Index(x)
              lines == cache.sets[s]
  <2>1. s \in Sets /\ Index(b) = s /\ w = Victim(lines)
    <3>1. Index(b) # s \/ w # Victim(lines) =>
            cache'.sets[Index(b)][w] = cache.sets[Index(b)][w]
      BY <1>6, ReturnAges
    <3>2. s \in Sets
      BY <1>6, ReturnAges
    <3>. QED  BY <1>1, <1>3, <3>1, <3>2 DEF Holds
  <2>2. lines \in [Ways -> Line]
    BY <1>0, <2>1 DEF CacheShape
  <2>3. Better(lines, w, v)
    BY <2>1, <2>2, VictimExists DEF Victim
  <2>4. lines[w].valid /\ lines[v].valid
    BY <1>1, <1>2, <2>1 DEF Holds
  <2>5. Age(lines[w]) = since[b] /\ Age(lines[v]) = since[c]
    BY <1>1, <1>2, <2>1 DEF Dated
  <2>6. since[b] \in Nat /\ since[c] \in Nat
    BY DEF Dated
  <2>. HIDE DEF lines
  <2>. QED  BY <2>3, <2>4, <2>5, <2>6 DEF Better
<1>. QED  BY <1>4, <1>5, <1>6 DEF AgesNext, Next, agevars

LEMMA InitDated == AgesInit => Dated
<1>1. \A b \in Blocks : Index(b) \in Sets
  BY IndexRange, CacheUnitAssumption
<1>2. Init => \A s \in Sets, w \in Ways : ~cache.sets[s][w].valid
  BY DEF Init, EmptyCache, EmptyLine
<1>. QED  BY <1>1, <1>2 DEF AgesInit, Dated, Holds

\* Whatever the geometry, the prefetches and the fills that come late: the
\* block that leaves was the oldest of its set by the policy's own order.
THEOREM OldestLeaves == AgesSpec => EvictsOldest
<1>1. AgesSpec => [](IInv /\ Dated)
  <2>1. AgesInit => IInv /\ Dated
    BY InitInv, InitDated DEF AgesInit
  <2>2. IInv /\ [AgesNext]_agevars => IInv'
    BY Inductive DEF AgesNext, agevars
  <2>. QED  BY <2>1, <2>2, StepDated, PTL DEF AgesSpec
<1>. DEFINE Oldest == \A b, c \in Blocks :
                      /\ contains(cache, b) /\ ~contains(cache', b)
                      /\ contains(cache, c) /\ contains(cache', c) /\ Index(b) = Index(c)
                      => since[b] <= since[c]
<1>2. IInv /\ Dated /\ [AgesNext]_agevars => [Oldest]_agevars
  BY StepEvicts
<1>. QED  BY <1>1, <1>2, PTL DEF AgesSpec, EvictsOldest
=============================================================================

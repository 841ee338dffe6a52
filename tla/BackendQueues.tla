--------------------------- MODULE BackendQueues ----------------------------
(***************************************************************************)
(* The issue queues and the store list against the reorder buffer, for     *)
(* every size, width, latency, trace and answer of the memory: no slot is  *)
(* forgotten, issued twice or left in a list after it retired; no queue    *)
(* outgrows its size; and no load overlooks an older store.                *)
(***************************************************************************)
EXTENDS BackendProofs, WellFoundedInduction

-----------------------------------------------------------------------------
(* Lists of slots that rise with the age of what the slots hold            *)

\* q lists its slots in the order of id.
Rising(id, q) == \A j, k \in 1 .. Len(q) : j < k => id[q[j]] < id[q[k]]

\* In a rising list a slot stands once.
LEMMA RisingInjective ==
  ASSUME NEW S, NEW id \in [S -> Nat], NEW q \in Seq(S), Rising(id, q),
         NEW j \in 1 .. Len(q), NEW k \in 1 .. Len(q), q[j] = q[k]
  PROVE  j = k
<1>1. id[q[j]] \in Nat /\ id[q[j]] = id[q[k]] /\ j \in Nat /\ k \in Nat
  OBVIOUS
<1>2. ~(j < k) /\ ~(k < j)
  BY <1>1 DEF Rising
<1>. QED  BY <1>1, <1>2

LEMMA ToSetIs ==
  ASSUME NEW S, NEW q \in Seq(S)
  PROVE  /\ ToSet(q) = {q[k] : k \in 1 .. Len(q)}
         /\ ToSet(q) \subseteq S
         /\ \A k \in 1 .. Len(q) : q[k] \in ToSet(q)
         /\ \A x \in ToSet(q) : \E k \in 1 .. Len(q) : x = q[k]
BY DEF ToSet

\* Erasing takes one slot out and keeps the order of the others.
LEMMA RisingRemove ==
  ASSUME NEW S, NEW id \in [S -> Nat], NEW q \in Seq(S), Rising(id, q),
         NEW p \in 1 .. Len(q)
  PROVE  /\ Rising(id, RemoveAt(q, p))
         /\ ToSet(RemoveAt(q, p)) = ToSet(q) \ {q[p]}
<1>. DEFINE r == RemoveAt(q, p)
<1>1. /\ r \in Seq(S) /\ Len(r) = Len(q) - 1
      /\ \A k \in 1 .. Len(q) - 1 : r[k] = IF k < p THEN q[k] ELSE q[k + 1]
  BY RemoveAtProperties
<1>. HIDE DEF r
<1>0. Len(q) \in Nat /\ p \in Nat /\ 1 <= p /\ p <= Len(q)
  OBVIOUS
<1>2. Rising(id, r)
  <2>. SUFFICES ASSUME NEW j \in 1 .. Len(r), NEW k \in 1 .. Len(r), j < k
                PROVE  id[r[j]] < id[r[k]]
    BY DEF Rising
  <2>. DEFINE a == IF j < p THEN j ELSE j + 1
              b == IF k < p THEN k ELSE k + 1
  <2>0. /\ j \in Nat /\ 1 <= j /\ j <= Len(q) - 1
        /\ k \in Nat /\ 1 <= k /\ k <= Len(q) - 1
    BY <1>0, <1>1
  <2>1. a \in 1 .. Len(q) /\ b \in 1 .. Len(q) /\ a < b
    BY <1>0, <2>0
  <2>2. r[j] = q[a] /\ r[k] = q[b]
    BY <1>0, <1>1
  <2>. QED  BY <2>1, <2>2 DEF Rising
<1>3. ASSUME NEW x \in ToSet(r) PROVE x \in ToSet(q) \ {q[p]}
  <2>1. PICK k \in 1 .. Len(r) : x = r[k]
    BY <1>1, ToSetIs
  <2>2. PICK a \in 1 .. Len(q) : x = q[a] /\ a # p
    <3>. DEFINE b == IF k < p THEN k ELSE k + 1
    <3>1. k \in Nat /\ 1 <= k /\ k <= Len(q) - 1
      BY <1>0, <1>1
    <3>2. b \in 1 .. Len(q) /\ b # p
      BY ONLY <1>0, <3>1
    <3>3. k \in 1 .. Len(q) - 1
      BY ONLY <1>0, <3>1
    <3>4. x = q[b]
      BY <1>1, <2>1, <3>3
    <3>. QED  BY <3>2, <3>4
  <2>3. x \in ToSet(q)
    BY <2>2, ToSetIs
  <2>4. q[a] # q[p]
    BY <2>2, RisingInjective
  <2>. QED  BY <2>2, <2>3, <2>4
<1>4. ASSUME NEW x \in ToSet(q), x # q[p] PROVE x \in ToSet(r)
  <2>1. PICK a \in 1 .. Len(q) : x = q[a]
    BY ToSetIs
  <2>2. a \in Nat /\ 1 <= a /\ a <= Len(q) /\ a # p
    BY <1>0, <1>4, <2>1
  <2>3. \E k \in 1 .. Len(r) : r[k] = q[a]
    <3>1. CASE a < p
      <4>1. a \in 1 .. Len(q) - 1
        BY <1>0, <2>2, <3>1
      <4>. QED  BY <1>1, <3>1, <4>1
    <3>2. CASE a > p
      <4>1. a - 1 \in 1 .. Len(q) - 1 /\ ~(a - 1 < p) /\ (a - 1) + 1 = a
        BY <1>0, <2>2, <3>2
      <4>. QED  BY <1>1, <4>1
    <3>. QED  BY <1>0, <2>2, <3>1, <3>2
  <2>. QED  BY <1>1, <2>1, <2>3, ToSetIs
<1>. QED  BY <1>2, <1>3, <1>4 DEF r

\* A younger slot is added behind.
LEMMA RisingAppend ==
  ASSUME NEW S, NEW id \in [S -> Nat], NEW q \in Seq(S), Rising(id, q),
         NEW x \in S, \A y \in ToSet(q) : id[y] < id[x]
  PROVE  /\ Rising(id, Append(q, x))
         /\ ToSet(Append(q, x)) = ToSet(q) \cup {x}
<1>. DEFINE r == Append(q, x)
<1>1. /\ r \in Seq(S) /\ Len(r) = Len(q) + 1 /\ Len(q) \in Nat
      /\ \A k \in 1 .. Len(q) : r[k] = q[k]
      /\ r[Len(q) + 1] = x
  BY AppendProperties
<1>. HIDE DEF r
<1>2. Rising(id, r)
  <2>. SUFFICES ASSUME NEW j \in 1 .. Len(r), NEW k \in 1 .. Len(r), j < k
                PROVE  id[r[j]] < id[r[k]]
    BY DEF Rising
  <2>1. j \in 1 .. Len(q) /\ r[j] = q[j] /\ q[j] \in ToSet(q)
    BY <1>1, ToSetIs
  <2>2. CASE k \in 1 .. Len(q)
    BY <1>1, <2>1, <2>2 DEF Rising
  <2>3. CASE k = Len(q) + 1
    BY <1>1, <2>1, <2>3
  <2>4. k \in 1 .. Len(q) \/ k = Len(q) + 1
    BY ONLY <1>1, k \in 1 .. Len(r)
  <2>. QED  BY ONLY <2>2, <2>3, <2>4
<1>3. ASSUME NEW y \in ToSet(r) PROVE y \in ToSet(q) \cup {x}
  <2>1. PICK k \in 1 .. Len(r) : y = r[k]
    BY <1>1, ToSetIs
  <2>2. CASE k \in 1 .. Len(q)
    BY <1>1, <2>1, <2>2, ToSetIs
  <2>3. CASE k = Len(q) + 1
    BY <1>1, <2>1, <2>3
  <2>. QED  BY <1>1, <2>2, <2>3
<1>4. ASSUME NEW y \in ToSet(q) PROVE y \in ToSet(r)
  <2>1. PICK k \in 1 .. Len(q) : y = q[k]
    BY ToSetIs
  <2>2. k \in 1 .. Len(r)
    BY <1>1
  <2>3. r[k] = y
    BY <1>1, <2>1
  <2>. QED  BY <1>1, <2>2, <2>3, ToSetIs
<1>5. x \in ToSet(r)
  <2>1. Len(q) + 1 \in 1 .. Len(r)
    BY <1>1
  <2>. QED  BY <1>1, <2>1, ToSetIs
<1>. QED  BY <1>2, <1>3, <1>4, <1>5 DEF r

\* The oldest slot is taken from the front.
LEMMA RisingTail ==
  ASSUME NEW S, NEW id \in [S -> Nat], NEW q \in Seq(S), Rising(id, q), q # <<>>
  PROVE  /\ Tail(q) \in Seq(S)
         /\ Rising(id, Tail(q))
         /\ ToSet(Tail(q)) = ToSet(q) \ {q[1]}
<1>1. /\ Tail(q) \in Seq(S) /\ Len(Tail(q)) = Len(q) - 1 /\ Len(q) \in Nat \ {0}
      /\ \A k \in 1 .. Len(q) - 1 : Tail(q)[k] = q[k + 1]
  BY HeadTailProperties, EmptySeq
<1>. DEFINE r == Tail(q)
<1>. HIDE DEF r
<1>2. /\ r \in Seq(S) /\ Len(r) = Len(q) - 1
      /\ \A k \in 1 .. Len(q) - 1 : r[k] = q[k + 1]
  BY <1>1 DEF r
<1>3. Rising(id, r)
  <2>. SUFFICES ASSUME NEW j \in 1 .. Len(r), NEW k \in 1 .. Len(r), j < k
                PROVE  id[r[j]] < id[r[k]]
    BY DEF Rising
  <2>1. /\ j + 1 \in 1 .. Len(q) /\ k + 1 \in 1 .. Len(q) /\ j + 1 < k + 1
        /\ r[j] = q[j + 1] /\ r[k] = q[k + 1]
    BY <1>1, <1>2
  <2>. QED  BY <2>1 DEF Rising
<1>4. ASSUME NEW x \in ToSet(r) PROVE x \in ToSet(q) \ {q[1]}
  <2>1. PICK k \in 1 .. Len(r) : x = r[k]
    BY <1>2, ToSetIs
  <2>2. k + 1 \in 1 .. Len(q) /\ 1 \in 1 .. Len(q) /\ k + 1 # 1 /\ x = q[k + 1]
    BY <1>1, <1>2, <2>1
  <2>3. q[k + 1] # q[1]
    BY ONLY <2>2, q \in Seq(S), id \in [S -> Nat], Rising(id, q), RisingInjective
  <2>. QED  BY <2>2, <2>3, ToSetIs
<1>5. ASSUME NEW x \in ToSet(q), x # q[1] PROVE x \in ToSet(r)
  <2>1. PICK a \in 1 .. Len(q) : x = q[a]
    BY ToSetIs
  <2>2. a - 1 \in 1 .. Len(r) /\ r[a - 1] = q[a]
    BY <1>1, <1>2, <1>5, <2>1
  <2>. QED  BY <1>2, <2>1, <2>2, ToSetIs
<1>. QED  BY <1>1, <1>3, <1>4, <1>5 DEF r

-----------------------------------------------------------------------------
(* The live slots                                                          *)

\* The age of what each slot holds.
Id == [s \in Slots |-> rob[s].entry_id]

LEMMA AscendingRises ==
  ASSUME TypeOK, NEW q \in Seq(Slots)
  PROVE  /\ Id \in [Slots -> Nat]
         /\ Ascending(q) <=> Rising(Id, q)
<1>1. \A s \in Slots : rob[s].entry_id \in Nat
  BY DEF TypeOK, OpEntry
<1>2. \A k \in 1 .. Len(q) : q[k] \in Slots /\ Id[q[k]] = rob[q[k]].entry_id
  BY DEF Id
<1>. QED  BY <1>1, <1>2 DEF Ascending, Rising, Id

LEMMA LiveSlots ==
  ASSUME OrderInv
  PROVE  /\ Live \subseteq Slots
         /\ \A s \in Live : /\ rob[s] \in OpEntry
                            /\ rob[s].entry_id \in Nat
                            /\ instructions_retired <= rob[s].entry_id
                            /\ rob[s].entry_id < instructions_retired + rob_count
<1>1. /\ TypeOK /\ InOrder /\ RobSize \in Nat \ {0} /\ rob_count \in 0 .. RobSize
      /\ instructions_retired \in Nat /\ rob \in [Slots -> OpEntry]
  BY BackendAssumption DEF OrderInv, TypeOK
<1>2. ASSUME NEW k \in 0 .. rob_count - 1
      PROVE  /\ RobSlot(k) \in Slots
             /\ rob[RobSlot(k)].entry_id = instructions_retired + k
  <2>1. k \in 0 .. RobSize
    BY <1>1
  <2>. QED  BY <1>1, <2>1, RobSlotValue DEF InOrder
<1>3. ASSUME NEW s \in Live
      PROVE  /\ s \in Slots /\ rob[s] \in OpEntry /\ rob[s].entry_id \in Nat
             /\ instructions_retired <= rob[s].entry_id
             /\ rob[s].entry_id < instructions_retired + rob_count
  <2>1. PICK k \in 0 .. rob_count - 1 : s = RobSlot(k)
    BY DEF Live
  <2>. QED  BY <1>1, <1>2, <2>1
<1>. QED  BY <1>3

\* commit_stage takes the oldest entry out.
LEMMA LiveAfterCommit ==
  ASSUME OrderInv, Commit
  PROVE  /\ rob_head \in Live
         /\ Live' = Live \ {rob_head}
         /\ \A s \in Live : s # rob_head => rob[rob_head].entry_id < rob[s].entry_id
<1>1. /\ TypeOK /\ InOrder /\ RobSize \in Nat \ {0} /\ rob_count \in 1 .. RobSize
      /\ instructions_retired \in Nat /\ rob_head \in 0 .. RobSize - 1
      /\ rob_count' = rob_count - 1
  <2>1. rob_count > 0 /\ rob_count' = rob_count - 1
    BY DEF Commit, CanCommit
  <2>2. TypeOK /\ InOrder
    BY DEF OrderInv
  <2>. QED  BY <2>1, <2>2, StateNumbers
<1>2. RobSlot(0) = rob_head
  BY <1>1, RobSlotValue
<1>3. \A k \in 0 .. RobSize - 1 : RobSlot(k)' = RobSlot(k + 1)
  BY <1>1, RobSlotAfterCommit
<1>4. rob_head \in Live
  <2>1. 0 \in 0 .. rob_count - 1
    BY <1>1
  <2>. QED  BY <1>2, <2>1 DEF Live
<1>5. ASSUME NEW s \in Live'
      PROVE  s \in Live /\ s # rob_head
  <2>1. PICK k \in 0 .. rob_count' - 1 : s = RobSlot(k)'
    BY DEF Live
  <2>2. /\ k \in 0 .. RobSize - 1 /\ k + 1 \in 0 .. rob_count - 1
        /\ k + 1 \in 0 .. RobSize - 1 /\ 0 \in 0 .. RobSize - 1 /\ k + 1 # 0
    BY <1>1
  <2>3. s = RobSlot(k + 1)
    BY <1>3, <2>1, <2>2
  <2>4. s # RobSlot(0)
    BY <1>1, <2>2, <2>3, RobSlotInjective
  <2>. QED  BY <1>2, <2>2, <2>3, <2>4 DEF Live
<1>6. ASSUME NEW s \in Live, s # rob_head
      PROVE  s \in Live' /\ rob[rob_head].entry_id < rob[s].entry_id
  <2>1. PICK k \in 0 .. rob_count - 1 : s = RobSlot(k)
    BY DEF Live
  <2>2. k # 0
    BY <1>2, <1>6, <2>1
  <2>3. k - 1 \in 0 .. rob_count' - 1 /\ k - 1 \in 0 .. RobSize - 1 /\ (k - 1) + 1 = k
    BY <1>1, <2>2
  <2>4. s = RobSlot(k - 1)'
    BY <1>3, <2>1, <2>3
  <2>5. /\ rob[s].entry_id = instructions_retired + k
        /\ rob[rob_head].entry_id = instructions_retired + 0
    <3>1. 0 \in 0 .. rob_count - 1
      BY <1>1
    <3>. QED  BY <1>1, <1>2, <2>1, <3>1 DEF InOrder
  <2>6. k \in Nat /\ k > 0
    BY <1>1, <2>2
  <2>7. s \in Live'
    BY <2>3, <2>4 DEF Live
  <2>. QED  BY <1>1, <2>5, <2>6, <2>7
<1>. QED  BY <1>4, <1>5, <1>6

\* dispatch_stage writes a slot that is not live, and what it writes is
\* younger than everything live.
LEMMA LiveAfterDispatch ==
  ASSUME OrderInv, Dispatch
  PROVE  /\ rob_tail \in Slots \ Live
         /\ Live' = Live \cup {rob_tail}
         /\ fetch_queue # <<>> /\ Head(fetch_queue) = fetch_queue[1]
         /\ rob'[rob_tail] = Head(fetch_queue)
         /\ Head(fetch_queue) \in OpEntry
         /\ \A s \in Slots : s # rob_tail => rob'[s] = rob[s]
         /\ \A s \in Live : rob[s].entry_id < Head(fetch_queue).entry_id
<1>. DEFINE op == Head(fetch_queue)
<1>1. /\ TypeOK /\ InOrder /\ fetch_queue # <<>>
      /\ rob' = [rob EXCEPT ![rob_tail] = op]
      /\ rob_count' = rob_count + 1 /\ rob_head' = rob_head
  BY DEF OrderInv, Dispatch, MoreToDispatch
<1>2. /\ rob_count \in Nat /\ rob_count < RobSize /\ RobSize \in Nat \ {0}
      /\ instructions_retired \in Nat /\ rob \in [Slots -> OpEntry]
  BY <1>1, BackendAssumption DEF TypeOK, Dispatch, DispatchStall
<1>3. /\ rob_tail = RobSlot(rob_count) /\ rob_tail \in Slots
  BY <1>1 DEF InOrder, TypeOK
<1>4. /\ Len(fetch_queue) \in Nat \ {0} /\ op = fetch_queue[1] /\ op \in OpEntry
  BY <1>1, HeadTailProperties, EmptySeq DEF TypeOK
<1>5. op.entry_id = instructions_retired + rob_count
  BY <1>1, <1>2, <1>4 DEF InOrder
<1>6. \A k : RobSlot(k)' = RobSlot(k)
  BY <1>1 DEF RobSlot
<1>7. rob_tail \notin Live
  <2>. SUFFICES ASSUME NEW k \in 0 .. rob_count - 1, RobSlot(k) = rob_tail
                PROVE  FALSE
    BY DEF Live
  <2>1. k \in 0 .. RobSize - 1 /\ rob_count \in 0 .. RobSize - 1 /\ k # rob_count
    BY <1>2
  <2>. QED  BY <1>1, <1>3, <2>1, RobSlotInjective
<1>8. Live' = Live \cup {rob_tail}
  <2>1. 0 .. rob_count' - 1 = (0 .. rob_count - 1) \cup {rob_count}
    BY <1>1, <1>2
  <2>. QED  BY <1>3, <1>6, <2>1 DEF Live
<1>9. \A s \in Live : rob[s].entry_id < op.entry_id
  BY <1>5, LiveSlots
<1>. QED  BY <1>1, <1>2, <1>3, <1>4, <1>7, <1>8, <1>9
-----------------------------------------------------------------------------
(* What one iteration of an issue loop does                                *)

\* The work done on an entry is the same.
SameWork(old, new) ==
  /\ new.inst = old.inst /\ new.entry_id = old.entry_id
  /\ new.executed = old.executed
  /\ new.sta_done = old.sta_done /\ new.std_done = old.std_done

\* Unit u has done its work on an entry.
DoneIn(u, old, new) ==
  /\ new.inst = old.inst /\ new.entry_id = old.entry_id
  /\ u \in {"alu", "ldu", "bru"} =>
       /\ new.executed
       /\ new.sta_done = old.sta_done /\ new.std_done = old.std_done
  /\ u = "sta" => /\ new.sta_done /\ new.std_done = old.std_done
                  /\ new.executed = (old.executed \/ old.std_done)
  /\ u = "std" => /\ new.std_done /\ new.sta_done = old.sta_done
                  /\ new.executed = (old.executed \/ old.sta_done)

\* The p-th entry of unit u's queue is issued: erased, and its work done.
IssuesEntry(u, p) ==
  /\ iq' = [iq EXCEPT ![u] = RemoveAt(@, p)]
  /\ \A t \in Slots : t # iq[u][p] => rob'[t] = rob[t]
  /\ DoneIn(u, rob[iq[u][p]], rob'[iq[u][p]])

\* Nothing is issued.
IssuesNothing == /\ UNCHANGED iq
                 /\ \A t \in Slots : SameWork(rob[t], rob'[t])

\* An iteration issues the entry at the iterator or does no work at all.
LEMMA IssueEffect ==
  ASSUME TypeOK, IssueStep
  PROVE  \/ IssuesNothing
         \/ \E u \in Units : \E p \in 1 .. Len(iq[u]) : IssuesEntry(u, p)
<1>. DEFINE Goal == \/ IssuesNothing
                    \/ \E u \in Units : \E p \in 1 .. Len(iq[u]) : IssuesEntry(u, p)
<1>0. rob \in [Slots -> OpEntry]
  BY DEF TypeOK
<1>1. ASSUME NEW u \in Units, NotReady(u) \/ ScanDone(u) PROVE Goal
  BY <1>1 DEF NotReady, ScanDone, Passed, IssuesNothing, SameWork
<1>2. ASSUME NEW u \in {"alu", "bru"}, ExecIssue(u) PROVE Goal
  <2>. DEFINE s == iq[u][pos]
              done == total_cycles + Latency[u]
  <2>1. u \in Units /\ Scanning(u) /\ pos \in 1 .. Len(iq[u]) /\ s \in Slots
    BY <1>2, ScanSlot DEF ExecIssue, Units
  <2>2. /\ iq' = [iq EXCEPT ![u] = RemoveAt(@, pos)]
        /\ rob' = [rob EXCEPT ![s] = [@ EXCEPT !.execute_cycle = done, !.executed = TRUE]]
    BY <1>2 DEF ExecIssue, Issued
  <2>. HIDE DEF s, done
  <2>3. /\ \A t \in Slots : t # s => rob'[t] = rob[t]
        /\ DoneIn(u, rob[s], rob'[s])
    BY <1>0, <1>2, <2>1, <2>2 DEF OpEntry, DoneIn
  <2>. QED  BY <2>1, <2>2, <2>3 DEF IssuesEntry, s
<1>3. ASSUME NEW u \in {"sta", "std"}, StoreIssue(u) PROVE Goal
  <2>. DEFINE s == iq[u][pos]
              done == total_cycles + Latency[u]
  <2>1. u \in Units /\ Scanning(u) /\ pos \in 1 .. Len(iq[u]) /\ s \in Slots
    BY <1>3, ScanSlot DEF StoreIssue, Units
  <2>2. /\ iq' = [iq EXCEPT ![u] = RemoveAt(@, pos)]
        /\ rob' = [rob EXCEPT ![s] = IF u = "sta" THEN StaDone(@, done)
                                                  ELSE StdDone(@, done)]
    BY <1>3 DEF StoreIssue, Issued
  <2>. HIDE DEF s, done
  <2>3. ASSUME NEW op \in OpEntry
        PROVE  DoneIn("sta", op, StaDone(op, done)) /\ DoneIn("std", op, StdDone(op, done))
    BY DEF StaDone, StdDone, OpEntry, DoneIn
  <2>4. /\ \A t \in Slots : t # s => rob'[t] = rob[t]
        /\ DoneIn(u, rob[s], rob'[s])
    BY <1>0, <1>3, <2>1, <2>2, <2>3
  <2>. QED  BY <2>1, <2>2, <2>4 DEF IssuesEntry, s
<1>4. ASSUME NEW s \in Slots,
             \/ LoadStalled(s) \/ LoadForwarded(s)
             \/ \E res \in MemResults : LoadBlocked(s, res) \/ LoadAccessed(s, res)
      PROVE  Goal
  <2>1. /\ "ldu" \in Units /\ pos \in 1 .. Len(iq["ldu"]) /\ s = iq["ldu"][pos]
    BY <1>4, ScanSlot DEF LoadStalled, LoadForwarded, LoadBlocked, LoadAccessed, Loading, Units
  <2>2. ASSUME NEW done, NEW waiting, LoadExecuted(s, done, waiting)
        PROVE  IssuesEntry("ldu", pos)
    <3>1. iq' = [iq EXCEPT !["ldu"] = RemoveAt(@, pos)]
      BY <2>2 DEF LoadExecuted, Issued
    <3>2. /\ \A t \in Slots : t # s => rob'[t] = rob[t]
          /\ DoneIn("ldu", rob[s], rob'[s])
      BY <1>0, <2>2 DEF LoadExecuted, DoneIn, OpEntry
    <3>. QED  BY <2>1, <3>1, <3>2 DEF IssuesEntry
  <2>3. ASSUME NEW waiting, LoadRefused(s, waiting)
        PROVE  IssuesNothing
    BY <1>0, <2>3 DEF LoadRefused, Passed, IssuesNothing, SameWork, OpEntry
  <2>. QED
    BY <1>4, <2>1, <2>2, <2>3 DEF LoadStalled, LoadForwarded, LoadBlocked, LoadAccessed
<1>. QED  BY <1>1, <1>2, <1>3, <1>4 DEF IssueStep

-----------------------------------------------------------------------------
(* The issue queues                                                        *)

\* An instruction is pushed to one queue, a store to two.
LEMMA PushedIs ==
  ASSUME NEW i \in TraceInst
  PROVE  /\ PushedQueues(i) \in {{"alu"}, {"bru"}, {"ldu"}, {"sta", "std"}}
         /\ "sta" \in PushedQueues(i) <=>
              i.fu = "LSU" /\ ~i.is_load /\ i.is_store /\ ~i.is_trap
<1>1. i.fu \in {"ALU", "LSU", "BRU"}
  BY DEF TraceInst
<1>2. CASE i.fu = "ALU"
  BY <1>2 DEF PushedQueues, TestedQueues
<1>3. CASE i.fu = "BRU"
  BY <1>3 DEF PushedQueues, TestedQueues
<1>4. CASE i.fu = "LSU"
  BY <1>4 DEF PushedQueues, TestedQueues
<1>. QED  BY <1>1, <1>2, <1>3, <1>4

\* No unit has worked on an entry that is not dispatched yet.
Unissued(op) == ~op.executed /\ ~op.sta_done /\ ~op.std_done

Undispatched ==
  /\ \A k \in 1 .. Len(fetch_queue) : Unissued(fetch_queue[k])
  /\ \A k \in 1 .. Len(inst_buffer) : Unissued(inst_buffer[k])

\* That the queues are exact is inductive with program order, which makes
\* them rise, and with the entries' being untouched before dispatch.
IssueInv == OrderInv /\ Undispatched /\ IssueQueuesExact

\* Steps that do no work on what is live and move nothing in or out.
LEMMA FrameIssue ==
  ASSUME IssueInv, UNCHANGED <<iq, rob_head, rob_count>>,
         \A s \in Slots : SameWork(rob[s], rob'[s])
  PROVE  IssueQueuesExact'
<1>1. Live' = Live /\ Live \subseteq Slots
  BY LiveSlots DEF IssueInv, Live, RobSlot
<1>2. \A u \in Units, s \in Slots : Waits(u, rob'[s]) <=> Waits(u, rob[s])
  BY DEF Waits, SameWork
<1>3. \A u \in Units : {s \in Live' : Waits(u, rob'[s])} = {s \in Live : Waits(u, rob[s])}
  BY <1>1, <1>2
<1>4. ASSUME NEW u \in Units PROVE Ascending(iq[u])'
  <2>1. iq[u] \in Seq(Slots) /\ Ascending(iq[u])
    BY DEF IssueInv, OrderInv, TypeOK, IssueQueuesExact
  <2>2. \A k \in 1 .. Len(iq[u]) : iq[u][k] \in Slots
    BY <2>1
  <2>. QED  BY <2>1, <2>2 DEF Ascending, SameWork
<1>5. \A s \in Live' : rob'[s].executed = (\A u \in Units : s \notin ToSet(iq'[u]))
  <2>1. \A s \in Live : rob'[s].executed = rob[s].executed
    BY <1>1 DEF SameWork
  <2>. QED  BY <1>1, <2>1 DEF IssueInv, IssueQueuesExact
<1>6. \A u \in Units : ToSet(iq'[u]) = {s \in Live' : Waits(u, rob'[s])}
  BY <1>3 DEF IssueInv, IssueQueuesExact
<1>. QED  BY <1>4, <1>5, <1>6 DEF IssueQueuesExact
\* An issue: the entry leaves one queue, and is executed with the last.
LEMMA IssueExact ==
  ASSUME IssueInv, NEW u \in Units, NEW p \in 1 .. Len(iq[u]), IssuesEntry(u, p),
         UNCHANGED <<rob_head, rob_count>>
  PROVE  IssueQueuesExact'
<1>. DEFINE s == iq[u][p]
<1>1. /\ TypeOK /\ Live' = Live /\ Live \subseteq Slots
      /\ \A v \in Units : iq[v] \in Seq(Slots)
      /\ s \in ToSet(iq[u])
  BY LiveSlots, ToSetIs DEF IssueInv, OrderInv, TypeOK, Live, RobSlot
<1>2. s \in Live /\ Waits(u, rob[s])
  BY <1>1 DEF IssueInv, IssueQueuesExact
<1>3. /\ \A t \in Slots : t # s => rob'[t] = rob[t]
      /\ DoneIn(u, rob[s], rob'[s])
  BY DEF IssuesEntry
<1>4. /\ iq'[u] = RemoveAt(iq[u], p)
      /\ \A v \in Units : v # u => iq'[v] = iq[v]
  BY DEF IssuesEntry, IssueInv, OrderInv, TypeOK
<1>. DEFINE i == rob[s].inst
<1>5. /\ PushedQueues(i) \in {{"alu"}, {"bru"}, {"ldu"}, {"sta", "std"}}
      /\ u \in PushedQueues(i) /\ rob'[s].inst = i
  <2>1. i \in TraceInst
    BY <1>1, <1>2, LiveSlots DEF IssueInv, OpEntry
  <2>. QED  BY <1>2, <1>3, <2>1, PushedIs DEF Waits, DoneIn
<1>6. /\ ~Waits(u, rob'[s])
      /\ \A v \in Units : v # u => (Waits(v, rob'[s]) <=> Waits(v, rob[s]))
  BY <1>2, <1>3, <1>5 DEF Waits, DoneIn, Units
<1>7. \A t \in Slots : rob'[t].entry_id = rob[t].entry_id
  BY <1>1, <1>2, <1>3 DEF DoneIn
<1>. HIDE DEF s, i
<1>8. ASSUME NEW v \in Units
      PROVE  /\ ToSet(iq'[v]) = {t \in Live' : Waits(v, rob'[t])}
             /\ Ascending(iq[v])'
  <2>1. /\ iq[v] \in Seq(Slots) /\ Ascending(iq[v])
        /\ ToSet(iq[v]) = {t \in Live : Waits(v, rob[t])}
    BY <1>1 DEF IssueInv, IssueQueuesExact
  <2>2. Id \in [Slots -> Nat] /\ Rising(Id, iq[v])
    BY <1>1, <2>1, AscendingRises
  <2>3. CASE v = u
    <3>1. p \in 1 .. Len(iq[v]) /\ s = iq[v][p] /\ iq'[v] = RemoveAt(iq[v], p)
      BY <1>4, <2>3 DEF s
    <3>2. /\ Rising(Id, iq'[v]) /\ ToSet(iq'[v]) = ToSet(iq[v]) \ {s}
      BY <2>1, <2>2, <3>1, RisingRemove
    <3>3. iq'[v] \in Seq(Slots)
      BY <2>1, <3>1, RemoveAtProperties
    <3>4. Ascending(iq[v])'
      <4>1. \A k \in 1 .. Len(iq'[v]) : iq'[v][k] \in Slots
        BY <3>3
      <4>. QED  BY <1>7, <3>2, <4>1 DEF Ascending, Rising, Id
    <3>. QED  BY <1>1, <1>3, <1>6, <2>1, <2>3, <3>2, <3>4
  <2>4. CASE v # u
    <3>1. iq'[v] = iq[v]
      BY <1>4, <2>4
    <3>2. Ascending(iq[v])'
      <4>1. \A k \in 1 .. Len(iq[v]) : iq[v][k] \in Slots
        BY <2>1
      <4>. QED  BY <1>7, <2>1, <3>1, <4>1 DEF Ascending
    <3>. QED  BY <1>1, <1>3, <1>6, <2>1, <2>4, <3>1, <3>2
  <2>. QED  BY <2>3, <2>4
<1>9. ASSUME NEW t \in Live'
      PROVE  rob'[t].executed = (\A v \in Units : t \notin ToSet(iq'[v]))
  <2>1. rob[t].executed = (\A v \in Units : ~Waits(v, rob[t])) /\ t \in Slots
    BY <1>1 DEF IssueInv, IssueQueuesExact
  <2>2. \A v \in Units : t \notin ToSet(iq'[v]) <=> ~Waits(v, rob'[t])
    BY <1>8
  <2>3. CASE t # s
    BY <1>3, <2>1, <2>2, <2>3
  <2>4. CASE t = s
    <3>1. rob[s] \in OpEntry
      BY <1>2, LiveSlots DEF IssueInv
    <3>2. /\ rob[s].executed \in BOOLEAN /\ rob[s].sta_done \in BOOLEAN
          /\ rob[s].std_done \in BOOLEAN
      BY <3>1 DEF OpEntry
    <3>3. ~rob[s].executed
      BY <1>2, <2>1, <2>4
    <3>4. CASE u \in {"alu", "bru", "ldu"}
      <4>1. rob'[s].executed /\ PushedQueues(i) = {u}
        BY <1>3, <1>5, <3>4 DEF DoneIn
      <4>2. rob'[s].executed = TRUE
        BY <1>3, <3>4 DEF DoneIn
      <4>3. \A v \in Units : ~Waits(v, rob'[s])
        BY <1>5, <1>6, <4>1 DEF Waits
      <4>. QED  BY <2>2, <2>4, <4>2, <4>3
    <3>5. CASE u = "sta"
      <4>1. PushedQueues(i) = {"sta", "std"}
        BY <1>5, <3>5
      <4>2. rob'[s].executed = rob[s].std_done /\ rob'[s].std_done = rob[s].std_done
        BY <1>3, <3>2, <3>3, <3>5 DEF DoneIn
      <4>3. (\A v \in Units : ~Waits(v, rob'[s])) <=> rob[s].std_done
        BY <1>5, <1>6, <3>5, <4>1, <4>2 DEF Waits, Units
      <4>. QED  BY <2>2, <2>4, <3>2, <4>2, <4>3
    <3>6. CASE u = "std"
      <4>1. PushedQueues(i) = {"sta", "std"}
        BY <1>5, <3>6
      <4>2. rob'[s].executed = rob[s].sta_done /\ rob'[s].sta_done = rob[s].sta_done
        BY <1>3, <3>2, <3>3, <3>6 DEF DoneIn
      <4>3. (\A v \in Units : ~Waits(v, rob'[s])) <=> rob[s].sta_done
        BY <1>5, <1>6, <3>6, <4>1, <4>2 DEF Waits, Units
      <4>. QED  BY <2>2, <2>4, <3>2, <4>2, <4>3
    <3>. QED  BY <3>4, <3>5, <3>6 DEF Units
  <2>. QED  BY <2>3, <2>4
<1>. QED  BY <1>8, <1>9 DEF IssueQueuesExact

\* A committed entry is in no queue, because it is executed.
LEMMA CommitExact ==
  ASSUME IssueInv, Commit
  PROVE  IssueQueuesExact'
<1>1. /\ rob_head \in Live /\ Live' = Live \ {rob_head}
      /\ UNCHANGED <<rob, iq>>
  BY LiveAfterCommit DEF IssueInv, Commit
<1>2. rob[rob_head].executed
  BY DEF Commit, CanCommit, Completed
<1>3. \A u \in Units : rob_head \notin ToSet(iq[u])
  BY <1>1, <1>2 DEF IssueInv, IssueQueuesExact
<1>4. \A u \in Units : Ascending(iq[u])'
  BY <1>1 DEF IssueInv, IssueQueuesExact, Ascending
<1>. QED  BY <1>1, <1>3, <1>4 DEF IssueInv, IssueQueuesExact

\* A dispatched entry joins the queues it waits for, behind all others.
LEMMA DispatchExact ==
  ASSUME IssueInv, Dispatch
  PROVE  IssueQueuesExact'
<1>. DEFINE op == Head(fetch_queue)
            queues == PushedQueues(op.inst)
<1>1. /\ TypeOK /\ OrderInv /\ rob_tail \in Slots
      /\ \A v \in Units : iq[v] \in Seq(Slots)
      /\ Live \subseteq Slots
  BY LiveSlots DEF IssueInv, OrderInv, TypeOK
<1>2. /\ rob_tail \in Slots \ Live /\ Live' = Live \cup {rob_tail}
      /\ fetch_queue # <<>> /\ op = fetch_queue[1]
      /\ rob'[rob_tail] = op /\ op \in OpEntry
      /\ \A s \in Slots : s # rob_tail => rob'[s] = rob[s]
      /\ \A s \in Live : rob[s].entry_id < op.entry_id
  BY <1>1, LiveAfterDispatch
<1>3. iq' = [u \in Units |-> IF u \in queues THEN Append(iq[u], rob_tail) ELSE iq[u]]
  BY DEF Dispatch
<1>4. queues \in {{"alu"}, {"bru"}, {"ldu"}, {"sta", "std"}}
  BY <1>2, PushedIs DEF OpEntry
<1>5. Unissued(op)
  <2>1. 1 \in 1 .. Len(fetch_queue)
    BY <1>1, <1>2, EmptySeq DEF TypeOK
  <2>. QED  BY <1>2, <2>1 DEF IssueInv, Undispatched
<1>. HIDE DEF op
<1>6. \A u \in Units : Waits(u, op) <=> u \in queues
  BY <1>5 DEF Waits, Unissued
<1>. HIDE DEF queues
<1>7. ASSUME NEW u \in Units
      PROVE  /\ ToSet(iq'[u]) = {s \in Live' : Waits(u, rob'[s])}
             /\ Ascending(iq[u])'
  <2>. DEFINE q == iq'[u]
              NewId == [s \in Slots |-> rob'[s].entry_id]
  <2>1. /\ iq[u] \in Seq(Slots) /\ Ascending(iq[u])
        /\ ToSet(iq[u]) = {s \in Live : Waits(u, rob[s])}
        /\ ToSet(iq[u]) \subseteq Live
    BY <1>1 DEF IssueInv, IssueQueuesExact
  <2>2. \A k \in 1 .. Len(iq[u]) : iq[u][k] \in Live
    BY <2>1, ToSetIs
  <2>3. NewId \in [Slots -> Nat]
    <3>1. \A s \in Slots : rob[s] \in OpEntry
      BY <1>1 DEF TypeOK
    <3>2. \A s \in Slots : rob'[s].entry_id \in Nat
      BY <1>2, <3>1 DEF OpEntry
    <3>. QED  BY <3>2
  <2>4. Rising(NewId, iq[u])
    <3>1. \A s \in Live : NewId[s] = rob[s].entry_id
      BY <1>1, <1>2
    <3>. QED  BY <2>1, <2>2, <3>1 DEF Ascending, Rising
  <2>5. /\ Rising(NewId, q) /\ q \in Seq(Slots)
        /\ ToSet(q) = IF u \in queues THEN ToSet(iq[u]) \cup {rob_tail} ELSE ToSet(iq[u])
    <3>1. CASE u \in queues
      <4>1. \A y \in ToSet(iq[u]) : NewId[y] < NewId[rob_tail]
        BY <1>1, <1>2, <2>1
      <4>2. q = Append(iq[u], rob_tail)
        BY <1>3, <3>1
      <4>. HIDE DEF NewId, q
      <4>3. Rising(NewId, q) /\ ToSet(q) = ToSet(iq[u]) \cup {rob_tail}
        <5>1. /\ NewId \in [Slots -> Nat] /\ iq[u] \in Seq(Slots) /\ rob_tail \in Slots
          BY <1>1, <2>1, <2>3
        <5>. QED  BY ONLY <5>1, <2>4, <4>1, <4>2, RisingAppend
      <4>4. q \in Seq(Slots)
        BY <1>1, <2>1, <4>2, AppendProperties
      <4>. QED  BY <3>1, <4>3, <4>4
    <3>2. CASE u \notin queues
      BY <1>3, <2>1, <2>4, <3>2
    <3>. QED  BY <3>1, <3>2
  <2>6. Ascending(iq[u])'
    <3>1. \A k \in 1 .. Len(q) : q[k] \in Slots /\ NewId[q[k]] = rob'[q[k]].entry_id
      BY <2>5
    <3>. QED  BY <2>5, <3>1 DEF Ascending, Rising
  <2>. QED  BY <1>1, <1>2, <1>6, <2>1, <2>5, <2>6
<1>8. ASSUME NEW s \in Live'
      PROVE  rob'[s].executed = (\A u \in Units : s \notin ToSet(iq'[u]))
  <2>1. CASE s = rob_tail
    <3>1. \E u \in Units : Waits(u, op)
      BY <1>4, <1>6 DEF Units
    <3>2. ~rob'[s].executed /\ rob'[s].executed \in BOOLEAN
      BY <1>2, <1>5, <2>1 DEF Unissued, OpEntry
    <3>3. \E u \in Units : s \in ToSet(iq'[u])
      BY <1>2, <1>7, <2>1, <3>1
    <3>. QED  BY <3>2, <3>3
  <2>2. CASE s # rob_tail
    <3>1. s \in Live /\ s \in Slots /\ rob'[s] = rob[s]
      BY <1>1, <1>2, <2>2
    <3>2. \A u \in Units : s \in ToSet(iq'[u]) <=> s \in ToSet(iq[u])
      BY <1>7, <3>1 DEF IssueInv, IssueQueuesExact
    <3>. QED  BY <3>1, <3>2 DEF IssueInv, IssueQueuesExact
  <2>. QED  BY <2>1, <2>2
<1>. QED  BY <1>7, <1>8 DEF IssueQueuesExact
\* What dispatch, decode and fetch do to the two queues in front.
LEMMA FrontQueues ==
  ASSUME TypeOK, Next
  PROVE  /\ \A k \in 1 .. Len(fetch_queue') :
              \/ \E j \in 1 .. Len(fetch_queue) : fetch_queue'[k] = fetch_queue[j]
              \/ \E j \in 1 .. Len(inst_buffer) : fetch_queue'[k] = inst_buffer[j]
         /\ \A k \in 1 .. Len(inst_buffer') :
              \/ \E j \in 1 .. Len(inst_buffer) : inst_buffer'[k] = inst_buffer[j]
              \/ \E i \in Insts : inst_buffer'[k] = Fresh(i, next_entry_id)
<1>. DEFINE FromQueue(x) == \E j \in 1 .. Len(fetch_queue) : x = fetch_queue[j]
            FromBuffer(x) == \E j \in 1 .. Len(inst_buffer) : x = inst_buffer[j]
<1>0. fetch_queue \in Seq(OpEntry) /\ inst_buffer \in Seq(OpEntry)
  BY DEF TypeOK
<1>1. CASE UNCHANGED queueVars
  BY <1>1 DEF queueVars
<1>2. CASE Dispatch
  <2>1. fetch_queue # <<>> /\ fetch_queue' = Tail(fetch_queue) /\ inst_buffer' = inst_buffer
    BY <1>2 DEF Dispatch, MoreToDispatch
  <2>2. /\ Len(fetch_queue') = Len(fetch_queue) - 1 /\ Len(fetch_queue) \in Nat
        /\ \A k \in 1 .. Len(fetch_queue) - 1 : fetch_queue'[k] = fetch_queue[k + 1]
    BY <1>0, <2>1, HeadTailProperties
  <2>3. ASSUME NEW k \in 1 .. Len(fetch_queue') PROVE FromQueue(fetch_queue'[k])
    <3>1. k + 1 \in 1 .. Len(fetch_queue) /\ fetch_queue'[k] = fetch_queue[k + 1]
      BY <2>2
    <3>. QED  BY <3>1
  <2>. QED  BY <2>1, <2>3
<1>3. CASE Decode
  <2>1. /\ inst_buffer # <<>> /\ inst_buffer' = Tail(inst_buffer)
        /\ fetch_queue' = Append(fetch_queue, Head(inst_buffer))
    BY <1>3 DEF Decode, CanDecode
  <2>2. /\ Len(inst_buffer') = Len(inst_buffer) - 1 /\ Len(inst_buffer) \in Nat \ {0}
        /\ \A k \in 1 .. Len(inst_buffer) - 1 : inst_buffer'[k] = inst_buffer[k + 1]
        /\ Head(inst_buffer) = inst_buffer[1] /\ Head(inst_buffer) \in OpEntry
    BY <1>0, <2>1, HeadTailProperties, EmptySeq
  <2>3. /\ Len(fetch_queue') = Len(fetch_queue) + 1 /\ Len(fetch_queue) \in Nat
        /\ \A k \in 1 .. Len(fetch_queue) : fetch_queue'[k] = fetch_queue[k]
        /\ fetch_queue'[Len(fetch_queue) + 1] = inst_buffer[1]
    BY <1>0, <2>1, <2>2, AppendProperties
  <2>4. ASSUME NEW k \in 1 .. Len(fetch_queue')
        PROVE  FromQueue(fetch_queue'[k]) \/ FromBuffer(fetch_queue'[k])
    <3>1. CASE k \in 1 .. Len(fetch_queue)
      BY <2>3, <3>1
    <3>2. CASE k = Len(fetch_queue) + 1
      <4>1. 1 \in 1 .. Len(inst_buffer) /\ fetch_queue'[k] = inst_buffer[1]
        BY <2>2, <2>3, <3>2
      <4>. QED  BY <4>1
    <3>. QED  BY <2>3, <3>1, <3>2
  <2>5. ASSUME NEW k \in 1 .. Len(inst_buffer') PROVE FromBuffer(inst_buffer'[k])
    <3>1. k + 1 \in 1 .. Len(inst_buffer) /\ inst_buffer'[k] = inst_buffer[k + 1]
      BY <2>2
    <3>. QED  BY <3>1
  <2>. QED  BY <2>4, <2>5
<1>4. ASSUME NEW i \in Insts, Fetch(i)
      PROVE  /\ fetch_queue' = fetch_queue
             /\ \A k \in 1 .. Len(inst_buffer') :
                  FromBuffer(inst_buffer'[k]) \/ inst_buffer'[k] = Fresh(i, next_entry_id)
  <2>. DEFINE op == Fresh(i, next_entry_id)
  <2>1. fetch_queue' = fetch_queue /\ inst_buffer' = Append(inst_buffer, op)
    BY <1>4 DEF Fetch
  <2>2. op \in OpEntry
    BY FreshType, BackendAssumption DEF TypeOK
  <2>. HIDE DEF op
  <2>3. /\ Len(inst_buffer') = Len(inst_buffer) + 1 /\ Len(inst_buffer) \in Nat
        /\ \A k \in 1 .. Len(inst_buffer) : inst_buffer'[k] = inst_buffer[k]
        /\ inst_buffer'[Len(inst_buffer) + 1] = op
    BY <1>0, <2>1, <2>2, AppendProperties
  <2>4. ASSUME NEW k \in 1 .. Len(inst_buffer')
        PROVE  FromBuffer(inst_buffer'[k]) \/ inst_buffer'[k] = op
    <3>1. CASE k \in 1 .. Len(inst_buffer)
      BY <2>3, <3>1
    <3>2. CASE k = Len(inst_buffer) + 1
      BY <2>3, <3>2
    <3>. QED  BY <2>3, <3>1, <3>2
  <2>. QED  BY <2>1, <2>4 DEF op
<1>5. CASE IssueStep
  <2>1. UNCHANGED queueVars
    BY <1>5, IssueKeepsEntries
  <2>. QED  BY <1>1, <2>1
<1>6. Commit \/ CommitDone \/ DispatchDone \/ DecodeDone \/ ReachLimit \/ EndTrace \/ FetchDone \/ MarkCycle
        => UNCHANGED queueVars
  BY DEF Commit, CommitDone, DispatchDone, DecodeDone, ReachLimit, EndTrace, FetchDone, MarkCycle
<1>7. (\E i \in Insts : Fetch(i)) =>
        /\ fetch_queue' = fetch_queue
        /\ \A k \in 1 .. Len(inst_buffer') :
             \/ FromBuffer(inst_buffer'[k])
             \/ \E i \in Insts : inst_buffer'[k] = Fresh(i, next_entry_id)
  BY <1>4
<1>. QED  BY <1>1, <1>2, <1>3, <1>5, <1>6, <1>7 DEF Next, IssueStep

LEMMA UndispatchedKept == ASSUME TypeOK, Undispatched, Next PROVE Undispatched'
<1>1. \A i, n : Unissued(Fresh(i, n))
  BY DEF Unissued, Fresh
<1>. QED  BY <1>1, FrontQueues DEF Undispatched

LEMMA InitIssue == Init => IssueInv
<1>. SUFFICES ASSUME Init PROVE IssueInv
  OBVIOUS
<1>1. OrderInv
  BY InitOrder
<1>2. Undispatched
  BY EmptySeq DEF Init, Undispatched
<1>3. Live = {}
  <2>1. 0 .. rob_count - 1 = {}
    BY DEF Init
  <2>. QED  BY <2>1 DEF Live
<1>4. ASSUME NEW u \in Units PROVE ToSet(iq[u]) = {} /\ Ascending(iq[u])
  <2>1. iq[u] = <<>>
    BY DEF Init
  <2>. QED  BY <2>1, EmptySeq DEF ToSet, Ascending
<1>. QED  BY <1>1, <1>2, <1>3, <1>4 DEF IssueInv, IssueQueuesExact

LEMMA IssueInductive == IssueInv /\ [Next]_vars => IssueInv'
<1>. SUFFICES ASSUME IssueInv, [Next]_vars PROVE IssueInv'
  OBVIOUS
<1>0. OrderInv /\ TypeOK /\ Undispatched
  BY DEF IssueInv, OrderInv
<1>1. OrderInv'
  BY <1>0, OrderInductive
<1>2. Undispatched'
  <2>1. CASE UNCHANGED vars
    BY <1>0, <2>1 DEF vars, queueVars, Undispatched
  <2>. QED  BY <1>0, <2>1, UndispatchedKept
<1>3. ASSUME \/ CommitDone \/ DispatchDone \/ Decode \/ DecodeDone
             \/ (\E i \in Insts : Fetch(i)) \/ ReachLimit \/ EndTrace \/ FetchDone \/ MarkCycle
             \/ UNCHANGED vars
      PROVE  IssueQueuesExact'
  <2>1. UNCHANGED <<rob, iq, rob_head, rob_count>>
    BY <1>3 DEF CommitDone, DispatchDone, Decode, DecodeDone, Fetch, ReachLimit, EndTrace,
                FetchDone, MarkCycle, vars, robVars, outsideQueues
  <2>. QED  BY <2>1, FrameIssue DEF SameWork
<1>4. ASSUME IssueStep PROVE IssueQueuesExact'
  <2>1. UNCHANGED <<rob_head, rob_count>>
    BY <1>0, <1>4, IssueKeepsEntries
  <2>2. CASE IssuesNothing
    BY <2>1, <2>2, FrameIssue DEF IssuesNothing
  <2>3. ASSUME NEW u \in Units, NEW p \in 1 .. Len(iq[u]), IssuesEntry(u, p)
        PROVE  IssueQueuesExact'
    BY <2>1, <2>3, IssueExact
  <2>. QED  BY <1>0, <1>4, <2>2, <2>3, IssueEffect
<1>5. ASSUME Commit PROVE IssueQueuesExact'
  BY <1>5, CommitExact
<1>6. ASSUME Dispatch PROVE IssueQueuesExact'
  BY <1>6, DispatchExact
<1>7. IssueQueuesExact'
  BY <1>3, <1>4, <1>5, <1>6 DEF Next, IssueStep
<1>. QED  BY <1>1, <1>2, <1>7 DEF IssueInv

\* Whatever the trace, traps included, an issue queue holds exactly the live
\* entries that wait for its unit, oldest first, and an entry is executed
\* exactly when it is in no queue any more.
THEOREM IssueQueuesHold == Spec => []IssueQueuesExact
<1>1. IssueInv => IssueQueuesExact
  BY DEF IssueInv
<1>. QED  BY <1>1, InitIssue, IssueInductive, PTL DEF Spec

-----------------------------------------------------------------------------
(* The queues' sizes                                                       *)

\* Only the capacity tests of dispatch keep the queues within their sizes,
\* and for a trap they test another queue than the one it is pushed to: it
\* has room because a trap waits until the reorder buffer, and so every
\* queue, is empty.
LEMMA DispatchBounded ==
  ASSUME IssueInv, QueuesBounded, Dispatch
  PROVE  QueuesBounded'
<1>. DEFINE op == Head(fetch_queue)
            queues == PushedQueues(op.inst)
<1>1. /\ TypeOK /\ \A u \in Units : iq[u] \in Seq(Slots) /\ Len(iq[u]) \in Nat
      /\ \A u \in Units : IQSize[u] \in Nat \ {0}
      /\ rob_tail \in Slots
  <2>1. TypeOK
    BY DEF IssueInv, OrderInv
  <2>2. \A u \in Units : iq[u] \in Seq(Slots)
    BY <2>1 DEF TypeOK
  <2>3. \A u \in Units : Len(iq[u]) \in Nat
    BY ONLY <2>2, LenProperties
  <2>4. \A u \in Units : IQSize[u] \in Nat \ {0}
    BY BackendAssumption
  <2>. QED  BY <2>1, <2>2, <2>3, <2>4, StateNumbers DEF Slots
<1>2. op.inst \in TraceInst
  BY LiveAfterDispatch DEF IssueInv, OpEntry
<1>3. /\ DispatchStall(op.inst) = "NONE"
      /\ iq' = [u \in Units |-> IF u \in queues THEN Append(iq[u], rob_tail) ELSE iq[u]]
  BY DEF Dispatch
<1>. HIDE DEF op
<1>4. ASSUME NEW u \in Units, u \in queues PROVE Len(iq[u]) < IQSize[u]
  <2>1. CASE op.inst.is_trap
    <3>1. rob_count = 0
      <4>1. rob_count \in Nat /\ ~(rob_count > 0)
        BY <1>1, <1>3, <2>1, BackendAssumption DEF DispatchStall, TypeOK
      <4>. QED  BY <4>1
    <3>2. Live = {}
      <4>1. 0 .. rob_count - 1 = {}
        BY <3>1
      <4>. QED  BY <4>1 DEF Live
    <3>3. ToSet(iq[u]) = {}
      BY <3>2 DEF IssueInv, IssueQueuesExact
    <3>4. Len(iq[u]) = 0
      <4>1. \A k \in 1 .. Len(iq[u]) : FALSE
        BY <1>1, <3>3, ToSetIs
      <4>2. ~(1 \in 1 .. Len(iq[u]))
        BY <4>1
      <4>. QED  BY <1>1, <4>2
    <3>. QED  BY <1>1, <3>4
  <2>2. CASE ~op.inst.is_trap
    <3>1. u \in TestedQueues(op.inst) /\ QueueStall(op.inst) = "NONE"
      BY <1>3, <1>4, <2>2 DEF PushedQueues, DispatchStall
    <3>2. ~Full(u)
      <4>. DEFINE full == {v \in TestedQueues(op.inst) : Full(v)}
      <4>1. TestedQueues(op.inst) \in {{"alu"}, {"bru"}, {"ldu"}, {"sta", "std"}}
        BY <1>2 DEF TestedQueues, TraceInst
      <4>2. full # {} => QueueStall(op.inst) # "NONE"
        BY <4>1 DEF QueueStall
      <4>. QED  BY <3>1, <4>2
    <3>. QED  BY <1>1, <3>2 DEF Full
  <2>. QED  BY <2>1, <2>2
<1>. HIDE DEF queues
<1>5. ASSUME NEW u \in Units PROVE Len(iq'[u]) <= IQSize[u]
  <2>1. CASE u \in queues
    <3>1. Len(Append(iq[u], rob_tail)) = Len(iq[u]) + 1
      BY <1>1, AppendProperties
    <3>. QED  BY <1>1, <1>3, <1>4, <2>1, <3>1
  <2>2. CASE u \notin queues
    BY <1>3, <2>2 DEF QueuesBounded
  <2>. QED  BY <2>1, <2>2
<1>. QED  BY <1>5 DEF QueuesBounded

LEMMA BoundedInductive == IssueInv /\ QueuesBounded /\ [Next]_vars => QueuesBounded'
<1>. SUFFICES ASSUME IssueInv, QueuesBounded, [Next]_vars PROVE QueuesBounded'
  OBVIOUS
<1>0. /\ TypeOK /\ \A u \in Units : iq[u] \in Seq(Slots) /\ Len(iq[u]) \in Nat
      /\ \A u \in Units : IQSize[u] \in Nat
  <2>1. TypeOK
    BY DEF IssueInv, OrderInv
  <2>2. \A u \in Units : iq[u] \in Seq(Slots)
    BY <2>1 DEF TypeOK
  <2>. QED  BY <2>1, <2>2, LenProperties, BackendAssumption
<1>1. ASSUME UNCHANGED iq PROVE QueuesBounded'
  BY <1>1 DEF QueuesBounded
<1>2. ASSUME IssueStep PROVE QueuesBounded'
  <2>1. ASSUME NEW u \in Units, NEW p \in 1 .. Len(iq[u]), IssuesEntry(u, p)
        PROVE  QueuesBounded'
    <3>1. Len(RemoveAt(iq[u], p)) = Len(iq[u]) - 1
      BY <1>0, RemoveAtProperties
    <3>2. \A v \in Units : Len(iq'[v]) <= Len(iq[v])
      BY <1>0, <2>1, <3>1 DEF IssuesEntry, IssueInv, OrderInv, TypeOK
    <3>3. \A v \in Units : Len(iq'[v]) \in Nat
      BY <1>0, <2>1, <3>1 DEF IssuesEntry, IssueInv, OrderInv, TypeOK
    <3>. QED  BY <1>0, <3>2, <3>3 DEF QueuesBounded
  <2>. QED  BY <1>0, <1>1, <1>2, <2>1, IssueEffect DEF IssuesNothing
<1>3. CASE Dispatch
  BY <1>3, DispatchBounded
<1>4. ASSUME \/ Commit \/ CommitDone \/ DispatchDone \/ Decode \/ DecodeDone
             \/ (\E i \in Insts : Fetch(i)) \/ ReachLimit \/ EndTrace \/ FetchDone \/ MarkCycle
             \/ UNCHANGED vars
      PROVE  UNCHANGED iq
  BY <1>4 DEF Commit, CommitDone, DispatchDone, Decode, DecodeDone, Fetch, ReachLimit, EndTrace,
              FetchDone, MarkCycle, vars, outsideQueues
<1>. QED  BY <1>1, <1>2, <1>3, <1>4 DEF Next, IssueStep

\* No issue queue outgrows its size, whatever the sizes and the trace.
THEOREM QueuesKeepToSize == Spec => []QueuesBounded
<1>1. Init => QueuesBounded
  <2>. SUFFICES ASSUME Init, NEW u \in Units PROVE Len(iq[u]) <= IQSize[u]
    BY DEF QueuesBounded
  <2>1. iq[u] = <<>> /\ IQSize[u] \in Nat
    BY BackendAssumption DEF Init
  <2>. QED  BY <2>1, EmptySeq
<1>. QED  BY <1>1, InitIssue, IssueInductive, BoundedInductive, PTL DEF Spec
-----------------------------------------------------------------------------
(* The store list                                                          *)

\* No store traps, as if every store went to mapped memory.  The run
\* backend_trapstore shows that the store list is wrong without this.
NoTrappingStores == \A i \in Insts : ~(i.is_store /\ i.is_trap)

\* Every instruction in flight is one that the front end may deliver.
Delivered ==
  /\ \A s \in Live : rob[s].inst \in Insts
  /\ \A k \in 1 .. Len(fetch_queue) : fetch_queue[k].inst \in Insts
  /\ \A k \in 1 .. Len(inst_buffer) : inst_buffer[k].inst \in Insts

StoreInv == OrderInv /\ Delivered /\ StoreListExact

\* commit_stage asks is_store and dispatch_stage the queues: when no store
\* traps they mean the same instructions.
LEMMA StoresArePushed ==
  ASSUME NoTrappingStores, NEW i \in Insts
  PROVE  i.is_store <=> "sta" \in PushedQueues(i)
<1>1. i \in TraceInst /\ (i.is_store => i.fu = "LSU" /\ ~i.is_load /\ ~i.is_trap)
  BY BackendAssumption DEF NoTrappingStores
<1>. QED  BY <1>1, PushedIs DEF TraceInst

LEMMA DeliveredKept ==
  ASSUME OrderInv, Delivered, Next
  PROVE  Delivered'
<1>0. TypeOK
  BY DEF OrderInv
<1>1. \A i, n : Fresh(i, n).inst = i
  BY DEF Fresh
<1>2. /\ \A k \in 1 .. Len(fetch_queue') : fetch_queue'[k].inst \in Insts
      /\ \A k \in 1 .. Len(inst_buffer') : inst_buffer'[k].inst \in Insts
  BY <1>0, <1>1, FrontQueues DEF Delivered
<1>3. Live \subseteq Slots
  BY LiveSlots
<1>4. ASSUME Commit PROVE \A s \in Live' : rob'[s].inst \in Insts
  <2>1. Live' \subseteq Live /\ rob' = rob
    BY <1>4, LiveAfterCommit DEF Commit
  <2>. QED  BY <2>1 DEF Delivered
<1>5. ASSUME Dispatch PROVE \A s \in Live' : rob'[s].inst \in Insts
  <2>. DEFINE op == Head(fetch_queue)
  <2>1. /\ Live' = Live \cup {rob_tail} /\ fetch_queue # <<>> /\ op = fetch_queue[1]
        /\ rob'[rob_tail] = op
        /\ \A s \in Slots : s # rob_tail => rob'[s] = rob[s]
    BY <1>5, LiveAfterDispatch
  <2>. HIDE DEF op
  <2>2. 1 \in 1 .. Len(fetch_queue)
    BY <1>0, <2>1, EmptySeq DEF TypeOK
  <2>3. op.inst \in Insts
    BY <2>1, <2>2 DEF Delivered
  <2>. QED  BY <1>3, <2>1, <2>3 DEF Delivered
<1>6. ASSUME IssueStep PROVE \A s \in Live' : rob'[s].inst \in Insts
  <2>1. UNCHANGED <<rob_head, rob_count>> /\ \A s \in Slots : rob'[s].inst = rob[s].inst
    BY <1>0, <1>6, IssueKeepsEntries
  <2>2. Live' = Live
    BY <2>1 DEF Live, RobSlot
  <2>. QED  BY <1>3, <2>1, <2>2 DEF Delivered
<1>7. ASSUME \/ CommitDone \/ DispatchDone \/ Decode \/ DecodeDone
             \/ (\E i \in Insts : Fetch(i)) \/ ReachLimit \/ EndTrace \/ FetchDone \/ MarkCycle
      PROVE  \A s \in Live' : rob'[s].inst \in Insts
  <2>1. UNCHANGED <<rob, rob_head, rob_count>>
    BY <1>7 DEF CommitDone, DispatchDone, Decode, DecodeDone, Fetch, ReachLimit, EndTrace,
                FetchDone, MarkCycle, robVars, outsideQueues
  <2>. QED  BY <2>1 DEF Delivered, Live, RobSlot
<1>. QED  BY <1>2, <1>4, <1>5, <1>6, <1>7 DEF Delivered, Next, IssueStep

\* Steps that change neither the store list nor what the slots hold.
LEMMA FrameStores ==
  ASSUME TypeOK, StoreListExact, Live \subseteq Slots,
         UNCHANGED <<store_indices, rob_head, rob_count>>,
         \A s \in Slots : /\ rob'[s].inst = rob[s].inst
                          /\ rob'[s].entry_id = rob[s].entry_id
  PROVE  StoreListExact'
<1>1. Live' = Live
  BY DEF Live, RobSlot
<1>2. LiveStores' = LiveStores
  BY <1>1 DEF LiveStores
<1>3. \A k \in 1 .. Len(store_indices) : store_indices[k] \in Slots
  BY DEF TypeOK
<1>. QED  BY <1>2, <1>3 DEF StoreListExact, Ascending

\* The store that commits is the one at the front of the store list: it is
\* the oldest entry, and the list rises.
LEMMA CommitStores ==
  ASSUME NoTrappingStores, StoreInv, Commit
  PROVE  StoreListExact'
<1>. DEFINE head == rob[rob_head]
<1>1. /\ TypeOK /\ store_indices \in Seq(Slots) /\ UNCHANGED rob
      /\ ToSet(store_indices) = LiveStores /\ Ascending(store_indices)
      /\ store_indices' = PoppedStores(head)
  BY DEF StoreInv, OrderInv, TypeOK, StoreListExact, Commit
<1>2. /\ rob_head \in Live /\ Live' = Live \ {rob_head}
      /\ \A s \in Live : s # rob_head => head.entry_id < rob[s].entry_id
      /\ Live \subseteq Slots
  BY LiveAfterCommit, LiveSlots DEF StoreInv
<1>3. head.inst.is_store <=> "sta" \in PushedQueues(head.inst)
  BY <1>2, StoresArePushed DEF StoreInv, Delivered
<1>4. Id \in [Slots -> Nat] /\ Rising(Id, store_indices)
  BY <1>1, AscendingRises
<1>5. LiveStores' = LiveStores \ {rob_head}
  BY <1>1, <1>2 DEF LiveStores
<1>6. CASE ~head.inst.is_store
  <2>1. store_indices' = store_indices /\ rob_head \notin LiveStores
    BY <1>1, <1>3, <1>6 DEF PoppedStores, LiveStores
  <2>. QED  BY <1>1, <1>5, <2>1 DEF StoreListExact, Ascending
<1>7. CASE head.inst.is_store
  <2>1. rob_head \in LiveStores
    BY <1>2, <1>3, <1>7 DEF LiveStores
  <2>2. PICK j \in 1 .. Len(store_indices) : store_indices[j] = rob_head
    BY <1>1, <2>1, ToSetIs
  <2>3. store_indices # <<>> /\ 1 \in 1 .. Len(store_indices) /\ j \in Nat
    BY <1>1, <2>2, EmptySeq
  <2>4. store_indices[1] = rob_head
    <3>. SUFFICES ASSUME store_indices[1] # rob_head PROVE FALSE
      OBVIOUS
    <3>1. store_indices[1] \in Live /\ store_indices[1] \in Slots /\ rob_head \in Slots
      BY <1>1, <1>2, <2>3, ToSetIs DEF LiveStores
    <3>2. Id[rob_head] < Id[store_indices[1]]
      BY <1>2, <3>1 DEF Id
    <3>3. 1 < j
      BY <2>2, <2>3
    <3>4. Id[store_indices[1]] < Id[store_indices[j]]
      BY <1>4, <2>3, <3>3 DEF Rising
    <3>. QED  BY <1>4, <2>2, <3>1, <3>2, <3>4
  <2>5. store_indices' = Tail(store_indices)
    BY <1>1, <1>7, <2>3 DEF PoppedStores
  <2>. HIDE DEF head
  <2>6. /\ Tail(store_indices) \in Seq(Slots) /\ Rising(Id, Tail(store_indices))
        /\ ToSet(Tail(store_indices)) = LiveStores \ {rob_head}
    BY <1>1, <1>4, <2>3, <2>4, RisingTail
  <2>7. Ascending(Tail(store_indices))
    BY <1>1, <2>6, AscendingRises
  <2>. QED  BY <1>1, <1>5, <2>5, <2>6, <2>7 DEF StoreListExact, Ascending
<1>. QED  BY <1>6, <1>7

\* A store that is dispatched joins the list behind all others.
LEMMA DispatchStores ==
  ASSUME StoreInv, Dispatch
  PROVE  StoreListExact'
<1>. DEFINE op == Head(fetch_queue)
            isStore == "sta" \in PushedQueues(op.inst)
            NewId == [s \in Slots |-> rob'[s].entry_id]
<1>1. /\ TypeOK /\ store_indices \in Seq(Slots)
      /\ ToSet(store_indices) = LiveStores /\ Ascending(store_indices)
      /\ store_indices' = IF isStore THEN Append(store_indices, rob_tail)
                                     ELSE store_indices
  BY DEF StoreInv, OrderInv, TypeOK, StoreListExact, Dispatch
<1>2. /\ rob_tail \in Slots \ Live /\ Live' = Live \cup {rob_tail}
      /\ rob'[rob_tail] = op /\ op \in OpEntry
      /\ \A s \in Slots : s # rob_tail => rob'[s] = rob[s]
      /\ \A s \in Live : rob[s].entry_id < op.entry_id
      /\ Live \subseteq Slots
  BY LiveAfterDispatch, LiveSlots DEF StoreInv
<1>3. LiveStores' = IF isStore THEN LiveStores \cup {rob_tail} ELSE LiveStores
  BY <1>2 DEF LiveStores
<1>4. \A k \in 1 .. Len(store_indices) :
         store_indices[k] \in Live /\ NewId[store_indices[k]] = rob[store_indices[k]].entry_id
  <2>1. \A s \in Live : NewId[s] = rob[s].entry_id
    BY <1>2
  <2>. QED  BY <1>1, <2>1, ToSetIs DEF LiveStores
<1>5. Rising(NewId, store_indices)
  BY <1>1, <1>4 DEF Ascending, Rising
<1>6. NewId \in [Slots -> Nat]
  <2>1. \A s \in Slots : rob[s] \in OpEntry
    BY <1>1 DEF TypeOK
  <2>2. \A s \in Slots : rob'[s].entry_id \in Nat
    BY <1>2, <2>1 DEF OpEntry
  <2>. QED  BY <2>2
<1>7. \A y \in ToSet(store_indices) : NewId[y] < NewId[rob_tail]
  BY <1>1, <1>2 DEF LiveStores
<1>. HIDE DEF op, isStore
<1>8. /\ Rising(NewId, store_indices')
      /\ ToSet(store_indices') = LiveStores' /\ store_indices' \in Seq(Slots)
  <2>1. CASE isStore
    <3>1. store_indices' = Append(store_indices, rob_tail)
      BY <1>1, <2>1
    <3>. HIDE DEF NewId
    <3>. QED  BY <1>1, <1>2, <1>3, <1>5, <1>6, <1>7, <2>1, <3>1, RisingAppend, AppendProperties
  <2>2. CASE ~isStore
    BY <1>1, <1>3, <1>5, <2>2
  <2>. QED  BY <2>1, <2>2
<1>9. Ascending(store_indices)'
  <2>1. \A k \in 1 .. Len(store_indices') :
           /\ store_indices'[k] \in Slots
           /\ NewId[store_indices'[k]] = rob'[store_indices'[k]].entry_id
    BY <1>8
  <2>. QED  BY <1>8, <2>1 DEF Ascending, Rising
<1>. QED  BY <1>8, <1>9 DEF StoreListExact

LEMMA InitStores == Init => StoreInv
<1>. SUFFICES ASSUME Init PROVE StoreInv
  OBVIOUS
<1>1. OrderInv
  BY InitOrder
<1>2. Live = {}
  <2>1. 0 .. rob_count - 1 = {}
    BY DEF Init
  <2>. QED  BY <2>1 DEF Live
<1>3. store_indices = <<>> /\ fetch_queue = <<>> /\ inst_buffer = <<>>
  BY DEF Init
<1>. QED  BY <1>1, <1>2, <1>3, EmptySeq
          DEF StoreInv, Delivered, StoreListExact, LiveStores, ToSet, Ascending

LEMMA StoreInductive ==
  ASSUME NoTrappingStores, StoreInv, [Next]_vars
  PROVE  StoreInv'
<1>0. OrderInv /\ TypeOK /\ Delivered /\ StoreListExact /\ Live \subseteq Slots
  BY LiveSlots DEF StoreInv, OrderInv
<1>1. OrderInv'
  BY <1>0, OrderInductive
<1>2. CASE UNCHANGED vars
  <2>1. Delivered'
    BY <1>0, <1>2 DEF vars, robVars, queueVars, Delivered, Live, RobSlot
  <2>2. StoreListExact'
    BY <1>0, <1>2, FrameStores DEF vars, robVars
  <2>. QED  BY <1>1, <2>1, <2>2 DEF StoreInv
<1>3. CASE Next
  <2>1. Delivered'
    BY <1>0, <1>3, DeliveredKept
  <2>2. ASSUME \/ CommitDone \/ DispatchDone \/ Decode \/ DecodeDone
               \/ (\E i \in Insts : Fetch(i)) \/ ReachLimit \/ EndTrace \/ FetchDone \/ MarkCycle
        PROVE  StoreListExact'
    <3>1. UNCHANGED <<rob, store_indices, rob_head, rob_count>>
      BY <2>2 DEF CommitDone, DispatchDone, Decode, DecodeDone, Fetch, ReachLimit, EndTrace,
                  FetchDone, MarkCycle, robVars, outsideQueues
    <3>. QED  BY <1>0, <3>1, FrameStores
  <2>3. ASSUME IssueStep PROVE StoreListExact'
    BY <1>0, <2>3, IssueKeepsEntries, FrameStores
  <2>4. ASSUME Commit PROVE StoreListExact'
    BY <2>4, CommitStores
  <2>5. ASSUME Dispatch PROVE StoreListExact'
    BY <2>5, DispatchStores
  <2>6. StoreListExact'
    BY <1>3, <2>2, <2>3, <2>4, <2>5 DEF Next, IssueStep
  <2>. QED  BY <1>1, <2>1, <2>6 DEF StoreInv
<1>. QED  BY <1>2, <1>3

\* When no store traps, the five issue queues and the store list all agree
\* with the reorder buffer: commit, which pops the store list without
\* looking, always pops the store it retires.
THEOREM QueuesAreExact ==
  ASSUME NoTrappingStores
  PROVE  Spec => []QueuesExact
<1>1. StoreInv /\ [Next]_vars => StoreInv'
  BY StoreInductive
<1>2. StoreInv => StoreListExact
  BY DEF StoreInv
<1>3. IssueInv => IssueQueuesExact
  BY DEF IssueInv
<1>4. QueuesExact <=> IssueQueuesExact /\ StoreListExact
  BY DEF QueuesExact
<1>. QED  BY <1>1, <1>2, <1>3, <1>4, InitIssue, IssueInductive, InitStores, PTL DEF Spec
-----------------------------------------------------------------------------
(* What LoadStoreUnit finds in the store list                              *)

NatLess == OpToRel(<, Nat)

\* A nonempty set of list positions has a last one, the last match of the
\* search loop.
LEMMA LastPosition ==
  ASSUME NEW n \in Nat, NEW S \in SUBSET (1 .. n), S # {}
  PROVE  \E k \in S : \A j \in S : j <= k
<1>. DEFINE T == {n - k : k \in S}
<1>0. \A k \in S : k \in Nat /\ n - k \in Nat
  OBVIOUS
<1>1. T \in SUBSET Nat /\ T # {}
  BY <1>0
<1>. HIDE DEF T
<1>2. \E x \in T : \A y \in T : <<y, x>> \notin NatLess
  BY <1>1, NatLessThanWellFounded, WFMin DEF NatLess
<1>3. PICK x \in T : \A y \in T : <<y, x>> \notin NatLess
  BY <1>2
<1>4. \A a, b \in Nat : b < a => <<b, a>> \in NatLess
  BY DEF NatLess, OpToRel
<1>5. \A y \in T : ~(y < x)
  BY <1>1, <1>3, <1>4
<1>6. PICK k \in S : x = n - k
  BY DEF T
<1>7. ASSUME NEW j \in S PROVE j <= k
  <2>1. n - j \in T /\ j \in Nat /\ k \in Nat
    BY DEF T
  <2>. QED  BY <1>5, <1>6, <2>1
<1>. QED  BY <1>7

\* The positions where the search loop finds a match are those of the older
\* stores in flight to the same address, all of them.
LEMMA MatchingIs ==
  ASSUME StoreInv, NEW op \in OpEntry
  PROVE  /\ Matching(op) \in SUBSET (1 .. Len(store_indices))
         /\ \A k \in Matching(op) : store_indices[k] \in OlderLiveStores(op)
         /\ \A t \in OlderLiveStores(op) : \E k \in Matching(op) : store_indices[k] = t
<1>1. /\ TypeOK /\ store_indices \in Seq(Slots) /\ rob \in [Slots -> OpEntry]
      /\ ToSet(store_indices) = LiveStores /\ Ascending(store_indices)
  BY DEF StoreInv, OrderInv, TypeOK, StoreListExact
<1>2. /\ Matching(op) \in SUBSET (1 .. Len(store_indices))
      /\ Matching(op) \subseteq OlderStores(op)
  BY DEF Matching, OlderStores
<1>3. ASSUME NEW k \in Matching(op) PROVE store_indices[k] \in OlderLiveStores(op)
  <2>1. k \in 1 .. Len(store_indices) /\ k \in 1 .. k
    BY <1>1, <1>2
  <2>2. rob[store_indices[k]].entry_id < op.entry_id
    BY <1>2, <2>1 DEF OlderStores
  <2>3. store_indices[k] \in LiveStores
    BY <1>1, <2>1, ToSetIs
  <2>. QED  BY <2>2, <2>3 DEF OlderLiveStores, Matching
<1>4. ASSUME NEW t \in OlderLiveStores(op)
      PROVE  \E k \in Matching(op) : store_indices[k] = t
  <2>1. /\ t \in LiveStores /\ rob[t].entry_id < op.entry_id
        /\ rob[t].inst.mem_addr = op.inst.mem_addr
    BY DEF OlderLiveStores
  <2>2. PICK k \in 1 .. Len(store_indices) : store_indices[k] = t
    BY <1>1, <2>1, ToSetIs
  <2>3. ASSUME NEW j \in 1 .. k PROVE rob[store_indices[j]].entry_id < op.entry_id
    <3>1. j \in 1 .. Len(store_indices) /\ j \in Nat /\ k \in Nat
      BY <1>1
    <3>2. store_indices[j] \in Slots /\ store_indices[k] \in Slots
      BY <1>1, <3>1
    <3>3. /\ rob[store_indices[j]].entry_id \in Nat
          /\ rob[store_indices[k]].entry_id \in Nat /\ op.entry_id \in Nat
      BY <1>1, <3>2 DEF OpEntry
    <3>4. CASE j = k
      BY <2>1, <2>2, <3>4
    <3>5. CASE j < k
      <4>1. rob[store_indices[j]].entry_id < rob[store_indices[k]].entry_id
        BY <1>1, <3>1, <3>5 DEF Ascending
      <4>. QED  BY <2>1, <2>2, <3>3, <4>1
    <3>. QED  BY <3>1, <3>4, <3>5
  <2>4. k \in Matching(op)
    BY <2>1, <2>2, <2>3 DEF Matching, OlderStores
  <2>. QED  BY <2>2, <2>4
<1>. QED  BY <1>2, <1>3, <1>4

\* No dependence: no older store to the load's address is in flight.
LEMMA NoDepIsSafe ==
  ASSUME StoreInv, NEW op \in OpEntry, check_store_dependency(op) = "NoDep"
  PROVE  OlderLiveStores(op) = {}
<1>1. Matching(op) = {}
  BY DEF check_store_dependency
<1>. QED  BY <1>1, MatchingIs

\* Forwarding takes the youngest of the older stores, and its data is there.
LEMMA ForwardsYoungest ==
  ASSUME StoreInv, NEW op \in OpEntry, check_store_dependency(op) = "STLFReady"
  PROVE  \E t \in OlderLiveStores(op) :
           /\ rob[t].std_done /\ rob[t].std_cycle <= total_cycles
           /\ \A x \in OlderLiveStores(op) : rob[x].entry_id <= rob[t].entry_id
<1>. DEFINE k == CHOOSE k \in Matching(op) : \A j \in Matching(op) : j <= k
            t == store_indices[k]
<1>1. /\ Matching(op) # {} /\ Source(op) = rob[t]
      /\ Source(op).std_done /\ Source(op).std_cycle <= total_cycles
  BY DEF check_store_dependency, Source
<1>2. /\ store_indices \in Seq(Slots) /\ Len(store_indices) \in Nat
      /\ rob \in [Slots -> OpEntry] /\ Ascending(store_indices)
  BY DEF StoreInv, OrderInv, TypeOK, StoreListExact
<1>3. /\ Matching(op) \in SUBSET (1 .. Len(store_indices))
      /\ \A i \in Matching(op) : store_indices[i] \in OlderLiveStores(op)
      /\ \A x \in OlderLiveStores(op) : \E i \in Matching(op) : store_indices[i] = x
  BY MatchingIs
<1>4. \E i \in Matching(op) : \A j \in Matching(op) : j <= i
  BY <1>1, <1>2, <1>3, LastPosition
<1>5. k \in Matching(op) /\ \A j \in Matching(op) : j <= k
  BY <1>4
<1>. HIDE DEF k
<1>6. ASSUME NEW x \in OlderLiveStores(op) PROVE rob[x].entry_id <= rob[t].entry_id
  <2>1. PICK j \in Matching(op) : store_indices[j] = x
    BY <1>3
  <2>2. /\ j \in 1 .. Len(store_indices) /\ k \in 1 .. Len(store_indices) /\ j <= k
        /\ j \in Nat /\ k \in Nat
    BY <1>2, <1>3, <1>5
  <2>3. x \in Slots /\ t \in Slots
    BY <1>2, <2>1, <2>2
  <2>4. rob[x].entry_id \in Nat /\ rob[t].entry_id \in Nat
    BY <1>2, <2>3 DEF OpEntry
  <2>5. CASE j = k
    BY <2>1, <2>4, <2>5
  <2>6. CASE j < k
    <3>1. rob[store_indices[j]].entry_id < rob[store_indices[k]].entry_id
      BY <1>2, <2>2, <2>6 DEF Ascending
    <3>. QED  BY <2>1, <2>4, <3>1
  <2>. QED  BY <2>2, <2>5, <2>6
<1>7. t \in OlderLiveStores(op)
  BY <1>3, <1>5
<1>. QED  BY <1>1, <1>6, <1>7

\* When no store traps, no load overlooks an older store to its address in
\* flight, and none takes the data of any but the youngest such store.
THEOREM LoadsAreSafe ==
  ASSUME NoTrappingStores
  PROVE  Spec => LoadsRespectStores
<1>. DEFINE Safe(s) ==
       /\ (\E res \in MemResults : LoadAccessed(s, res)) =>
            OlderLiveStores(rob[s]) = {}
       /\ LoadForwarded(s) =>
            \E t \in OlderLiveStores(rob[s]) :
              /\ rob[t].std_done /\ rob[t].std_cycle <= total_cycles
              /\ \A x \in OlderLiveStores(rob[s]) : rob[x].entry_id <= rob[t].entry_id
<1>1. StoreInv => \A s \in Slots : Safe(s)
  <2>. SUFFICES ASSUME StoreInv, NEW s \in Slots PROVE Safe(s)
    OBVIOUS
  <2>1. rob[s] \in OpEntry
    BY DEF StoreInv, OrderInv, TypeOK
  <2>2. (\E res \in MemResults : LoadAccessed(s, res)) => OlderLiveStores(rob[s]) = {}
    BY <2>1, NoDepIsSafe DEF LoadAccessed
  <2>3. LoadForwarded(s) => check_store_dependency(rob[s]) = "STLFReady"
    BY DEF LoadForwarded
  <2>. QED  BY <2>1, <2>2, <2>3, ForwardsYoungest
<1>2. StoreInv /\ [Next]_vars => StoreInv'
  BY StoreInductive
<1>3. StoreInv => [\A s \in Slots : Safe(s)]_vars
  BY <1>1
<1>. QED  BY <1>2, <1>3, InitStores, PTL DEF Spec, LoadsRespectStores
=============================================================================

--------------------------- MODULE BackendProofs ----------------------------
(***************************************************************************)
(* Theorems about Backend, for every size, width, latency, set of          *)
(* instructions and answer of the memory: the types, program order, and    *)
(* the refinement of InOrderPipe.                                          *)
(***************************************************************************)
EXTENDS Backend, SequenceTheorems, TLAPS

-----------------------------------------------------------------------------
(* Arithmetic of the ring and of std::vector::erase                        *)

\* Slot arithmetic never wraps more than once.
LEMMA ModOnce ==
  ASSUME NEW n \in Nat \ {0}, NEW a \in Nat, a < 2 * n
  PROVE  a % n = IF a < n THEN a ELSE a - n
<1>1. CASE a < n
  BY <1>1
<1>2. CASE a >= n
  <2>1. a - n \in Nat /\ a - n < n
    BY <1>2
  <2>. QED  BY <1>2, <2>1
<1>. QED  BY <1>1, <1>2

\* erase(it): the elements behind the iterator move up by one.
LEMMA RemoveAtProperties ==
  ASSUME NEW S, NEW q \in Seq(S), NEW p \in 1 .. Len(q)
  PROVE  /\ RemoveAt(q, p) \in Seq(S)
         /\ Len(RemoveAt(q, p)) = Len(q) - 1
         /\ \A k \in 1 .. Len(q) - 1 :
              RemoveAt(q, p)[k] = IF k < p THEN q[k] ELSE q[k + 1]
<1>. DEFINE front == SubSeq(q, 1, p - 1)
            back == SubSeq(q, p + 1, Len(q))
<1>1. /\ front \in Seq(S) /\ Len(front) = p - 1
      /\ \A k \in 1 .. p - 1 : front[k] = q[k]
  BY SubSeqProperties
<1>2. /\ back \in Seq(S) /\ Len(back) = Len(q) - p
      /\ \A k \in 1 .. Len(q) - p : back[k] = q[p + k]
  BY SubSeqProperties
<1>. HIDE DEF front, back
<1>0. Len(q) \in Nat /\ p \in Nat /\ p >= 1 /\ p <= Len(q)
  OBVIOUS
<1>3. /\ front \o back \in Seq(S)
      /\ Len(front \o back) = Len(q) - 1
      /\ \A k \in 1 .. Len(q) - 1 :
           (front \o back)[k] = IF k <= p - 1 THEN front[k] ELSE back[k - (p - 1)]
  <2>1. /\ front \o back \in Seq(S)
        /\ Len(front \o back) = Len(front) + Len(back)
        /\ \A k \in 1 .. Len(front) + Len(back) :
             (front \o back)[k] = IF k <= Len(front) THEN front[k]
                                  ELSE back[k - Len(front)]
    BY ONLY <1>1, <1>2, ConcatProperties
  <2>2. Len(front) + Len(back) = Len(q) - 1
    BY <1>0, <1>1, <1>2
  <2>. QED  BY ONLY <1>1, <2>1, <2>2
<1>4. ASSUME NEW k \in 1 .. Len(q) - 1
      PROVE  (front \o back)[k] = IF k < p THEN q[k] ELSE q[k + 1]
  <2>1. CASE k < p
    BY <1>0, <1>1, <1>3, <2>1
  <2>2. CASE k >= p
    <3>1. k - (p - 1) \in 1 .. Len(q) - p /\ p + (k - (p - 1)) = k + 1
      BY <1>0, <2>2
    <3>2. ~(k <= p - 1) /\ ~(k < p)
      BY <1>0, <2>2
    <3>3. (front \o back)[k] = back[k - (p - 1)]
      BY <1>3, <3>2
    <3>4. back[k - (p - 1)] = q[k + 1]
      BY ONLY <1>2, <3>1
    <3>. QED  BY ONLY <3>2, <3>3, <3>4
  <2>3. k < p \/ k >= p
    BY <1>0
  <2>. QED  BY ONLY <2>1, <2>2, <2>3
<1>. QED  BY <1>3, <1>4 DEF RemoveAt, front, back

-----------------------------------------------------------------------------
(* Type correctness                                                        *)

\* The numbers and the queues of the state, for steps that need no more.
LEMMA StateNumbers ==
  ASSUME TypeOK
  PROVE  /\ RobSize \in Nat \ {0} /\ rob_count \in 0 .. RobSize /\ rob_count \in Nat
         /\ rob_head \in 0 .. RobSize - 1 /\ rob_tail \in 0 .. RobSize - 1
         /\ {next_entry_id, instructions_retired, total_cycles} \subseteq Nat
         /\ fetch_queue \in Seq(OpEntry) /\ Len(fetch_queue) \in Nat
         /\ inst_buffer \in Seq(OpEntry) /\ Len(inst_buffer) \in Nat
<1>1. RobSize \in Nat \ {0} /\ rob_count \in 0 .. RobSize
  BY BackendAssumption DEF TypeOK
<1>2. rob_head \in 0 .. RobSize - 1 /\ rob_tail \in 0 .. RobSize - 1
  BY DEF TypeOK, Slots
<1>3. {next_entry_id, instructions_retired, total_cycles} \subseteq Nat
  BY DEF TypeOK
<1>4. fetch_queue \in Seq(OpEntry) /\ inst_buffer \in Seq(OpEntry)
  BY DEF TypeOK
<1>. QED  BY ONLY <1>1, <1>2, <1>3, <1>4, LenProperties

\* What every iteration of an issue loop has in hand: a slot of the queue.
LEMMA ScanSlot ==
  ASSUME TypeOK, NEW u \in Units, Scanning(u)
  PROVE  /\ pos \in 1 .. Len(iq[u])
         /\ iq[u][pos] \in Slots
         /\ rob[iq[u][pos]] \in OpEntry
         /\ rob[iq[u][pos]].inst \in TraceInst
<1>1. iq[u] \in Seq(Slots) /\ pos \in Nat \ {0} /\ rob \in [Slots -> OpEntry]
  BY DEF TypeOK
<1>2. pos \in 1 .. Len(iq[u])
  BY <1>1 DEF Scanning
<1>3. iq[u][pos] \in Slots
  BY <1>1, <1>2, ElementOfSeq
<1>. QED  BY <1>1, <1>2, <1>3 DEF OpEntry

LEMMA IssuedType ==
  ASSUME TypeOK, NEW u \in Units, Scanning(u), Issued(u)
  PROVE  /\ iq' \in [Units -> Seq(Slots)]
         /\ count' \in Nat /\ stage' \in Stages /\ pos' \in Nat \ {0}
<1>1. RemoveAt(iq[u], pos) \in Seq(Slots)
  BY ScanSlot, RemoveAtProperties DEF TypeOK
<1>. QED  BY <1>1 DEF Issued, TypeOK

LEMMA PassedType ==
  ASSUME TypeOK, Passed
  PROVE  /\ iq' \in [Units -> Seq(Slots)]
         /\ count' \in Nat /\ stage' \in Stages /\ pos' \in Nat \ {0}
BY DEF Passed, TypeOK

LEMMA MarkReadyType ==
  ASSUME TypeOK, NEW r \in Regs, NEW when \in Nat
  PROVE  mark_register_ready(r, when) \in [Regs -> Nat]
BY DEF TypeOK, mark_register_ready

LEMMA FreshType ==
  ASSUME NEW i \in TraceInst, NEW id \in Nat
  PROVE  Fresh(i, id) \in OpEntry
BY DEF Fresh, OpEntry

LEMMA DispatchStallType ==
  ASSUME NEW i \in TraceInst
  PROVE  DispatchStall(i) \in StallReasons
<1>1. QueueStall(i) \in StallReasons
  <2>1. TestedQueues(i) \in {{"alu"}, {"bru"}, {"ldu"}, {"sta", "std"}}
    BY DEF TestedQueues, TraceInst
  <2>. QED  BY <2>1 DEF QueueStall, StallReasons
<1>. QED  BY <1>1 DEF DispatchStall, StallReasons

LEMMA InitType == Init => TypeOK
<1>. SUFFICES ASSUME Init PROVE TypeOK
  OBVIOUS
<1>1. (CHOOSE a \in Addrs : TRUE) \in Addrs
  BY BackendAssumption
<1>2. Unwritten \in OpEntry
  BY <1>1, FreshType, BackendAssumption DEF Unwritten, TraceInst
<1>3. rob \in [Slots -> OpEntry] /\ 0 \in Slots /\ RobSize \in Nat
  BY <1>2, BackendAssumption DEF Init, Slots
<1>4. iq \in [Units -> Seq(Slots)] /\ reg_ready_time \in [Regs -> Nat]
  BY EmptySeq DEF Init
<1>. QED
  BY <1>3, <1>4, EmptySeq DEF Init, TypeOK, Stages, StallReasons

LEMMA GoToType ==
  ASSUME NEW next \in Stages, GoTo(next)
  PROVE  stage' \in Stages /\ pos' \in Nat \ {0} /\ count' \in Nat
BY DEF GoTo

\* commit_stage keeps the types.
LEMMA CommitType ==
  ASSUME TypeOK, Commit \/ CommitDone
  PROVE  TypeOK'
<1>1. CASE Commit
  <2>1. store_indices' \in Seq(Slots)
    BY <1>1, HeadTailProperties DEF Advance, PoppedStores, TypeOK, Commit
  <2>2. rob_head' \in Slots /\ rob_count' \in 0 .. RobSize
    <3>1. rob_head' = (rob_head + 1) % RobSize /\ rob_count' = rob_count - 1 /\ rob_count > 0
      BY <1>1 DEF Advance, Commit, CanCommit
    <3>2. /\ RobSize \in Nat \ {0} /\ rob_count \in 0 .. RobSize
          /\ rob_head \in 0 .. RobSize - 1
      BY BackendAssumption DEF TypeOK, Slots
    <3>. QED  BY ONLY <3>1, <3>2 DEF Slots
  <2>. QED
    BY <1>1, <2>1, <2>2 DEF Advance, PoppedStores, TypeOK, Commit, queueVars, markVars
<1>2. CASE CommitDone
  <2>1. commit_stall' \in StallReasons
    BY <1>2 DEF CommitDone, classify_commit_stall, StallReasons
  <2>2. stage' \in Stages /\ pos' \in Nat \ {0} /\ count' \in Nat
    BY <1>2, GoToType DEF CommitDone, Stages
  <2>. QED
    BY <1>2, <2>1, <2>2 DEF TypeOK, CommitDone, robVars, queueVars, clockVars
<1>. QED  BY <1>1, <1>2

\* The issue loops keep the types.
LEMMA IssueType ==
  ASSUME TypeOK, NEW u \in Units,
         \/ NotReady(u) \/ ScanDone(u)
         \/ u \in {"alu", "bru"} /\ ExecIssue(u)
         \/ u \in {"sta", "std"} /\ StoreIssue(u)
  PROVE  TypeOK'
<1>. DEFINE s == iq[u][pos]
            done == total_cycles + Latency[u]
<1>0. done \in Nat
  <2>1. total_cycles \in Nat
    BY StateNumbers
  <2>2. Latency[u] \in Nat
    BY BackendAssumption
  <2>. QED  BY ONLY <2>1, <2>2
<1>1. CASE ExecIssue(u)
  <2>1. Scanning(u) /\ s \in Slots /\ rob[s] \in OpEntry /\ rob[s].inst \in TraceInst
    BY <1>1, ScanSlot DEF ExecIssue
  <2>2. rob' \in [Slots -> OpEntry]
    BY <1>0, <1>1, <2>1 DEF ExecIssue, TypeOK, OpEntry
  <2>3. reg_ready_time' \in [Regs -> Nat]
    BY <1>0, <1>1, <2>1, MarkReadyType DEF ExecIssue, TraceInst
  <2>4. iq' \in [Units -> Seq(Slots)] /\ count' \in Nat /\ stage' \in Stages /\ pos' \in Nat \ {0}
    BY <1>1, <2>1, IssuedType DEF ExecIssue
  <2>. QED
    BY <1>1, <2>2, <2>3, <2>4
       DEF TypeOK, ExecIssue, outsideIssue, queueVars, clockVars, markVars
<1>2. CASE StoreIssue(u)
  <2>1. Scanning(u) /\ s \in Slots /\ rob[s] \in OpEntry
    BY <1>2, ScanSlot DEF StoreIssue
  <2>2. StaDone(rob[s], done) \in OpEntry /\ StdDone(rob[s], done) \in OpEntry
    BY <1>0, <2>1 DEF StaDone, StdDone, OpEntry, Later
  <2>3. rob' \in [Slots -> OpEntry]
    BY <1>2, <2>1, <2>2 DEF StoreIssue, TypeOK
  <2>4. iq' \in [Units -> Seq(Slots)] /\ count' \in Nat /\ stage' \in Stages /\ pos' \in Nat \ {0}
    BY <1>2, <2>1, IssuedType DEF StoreIssue
  <2>. QED
    BY <1>2, <2>3, <2>4
       DEF TypeOK, StoreIssue, outsideIssue, queueVars, clockVars, markVars
<1>3. CASE NotReady(u)
  BY <1>3, PassedType
     DEF TypeOK, NotReady, outsideIssue, queueVars, clockVars, markVars
<1>4. CASE ScanDone(u)
  <2>1. Following[u] \in Stages
    BY DEF Following, Units, Stages
  <2>. QED
    BY <1>4, <2>1, GoToType
       DEF TypeOK, ScanDone, outsideIssue, queueVars, clockVars, markVars
<1>. QED  BY <1>1, <1>2, <1>3, <1>4

\* LoadStoreUnit keeps the types.
LEMMA LoadType ==
  ASSUME TypeOK, NEW s \in Slots,
         \/ LoadStalled(s) \/ LoadForwarded(s)
         \/ \E res \in MemResults : LoadBlocked(s, res) \/ LoadAccessed(s, res)
  PROVE  TypeOK'
<1>1. Loading(s) /\ Scanning("ldu") /\ rob[s] \in OpEntry /\ rob[s].inst \in TraceInst
  BY DEF LoadStalled, LoadForwarded, LoadBlocked, LoadAccessed, Loading, TypeOK, OpEntry
<1>2. ASSUME NEW done \in Nat, NEW waiting \in BOOLEAN, LoadExecuted(s, done, waiting)
      PROVE  /\ rob' \in [Slots -> OpEntry] /\ reg_ready_time' \in [Regs -> Nat]
             /\ iq' \in [Units -> Seq(Slots)] /\ count' \in Nat
             /\ stage' \in Stages /\ pos' \in Nat \ {0}
  <2>1. rob' \in [Slots -> OpEntry]
    BY <1>1, <1>2 DEF LoadExecuted, TypeOK, OpEntry
  <2>2. reg_ready_time' \in [Regs -> Nat]
    BY <1>1, <1>2, MarkReadyType DEF LoadExecuted, TraceInst
  <2>. QED  BY <1>1, <1>2, <2>1, <2>2, IssuedType DEF LoadExecuted, Units
<1>3. ASSUME NEW waiting \in BOOLEAN, LoadRefused(s, waiting)
      PROVE  /\ rob' \in [Slots -> OpEntry] /\ reg_ready_time' \in [Regs -> Nat]
             /\ iq' \in [Units -> Seq(Slots)] /\ count' \in Nat
             /\ stage' \in Stages /\ pos' \in Nat \ {0}
  <2>1. rob' \in [Slots -> OpEntry]
    BY <1>1, <1>3 DEF LoadRefused, TypeOK, OpEntry
  <2>. QED  BY <1>3, <2>1, PassedType DEF LoadRefused, TypeOK
<1>4. CASE LoadStalled(s)
  BY <1>3, <1>4 DEF TypeOK, LoadStalled, outsideIssue, queueVars, clockVars, markVars
<1>5. CASE LoadForwarded(s)
  <2>1. total_cycles + 1 \in Nat
    BY DEF TypeOK
  <2>. QED
    BY <1>2, <1>5, <2>1 DEF TypeOK, LoadForwarded, outsideIssue, queueVars, clockVars, markVars
<1>6. ASSUME NEW res \in MemResults, LoadBlocked(s, res) PROVE TypeOK'
  <2>1. LoadRefused(s, TRUE) /\ blocked' = blocked + 1 /\ UNCHANGED outsideIssue
    BY <1>6 DEF LoadBlocked
  <2>2. /\ rob' \in [Slots -> OpEntry] /\ reg_ready_time' \in [Regs -> Nat]
        /\ iq' \in [Units -> Seq(Slots)] /\ count' \in Nat
        /\ stage' \in Stages /\ pos' \in Nat \ {0}
    BY <1>3, <2>1
  <2>. QED
    BY <2>1, <2>2 DEF TypeOK, outsideIssue, queueVars, clockVars, markVars
<1>7. ASSUME NEW res \in MemResults, LoadAccessed(s, res) PROVE TypeOK'
  <2>1. total_cycles + res.latency \in Nat /\ (~res.l1_hit) \in BOOLEAN
    <3>1. res \in [blocked : BOOLEAN, l1_hit : BOOLEAN, latency : Nat]
      BY BackendAssumption
    <3>2. res.l1_hit \in BOOLEAN /\ res.latency \in Nat /\ total_cycles \in Nat
      BY <3>1 DEF TypeOK
    <3>. QED  BY <3>2
  <2>. QED
    BY <1>2, <1>7, <2>1 DEF TypeOK, LoadAccessed, outsideIssue, queueVars, clockVars, markVars
<1>. QED  BY <1>4, <1>5, <1>6, <1>7

\* dispatch_stage and decode_stage keep the types.
LEMMA DispatchType ==
  ASSUME TypeOK, Dispatch \/ DispatchDone \/ Decode \/ DecodeDone
  PROVE  TypeOK'
<1>1. CASE Dispatch
  <2>. DEFINE op == Head(fetch_queue)
  <2>1. /\ op \in OpEntry /\ fetch_queue' \in Seq(OpEntry)
    BY <1>1, HeadTailProperties DEF Advance, TypeOK, Dispatch, MoreToDispatch
  <2>2. rob_count < RobSize
    BY <1>1, BackendAssumption DEF Advance, TypeOK, Dispatch, DispatchStall
  <2>3. rob' \in [Slots -> OpEntry]
    BY <1>1, <2>1 DEF Advance, TypeOK, Dispatch
  <2>4. rob_tail' \in Slots /\ rob_count' \in 0 .. RobSize /\ count' \in Nat
    BY <1>1, <2>2, BackendAssumption DEF Advance, TypeOK, Dispatch, Slots
  <2>5. /\ \A u \in Units : Append(iq[u], rob_tail) \in Seq(Slots)
        /\ Append(store_indices, rob_tail) \in Seq(Slots)
    BY AppendProperties DEF TypeOK
  <2>6. iq' \in [Units -> Seq(Slots)] /\ store_indices' \in Seq(Slots)
    BY <1>1, <2>5 DEF Advance, TypeOK, Dispatch
  <2>. QED
    BY <1>1, <2>1, <2>3, <2>4, <2>6 DEF Advance, TypeOK, Dispatch, clockVars, markVars
<1>2. CASE DispatchDone
  <2>1. backend_stall' \in StallReasons
    <3>1. CASE MoreToDispatch
      <4>1. Head(fetch_queue).inst \in TraceInst
        <5>1. Head(fetch_queue) \in OpEntry
          BY <3>1, HeadTailProperties DEF TypeOK, MoreToDispatch
        <5>. QED  BY <5>1 DEF OpEntry
      <4>. QED  BY <1>2, <3>1, <4>1, DispatchStallType DEF DispatchDone, TypeOK
    <3>2. CASE ~MoreToDispatch
      BY <1>2, <3>2 DEF DispatchDone, TypeOK
    <3>. QED  BY <3>1, <3>2
  <2>. QED
    BY <1>2, <2>1, GoToType
       DEF TypeOK, DispatchDone, robVars, queueVars, clockVars, Stages
<1>3. CASE Decode
  <2>1. fetch_queue' \in Seq(OpEntry) /\ inst_buffer' \in Seq(OpEntry)
    BY <1>3, HeadTailProperties, AppendProperties DEF TypeOK, Decode, CanDecode
  <2>. QED
    BY <1>3, <2>1 DEF TypeOK, Decode, outsideQueues, robVars, clockVars, markVars, loopVars
<1>4. CASE DecodeDone
  BY <1>4, GoToType
     DEF TypeOK, DecodeDone, outsideQueues, robVars, queueVars, clockVars, markVars, Stages
<1>. QED  BY <1>1, <1>2, <1>3, <1>4

\* The front end and the end of the cycle keep the types.
LEMMA FetchType ==
  ASSUME TypeOK, (\E i \in Insts : Fetch(i)) \/ ReachLimit \/ EndTrace \/ FetchDone \/ MarkCycle
  PROVE  TypeOK'
<1>1. ASSUME NEW i \in Insts, Fetch(i) PROVE TypeOK'
  <2>1. inst_buffer' \in Seq(OpEntry)
    <3>1. Fresh(i, next_entry_id) \in OpEntry
      BY FreshType, BackendAssumption DEF TypeOK
    <3>. QED  BY <1>1, <3>1, AppendProperties DEF TypeOK, Fetch
  <2>2. given_back' \in BOOLEAN /\ sim_end' \in BOOLEAN
    BY <1>1 DEF TypeOK, Fetch
  <2>3. next_entry_id' \in Nat /\ count' \in Nat
    BY <1>1 DEF TypeOK, Fetch
  <2>. QED
    BY <1>1, <2>1, <2>2, <2>3 DEF TypeOK, Fetch, outsideQueues, robVars, markVars
<1>2. CASE ReachLimit \/ EndTrace
  BY <1>2 DEF TypeOK, ReachLimit, EndTrace, outsideQueues, robVars, queueVars, markVars,
         loopVars
<1>3. CASE FetchDone
  <2>1. given_back' \in BOOLEAN /\ sim_end' \in BOOLEAN
    BY <1>3 DEF TypeOK, FetchDone
  <2>2. stage' \in Stages /\ pos' \in Nat \ {0} /\ count' \in Nat
    BY <1>3, GoToType DEF FetchDone, Stages
  <2>3. idle' \in Nat
    BY <1>3 DEF TypeOK, FetchDone
  <2>. QED
    BY <1>3, <2>1, <2>2, <2>3
       DEF TypeOK, FetchDone, outsideQueues, robVars, queueVars, markVars
<1>4. CASE MarkCycle
  BY <1>4, GoToType
     DEF TypeOK, MarkCycle, outsideQueues, robVars, queueVars, markVars, Stages
<1>. QED  BY <1>1, <1>2, <1>3, <1>4

LEMMA NextType == TypeOK /\ [Next]_vars => TypeOK'
<1>. SUFFICES ASSUME TypeOK, [Next]_vars PROVE TypeOK'
  OBVIOUS
<1>1. CASE UNCHANGED vars
  BY <1>1 DEF TypeOK, vars, robVars, queueVars, clockVars, markVars, loopVars
<1>2. CASE Next
  BY <1>2, CommitType, IssueType, LoadType, DispatchType, FetchType DEF Next, Units
<1>. QED  BY <1>1, <1>2

\* The state of TraceSim.h keeps its types, for every size and trace.
THEOREM TypeCorrect == Spec => []TypeOK
BY InitType, NextType, PTL DEF Spec

-----------------------------------------------------------------------------
(* Program order: the reorder buffer, the fetch queue and the instruction  *)
(* buffer hold the instructions in flight, numbered without a gap.         *)

\* The pointers of the ring advance by one and wrap at the end.
LEMMA NextSlot ==
  ASSUME NEW n \in Nat \ {0}, NEW a \in Nat, a < n
  PROVE  (a + 1) % n = IF a + 1 < n THEN a + 1 ELSE 0
<1>. DEFINE b == a + 1
<1>1. b \in Nat /\ b < 2 * n /\ (b < n \/ b = n)
  OBVIOUS
<1>. HIDE DEF b
<1>2. b % n = IF b < n THEN b ELSE b - n
  BY ONLY <1>1, n \in Nat \ {0}, ModOnce
<1>3. b % n = IF b < n THEN b ELSE 0
  BY <1>1, <1>2
<1>. QED  BY <1>3 DEF b

LEMMA RobSlotValue ==
  ASSUME TypeOK, NEW k \in 0 .. RobSize
  PROVE  /\ RobSlot(k) \in Slots
         /\ RobSlot(k) = IF rob_head + k < RobSize THEN rob_head + k
                         ELSE rob_head + k - RobSize
<1>1. /\ RobSize \in Nat \ {0} /\ rob_head \in Nat /\ rob_head < RobSize
      /\ k \in Nat /\ k <= RobSize
  BY BackendAssumption DEF TypeOK, Slots
<1>2. rob_head + k \in Nat /\ rob_head + k < 2 * RobSize
  BY <1>1
<1>3. RobSlot(k) = IF rob_head + k < RobSize THEN rob_head + k
                   ELSE rob_head + k - RobSize
  <2>1. PICK a \in Nat : a = rob_head + k
    BY <1>2
  <2>2. RobSlot(k) = a % RobSize
    BY <2>1 DEF RobSlot
  <2>3. a % RobSize = IF a < RobSize THEN a ELSE a - RobSize
    BY ONLY <1>1, <1>2, <2>1, ModOnce
  <2>. QED  BY <1>1, <2>1, <2>2, <2>3
<1>. QED  BY <1>1, <1>3 DEF Slots

\* Different ages, different slots.
LEMMA RobSlotInjective ==
  ASSUME TypeOK, NEW j \in 0 .. RobSize - 1, NEW k \in 0 .. RobSize - 1,
         RobSlot(j) = RobSlot(k)
  PROVE  j = k
<1>1. /\ RobSize \in Nat \ {0} /\ rob_head \in Nat /\ rob_head < RobSize
      /\ j \in 0 .. RobSize /\ k \in 0 .. RobSize
  BY BackendAssumption DEF TypeOK, Slots
<1>. QED  BY <1>1, RobSlotValue

\* Advancing the head moves every age down by one.
LEMMA RobSlotAfterCommit ==
  ASSUME TypeOK, Commit, NEW k \in 0 .. RobSize - 1
  PROVE  RobSlot(k)' = RobSlot(k + 1)
<1>1. /\ RobSize \in Nat \ {0} /\ rob_head \in Nat /\ rob_head < RobSize
      /\ k \in Nat /\ k < RobSize
  BY BackendAssumption DEF TypeOK, Slots
<1>2. rob_head' = (rob_head + 1) % RobSize
  BY DEF Advance, PoppedStores, Commit
<1>3. rob_head' = IF rob_head + 1 < RobSize THEN rob_head + 1 ELSE 0
  <2>. QED  BY ONLY <1>1, <1>2, NextSlot
<1>4. rob_head' + k \in Nat /\ rob_head' + k < 2 * RobSize
  BY <1>1, <1>3
<1>5. RobSlot(k)' = IF rob_head' + k < RobSize THEN rob_head' + k
                    ELSE rob_head' + k - RobSize
  <2>1. PICK a \in Nat : a = rob_head' + k
    BY <1>4
  <2>2. RobSlot(k)' = a % RobSize
    BY <2>1 DEF RobSlot
  <2>3. a % RobSize = IF a < RobSize THEN a ELSE a - RobSize
    BY ONLY <1>1, <1>4, <2>1, ModOnce
  <2>. QED  BY <1>1, <1>3, <2>1, <2>2, <2>3
<1>6. RobSlot(k + 1) = IF rob_head + (k + 1) < RobSize THEN rob_head + (k + 1)
                       ELSE rob_head + (k + 1) - RobSize
  <2>1. k + 1 \in 0 .. RobSize
    BY <1>1
  <2>. QED  BY <2>1, RobSlotValue
<1>. QED  BY <1>1, <1>3, <1>5, <1>6

-----------------------------------------------------------------------------
(* What an issue step changes in the reorder buffer                        *)

\* A step of one of the issue loops.
IssueStep ==
  \/ \E u \in Units : NotReady(u) \/ ScanDone(u)
  \/ \E u \in {"alu", "bru"} : ExecIssue(u)
  \/ \E u \in {"sta", "std"} : StoreIssue(u)
  \/ \E s \in Slots : \/ LoadStalled(s) \/ LoadForwarded(s)
                      \/ \E res \in MemResults : LoadBlocked(s, res) \/ LoadAccessed(s, res)

\* It never changes which instruction a slot holds.
LEMMA IssueKeepsEntries ==
  ASSUME TypeOK, IssueStep
  PROVE  /\ \A s \in Slots : /\ rob'[s].entry_id = rob[s].entry_id
                             /\ rob'[s].inst = rob[s].inst
         /\ UNCHANGED <<rob_head, rob_tail, rob_count, store_indices,
                        queueVars, clockVars>>
<1>0. rob \in [Slots -> OpEntry]
  BY DEF TypeOK
<1>1. ASSUME NEW u \in Units, NotReady(u) \/ ScanDone(u)
      PROVE  UNCHANGED <<rob, outsideIssue>>
  BY <1>1 DEF NotReady, ScanDone
<1>2. ASSUME NEW u \in {"alu", "bru"}, ExecIssue(u)
      PROVE  /\ \A s \in Slots : /\ rob'[s].entry_id = rob[s].entry_id
                                 /\ rob'[s].inst = rob[s].inst
             /\ UNCHANGED outsideIssue
  BY <1>0, <1>2 DEF ExecIssue, OpEntry
<1>3. ASSUME NEW u \in {"sta", "std"}, StoreIssue(u)
      PROVE  /\ \A s \in Slots : /\ rob'[s].entry_id = rob[s].entry_id
                                 /\ rob'[s].inst = rob[s].inst
             /\ UNCHANGED outsideIssue
  <2>1. ASSUME NEW op \in OpEntry, NEW done
        PROVE  /\ StaDone(op, done).entry_id = op.entry_id /\ StaDone(op, done).inst = op.inst
               /\ StdDone(op, done).entry_id = op.entry_id /\ StdDone(op, done).inst = op.inst
    BY DEF StaDone, StdDone, OpEntry
  <2>. DEFINE s == iq[u][pos]
              done == total_cycles + Latency[u]
  <2>2. rob' = [rob EXCEPT ![s] = IF u = "sta" THEN StaDone(rob[s], done)
                                               ELSE StdDone(rob[s], done)]
        /\ UNCHANGED outsideIssue
    BY <1>3 DEF StoreIssue
  <2>. HIDE DEF s, done
  <2>. QED  BY <1>0, <2>1, <2>2
<1>4. ASSUME NEW s \in Slots,
             \/ LoadStalled(s) \/ LoadForwarded(s)
             \/ \E res \in MemResults : LoadBlocked(s, res) \/ LoadAccessed(s, res)
      PROVE  /\ \A t \in Slots : /\ rob'[t].entry_id = rob[t].entry_id
                                 /\ rob'[t].inst = rob[t].inst
             /\ UNCHANGED outsideIssue
  <2>1. ASSUME NEW done, NEW waiting, LoadExecuted(s, done, waiting)
        PROVE  \A t \in Slots : rob'[t].entry_id = rob[t].entry_id /\ rob'[t].inst = rob[t].inst
    BY <1>0, <2>1 DEF LoadExecuted, OpEntry
  <2>2. ASSUME NEW waiting, LoadRefused(s, waiting)
        PROVE  \A t \in Slots : rob'[t].entry_id = rob[t].entry_id /\ rob'[t].inst = rob[t].inst
    BY <1>0, <2>2 DEF LoadRefused, OpEntry
  <2>. QED
    BY <1>4, <2>1, <2>2 DEF LoadStalled, LoadForwarded, LoadBlocked, LoadAccessed
<1>. QED  BY <1>1, <1>2, <1>3, <1>4 DEF IssueStep, outsideIssue

-----------------------------------------------------------------------------
(* The invariant                                                           *)

OrderInv == TypeOK /\ InOrder

LEMMA InitOrder == Init => OrderInv
<1>. SUFFICES ASSUME Init PROVE OrderInv
  OBVIOUS
<1>1. TypeOK
  BY InitType
<1>2. RobSlot(0) = 0
  BY <1>1, RobSlotValue, BackendAssumption DEF Init
<1>. QED  BY <1>1, <1>2, EmptySeq DEF Init, OrderInv, InOrder

\* Steps that move no instruction.
LEMMA FrameOrder ==
  ASSUME InOrder, TypeOK,
         \A s \in Slots : rob'[s].entry_id = rob[s].entry_id,
         UNCHANGED <<rob_head, rob_tail, rob_count, queueVars,
                     next_entry_id, instructions_retired>>
  PROVE  InOrder'
<1>1. ASSUME NEW k \in 0 .. rob_count - 1 PROVE RobSlot(k) \in Slots
  <2>1. k \in 0 .. RobSize
    BY BackendAssumption DEF TypeOK
  <2>. QED  BY <2>1, RobSlotValue
<1>. QED  BY <1>1 DEF InOrder, RobSlot, queueVars

LEMMA CommitOrder == ASSUME OrderInv, Commit PROVE InOrder'
<1>0. /\ TypeOK /\ InOrder /\ RobSize \in Nat \ {0}
      /\ rob_count \in 1 .. RobSize /\ instructions_retired \in Nat
      /\ rob_count' = rob_count - 1 /\ instructions_retired' = instructions_retired + 1
      /\ UNCHANGED <<rob, rob_tail, queueVars, next_entry_id>>
  <2>1. /\ rob_count > 0 /\ rob_count' = rob_count - 1
        /\ instructions_retired' = instructions_retired + 1
        /\ UNCHANGED <<rob, rob_tail, queueVars, next_entry_id>>
    BY DEF Commit, CanCommit
  <2>2. TypeOK /\ InOrder
    BY DEF OrderInv
  <2>. QED  BY <2>1, <2>2, StateNumbers
<1>1. \A k \in 0 .. RobSize - 1 : RobSlot(k)' = RobSlot(k + 1)
  BY <1>0, RobSlotAfterCommit
<1>2. rob_tail' = RobSlot(rob_count)'
  <2>1. rob_count - 1 \in 0 .. RobSize - 1 /\ (rob_count - 1) + 1 = rob_count
    BY <1>0
  <2>2. (rob_head' + (rob_count - 1)) % RobSize = RobSlot((rob_count - 1) + 1)
    BY <1>1, <2>1 DEF RobSlot
  <2>3. RobSlot(rob_count)' = (rob_head' + (rob_count - 1)) % RobSize
    BY ONLY <1>0 DEF RobSlot
  <2>4. rob_tail' = RobSlot(rob_count)
    BY <1>0 DEF InOrder
  <2>. QED  BY ONLY <2>1, <2>2, <2>3, <2>4
<1>3. ASSUME NEW k \in 0 .. rob_count' - 1
      PROVE  rob'[RobSlot(k)'].entry_id = instructions_retired' + k
  <2>1. k + 1 \in 0 .. rob_count - 1 /\ k \in 0 .. RobSize - 1
    BY <1>0
  <2>. QED  BY <1>0, <1>1, <2>1 DEF InOrder
<1>. QED  BY <1>0, <1>2, <1>3 DEF InOrder, RobSlot, queueVars

LEMMA DispatchOrder == ASSUME OrderInv, Dispatch PROVE InOrder'
<1>. DEFINE op == Head(fetch_queue)
<1>0. /\ TypeOK /\ InOrder /\ fetch_queue # <<>>
      /\ rob' = [rob EXCEPT ![rob_tail] = op]
      /\ rob_tail' = (rob_tail + 1) % RobSize /\ rob_count' = rob_count + 1
      /\ fetch_queue' = Tail(fetch_queue)
      /\ UNCHANGED <<rob_head, inst_buffer, next_entry_id, instructions_retired>>
  BY DEF Advance, OrderInv, Dispatch, MoreToDispatch, clockVars
<1>1. rob_count \in Nat /\ rob_count < RobSize /\ RobSize \in Nat \ {0}
  BY <1>0, BackendAssumption DEF Advance, TypeOK, Dispatch, DispatchStall
<1>2. /\ Len(fetch_queue) \in Nat \ {0} /\ op = fetch_queue[1]
      /\ Len(Tail(fetch_queue)) = Len(fetch_queue) - 1
      /\ \A k \in 1 .. Len(fetch_queue) - 1 : Tail(fetch_queue)[k] = fetch_queue[k + 1]
  BY <1>0, HeadTailProperties, EmptySeq DEF TypeOK
<1>3. rob_tail = RobSlot(rob_count) /\ rob_tail \in Slots
  BY <1>0 DEF InOrder, TypeOK
<1>4. op.entry_id = instructions_retired + rob_count
  BY <1>0, <1>1, <1>2 DEF InOrder, TypeOK
<1>5. rob_tail' = RobSlot(rob_count + 1)
  <2>1. /\ rob_head \in Nat /\ rob_head < RobSize
        /\ rob_count \in 0 .. RobSize /\ rob_count + 1 \in 0 .. RobSize
    BY <1>0, <1>1 DEF TypeOK, Slots
  <2>2. /\ RobSlot(rob_count) = IF rob_head + rob_count < RobSize THEN rob_head + rob_count
                                ELSE rob_head + rob_count - RobSize
        /\ RobSlot(rob_count + 1) = IF rob_head + (rob_count + 1) < RobSize
                                    THEN rob_head + (rob_count + 1)
                                    ELSE rob_head + (rob_count + 1) - RobSize
    BY <1>0, <2>1, RobSlotValue
  <2>3. rob_tail \in Nat /\ rob_tail < RobSize
    BY <1>1, <1>3 DEF Slots
  <2>4. (rob_tail + 1) % RobSize = IF rob_tail + 1 < RobSize THEN rob_tail + 1 ELSE 0
    BY ONLY <1>1, <2>3, NextSlot
  <2>. QED  BY <1>0, <1>1, <1>3, <2>1, <2>2, <2>3, <2>4
<1>6. ASSUME NEW k \in 0 .. rob_count
      PROVE  rob'[RobSlot(k)].entry_id = instructions_retired + k
  <2>1. k \in 0 .. RobSize - 1 /\ rob_count \in 0 .. RobSize - 1 /\ RobSlot(k) \in Slots
    BY <1>0, <1>1, RobSlotValue
  <2>2. CASE k = rob_count
    BY <1>0, <1>3, <1>4, <2>2 DEF TypeOK
  <2>3. CASE k # rob_count
    <3>1. RobSlot(k) # rob_tail
      BY <1>0, <1>3, <2>1, <2>3, RobSlotInjective
    <3>2. k \in 0 .. rob_count - 1
      BY <1>1, <2>3
    <3>. QED  BY <1>0, <2>1, <3>1, <3>2 DEF InOrder, TypeOK
  <2>. QED  BY <2>2, <2>3
<1>7. RobSlot(0)' = RobSlot(0) /\ \A k : RobSlot(k)' = RobSlot(k)
  BY <1>0 DEF RobSlot
<1>8. \A k \in 1 .. Len(fetch_queue') :
        fetch_queue'[k].entry_id = instructions_retired + rob_count' + k - 1
  <2>. TAKE k \in 1 .. Len(fetch_queue')
  <2>1. k + 1 \in 1 .. Len(fetch_queue) /\ fetch_queue'[k] = fetch_queue[k + 1]
    BY <1>0, <1>2
  <2>2. fetch_queue[k + 1].entry_id = instructions_retired + rob_count + (k + 1) - 1
    BY <1>0, <2>1 DEF InOrder
  <2>3. k \in Nat /\ instructions_retired \in Nat /\ rob_count' = rob_count + 1
    BY <1>0, <2>1 DEF TypeOK
  <2>4. instructions_retired + rob_count + (k + 1) - 1 = instructions_retired + rob_count' + k - 1
    BY ONLY <1>1, <2>3
  <2>. QED  BY ONLY <2>1, <2>2, <2>4
<1>9. \A k \in 1 .. Len(inst_buffer') :
        inst_buffer'[k].entry_id =
          instructions_retired + rob_count' + Len(fetch_queue') + k - 1
  <2>1. rob_count' + Len(fetch_queue') = rob_count + Len(fetch_queue)
    BY <1>0, <1>1, <1>2
  <2>2. instructions_retired \in Nat
    BY <1>0 DEF TypeOK
  <2>. QED  BY <1>0, <1>1, <1>2, <2>1, <2>2 DEF InOrder
<1>10. next_entry_id' = instructions_retired' + rob_count' + Len(fetch_queue') + Len(inst_buffer')
  BY <1>0, <1>1, <1>2 DEF InOrder, TypeOK
<1>. QED  BY <1>0, <1>1, <1>5, <1>6, <1>7, <1>8, <1>9, <1>10 DEF InOrder

LEMMA DecodeOrder == ASSUME OrderInv, Decode PROVE InOrder'
<1>. DEFINE op == Head(inst_buffer)
<1>0. /\ TypeOK /\ InOrder /\ inst_buffer # <<>>
      /\ fetch_queue' = Append(fetch_queue, op)
      /\ inst_buffer' = Tail(inst_buffer)
      /\ UNCHANGED <<robVars, next_entry_id, instructions_retired>>
  BY DEF OrderInv, Decode, CanDecode, outsideQueues, clockVars
<1>1. /\ instructions_retired \in Nat /\ rob_count \in Nat
      /\ fetch_queue \in Seq(OpEntry) /\ inst_buffer \in Seq(OpEntry)
      /\ Len(fetch_queue) \in Nat
  BY <1>0, BackendAssumption DEF TypeOK
<1>2. /\ Len(inst_buffer) \in Nat \ {0} /\ op = inst_buffer[1] /\ op \in OpEntry
      /\ Len(inst_buffer') = Len(inst_buffer) - 1
      /\ \A k \in 1 .. Len(inst_buffer) - 1 : inst_buffer'[k] = inst_buffer[k + 1]
  BY <1>0, <1>1, HeadTailProperties, EmptySeq
<1>3. /\ Len(fetch_queue') = Len(fetch_queue) + 1
      /\ \A k \in 1 .. Len(fetch_queue) : fetch_queue'[k] = fetch_queue[k]
      /\ fetch_queue'[Len(fetch_queue) + 1] = op
  BY <1>0, <1>1, <1>2, AppendProperties
<1>. HIDE DEF op
<1>4. op.entry_id = instructions_retired + rob_count + Len(fetch_queue)
  BY <1>0, <1>1, <1>2 DEF InOrder
<1>5. ASSUME NEW k \in 1 .. Len(fetch_queue')
      PROVE  fetch_queue'[k].entry_id = instructions_retired + rob_count + k - 1
  <2>1. CASE k \in 1 .. Len(fetch_queue)
    BY <1>0, <1>3, <2>1 DEF InOrder
  <2>2. CASE k = Len(fetch_queue) + 1
    BY <1>1, <1>3, <1>4, <2>2
  <2>. QED  BY <1>1, <1>3, <2>1, <2>2
<1>6. ASSUME NEW k \in 1 .. Len(inst_buffer')
      PROVE  inst_buffer'[k].entry_id =
               instructions_retired + rob_count + Len(fetch_queue') + k - 1
  <2>1. k \in 1 .. Len(inst_buffer) - 1 /\ k + 1 \in 1 .. Len(inst_buffer)
    BY <1>2
  <2>2. inst_buffer[k + 1].entry_id =
          instructions_retired + rob_count + Len(fetch_queue) + (k + 1) - 1
    BY <1>0, <2>1 DEF InOrder
  <2>3. instructions_retired + rob_count + Len(fetch_queue) + (k + 1) - 1
          = instructions_retired + rob_count + Len(fetch_queue') + k - 1
    BY ONLY <1>1, <1>3, <2>1
  <2>. QED  BY <1>2, <2>1, <2>2, <2>3
<1>7. next_entry_id' = instructions_retired + rob_count + Len(fetch_queue') + Len(inst_buffer')
  BY <1>0, <1>1, <1>2, <1>3 DEF InOrder
<1>8. \A k : RobSlot(k)' = RobSlot(k)
  BY <1>0 DEF RobSlot, robVars
<1>. QED  BY <1>0, <1>5, <1>6, <1>7, <1>8 DEF InOrder, robVars

LEMMA FetchOrder == ASSUME OrderInv, NEW i \in Insts, Fetch(i) PROVE InOrder'
<1>. DEFINE op == Fresh(i, next_entry_id)
<1>0. /\ TypeOK /\ InOrder
      /\ inst_buffer' = Append(inst_buffer, op)
      /\ next_entry_id' = next_entry_id + 1
      /\ UNCHANGED <<robVars, fetch_queue, instructions_retired>>
  BY DEF OrderInv, Fetch, outsideQueues
<1>1. /\ instructions_retired \in Nat /\ rob_count \in Nat
      /\ inst_buffer \in Seq(OpEntry) /\ op \in OpEntry
      /\ Len(fetch_queue) \in Nat /\ Len(inst_buffer) \in Nat
  BY <1>0, BackendAssumption, FreshType DEF TypeOK
<1>2. op.entry_id = next_entry_id
  BY DEF Fresh
<1>. HIDE DEF op
<1>3. /\ Len(inst_buffer') = Len(inst_buffer) + 1
      /\ \A k \in 1 .. Len(inst_buffer) : inst_buffer'[k] = inst_buffer[k]
      /\ inst_buffer'[Len(inst_buffer) + 1] = op
  BY <1>0, <1>1, AppendProperties
<1>4. ASSUME NEW k \in 1 .. Len(inst_buffer')
      PROVE  inst_buffer'[k].entry_id =
               instructions_retired + rob_count + Len(fetch_queue) + k - 1
  <2>1. CASE k \in 1 .. Len(inst_buffer)
    BY <1>0, <1>3, <2>1 DEF InOrder
  <2>2. CASE k = Len(inst_buffer) + 1
    BY <1>0, <1>1, <1>2, <1>3, <2>2 DEF InOrder
  <2>. QED  BY <1>1, <1>3, <2>1, <2>2
<1>5. next_entry_id' = instructions_retired + rob_count + Len(fetch_queue) + Len(inst_buffer')
  <2>1. next_entry_id = instructions_retired + rob_count + Len(fetch_queue) + Len(inst_buffer)
    BY <1>0 DEF InOrder
  <2>2. next_entry_id' = next_entry_id + 1 /\ Len(inst_buffer') = Len(inst_buffer) + 1
    BY <1>0, <1>3
  <2>. QED  BY ONLY <1>1, <2>1, <2>2
<1>6. \A k : RobSlot(k)' = RobSlot(k)
  BY <1>0 DEF RobSlot, robVars
<1>. QED  BY <1>0, <1>4, <1>5, <1>6 DEF InOrder, robVars

LEMMA OrderInductive == OrderInv /\ [Next]_vars => OrderInv'
<1>. SUFFICES ASSUME OrderInv, [Next]_vars PROVE OrderInv'
  OBVIOUS
<1>0. TypeOK /\ InOrder
  BY DEF OrderInv
<1>1. TypeOK'
  BY <1>0, NextType
<1>2. ASSUME \/ CommitDone \/ DispatchDone \/ DecodeDone
             \/ ReachLimit \/ EndTrace \/ FetchDone \/ MarkCycle \/ UNCHANGED vars
      PROVE  InOrder'
  <2>1. UNCHANGED <<robVars, queueVars, next_entry_id, instructions_retired>>
    BY <1>2 DEF CommitDone, DispatchDone, DecodeDone, ReachLimit, EndTrace, FetchDone,
                MarkCycle, vars, outsideQueues, clockVars
  <2>. QED  BY <1>0, <2>1, FrameOrder DEF robVars
<1>3. ASSUME IssueStep PROVE InOrder'
  <2>1. /\ \A s \in Slots : rob'[s].entry_id = rob[s].entry_id
        /\ UNCHANGED <<rob_head, rob_tail, rob_count, queueVars, clockVars>>
    BY <1>0, <1>3, IssueKeepsEntries
  <2>2. UNCHANGED <<next_entry_id, instructions_retired>>
    BY <2>1 DEF clockVars
  <2>. QED  BY <1>0, <2>1, <2>2, FrameOrder
<1>4. ASSUME Commit PROVE InOrder'
  BY <1>4, CommitOrder
<1>5. ASSUME Dispatch PROVE InOrder'
  BY <1>5, DispatchOrder
<1>6. ASSUME Decode PROVE InOrder'
  BY <1>6, DecodeOrder
<1>7. ASSUME NEW i \in Insts, Fetch(i) PROVE InOrder'
  BY <1>7, FetchOrder
<1>. QED
  BY <1>1, <1>2, <1>3, <1>4, <1>5, <1>6, <1>7 DEF Next, IssueStep, OrderInv

\* Behind the instructions retired come, without a gap, the reorder buffer
\* from head to tail, the fetch queue and the instruction buffer: commit,
\* dispatch, decode and fetch keep program order whatever their widths.
THEOREM ProgramOrder == Spec => []InOrder
<1>1. OrderInv => InOrder
  BY DEF OrderInv
<1>. QED  BY <1>1, InitOrder, OrderInductive, PTL DEF Spec
-----------------------------------------------------------------------------
(* The pipeline implements InOrderPipe                                     *)

\* n consecutive numbers from lo.
From(lo, n) == [k \in 1 .. n |-> lo + k - 1]

LEMMA FromProperties ==
  ASSUME NEW lo \in Nat, NEW n \in Nat
  PROVE  /\ From(lo, n) \in Seq(Nat) /\ Len(From(lo, n)) = n
         /\ \A k \in 1 .. n : From(lo, n)[k] = lo + k - 1
BY DEF From

LEMMA SameNumbers ==
  ASSUME NEW q \in Seq(Nat), NEW lo \in Nat,
         \A k \in 1 .. Len(q) : q[k] = lo + k - 1
  PROVE  q = From(lo, Len(q))
<1>. DEFINE n == Len(q)
<1>1. n \in Nat
  OBVIOUS
<1>. HIDE DEF n
<1>2. /\ From(lo, n) \in Seq(Nat) /\ Len(From(lo, n)) = n
      /\ \A k \in 1 .. n : From(lo, n)[k] = lo + k - 1
  BY <1>1, FromProperties
<1>. QED  BY <1>2, SeqEqual DEF n

LEMMA FromConcat ==
  ASSUME NEW lo \in Nat, NEW m \in Nat, NEW n \in Nat
  PROVE  From(lo, m) \o From(lo + m, n) = From(lo, m + n)
<1>. DEFINE a == From(lo, m)
            b == From(lo + m, n)
            q == a \o b
<1>0. lo + m \in Nat
  OBVIOUS
<1>1. /\ a \in Seq(Nat) /\ Len(a) = m /\ \A k \in 1 .. m : a[k] = lo + k - 1
      /\ b \in Seq(Nat) /\ Len(b) = n /\ \A k \in 1 .. n : b[k] = lo + m + k - 1
  BY <1>0, FromProperties
<1>. HIDE DEF a, b
<1>2. /\ q \in Seq(Nat) /\ Len(q) = m + n
      /\ \A k \in 1 .. m + n : q[k] = IF k <= m THEN a[k] ELSE b[k - m]
  BY <1>1, ConcatProperties
<1>3. \A k \in 1 .. Len(q) : q[k] = lo + k - 1
  <2>. SUFFICES ASSUME NEW k \in 1 .. Len(q) PROVE q[k] = lo + k - 1
    OBVIOUS
  <2>1. CASE k <= m
    BY <1>1, <1>2, <2>1
  <2>2. CASE ~(k <= m)
    <3>1. k - m \in 1 .. n /\ q[k] = b[k - m]
      BY <1>2, <2>2
    <3>. QED  BY <1>1, <1>2, <3>1
  <2>. QED  BY <2>1, <2>2
<1>. HIDE DEF q
<1>4. q = From(lo, m + n)
  BY <1>2, <1>3, SameNumbers
<1>. QED  BY <1>4 DEF q, a, b

\* The numbers in flight are those from the last retired to the last fetched.
LEMMA InFlightIs ==
  ASSUME OrderInv
  PROVE  /\ InFlight = From(instructions_retired, next_entry_id - instructions_retired)
         /\ instructions_retired \in Nat /\ next_entry_id \in Nat
         /\ next_entry_id - instructions_retired =
              rob_count + Len(fetch_queue) + Len(inst_buffer)
         /\ {rob_count, Len(fetch_queue), Len(inst_buffer)} \subseteq Nat
<1>. DEFINE lo == instructions_retired
            inRob == [k \in 1 .. rob_count |-> rob[RobSlot(k - 1)].entry_id]
<1>1. /\ TypeOK /\ InOrder /\ lo \in Nat /\ next_entry_id \in Nat
      /\ rob_count \in Nat
      /\ fetch_queue \in Seq(OpEntry) /\ Len(fetch_queue) \in Nat
      /\ inst_buffer \in Seq(OpEntry) /\ Len(inst_buffer) \in Nat
      /\ next_entry_id = lo + rob_count + Len(fetch_queue) + Len(inst_buffer)
  <2>1. TypeOK /\ InOrder
    BY DEF OrderInv
  <2>2. next_entry_id = lo + rob_count + Len(fetch_queue) + Len(inst_buffer)
    BY <2>1 DEF InOrder
  <2>. QED  BY <2>1, <2>2, StateNumbers
<1>2. inRob = From(lo, rob_count)
  <2>1. \A k \in 1 .. rob_count : inRob[k] = lo + k - 1
    <3>. SUFFICES ASSUME NEW k \in 1 .. rob_count PROVE inRob[k] = lo + k - 1
      OBVIOUS
    <3>1. k - 1 \in 0 .. rob_count - 1
      BY <1>1
    <3>2. rob[RobSlot(k - 1)].entry_id = lo + (k - 1)
      BY <1>1, <3>1 DEF InOrder
    <3>. QED  BY <3>2
  <2>2. inRob \in Seq(Nat) /\ Len(inRob) = rob_count
    <3>1. rob_count \in Nat /\ lo \in Nat
      BY <1>1
    <3>. DEFINE At(k) == rob[RobSlot(k - 1)].entry_id
    <3>2. \A k \in 1 .. rob_count : At(k) \in Nat
      <4>. SUFFICES ASSUME NEW k \in 1 .. rob_count PROVE At(k) \in Nat
        OBVIOUS
      <4>1. At(k) = lo + k - 1
        BY <2>1
      <4>. HIDE DEF At, lo
      <4>. QED  BY ONLY <3>1, <4>1
    <3>3. inRob = [k \in 1 .. rob_count |-> At(k)]
      OBVIOUS
    <3>. HIDE DEF At, lo, inRob
    <3>. QED  BY ONLY <3>1, <3>2, <3>3
  <2>. HIDE DEF inRob
  <2>. QED  BY <1>1, <2>1, <2>2, SameNumbers
<1>3. Ids(fetch_queue) = From(lo + rob_count, Len(fetch_queue))
  BY <1>1 DEF InOrder, Ids, From
<1>4. Ids(inst_buffer) = From(lo + (rob_count + Len(fetch_queue)), Len(inst_buffer))
  <2>1. \A k \in 1 .. Len(inst_buffer) :
           inst_buffer[k].entry_id = lo + (rob_count + Len(fetch_queue)) + k - 1
    BY <1>1 DEF InOrder
  <2>. QED  BY <2>1 DEF Ids, From
<1>5. InFlight = From(lo, rob_count) \o Ids(fetch_queue) \o Ids(inst_buffer)
  BY <1>2 DEF InFlight
<1>6. From(lo, rob_count) \o Ids(fetch_queue) = From(lo, rob_count + Len(fetch_queue))
  <2>. DEFINE n == Len(fetch_queue)
  <2>1. n \in Nat /\ Ids(fetch_queue) = From(lo + rob_count, n)
    BY <1>1, <1>3
  <2>. HIDE DEF n
  <2>2. From(lo, rob_count) \o From(lo + rob_count, n) = From(lo, rob_count + n)
    <3>1. lo \in Nat /\ rob_count \in Nat
      BY <1>1
    <3>. QED  BY ONLY <2>1, <3>1, FromConcat
  <2>. QED  BY <2>1, <2>2 DEF n
<1>7. InFlight = From(lo, rob_count + Len(fetch_queue) + Len(inst_buffer))
  <2>. DEFINE m == rob_count + Len(fetch_queue)
              n == Len(inst_buffer)
  <2>1. m \in Nat /\ n \in Nat
    BY <1>1
  <2>2. InFlight = From(lo, m) \o From(lo + m, n)
    BY <1>4, <1>5, <1>6
  <2>. HIDE DEF m, n
  <2>3. InFlight = From(lo, m + n)
    <3>1. lo \in Nat
      BY <1>1
    <3>2. From(lo, m) \o From(lo + m, n) = From(lo, m + n)
      BY ONLY <2>1, <3>1, FromConcat
    <3>. QED  BY ONLY <2>2, <3>2
  <2>. QED  BY <2>3 DEF m, n
<1>. QED  BY <1>1, <1>7

\* Fetch and decode keep the two queues within their sizes.
FrontBounded == /\ Len(fetch_queue) <= 2 * DispatchWidth
                /\ Len(inst_buffer) <= InstBufferSize

PipeInv == OrderInv /\ FrontBounded

LEMMA FrontBoundedKept ==
  ASSUME TypeOK, FrontBounded, [Next]_vars
  PROVE  FrontBounded'
<1>0. /\ fetch_queue \in Seq(OpEntry) /\ inst_buffer \in Seq(OpEntry)
      /\ Len(fetch_queue) \in Nat /\ Len(inst_buffer) \in Nat
      /\ DispatchWidth \in Nat /\ InstBufferSize \in Nat
  BY BackendAssumption DEF TypeOK
<1>1. CASE UNCHANGED queueVars
  BY <1>1 DEF FrontBounded, queueVars
<1>2. CASE Dispatch
  <2>1. /\ fetch_queue # <<>> /\ fetch_queue' = Tail(fetch_queue)
        /\ inst_buffer' = inst_buffer
    BY <1>2 DEF Dispatch, MoreToDispatch
  <2>2. Len(fetch_queue') = Len(fetch_queue) - 1
    BY <1>0, <2>1, HeadTailProperties
  <2>. QED  BY <1>0, <2>1, <2>2 DEF FrontBounded
<1>3. CASE Decode
  <2>1. /\ inst_buffer # <<>> /\ inst_buffer' = Tail(inst_buffer)
        /\ fetch_queue' = Append(fetch_queue, Head(inst_buffer))
        /\ Len(fetch_queue) < 2 * DispatchWidth
    BY <1>3 DEF Decode, CanDecode
  <2>2. Len(inst_buffer') = Len(inst_buffer) - 1 /\ Head(inst_buffer) \in OpEntry
    BY <1>0, <2>1, HeadTailProperties
  <2>3. Len(fetch_queue') = Len(fetch_queue) + 1
    BY <1>0, <2>1, <2>2, AppendProperties
  <2>. QED  BY <1>0, <2>1, <2>2, <2>3 DEF FrontBounded
<1>4. ASSUME NEW i \in Insts, Fetch(i) PROVE FrontBounded'
  <2>. DEFINE op == Fresh(i, next_entry_id)
  <2>1. /\ fetch_queue' = fetch_queue /\ inst_buffer' = Append(inst_buffer, op)
        /\ Len(inst_buffer) < InstBufferSize
    BY <1>4 DEF Fetch, CanFetch
  <2>2. op \in OpEntry
    BY FreshType, BackendAssumption DEF TypeOK
  <2>. HIDE DEF op
  <2>3. Len(inst_buffer') = Len(inst_buffer) + 1
    BY <1>0, <2>1, <2>2, AppendProperties
  <2>. QED  BY <1>0, <2>1, <2>3 DEF FrontBounded
<1>5. CASE IssueStep
  BY <1>1, <1>5, IssueKeepsEntries
<1>6. ASSUME \/ Commit \/ CommitDone \/ DispatchDone \/ DecodeDone
             \/ ReachLimit \/ EndTrace \/ FetchDone \/ MarkCycle \/ UNCHANGED vars
      PROVE  UNCHANGED queueVars
  BY <1>6 DEF Commit, CommitDone, DispatchDone, DecodeDone, ReachLimit, EndTrace, FetchDone,
         MarkCycle, vars
<1>. QED  BY <1>1, <1>2, <1>3, <1>4, <1>5, <1>6 DEF Next, IssueStep

\* Every step of the back end is one of the pipe or changes nothing of it.
LEMMA PipeStep ==
  ASSUME PipeInv, [Next]_vars
  PROVE  [Pipe!PipeNext]_<<InFlight, next_entry_id, sim_end, given_back>>
<1>. DEFINE lo == instructions_retired
            n == next_entry_id - instructions_retired
<1>0. OrderInv /\ TypeOK /\ FrontBounded
  BY DEF PipeInv, OrderInv
<1>1. OrderInv'
  BY <1>0, OrderInductive
<1>2. /\ InFlight = From(lo, n) /\ lo \in Nat /\ next_entry_id \in Nat /\ n \in Nat
      /\ n = rob_count + Len(fetch_queue) + Len(inst_buffer)
      /\ {rob_count, Len(fetch_queue), Len(inst_buffer)} \subseteq Nat
  BY <1>0, InFlightIs
<1>3. InFlight' = From(lo', next_entry_id' - lo')
  <2>1. (OrderInv => InFlight = From(lo, n))'
    BY InFlightIs, PTL
  <2>. QED  BY <1>1, <2>1 DEF From
<1>4. Len(InFlight) = n /\ InFlight \in Seq(Nat)
  BY <1>2, FromProperties
<1>5. ASSUME UNCHANGED <<instructions_retired, next_entry_id>>
      PROVE  UNCHANGED <<InFlight, next_entry_id>>
  BY <1>2, <1>3, <1>5
<1>6. ASSUME NEW i \in Insts, Fetch(i) PROVE Pipe!Enter
  <2>1. /\ sim_end => given_back
        /\ next_entry_id' = next_entry_id + 1 /\ given_back' = FALSE
        /\ Len(inst_buffer) < InstBufferSize
        /\ UNCHANGED <<instructions_retired, sim_end>>
    BY <1>6 DEF Fetch, CanFetch, frontend_trace_exhausted
  <2>2. n < RobSize + 2 * DispatchWidth + InstBufferSize
    <3>1. /\ rob_count <= RobSize /\ Len(fetch_queue) <= 2 * DispatchWidth
          /\ {RobSize, DispatchWidth, InstBufferSize} \subseteq Nat
      BY <1>0, BackendAssumption DEF TypeOK, FrontBounded
    <3>. HIDE DEF n
    <3>. QED  BY <1>2, <2>1, <3>1
  <2>3. InFlight' = From(lo, n + 1)
    <3>1. next_entry_id' - lo' = n + 1 /\ lo' = lo
      BY <1>2, <2>1
    <3>. QED  BY <1>3, <3>1
  <2>4. Append(InFlight, next_entry_id) = From(lo, n + 1)
    <3>. DEFINE q == Append(InFlight, next_entry_id)
    <3>. HIDE DEF n
    <3>1. /\ q \in Seq(Nat) /\ Len(q) = n + 1
          /\ \A k \in 1 .. n : q[k] = InFlight[k]
          /\ q[n + 1] = next_entry_id
      BY <1>2, <1>4, AppendProperties
    <3>2. next_entry_id = lo + n
      BY <1>2 DEF n
    <3>3. \A k \in 1 .. Len(q) : q[k] = lo + k - 1
      <4>. SUFFICES ASSUME NEW k \in 1 .. Len(q) PROVE q[k] = lo + k - 1
        OBVIOUS
      <4>1. CASE k \in 1 .. n
        BY <1>2, <3>1, <4>1, FromProperties
      <4>2. CASE k = n + 1
        BY <1>2, <3>1, <3>2, <4>2
      <4>. QED  BY <1>2, <3>1, <4>1, <4>2
    <3>. HIDE DEF q
    <3>4. q = From(lo, n + 1)
      BY <1>2, <3>1, <3>3, SameNumbers
    <3>. QED  BY <3>4 DEF q
  <2>. QED  BY <1>4, <2>1, <2>2, <2>3, <2>4 DEF Pipe!Enter
<1>7. ASSUME Commit PROVE Pipe!Leave
  <2>1. /\ rob_count > 0 /\ instructions_retired' = instructions_retired + 1
        /\ UNCHANGED <<next_entry_id, sim_end, given_back>>
    BY <1>7 DEF Commit, CanCommit
  <2>2. n \in Nat \ {0}
    BY <1>2, <2>1
  <2>3. InFlight # <<>>
    BY <1>4, <2>2, EmptySeq
  <2>4. InFlight' = From(lo + 1, n - 1)
    <3>1. next_entry_id' - lo' = n - 1 /\ lo' = lo + 1
      BY <1>2, <2>1
    <3>. QED  BY <1>3, <3>1
  <2>5. Tail(InFlight) = From(lo + 1, n - 1)
    <3>. DEFINE q == Tail(InFlight)
    <3>. HIDE DEF n
    <3>1. /\ q \in Seq(Nat) /\ Len(q) = n - 1
          /\ \A k \in 1 .. n - 1 : q[k] = InFlight[k + 1]
      BY <1>4, <2>3, HeadTailProperties
    <3>2. \A k \in 1 .. Len(q) : q[k] = (lo + 1) + k - 1
      <4>. SUFFICES ASSUME NEW k \in 1 .. Len(q) PROVE q[k] = (lo + 1) + k - 1
        OBVIOUS
      <4>1. k + 1 \in 1 .. n /\ k \in 1 .. n - 1
        BY <2>2, <3>1
      <4>2. InFlight[k + 1] = lo + (k + 1) - 1
        BY <1>2, <4>1, FromProperties
      <4>. QED  BY <1>2, <3>1, <4>1, <4>2
    <3>. HIDE DEF q
    <3>3. q = From(lo + 1, n - 1)
      BY <1>2, <2>2, <3>1, <3>2, SameNumbers
    <3>. QED  BY <3>3 DEF q
  <2>. QED  BY <2>1, <2>3, <2>4, <2>5 DEF Pipe!Leave
<1>8. ASSUME ReachLimit \/ EndTrace PROVE Pipe!End
  <2>1. /\ ~sim_end /\ sim_end' = TRUE
        /\ UNCHANGED <<next_entry_id, instructions_retired, given_back>>
    BY <1>8 DEF ReachLimit, EndTrace, CanFetch, frontend_trace_exhausted
  <2>. QED  BY <1>5, <2>1 DEF Pipe!End
<1>9. ASSUME FetchDone PROVE Pipe!Hold \/ UNCHANGED <<InFlight, next_entry_id, sim_end, given_back>>
  <2>1. UNCHANGED <<instructions_retired, next_entry_id, sim_end>>
    BY <1>9 DEF FetchDone
  <2>2. given_back' = given_back \/ (given_back' = TRUE /\ ~(sim_end /\ ~given_back))
    BY <1>9 DEF FetchDone, CanFetch, frontend_trace_exhausted
  <2>3. given_back \in BOOLEAN /\ sim_end \in BOOLEAN
    BY <1>0 DEF TypeOK
  <2>4. given_back' = given_back \/ (given_back' = TRUE /\ ~given_back /\ ~sim_end)
    BY ONLY <2>2, <2>3
  <2>. QED  BY <1>5, <2>1, <2>4 DEF Pipe!Hold
<1>10. ASSUME \/ IssueStep \/ CommitDone \/ Dispatch \/ DispatchDone \/ Decode
              \/ DecodeDone \/ MarkCycle \/ UNCHANGED vars
       PROVE  UNCHANGED <<InFlight, next_entry_id, sim_end, given_back>>
  <2>1. CASE IssueStep
    BY <1>0, <1>5, <2>1, IssueKeepsEntries DEF clockVars
  <2>2. CASE \/ CommitDone \/ Dispatch \/ DispatchDone \/ Decode \/ DecodeDone
             \/ MarkCycle \/ UNCHANGED vars
    <3>1. UNCHANGED <<instructions_retired, next_entry_id, sim_end, given_back>>
      BY <2>2 DEF CommitDone, Dispatch, DispatchDone, Decode, DecodeDone, MarkCycle,
             vars, clockVars
    <3>. QED  BY <1>5, <3>1
  <2>. QED  BY <1>10, <2>1, <2>2
<1>. QED  BY <1>6, <1>7, <1>8, <1>9, <1>10 DEF Next, IssueStep, Pipe!PipeNext

\* For every size of the three queues, the reorder buffer, the fetch queue
\* and the instruction buffer together are one bounded queue in program
\* order: no instruction is dropped, repeated or overtaken on its way, and
\* none enters after the end of the trace but one given back before it.
THEOREM PipelineInOrder == Spec => ImplementsInOrderPipe
<1>1. Init => PipeInv /\ Pipe!PipeInit
  <2>. SUFFICES ASSUME Init PROVE PipeInv /\ Pipe!PipeInit
    OBVIOUS
  <2>1. OrderInv /\ fetch_queue = <<>> /\ inst_buffer = <<>> /\ rob_count = 0
        /\ next_entry_id = 0 /\ instructions_retired = 0
        /\ sim_end = FALSE /\ given_back = FALSE
    BY InitOrder DEF Init
  <2>2. FrontBounded
    BY <2>1, EmptySeq, BackendAssumption DEF FrontBounded
  <2>3. InFlight = From(0, 0)
    BY <2>1, InFlightIs
  <2>4. InFlight = <<>>
    BY <2>3, FromProperties, EmptySeq
  <2>. QED  BY <2>1, <2>2, <2>4 DEF PipeInv, Pipe!PipeInit
<1>2. PipeInv /\ [Next]_vars => PipeInv'
  BY OrderInductive, FrontBoundedKept DEF PipeInv, OrderInv
<1>3. PipeInv /\ [Next]_vars => [Pipe!PipeNext]_<<InFlight, next_entry_id, sim_end, given_back>>
  BY PipeStep
<1>. QED
  BY <1>1, <1>2, <1>3, PTL DEF Spec, ImplementsInOrderPipe, Pipe!PipeSpec, Pipe!pipeVars
=============================================================================

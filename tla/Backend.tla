------------------------------ MODULE Backend -------------------------------
(***************************************************************************)
(* The out-of-order back end of TraceSim: reorder buffer, issue queues,    *)
(* store list and register ready times, driven by the cycle loop of        *)
(* TraceSim::run.  Every loop of a stage is unrolled: one action is one    *)
(* iteration, "stage" says which loop the cycle is in, "pos" is the loop's *)
(* iterator and "count" its counter.                                       *)
(*                                                                         *)
(* Two neighbours are abstracted to what they may answer.  The front end   *)
(* delivers any sequence of instructions of Insts, up to FetchWidth in a   *)
(* cycle, takes one and gives it back, pauses, and ends the trace when it  *)
(* likes.  The memory answers a load with any member of MemResults, and    *)
(* refuses it (no free MSHR) at most MaxBlocked times in all.  Cycles that *)
(* only the front end's pauses or the memory's pending work make are at    *)
(* most MaxIdle in all.                                                    *)
(***************************************************************************)
EXTENDS Integers, Sequences, FiniteSets, SequencesExt

CONSTANTS
  RobSize,        \* rob_size
  IQSize,         \* alu_iq_size .. bru_iq_size, by unit
  FUWidth,        \* fu_width, by unit
  Latency,        \* ALU_LATENCY, BRU_LATENCY, STA_LATENCY, STD_LATENCY, by unit
  FetchWidth, DispatchWidth, CommitWidth, InstBufferSize,
  MemDepModel,    \* MEM_DEP_MODEL
  EnableSTLF,     \* ENABLE_STLF
  Regs,           \* register numbers, 0 among them
  Addrs,          \* memory addresses
  Insts,          \* the TraceInsts the front end may deliver
  MemResults,     \* what access_dcache_load may answer
  MaxSimTime,     \* MAX_SIM_TIME
  MaxFetch,       \* bound: length of the longest trace
  MaxIdle,        \* bound: cycles in which the front end delivers nothing, or
                  \* in which only the memory has work
  MaxBlocked      \* bound: loads refused for want of an MSHR

Units == {"alu", "ldu", "sta", "std", "bru"}

TraceInst == [fu : {"ALU", "LSU", "BRU"}, rd : Regs, rs1 : Regs, rs2 : Regs,
              is_load : BOOLEAN, is_store : BOOLEAN, is_trap : BOOLEAN,
              mem_addr : Addrs]

\* get_fu_type sends loads, stores and atomics to the LSU, and RV32A and
\* RV32IM never set both is_load and is_store.
ASSUME BackendAssumption ==
  /\ RobSize \in Nat \ {0}
  /\ IQSize \in [Units -> Nat \ {0}]
  /\ FUWidth \in [Units -> Nat]
  /\ Latency \in [Units -> Nat]
  /\ {FetchWidth, DispatchWidth, CommitWidth, InstBufferSize} \subseteq Nat
  /\ MemDepModel \in {"ORACLE_STLF", "CONSERVATIVE_STA_VISIBLE"}
  /\ EnableSTLF \in BOOLEAN
  /\ Regs \subseteq Nat /\ 0 \in Regs
  /\ Addrs # {}
  /\ Insts \subseteq TraceInst
  /\ \A i \in Insts : /\ ~(i.is_load /\ i.is_store)
                      /\ i.is_load \/ i.is_store => i.fu = "LSU"
  /\ MemResults \subseteq [blocked : BOOLEAN, l1_hit : BOOLEAN, latency : Nat]
  /\ {MaxSimTime, MaxFetch, MaxIdle, MaxBlocked} \subseteq Nat

Slots == 0 .. RobSize - 1

OpEntry == [inst : TraceInst, entry_id : Nat, executed : BOOLEAN,
            execute_cycle : Nat, sta_done : BOOLEAN, sta_cycle : Nat,
            std_done : BOOLEAN, std_cycle : Nat, waiting_on_memory : BOOLEAN]

Stages == {"commit", "alu", "ldu", "sta", "std", "bru", "dispatch",
           "decode", "fetch", "mark", "done"}

StallReasons == {"NONE", "ROB_FULL", "ALU_IQ_FULL", "LDU_IQ_FULL",
                 "STA_IQ_FULL", "STD_IQ_FULL", "BRU_IQ_FULL",
                 "TRAP_SERIALIZE", "MEMORY_WAIT", "EXEC_WAIT"}

VARIABLES
  rob, rob_head, rob_tail, rob_count,
  iq,                    \* alu_iq .. bru_iq: sequences of slots, by unit
  store_indices,
  reg_ready_time,
  fetch_queue, inst_buffer,
  next_entry_id, instructions_retired, total_cycles, sim_end,
  given_back,            \* pre_fetch_buffer has an instruction
  commit_stall, backend_stall, retired,   \* the cycle's record for mark_cycle
  stage, pos, count,     \* where in the cycle
  idle, blocked          \* budgets used of MaxIdle and MaxBlocked

robVars == <<rob, rob_head, rob_tail, rob_count>>
queueVars == <<fetch_queue, inst_buffer>>
clockVars == <<next_entry_id, instructions_retired, total_cycles, sim_end, given_back>>
markVars == <<commit_stall, backend_stall, retired>>
loopVars == <<stage, pos, count>>
vars == <<robVars, iq, store_indices, reg_ready_time, queueVars, clockVars,
          markVars, loopVars, idle, blocked>>

Fresh(i, id) ==
  [inst |-> i, entry_id |-> id, executed |-> FALSE, execute_cycle |-> 0,
   sta_done |-> FALSE, sta_cycle |-> 0, std_done |-> FALSE, std_cycle |-> 0,
   waiting_on_memory |-> FALSE]

\* A slot that was never written; no code reads it.
Unwritten == Fresh([fu |-> "ALU", rd |-> 0, rs1 |-> 0, rs2 |-> 0,
                    is_load |-> FALSE, is_store |-> FALSE, is_trap |-> FALSE,
                    mem_addr |-> CHOOSE a \in Addrs : TRUE], 0)

Init ==
  /\ rob = [s \in Slots |-> Unwritten]
  /\ rob_head = 0 /\ rob_tail = 0 /\ rob_count = 0
  /\ iq = [u \in Units |-> <<>>]
  /\ store_indices = <<>>
  /\ reg_ready_time = [r \in Regs |-> 0]
  /\ fetch_queue = <<>> /\ inst_buffer = <<>>
  /\ next_entry_id = 0 /\ instructions_retired = 0
  /\ total_cycles = 0 /\ sim_end = FALSE /\ given_back = FALSE
  /\ commit_stall = "NONE" /\ backend_stall = "NONE" /\ retired = FALSE
  /\ stage = "commit" /\ pos = 1 /\ count = 0
  /\ idle = 0 /\ blocked = 0
\* Mutants: no wrap; a wrap one slot early.
AdvanceUnwrapped(p) == p + 1
AdvanceShort(p) == (p + 1) % (RobSize - 1)

\* The ring pointers, rob_head and rob_tail, wrap at RobSize.
Advance(p) == (p + 1) % RobSize

\* The loop of one stage ends, the next one starts.
GoTo(next) == stage' = next /\ pos' = 1 /\ count' = 0

-----------------------------------------------------------------------------
(* advance_cycle: the program, or the sample, has retired what was asked   *)
(* for.  The limit itself is of module Frontend.                           *)

ReachLimit ==
  /\ stage = "commit" /\ count = 0
  /\ ~sim_end /\ instructions_retired > 0
  /\ sim_end' = TRUE
  /\ UNCHANGED <<robVars, iq, store_indices, reg_ready_time, queueVars,
                 next_entry_id, instructions_retired, total_cycles, given_back,
                 markVars, loopVars, idle, blocked>>

-----------------------------------------------------------------------------
(* commit_stage and classify_commit_stall                                  *)

Completed(op) == op.executed /\ op.execute_cycle <= total_cycles

CanCommit == /\ count < CommitWidth
             /\ rob_count > 0
             /\ Completed(rob[rob_head])

\* Any committed store pops the store list, if the list has anything.
PoppedStores(op) == IF op.inst.is_store /\ store_indices # <<>>
                    THEN Tail(store_indices) ELSE store_indices

Commit ==
  /\ stage = "commit"
  /\ CanCommit
  /\ store_indices' = PoppedStores(rob[rob_head])
  /\ rob_head' = Advance(rob_head)
  /\ rob_count' = rob_count - 1
  /\ instructions_retired' = instructions_retired + 1
  /\ count' = count + 1
  /\ UNCHANGED <<rob, rob_tail, iq, reg_ready_time, queueVars, next_entry_id,
                 total_cycles, sim_end, given_back, markVars, stage, pos, idle,
                 blocked>>

classify_commit_stall(retired_this_cycle) ==
  LET head == rob[rob_head]
  IN  IF retired_this_cycle \/ rob_count = 0 \/ Completed(head) THEN "NONE"
      ELSE IF head.inst.is_load /\ head.waiting_on_memory THEN "MEMORY_WAIT"
      ELSE "EXEC_WAIT"

CommitDone ==
  /\ stage = "commit"
  /\ ~CanCommit
  /\ retired' = (count > 0)
  /\ commit_stall' = classify_commit_stall(count > 0)
  /\ GoTo("alu")
  /\ UNCHANGED <<robVars, iq, store_indices, reg_ready_time, queueVars,
                 clockVars, backend_stall, idle, blocked>>
-----------------------------------------------------------------------------
(* issue_stage: five loops of the same form, one per unit                  *)

Following == [alu |-> "ldu", ldu |-> "sta", sta |-> "std", std |-> "bru",
              bru |-> "dispatch"]

Scanning(u) == /\ stage = u
               /\ pos <= Len(iq[u])
               /\ count < FUWidth[u]

Ready(r) == reg_ready_time[r] <= total_cycles

\* The registers a unit waits for.
Sources(u, i) == CASE u \in {"alu", "bru"} -> {i.rs1, i.rs2}
                   [] u \in {"ldu", "sta"} -> {i.rs1}
                   [] u = "std"            -> {i.rs2}

SourcesReady(u, i) == \A r \in Sources(u, i) : Ready(r)

mark_register_ready(r, when) ==
  [reg_ready_time EXCEPT ![r] = IF r # 0 THEN when ELSE @]

\* Mutant: the first entry is erased instead of the one at the iterator.
IssuedFirst(u) == /\ iq' = [iq EXCEPT ![u] = Tail(@)]
                  /\ count' = count + 1
                  /\ UNCHANGED <<stage, pos>>

\* The entry at the iterator is issued: erased, the iterator stays.
Issued(u) == /\ iq' = [iq EXCEPT ![u] = RemoveAt(@, pos)]
             /\ count' = count + 1
             /\ UNCHANGED <<stage, pos>>

\* The entry at the iterator stays in the queue: ++it.
Passed == /\ pos' = pos + 1
          /\ UNCHANGED <<iq, stage, count>>

outsideIssue == <<rob_head, rob_tail, rob_count, store_indices, queueVars,
                  clockVars, markVars, idle>>

\* An ALU or BRU entry with both sources ready.
ExecIssue(u) ==
  LET s == iq[u][pos]
      done == total_cycles + Latency[u]
  IN  /\ Scanning(u)
      /\ SourcesReady(u, rob[s].inst)
      /\ rob' = [rob EXCEPT ![s] = [@ EXCEPT !.execute_cycle = done,
                                             !.executed = TRUE]]
      /\ reg_ready_time' = mark_register_ready(rob[s].inst.rd, done)
      /\ Issued(u)
      /\ UNCHANGED <<outsideIssue, blocked>>

Later(a, b) == IF a > b THEN a ELSE b
\* A store is executed when its address and its data both are.
StaDone(op, done) ==
  [op EXCEPT !.sta_done = TRUE, !.sta_cycle = done,
             !.executed = @ \/ op.std_done,
             !.execute_cycle = IF op.std_done THEN Later(done, op.std_cycle) ELSE @]

StdDone(op, done) ==
  [op EXCEPT !.std_done = TRUE, !.std_cycle = done,
             !.executed = @ \/ op.sta_done,
             !.execute_cycle = IF op.sta_done THEN Later(op.sta_cycle, done) ELSE @]

StoreIssue(u) ==
  LET s == iq[u][pos]
      done == total_cycles + Latency[u]
  IN  /\ Scanning(u)
      /\ SourcesReady(u, rob[s].inst)
      /\ rob' = [rob EXCEPT ![s] = IF u = "sta" THEN StaDone(@, done)
                                                ELSE StdDone(@, done)]
      /\ Issued(u)
      /\ UNCHANGED <<outsideIssue, reg_ready_time, blocked>>

\* Any queue: the sources of the entry at the iterator are not ready.
NotReady(u) ==
  /\ Scanning(u)
  /\ ~SourcesReady(u, rob[iq[u][pos]].inst)
  /\ Passed
  /\ UNCHANGED <<rob, reg_ready_time, outsideIssue, blocked>>

ScanDone(u) ==
  /\ stage = u
  /\ ~Scanning(u)
  /\ GoTo(Following[u])
  /\ UNCHANGED <<rob, iq, reg_ready_time, outsideIssue, blocked>>

-----------------------------------------------------------------------------
(* LoadStoreUnit                                                           *)
\* The entries of store_indices that the search loop visits: those before
\* the first one that is not older than the load.
OlderStores(op) ==
  {k \in 1 .. Len(store_indices) :
     \A j \in 1 .. k : rob[store_indices[j]].entry_id < op.entry_id}

Matching(op) ==
  {k \in OlderStores(op) : rob[store_indices[k]].inst.mem_addr = op.inst.mem_addr}
\* Mutant: the first match forwards, not the last.
OldestSource(op) == rob[store_indices[CHOOSE k \in Matching(op) :
                                        \A j \in Matching(op) : k <= j]]

\* stlf_src: the last match.
Source(op) == rob[store_indices[CHOOSE k \in Matching(op) :
                                  \A j \in Matching(op) : j <= k]]

check_store_dependency(op) ==
  IF \/ /\ MemDepModel = "CONSERVATIVE_STA_VISIBLE"
        /\ \E k \in OlderStores(op) : ~rob[store_indices[k]].sta_done
  THEN "Stalled"
  ELSE IF Matching(op) = {} THEN "NoDep"
  ELSE IF EnableSTLF /\ Source(op).std_done /\ Source(op).std_cycle <= total_cycles
  THEN "STLFReady" ELSE "Stalled"

Loading(s) == /\ Scanning("ldu")
              /\ s = iq["ldu"][pos]
              /\ SourcesReady("ldu", rob[s].inst)

LoadExecuted(s, done, waiting) ==
  /\ rob' = [rob EXCEPT ![s] = [@ EXCEPT !.execute_cycle = done,
                                         !.executed = TRUE,
                                         !.waiting_on_memory = waiting]]
  /\ reg_ready_time' = mark_register_ready(rob[s].inst.rd, done)
  /\ Issued("ldu")

LoadRefused(s, waiting) ==
  /\ rob' = [rob EXCEPT ![s].waiting_on_memory = waiting]
  /\ Passed
  /\ UNCHANGED reg_ready_time

LoadStalled(s) ==
  /\ Loading(s)
  /\ check_store_dependency(rob[s]) = "Stalled"
  /\ LoadRefused(s, FALSE)
  /\ UNCHANGED <<outsideIssue, blocked>>

LoadForwarded(s) ==
  /\ Loading(s)
  /\ check_store_dependency(rob[s]) = "STLFReady"
  /\ LoadExecuted(s, total_cycles + 1, FALSE)
  /\ UNCHANGED <<outsideIssue, blocked>>

LoadBlocked(s, res) ==
  /\ Loading(s)
  /\ check_store_dependency(rob[s]) = "NoDep"
  /\ res.blocked
  /\ blocked < MaxBlocked
  /\ LoadRefused(s, TRUE)
  /\ blocked' = blocked + 1
  /\ UNCHANGED outsideIssue

LoadAccessed(s, res) ==
  /\ Loading(s)
  /\ check_store_dependency(rob[s]) = "NoDep"
  /\ ~res.blocked
  /\ LoadExecuted(s, total_cycles + res.latency, ~res.l1_hit)
  /\ UNCHANGED <<outsideIssue, blocked>>

-----------------------------------------------------------------------------
(* dispatch_stage                                                          *)

\* The queues the capacity tests look at for an instruction.
TestedQueues(i) == CASE i.fu = "ALU" -> {"alu"}
                     [] i.fu = "BRU" -> {"bru"}
                     [] i.fu = "LSU" -> IF i.is_load THEN {"ldu"}
                                        ELSE IF i.is_store THEN {"sta", "std"}
                                        ELSE {"alu"}

\* The queues the instruction is pushed to: a trap, whatever its unit,
\* goes to the ALU queue.
PushedQueues(i) == IF i.is_trap THEN {"alu"} ELSE TestedQueues(i)

Full(u) == Len(iq[u]) >= IQSize[u]

QueueStall(i) ==
  LET full == {u \in TestedQueues(i) : Full(u)}
  IN  CASE "alu" \in full -> "ALU_IQ_FULL"
        [] "bru" \in full -> "BRU_IQ_FULL"
        [] "ldu" \in full -> "LDU_IQ_FULL"
        [] "sta" \in full -> "STA_IQ_FULL"
        [] full = {"std"} -> "STD_IQ_FULL"
        [] full = {}      -> "NONE"

\* Mutants: a trap does not wait for the machine to drain; a trap waits even
\* when it has drained.
NoSerialize(i) == IF rob_count >= RobSize THEN "ROB_FULL" ELSE QueueStall(i)
AlwaysSerialize(i) == IF rob_count >= RobSize THEN "ROB_FULL"
                      ELSE IF i.is_trap THEN "TRAP_SERIALIZE"
                      ELSE QueueStall(i)

DispatchStall(i) == IF rob_count >= RobSize THEN "ROB_FULL"
                    ELSE IF i.is_trap /\ rob_count > 0 THEN "TRAP_SERIALIZE"
                    ELSE QueueStall(i)

MoreToDispatch == count < DispatchWidth /\ fetch_queue # <<>>

Dispatch ==
  LET op == Head(fetch_queue)
      queues == PushedQueues(op.inst)
  IN  /\ stage = "dispatch"
      /\ MoreToDispatch
      /\ DispatchStall(op.inst) = "NONE"
      /\ rob' = [rob EXCEPT ![rob_tail] = op]
      /\ rob_tail' = Advance(rob_tail)
      /\ rob_count' = rob_count + 1
      /\ fetch_queue' = Tail(fetch_queue)
      /\ iq' = [u \in Units |-> IF u \in queues THEN Append(iq[u], rob_tail)
                                                ELSE iq[u]]
      /\ store_indices' = IF "sta" \in queues THEN Append(store_indices, rob_tail)
                                              ELSE store_indices
      /\ count' = count + 1
      /\ UNCHANGED <<rob_head, reg_ready_time, inst_buffer, clockVars, markVars,
                     stage, pos, idle, blocked>>

\* The loop ran out of width or instructions, or met a full resource.
DispatchDone ==
  LET reason == IF MoreToDispatch THEN DispatchStall(Head(fetch_queue).inst)
                                  ELSE "NONE"
  IN  /\ stage = "dispatch"
      /\ MoreToDispatch => reason # "NONE"
      /\ backend_stall' = IF reason = "NONE" THEN commit_stall ELSE reason
      /\ GoTo("decode")
      /\ UNCHANGED <<robVars, iq, store_indices, reg_ready_time, queueVars,
                     clockVars, commit_stall, retired, idle, blocked>>

-----------------------------------------------------------------------------
(* decode_stage                                                            *)

CanDecode == inst_buffer # <<>> /\ Len(fetch_queue) < 2 * DispatchWidth

outsideQueues == <<robVars, iq, store_indices, reg_ready_time, markVars, blocked>>

Decode ==
  /\ stage = "decode"
  /\ CanDecode
  /\ fetch_queue' = Append(fetch_queue, Head(inst_buffer))
  /\ inst_buffer' = Tail(inst_buffer)
  /\ UNCHANGED <<outsideQueues, clockVars, loopVars, idle>>

DecodeDone ==
  /\ stage = "decode"
  /\ ~CanDecode
  /\ GoTo("fetch")
  /\ UNCHANGED <<outsideQueues, queueVars, clockVars, idle>>

-----------------------------------------------------------------------------
(* The front end, as the back end sees it, and the end of the cycle        *)

\* Mutant: the front end goes on after the end of the trace.
CanFetchOn == count < FetchWidth /\ Len(inst_buffer) < InstBufferSize

frontend_trace_exhausted == sim_end /\ ~given_back

CanFetch == /\ count < FetchWidth
            /\ Len(inst_buffer) < InstBufferSize
            /\ ~frontend_trace_exhausted

\* The instruction given back is the first to be delivered.
Fetch(i) ==
  /\ stage = "fetch"
  /\ CanFetch
  /\ next_entry_id < MaxFetch
  /\ inst_buffer' = Append(inst_buffer, Fresh(i, next_entry_id))
  /\ next_entry_id' = next_entry_id + 1
  /\ given_back' = FALSE
  /\ count' = count + 1
  /\ UNCHANGED <<outsideQueues, fetch_queue, instructions_retired,
                 total_cycles, sim_end, stage, pos, idle>>

\* WFI or EBREAK, which is never behind an instruction given back.
EndTrace ==
  /\ stage = "fetch"
  /\ CanFetch /\ ~given_back
  /\ sim_end' = TRUE
  /\ UNCHANGED <<outsideQueues, queueVars, next_entry_id, instructions_retired,
                 total_cycles, given_back, loopVars, idle>>

\* The group ends; one that could have delivered may have taken and given
\* back an instruction, and one that delivered nothing is a pause.
FetchDone ==
  /\ stage = "fetch"
  /\ LET pause == CanFetch /\ count = 0
     IN  /\ pause => idle < MaxIdle
         /\ idle' = IF pause THEN idle + 1 ELSE idle
  /\ \/ UNCHANGED given_back
     \/ CanFetch /\ next_entry_id < MaxFetch /\ given_back' = TRUE
  /\ GoTo("mark")
  /\ UNCHANGED <<outsideQueues, queueVars, next_entry_id, instructions_retired,
                 total_cycles, sim_end>>

\* The loop's condition, but for has_pending_work.
Drained == sim_end /\ rob_count = 0 /\ fetch_queue = <<>> /\ inst_buffer = <<>>

\* total_cycles++, mark_cycle and the timeout test; the loop goes on when it
\* is not drained, or when the memory has work pending.
MarkCycle ==
  /\ stage = "mark"
  /\ total_cycles' = total_cycles + 1
  /\ \E pending \in BOOLEAN :
       LET waits == Drained /\ pending
       IN  /\ waits => idle < MaxIdle
           /\ idle' = IF waits THEN idle + 1 ELSE idle
           /\ GoTo(IF total_cycles + 1 > MaxSimTime \/ (Drained /\ ~pending)
                   THEN "done" ELSE "commit")
  /\ UNCHANGED <<outsideQueues, queueVars, next_entry_id, instructions_retired,
                 sim_end, given_back>>

-----------------------------------------------------------------------------
Next ==
  \/ ReachLimit \/ Commit \/ CommitDone
  \/ \E u \in Units : NotReady(u) \/ ScanDone(u)
  \/ \E u \in {"alu", "bru"} : ExecIssue(u)
  \/ \E u \in {"sta", "std"} : StoreIssue(u)
  \/ \E s \in Slots : \/ LoadStalled(s) \/ LoadForwarded(s)
                      \/ \E res \in MemResults : LoadBlocked(s, res) \/ LoadAccessed(s, res)
  \/ Dispatch \/ DispatchDone
  \/ Decode \/ DecodeDone
  \/ \E i \in Insts : Fetch(i)
  \/ EndTrace \/ FetchDone \/ MarkCycle

Spec == Init /\ [][Next]_vars

\* The loop is one thread that never pauses.
FairSpec == Spec /\ WF_vars(Next)
-----------------------------------------------------------------------------
(* Properties                                                              *)

TypeOK ==
  /\ rob \in [Slots -> OpEntry]
  /\ rob_head \in Slots /\ rob_tail \in Slots /\ rob_count \in 0 .. RobSize
  /\ iq \in [Units -> Seq(Slots)]
  /\ store_indices \in Seq(Slots)
  /\ reg_ready_time \in [Regs -> Nat]
  /\ fetch_queue \in Seq(OpEntry) /\ inst_buffer \in Seq(OpEntry)
  /\ next_entry_id \in Nat /\ instructions_retired \in Nat
  /\ total_cycles \in Nat /\ sim_end \in BOOLEAN /\ given_back \in BOOLEAN
  /\ commit_stall \in StallReasons /\ backend_stall \in StallReasons
  /\ retired \in BOOLEAN
  /\ stage \in Stages /\ pos \in Nat \ {0} /\ count \in Nat
  /\ idle \in Nat /\ blocked \in Nat

\* The k-th oldest entry of the reorder buffer, from 0, and the live slots.
RobSlot(k) == (rob_head + k) % RobSize
Live == {RobSlot(k) : k \in 0 .. rob_count - 1}

\* Instructions stay in program order from fetch to retirement: behind the
\* instructions retired come, without a gap, the reorder buffer from head
\* to tail, the fetch queue and the instruction buffer.
InOrder ==
  /\ rob_tail = RobSlot(rob_count)
  /\ \A k \in 0 .. rob_count - 1 :
       rob[RobSlot(k)].entry_id = instructions_retired + k
  /\ \A k \in 1 .. Len(fetch_queue) :
       fetch_queue[k].entry_id = instructions_retired + rob_count + k - 1
  /\ \A k \in 1 .. Len(inst_buffer) :
       inst_buffer[k].entry_id =
         instructions_retired + rob_count + Len(fetch_queue) + k - 1
  /\ next_entry_id = instructions_retired + rob_count + Len(fetch_queue)
                       + Len(inst_buffer)

\* The work an entry still waits for in a unit's queue.
Waits(u, op) == /\ u \in PushedQueues(op.inst)
                /\ u = "sta" => ~op.sta_done
                /\ u = "std" => ~op.std_done
                /\ u \notin {"sta", "std"} => ~op.executed

\* A queue of slots in program order: each slot is in it once, and issue
\* picks the oldest ready entry first.
Ascending(q) == \A j, k \in 1 .. Len(q) :
                  j < k => rob[q[j]].entry_id < rob[q[k]].entry_id

\* The live stores that issue through the store queues.
LiveStores == {s \in Live : "sta" \in PushedQueues(rob[s].inst)}

\* The issue queues and the reorder buffer agree.  A queue holds, oldest
\* first, exactly the live entries that wait for its unit, and an entry is
\* executed when no queue has it any more, a store when neither of two has:
\* no slot is issued twice, issued after it retired or forgotten, which
\* would block the head for ever (TraceSim.cpp:186-260, 302-318).
IssueQueuesExact ==
  /\ \A u \in Units : /\ ToSet(iq[u]) = {s \in Live : Waits(u, rob[s])}
                       /\ Ascending(iq[u])
  /\ \A s \in Live : rob[s].executed = (\A u \in Units : s \notin ToSet(iq[u]))

\* The store list holds, oldest first, exactly the live stores:
\* check_store_dependency never reads a slot that was given to another
\* instruction, and misses no store (TraceSim.cpp:180, 309;
\* LoadStoreUnit.cpp:15-17).
StoreListExact ==
  /\ ToSet(store_indices) = LiveStores
  /\ Ascending(store_indices)

\* The reorder buffer and the six lists that name its slots agree: five of
\* them after out-of-order issue and the sixth, which commit pops without
\* looking, after in-order retirement.
QueuesExact == IssueQueuesExact /\ StoreListExact

\* No issue queue outgrows its size, although a trap is pushed to the ALU
\* queue after a test of another queue, and a store to two queues at once.
QueuesBounded == \A u \in Units : Len(iq[u]) <= IQSize[u]

OlderLiveStores(op) ==
  {t \in LiveStores : /\ rob[t].entry_id < op.entry_id
                      /\ rob[t].inst.mem_addr = op.inst.mem_addr}

\* LoadStoreUnit handles store dependence (README.md:25): a load goes to
\* memory only when no older store to its address is in flight, and is
\* forwarded only from the youngest of them, once its data is there.
LoadsRespectStores ==
  [][\A s \in Slots :
       /\ (\E res \in MemResults : LoadAccessed(s, res)) =>
            OlderLiveStores(rob[s]) = {}
       /\ LoadForwarded(s) =>
            \E t \in OlderLiveStores(rob[s]) :
              /\ rob[t].std_done /\ rob[t].std_cycle <= total_cycles
              /\ \A x \in OlderLiveStores(rob[s]) : rob[x].entry_id <= rob[t].entry_id
    ]_vars

\* Given a trace that ends and a memory that refuses loads finitely often,
\* every instruction fetched retires: no dependence, queue or trap keeps
\* the head waiting for itself.
EveryInstructionRetires ==
  \A n \in 1 .. MaxFetch : (next_entry_id >= n) ~> (instructions_retired >= n)

\* The entry at the iterator of u leaves the queue: it issues.
Issues(u, s) == /\ Scanning(u)
                /\ s = iq[u][pos]
                /\ iq'[u] # iq[u]

\* The youngest live entry older than op that writes r.
LastWriters(op, r) ==
  LET writers == {t \in Live : rob[t].inst.rd = r /\ rob[t].entry_id < op.entry_id}
  IN  {t \in writers : \A x \in writers : rob[x].entry_id <= rob[t].entry_id}

\* True dependences delay issue: no entry issues before the last older
\* writer of a register it reads has its result.  (exec.cpp:506 keeps the
\* register fields exact so that there are no false RAW dependences.)
IssuesAfterProducer ==
  [][\A u \in Units : \A s \in Slots :
       Issues(u, s) => \A r \in Sources(u, rob[s].inst) \ {0} :
                         \A t \in LastWriters(rob[s], r) : Completed(rob[t])]_vars

\* README.md:112: in a cycle with no retirement whose reorder buffer head is
\* a load waiting for memory, the reason handed to mark_cycle is the one it
\* counts as Memory Bound.
HeadWaitIsMemoryBound ==
  stage = "mark" /\ ~retired /\ commit_stall = "MEMORY_WAIT"
    => backend_stall = "MEMORY_WAIT"

Ids(q) == [k \in 1 .. Len(q) |-> q[k].entry_id]

InFlight == [k \in 1 .. rob_count |-> rob[RobSlot(k - 1)].entry_id]
              \o Ids(fetch_queue) \o Ids(inst_buffer)

\* The reorder buffer, the fetch queue and the instruction buffer together
\* implement one bounded queue in program order: dispatch and decode move
\* an instruction along without dropping, repeating or overtaking one, and
\* after the end of the trace only the instruction given back before it
\* still enters (TraceSim.h:143-145, TraceSim.cpp:52-74, 145-165).
Pipe == INSTANCE InOrderPipe WITH
          inside <- InFlight, next <- next_entry_id, ended <- sim_end, held <- given_back,
          Capacity <- RobSize + 2 * DispatchWidth + InstBufferSize

ImplementsInOrderPipe == Pipe!PipeSpec
=============================================================================

# TraceSim, specified

TraceSim (`src/`) is a trace-driven timing simulator of a RISC-V core. A
functional reference CPU runs the program one instruction at a time; an
out-of-order timing model consumes what it executed and counts cycles. This
directory holds TLA+ modules of its parts, TLC configurations that check them
on small instances, and TLAPS proofs.

## The system

| component | code | state | operations |
|---|---|---|---|
| Cycle loop and back end | `trace_sim/TraceSim.cpp,h` | reorder buffer (ring of `rob_size` entries), five issue queues, store list, register ready times, `fetch_queue`, `inst_buffer`, counters | `run`, `commit_stage`, `classify_commit_stall`, `issue_stage`, `dispatch_stage`, `decode_stage`, `advance_cycle` |
| LoadStoreUnit | `trace_sim/mem/LoadStoreUnit.cpp` | none of its own: reads the store list and the reorder buffer | `issue_stage`, `try_issue_load`, `check_store_dependency`, `execute_load_memory_access` |
| Cache | `trace_sim/mem/Cache.h`, `ReplacementPolicy.h` | sets of lines, in-flight map (MSHRs), counters | `request`, `schedule_fill`, `process_returns`, `fill_block`, the policies |
| MemSubsystem | `trace_sim/mem/MemSubsystem.cpp` | I-cache, D-cache, LLC, two prefetch queues, baselines | `access_icache`, `access_dcache_load`, `enqueue_prefetch`, `service_prefetch_queues`, `process_returns` |
| Prefetchers | `trace_sim/mem/Prefetcher.h` | next-line: none; PC-stride: a table by pc | `on_access` |
| Front end | `trace_sim/frontend/Frontend.cpp` | stall deadline and reason, refused instruction | `fetch_stage` |
| Branch predictors | `trace_sim/frontend/BranchPredictor.h` | gshare: global history, two-bit counters, BTB | `predict`, `update` |
| Profiler | `trace_sim/Profiler.cpp` | cycle attribution counters | `mark_cycle` |
| Reference CPU | `exec.cpp`, `include/ref.h` | registers, CSRs, privilege, memory, UART, reservation | `exec`, `step`, `exception`, `RISCV`, `RV32CSR`, `RV32A`, `RV32IM`, `va2pa` |
| SimPoint | `simpoint.cpp` | block vectors, checkpoints | `bbv_commit`, `restore_checkpoint` |

One thread runs everything. In a cycle `run()` calls, in this order,
`process_returns`, commit, issue (ALU, LDU, STA, STD, BRU), dispatch, decode,
fetch, the prefetch queues and `mark_cycle`. A stage runs in the reverse order of
the pipeline, so what it writes is seen by the stages before it in the next
cycle; the exceptions (a register's ready time, the store list) are where the
hazards lie. Commit pops what dispatch pushed (store list, reorder buffer);
issue calls the LoadStoreUnit, which asks the MemSubsystem, which may refuse;
the front end pulls instructions out of the reference CPU and also asks the
MemSubsystem; the MemSubsystem's three caches share nothing but the order in
which an L1 miss asks the LLC before it allocates its own MSHR.

What is hard here is not parallelism but order: a ring and six lists that name
slots by number and must agree; a search that relies on a list's order; results
computed long before their cycle arrives; a request granted by one call and
carried out by a later one; refusals and retries; and statistics that assume
all of it is consistent. PROJECT.json lists these hazards at their lines.

For each component the properties that make it correct:

* Back end: instructions stay in program order and none is lost; an issue queue
  holds exactly the entries that wait for its unit; no queue outgrows its
  size; a load never misses an older store; every instruction retires.
* Cache: one copy of a line; MSHRs never oversubscribed; every in-flight
  block arrives; the victim is the policy's; the counters add up.
* MemSubsystem: a refused access leaves nothing behind; an L1 MSHR never
  completes before the LLC has the data; every granted L1 miss is one LLC access.
* Front end: an instruction that is given back is fetched again, once and in its
  place; a stall lasts until the latest deadline anyone set; the loop does not end
  while an instruction is left behind.
* Branch predictors: the tables are those of a predictor that saw every delivered
  branch once, in program order.
* Profiler: every cycle is counted once, the clocks agree with the simulator's
  across the reset after the warm-up, and the sample is whole.
* Reference CPU, instructions: each computes what its name says, and names in
  the trace the registers it uses, no fewer and no more.
* Reference CPU, memory: a store conditional replaces the word that was reserved;
  what can be written can be read at the same place; user code changes only
  what is mapped for it.
* Reference CPU, traps: a trap enters the privilege level the delegation says, saves what
  `xRET` needs, and never lowers privilege on entry.

## The modules

| module | models | kind |
|---|---|---|
| `CacheOps` | class `Cache` and the two policies as a data type: a record and one operator per method | operators |
| `Cache` | one cache under any caller that keeps the protocol of MemSubsystem | component |
| `BlockLife` | what a cache promises of a line: absent, in flight, resident | abstract |
| `CacheAges` | `Cache` and an observer of when its policy counts the age of each resident block from | component |
| `MCCache` | instances under LRU and under FIFO | TLC |
| `CacheProofs` | proofs about `Cache` and `CacheAges` | TLAPS |
| `Backend` | `run`'s loop from commit to decode, with the LoadStoreUnit | component |
| `InOrderPipe` | what the pipeline promises of program order | abstract |
| `MCBackend` | instances and instructions | TLC |
| `BackendProofs`, `BackendQueues` | proofs about `Backend`: program order and the pipe; the queues and the loads | TLAPS |
| `Prefetchers` | the null, next-line and PC-stride prefetchers | operators |
| `MCPrefetchers` | one stride prefetcher under any sequence of accesses, and an observer of the lines touched | TLC |
| `MemSubsystem` | three caches (instances of `CacheOps`), two prefetch queues, and the load unit and front end that ask them | composition |
| `MCMemSubsystem` | an instance | TLC |
| `MemSubsystemProofs` | proofs about `MemSubsystem` | TLAPS |
| `Frontend` | `run`'s loop with `advance_cycle`, `fetch_stage`, the branch predictors and the profiler | component |
| `MCFrontend` | instructions | TLC |
| `FrontendProofs` | proofs about `Frontend`: the trace, the stalls, the profiler's accounts, the predictors | TLAPS |
| `Words` | a machine word as the set of its 1 bits; what an atomic instruction computes | operators |
| `Alu` | what each instruction of RV32IM, Zba, Zbb, Zbc and Zbs computes, and the registers its trace record names | operators |
| `MCAlgorithms` | `Alu` and `Prefetchers` against reference definitions in integers | TLC |
| `AlgorithmProofs` | proofs about `MCAlgorithms` and `MCPrefetchers` | TLAPS |
| `RefMemory` | loads, stores, atomics, the reservation and address translation of the reference CPU | component |
| `MCRefMemory` | page tables, contexts and operands | TLC |
| `RefMemoryProofs` | proofs about `RefMemory` | TLAPS |
| `Hart` | privilege, traps, returns and CSRs of the reference CPU | component |
| `MCHart` | instances: checkpoints and software | TLC |
| `HartProofs` | proofs about `Hart` | TLAPS |

Definitions under a comment that starts with "Mutant:" are plausible mistakes.
Nothing uses them but the mutation runs listed in PROJECT.json, which put each in
the place of the definition after it and expect a property to fail.

### Cache

An address is its line number; no method looks at the offset once it has the
line. A cache is a record of `sets`, `inflight` and `stats` (the fourteen
counters). `Request`, `Schedule`, `Return` are the three methods; `Abandon` is the
caller whose next level refused, which drops a granted request; the history variable
`abandoned` counts the prefetches that went this way, so that `AccessAccounting` is an
equation: none is lost and none counted twice. Between a
`MISS_NEW` and its `schedule_fill` nothing else reaches the cache, as in
`access_l1_hierarchy` and `issue_prefetch_to_l1`. The order in which completed
blocks are filled is free (an `unordered_map`). `fill_cycle` is never read and
is left out.

### Backend

One action is one iteration of a stage's loop: `stage` is the loop, `pos` its
iterator, `count` its counter. Slots of the reorder buffer are numbers, as in the
code, so a stale number is a possible error and not an impossible one. The front
end delivers any instruction of `Insts`, pauses, and takes one and gives it back
(`given_back`: `pre_fetch_buffer` is not empty). The trace ends in two ways, both of which
set `sim_end`: `EndTrace` is a WFI or EBREAK, which comes only when nothing is given back;
`ReachLimit` is `advance_cycle`'s limit, which comes at the beginning of any cycle. An
instruction that was given back before the limit is still delivered after it
(`frontend_trace_exhausted`, TraceSim.h:143-145), which is what `InOrderPipe` calls `held`.
A loop that has drained goes on while the memory has work pending, which is free here
and shared with the front end's pauses in the budget `MaxIdle`. The memory answers with any member of `MemResults` and refuses at most `MaxBlocked`
times. Left out because no stage reads them: the profile counters, `fill_cycle`,
the `agu_*`, `issue_cycle`, `dispatch_cycle`, `fetch_cycle`, `commit_cycle` fields,
`waiting_on_mem_dep`, and the last-writer tables of the load profile.

`dispatch_stage` reads `op`, a reference to the front of `fetch_queue`, after
`pop_front` (TraceSim.cpp:300-306). That is undefined; in the build its
outcome is the old value, since the destructor is trivial and an emptied deque node
keeps those bytes. The model reads the old value.

### MemSubsystem and the prefetchers

The stages of a cycle that touch memory, in `run`'s order: the returns of the three
caches, the loads (`LoadAccepted`, `LoadRefused`), the arrivals from dispatch, one
fetch, the two prefetch queues. A demand access is one step, since
`access_l1_hierarchy` calls L1 and LLC without a way out in between; it asks the L1,
on `MISS_NEW` asks the LLC, and only then schedules the L1's fill. The callers are
modelled by how they ask: a load that was refused stays first in line and asks
again in the next cycle, a fetch that missed asks again for the same line when its
stall ends. A prefetcher proposes at most one line for an access that was not
blocked (loads) or that hit (fetch). The address space wraps at `NumLines`, as line
addresses do at 2^32.

### Frontend

`stage` is where `run()` is in a cycle: the loop's test with `process_returns`,
`advance_cycle`, the back end, the iterations of `fetch_stage`'s loop, `mark_cycle`.
Each way out of an iteration is an action: `FetchBlocked`, `FetchMiss`,
`LineBoundary`, `Deliver`, `EndTrace`, and `FetchDone` for the loop's condition.
Instructions are named by their position in the trace, so that a lost, repeated
or reordered one shows. The two neighbours are modelled by what they do to this
loop: the back end retires up to `COMMIT_WIDTH` of the instructions inside it, takes
from `inst_buffer`, may occupy the memory, and leaves a stall reason; the memory
answers a fetch by a hit, a miss with a ready cycle, or, while it is busy, a refusal.
`StallReasons` keeps the three classes that `mark_cycle` tells apart. `deadline` and
`ebreak` are history: the latest stall that was ever asked for, and whether the
program ended its own trace. The predictor is one of a set because one is
chosen at compile time; PROBABILISTIC goes by `rand()` and is any answer. The BTB
is written and never read for a decision, and is left out.

### Words, Alu

A word is the set of the positions of its 1 bits; `&`, `|`, `^` are set operations and
a mask is a set. `Width` is 32 in the code. Every rule of `Alu` is stated for
any width divisible by four (a byte is `Width \div 4`), except the bit numbers of
page table entries in `RefMemory`, which are the code's. Register forms and
immediate forms of one operation are one operator: the code writes them alike.
`Effect` is what an instruction does with registers and memory, `Reported` is what
it tells the timing model. The reference definitions in `MCAlgorithms` are in
integers and know no bits: products by `*`, quotients by `\div`, digits by base.

### RefMemory

One action is one instruction, or a change of context (privilege, status and satp),
which module `Hart` explains and which is free here. An address is a page and the
index of a word in it; a page has as many words as a page table has entries, as in
Sv32. The page tables are words of the same memory, so stores can change them,
and an entry is the set of its flag bits and of the bits of its page number. A load
changes only a register and is a stuttering step that must still be enabled. An
address outside of the memory ends the program (`exit`), which here is to take no
further step. `reserved` and `entry` are history: the word the latest LR read, and the
memory when the context last changed.

### Hart

One action is one call of `RISCV()`. A CSR of flags is the set of its bits, so a
mask is a set. `exception` takes what the code reads from members: the fault, the
interrupt flags and `Instruction`; for a fetch fault these are those of the step
before, which is why they are variables. General registers, trap values, `mcause`
and `scause` are left out, since only software reads them; software is "any CSR
write of `CsrWrites`". Nothing checks what it writes into MPP (exec.cpp:749-763), so
MPP and, by `mret`, privilege can be 2, the number of no mode (`Reserved`); an
`ECALL` at that level asks for no trap and falls through to the next instruction
(exec.cpp:622-626, 262, 473). EBREAK
and WFI stop the program. The history variables `trap`, `mframe` and `sframe`
remember what the latest traps interrupted, and forget it when software writes over
it; `mpp_reserved` remembers that software has put 2 into MPP. It starts at reset, or in user mode with the CSRs of any checkpoint a CPU could
have written.

## The runs

| run | instance | shows |
|---|---|---|
| `cache` | 3 blocks, one two-way set, 2 MSHRs, 4 cycles, latencies to 3, under LRU and under FIFO | copies, MSHRs, overdue fills, counters, prefetch verdicts, the victim is the policy's, refinement of BlockLife |
| `backend_memory` | 5 loads and stores over two addresses, 4 slots, oracle dependence, hits and misses, an instruction limit | order, queues, store list, forwarding, refinement of InOrderPipe |
| `backend_traps` | 3 instructions of every unit, traps included, one-entry queues, conservative dependence, STLF off, fairness | no queue overflows, every instruction retires |
| `frontend` | traces of 3 instructions over 2 lines, both modes, gshare and not-taken, 2 delays, fairness | nothing lost, fetched early or left behind; predictor, profiler and sample; every instruction retires |
| `algorithms` | every pair of 8-bit words; an instruction of every form; 5 accesses of a stride prefetcher | results, registers in the trace, prefetches exactly on a progression |
| `memory` | 3 lines; L1s of one line, an LLC of two under FIFO; 2 loads, 2 fetches, next-line prefetching; 12 cycles, fairness | refusals leave nothing behind, each level is a BlockLife, L1 fills come from below, loads and fetches are served |
| `refmemory` | 4 pages of two words, one outside of the memory; 3 images, 6 contexts, 2 words written | the reservation guards its word, stores are readable, user code is confined |
| `hart` | 2 addresses, reset and two checkpoints, 15 CSR writes (2 into MPP among them), no bound on steps | S and M views agree, trap frames survive nesting, levels stay modes until software makes one 2 |
| `backend_trapstore` | violation | a trapping store's commit pops another store |
| `backend_raw` | violation | a consumer issues before its producer |
| `backend_membound` | violation | a memory stall is counted Core Bound |
| `hart_stale` | violation | a fetch fault is reported as the interrupt before it |

Bounds.

* `backend_memory`, `backend_traps`: five instructions fill a ring of four, wrap it,
  and put a load behind two stores with their data while a miss holds the head; one
  cycle of `MaxIdle` lets an instruction be given back, the limit be reached, and that instruction still enter; with two slots and queues of one entry every
  resource is full after one or two dispatches. `MaxSimTime` is larger than any
  instance needs, so that reaching it would be a hang and
  `EveryInstructionRetires` would fail.
* `cache`: three blocks in two ways are the fewest that evict and fetch again.
* `memory`: every line competes for one way of an L1, and two loads, a fetch and two
  prefetch queues for two MSHRs of the LLC, so each kind of refusal happens; nothing
  arrives after cycle 2 (`LastArrival`), and the slowest chain of refusals ends well
  before cycle 12, so the liveness property is not cut off by the bound.
* `frontend`: two lines of two instructions have a line boundary, a group within a
  line and a jump between lines; three instructions are one in the back end, one in
  `inst_buffer` and one given back; a gshare of two history bits has aliasing and a
  history that wraps; two delays are a refusal after a miss, or a data access that
  outlives the trace. The warm-up is one instruction and the sample two. `MAX_SIM_TIME`
  is out of reach, as in a program that ends.
* `algorithms`: the operators have no case that depends on the width, and eight bits
  give bytes of two bits, so that sign, carry, truncation and lane all differ. A
  progression takes four lines, so five accesses allow one to start, break and start
  again.
* `refmemory`: thirteen bits are the ten flag bits of an entry and a page number of two
  with one to spare, the bit that the translation drops. The images have tables out of
  user code's reach, within it through a superpage, and with malformed entries;
  two writes are one to a table and one through it.
* `hart`: two addresses tell a return's target from any other, and the CSR writes
  change every field that traps and returns use, make MPP each of its four values and
  set UIE, which a trap to M hides from `sstatus`; the state space is finite and is
  explored whole.

`CHECK_DEADLOCK FALSE` is used where the run really ends: stage `done`, a cycle or
access bound, or (`refmemory`) the end of the program.

Fairness is weak fairness of the whole next-state relation (`FairSpec` in
`backend_traps`, `frontend` and `memory`): `run()` is one thread in a loop with no wait
in it, so a step that can be taken is taken. How often the back end stalls, the
memory refuses or a fetch misses is bounded by a budget, not by fairness: latencies
are finite and MSHRs are freed, which `memory` checks of itself. `hart` and
`refmemory` state no liveness: what software does next is its own.

### Findings

* A store that traps is not pushed to `store_indices` but is popped from it at
  commit (TraceSim.cpp:180, 302, 309). `backend_trapstore`.
* A register's ready time is written when the producer issues, not when it
  dispatches, so a consumer scanned first reads the older value's time
  (TraceSim.cpp:197). `backend_raw`.
* A full resource at dispatch replaces commit's MEMORY_WAIT, and the cycle counts as
  Core Bound where README.md:112 says Memory Bound (TraceSim.cpp:102). `backend_membound`.
* A fetch fault is classified by the interrupt flags and the instruction of the step
  before, which the comment at exec.cpp:285 assumes to be fresh (exec.cpp:496).
  `hart_stale`.

One disagreement with a comment has no run of its own. exec.cpp:358 calls `sstatus` the
shadow of `mstatus`, but a trap to M copies it with the mask 0x800DE762 (361), where every
other place uses 0x800DE133. Of the bits in which the masks differ, 6, 9 and 10 are 0 in
`mstatus` because its write mask leaves them out; 0 and 4 (UIE, UPIE) can be 1, and are
then missing from `sstatus` until the next return or write to the status, or lost from
`mstatus` too when a trap to S comes first and copies `sstatus` back (422). The program
itself never reads these two bits. `ShadowsAgree` states the agreement exactly: all bits of the S mask
but these two, and run `hart` writes UIE.

Seen while reading, with no statement in the repository to hold them against, and
so not findings: traps on a fetch fault and on reading `time` do not
set `is_trap` in the trace (exec.cpp:496, 694); an ECALL that is delegated and meets
a pending S interrupt reports cause 9 or 8 with the interrupt bit, by the order of the
tests (exec.cpp:376-383); an ECALL in M mode with medeleg bit 8 set reports cause 0
(exec.cpp:320); a fetch stall of one cycle has passed when `mark_cycle` asks for it, so
it is counted Other and not Frontend Bound (TraceSim.cpp:114, README.md:114-115);
software can make privilege 2, from which a delegated page fault leads down to S and an
ECALL is skipped (exec.cpp:622-626, 749-763); `advance_cycle` ignores `--max-insts` in ckpt mode (TraceSim.cpp:155); the LLC is not told
of demands that its L1s satisfy, so its prefetch verdicts count only the traffic that
reaches it (MemSubsystem.cpp:74); the callers of `va2pa` skip it in M mode whatever MPRV
says, although `va2pa` computes the effective privilege from it (exec.cpp:1055, 1122,
1557); an atomic is marked a trap in the trace by its virtual address (exec.cpp:796).

## The proofs

All for every value of the constants under the named assumptions of the modules
(`CacheAssumption`, `CacheUnitAssumption`, `BackendAssumption`, `HierarchyAssumption`,
`PrefetcherAssumption`, `FrontendAssumption`, `HartAssumption`, `TableAssumption`,
`RefMemoryAssumption`, `WidthAssumption`, `AluAssumption`): sizes are positive, an
instruction that is a load or a store goes to the load-store unit, a word has 4, 8, 16 or 32
bits. `PowerAssumption` and `DoublingAssumption` are arithmetic, not assumptions about the
code: powers of two are natural numbers and each is twice the one before, which the
provers do not know of `^`; TLC evaluates both. One theorem pair has a hypothesis
more, `NoTrappingStores`, below.

Cache (`CacheProofs`)

* `CacheInvariant`: the inductive invariant is the type, `NoDuplicateLine`,
  `NotBothPlaces`, `MSHRBound` and `NoOverdue` together. None is inductive alone:
  a fill keeps one copy only because the block in flight is not resident, and that
  holds only because a grant is given to a block that is neither. `SingleCopy`,
  `MSHRsBounded`, `FillsInFuture` and `TypeCorrect` follow.
* `AccountsBalance`, `VerdictsBalance`: the sums are inductive with that invariant
  (`Books`). A call changes one counter for each line it adds to, or takes from, one of
  the sets that the sums count: the prefetches in flight, those a demand waits for, and
  the lines filled and unused. The cardinalities change by one because a block in
  flight is not resident and a fill overwrites one way. `AccountsBalance` gives every prefetch
  one of seven fates, the refused ones counted by `abandoned`.
* `CacheRefinesBlockLife`: each step maps to a step of `BlockLife` or a stutter. `BlockLife`
  counts the resident lines of a set where the code looks at ways, so the proof needs a
  bijection between the two, for which every valid way must hold a line of memory
  (`Owned`). The victim's way is valid only in a full set, since both policies
  prefer an invalid one.

* `OldestLeaves`: the victim is the oldest of its set by the policy's own order. The code
  has only a stamp for each way, which LRU renews at a hit and FIFO does not; the
  invariant (`Dated`) is that the stamp of every valid way is what `CacheAges` saw happen to
  the block in it. A valid victim means that the whole set is valid, since both policies
  prefer an invalid way, and then the stamps order the blocks.

Back end (`BackendProofs`, `BackendQueues`)

* `TypeCorrect`: each action keeps the type; a loop body is one lemma.
* `ProgramOrder`: `InOrder` is inductive with the type. The argument is about
  the ring: `(head + k) % RobSize` is injective for `k < RobSize`, so writing the tail
  touches no live entry, and after a commit the k-th entry is the (k+1)-th before.
* `PipelineInOrder`: `InFlight` is the interval of numbers from the last retired to the last
  fetched, so a step of the three queues is seen in its two ends. The bound needs that
  fetch and decode keep their queues to size. An instruction that enters after the end is
  the one given back: `frontend_trace_exhausted` lets no other pass.
* `IssueQueuesHold`: `IssueInv` is program order, the queues' contents, and that what is not
  dispatched yet has no result. The queues are sorted by age, which makes an
  `erase` by position remove exactly one slot; commit takes a slot that is in no queue
  because it retires only what is executed and, for a store, has both halves done.
  It holds for every trace, trapping stores included.
* `QueuesKeepToSize`: for a trap, dispatch tests the queue of its unit and pushes to the ALU's.
  That is safe only because a trap waits for an empty reorder buffer, and then
  `IssueQueuesHold` makes every queue empty.
* `QueuesAreExact`, `LoadsAreSafe`: under `NoTrappingStores` the store list too holds
  exactly the live stores, oldest first, so the search from its end finds the youngest
  older store to an address or, under the conservative policy, stops at one whose
  address is not known yet. The hypothesis
  cannot be dropped: `backend_trapstore` shows `LoadsRespectStores` false of the code when a
  store traps. Nothing else about the trace, the dependence policy or the sizes is assumed.

MemSubsystem (`MemSubsystemProofs`)

* `TypeCorrect`: includes that a prefetch queue holds no line twice and keeps to its limit.
* `TrafficBalances`: the counters of an L1 and of the LLC that the sums relate (`Told`) move
  together in one access; a refused L1 access asks nothing of the LLC, and one that the LLC
  refuses is counted by both.
* `FillsComeFromBelow`: by cases over how the LLC answers in `FromBelow`: a hit has the line,
  a merge or a new miss is in flight with the cycle that the L1's fill is scheduled at or
  an earlier one.
* `LevelsRefineBlockLife`: every action changes a level by one of four moves (nothing, an
  access that allocates nothing, a granted one, a fill: `Moves`), the invariant of a
  level (`LevelOK`) is kept by each whatever the other levels do, and each is a step of
  `BlockLife` (`Lives`). What the composition adds is that a refusal from below returns the
  L1 to a state with the same lines in the same places.

Reference CPU (`HartProofs`, `RefMemoryProofs`)

* `HartProofs!Inductive`: the type, `ShadowsAgree` and `FramesKept` together are
  inductive. A trap frame survives the other mode's traps because these write other
  bits; that is seen bit by bit, for which the masks are expanded once, in
  `MStackedProperties`, `SStackedProperties` and `MergeProperties`. `ShadowsAgree` includes
  that `mstatus` keeps to its write mask, without which the odd mask of a trap to M would let
  bits 6, 9 and 10 into `sstatus` (`TrapMask`). An `sret` needs
  `ShadowsAgree`, since it restores from `sstatus` what is then compared with `mstatus`.
  `TypeCorrect`, `CopiesAgree`, `FramesSurvive` follow, and from them the action
  properties: `ReturnsRestore`, because the frame is what the registers hold when the
  return reads them, and `TrapsGoUp`, because an S interrupt needs a mode below M
  and nothing else that S can be delegated arises in M mode (an ECALL from M always
  traps to M, and M code is not translated). `TypeCorrect` follows privilege and MPP from trap
  to return and finds 2 in either only after software wrote it (`mpp_reserved`); nothing is
  assumed of what software writes, and of a checkpoint only that its copies agree.
* `RefMemoryProofs`: `ReservationSafe` and `UserCodeConfined` are inductive with the type. The
  second is the deep one: as long as user code has changed only what it was given, and
  that holds no word of a table, every walk reads what it read at the beginning
  (`WalkUnchanged`), so the next store too lands on what was given (`StoreIsWritable`).
  `StoresAreReadable` holds in every state: a well-formed entry that lets a store pass lets
  a load pass. `Ppn` stays a parameter of these proofs: no step looks into it.

Algorithms (`AlgorithmProofs`)

* `ProgressionsOnly`: the invariant (`Describes`) says what an entry of the table means: its
  line and stride are the last line and the last move of its pc, and the confidence tells how
  many moves before it were of the same length. Distances are modulo the address space, where a
  move is determined by the line it ends in.
* `InstructionsCompute`: each conjunct of `ArithmeticExact` for every pair of operands, at
  the 32 bits of the code as at 4. TLC looks at 2^16 pairs of 8 bits, and at 32 bits there
  are 2^64. The model computes on sets of bits, the reference in integers; `Value(w, k)`,
  the number of the k low bits of w, stands between. `PlusPrefix` is the adder: at every k
  the low bits of the sum and the carry into bit k are the sum of the low bits, by
  induction over k with the closed form of the carry (`CarryStep`). `Split` cuts a number at
  a bit, which gives shifts, bytes and masks. `HighestDifference` gives both orders, the signed
  one by flipping the sign bits (`SignFlipped`). `SignedWord` says when a conversion to
  uint32_t and back is the identity, which is where quotients meet their one overflow; and a
  rotation multiplies modulo 2^Width - 1 because 2^Width is 1 there
  (`RotationMultiplies`). Products without carries need no induction: both sides
  count the same pairs of bits (`Pairs`).
* `RegistersReported`: for every form of every instruction. No more: an effect is a function
  of the reported registers alone (`UnreportedUnused`). No fewer: for each operation, and each
  operand of it, there are two values that give different results (`BothOperandsTell`), at
  every width. `Samples` holds such values, which is why four words are enough for the run.

Front end (`FrontendProofs`)

* `TypeCorrect`, one lemma for each action; `InstructionsInOrder`: `TraceInOrder` is
  inductive with the type, because what is left behind is at most the
  last instruction of the trace, so the next position is always the trace's end.
* `DeadlinesHold`: the invariant is that the latest deadline is the stall's or
  has passed. `set_fetch_stall` never shortens a stall, and `DeliveryServes` shows that the
  stalls a delivery sets cover what the instruction owes.
* `NoneLeftBehind`: the loop's test does not look at `pre_fetch_buffer`, so the
  invariant (`Awaited`) follows the instruction from stage to stage: the stall that keeps it
  is over in this cycle or the memory is busy as long as it lasts, a line boundary
  leaves something in `inst_buffer`, and at the loop's test one of the things it does look
  at is left.
* `Accounts`: the equations hold in the middle of a cycle if what retired and
  is not marked yet is added (`Ledger`); the reset is sound because nothing has retired in
  the cycle when it happens. `SampleWhole`: while the warm-up runs it is incomplete
  when a cycle begins, so it ends with at most `COMMIT_WIDTH - 1` instructions too many.
* `PredictorSound`: the tables are the replay of the delivered branches (`Replayed`), each
  trained once and in order, whatever was fetched, held back or given again in between.
  The replay is recursive, and a recursive definition says nothing to a prover until a
  function that satisfies it is known to exist. `Recursion` (here and in `AlgorithmProofs`, for
  `Number`) shows that by building one step after another, and `UpTo` is the induction both need: a set of numbers that holds 0 and, with
  a number below a bound, the next one, holds all up to the bound, or it would have a least
  exception. A delivered branch then adds one step to each replay, and the ones for
  shorter traces stay what they are. The history register is compared as a number:
  shifting it and cutting it off is shifting the weights of its bits, for which
  `PowerAssumption` states that 2^d doubles with d. How the index mixes pc and
  history is never looked into.

Not provable here and left to TLC: liveness (`EveryInstructionRetires`,
`EveryRequestServed`), and everything that needs ENABLED. The library's induction theorems take
an operator as a parameter and cannot be cited. Where a minimum or an induction is
needed (the victim of a set, the youngest store before a load, the replay of a
trace) the proofs take the least element of a well-founded relation, which the library
states without one.

Every invariant and every action property of the passing runs is stated by a theorem. What
only TLC checks is `EveryInstructionRetires` (`Backend` and `Frontend`), `EveryRequestServed`,
and the properties of the runs that expect a violation.

## Not modelled

* The load profile and the last-writer tables of the back end, which no stage
  reads, and the counts of forwarded and stalled loads: they only count.
* SimPoint: block vectors and checkpoints are taken only with GEN_BBV and
  GEN_CHECKPOINT, which `main` cannot choose, and `save_checkpoint` is not
  implemented; `restore_checkpoint` reads a file into a fresh state, which `Hart` and
  `RefMemory` cover as initial states.
* The encoding of instructions: an instruction is its operation and its registers.
* `TemplatePrefetcher`, `TemplateBranchPredictor`, `TemplateReplacementPolicy`, which no
  factory makes; argument parsing, printing, and the scripts around the program.

## The plan

Done, in this order: `CacheOps`, `Cache`, `BlockLife` (the data everything else
waits for); `Backend`, `InOrderPipe` (the simulator's own core); `Prefetchers`,
`MemSubsystem` (the composition); `Hart` (where the instructions come from); the
type invariants, one copy per line, program order and the trap frames proved; then
`Frontend` with the predictors and the profiler, `Words`, `RefMemory` and `Alu`, and the
proofs about `Frontend` and `RefMemory`; then the queues, loads and pipe of `Backend`, the
accounts of `Cache`, and both refinements of `BlockLife`; then the profiler's accounts, the
stride prefetcher, the replay of the predictors and the order in which blocks are evicted;
then arithmetic and the reported registers, for every width.

Next:

1. One module for the lemmas about recursive functions and powers of two that `FrontendProofs`
   and `AlgorithmProofs` both prove (`UpTo`, `Recursion`).
2. `Backend` takes a trace as given and `Frontend` delivers one: what the first assumes of the
   order of delivery, stated once, as a specification that `Frontend` implements.

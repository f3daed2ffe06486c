# RingSketch in TLA+

This directory holds a TLA+ development of RingSketch: network measurement with
sketches that forget, fed by Open vSwitch through a ring buffer in shared memory,
and a P4 version of the same idea; and of the Open vSwitch datapath whose poll threads fill the
ring: how they are started and stopped, given queues, and how they find the flow of a packet, offload
it, meter it and send it. It consists of specifications translated from the
source, TLC runs that check them on small instances, and proofs, checked by TLAPS, of
the results that matter most for every instance.

    tlc -workers 2 -config RingProgram.cfg RingRestart.tla      # a run
    tlapm RingBufferProofs.tla                                   # a proof

`PROJECT.json` lists the runs, the mutants (bugs planted one at a time, each of which
the property beside it must notice), the lines of code every definition stands for, the
hazards of the code and the theorems.

## The system

    packets --> OvS poll thread --(ring in shared memory)--> user_reader --> sketches
                dpif-netdev.c      ringbuffer_user.cpp       user_reader.cpp  algorithms/

A poll thread of OvS (`dfc_processing` in `dpif-netdev.c`) extracts a tuple from every
TCP or UDP packet and spins until `write_ringbuffer` has taken it. `user_reader`
polls its rings, inserts tuples into two sketches until an all-zero tuple comes, and
from then on answers a query for each tuple. SIGINT stops it. The two processes share
nothing but the ring.

| Component | State | Operations | What is hard | What makes it correct |
|---|---|---|---|---|
| Ring buffer (`ringbuffer_user.cpp`, copy in `dpif-netdev.c`) | six indexes, two batch counters, the slots, all in shared memory | write, read, flush, read_complete, size | no lock; each side caches the other's index; publication in batches; a reader killed anywhere | a FIFO queue; memcpys never meet; full and empty reported honestly; the write loop ends |
| Ring lifecycle (same files) | names, objects, mappings, a semaphore | create, connect, configure and destroy a poll thread | either process restarted at any step; names shared by threads | one writer per ring; initialising loses nothing; every ring can be found |
| `user_reader` | rings, two sketches, two files, `KEEP_RUNNING` | insert loop, query loop, signal handler | the handler runs between any two statements | every tuple counted or answered once and in order; no answer from a cleared sketch; it stops |
| Ring sketches (`RingSketch/`) | four areas, their epochs, an insertion counter | insert, query, clear | reuse of areas, 16-bit epochs, counters that turn from exact to sampled | a query adds up exactly the last epochs; the error is the sketch's own |
| Sliding sketches (`SlidingSketch/`) | cells of `day` counters, a hand that shifts them | insert, query, clear | cells of different age are combined; steps that are truncated quotients | what a query reports is bounded from both sides by windows of the stream |
| P4 ingress (`p4_implementation.p4`) | registers: packet number, four flags, twelve rows of counters | one packet | wrap of the cycle, of cells, flags per sub-period | areas balanced; cells never over; flags mark new data |
| Poll-mode threads (`dpif-netdev.c`) | per thread: lists kept for it, its private copies, flags, transmit queue id, XPS counters; the main thread's place in a reconfiguration | ports and masks change, reload, exit | the handshake of flags; ids swapped after the main thread went on; a thread that spins on its ring | no queue polled twice, no port touched while used, ids distinct and in range, every reconfiguration takes effect and ends |
| Queue scheduling (`dpif-netdev.c`) | queues, pins, isolation, measured cycles, auto-balancing | configure, pin, measure, run | a walk that turns back past isolated threads; an assignment judged out of place | queues polled where they must be; nodes balanced; a rebalancing changes something |
| Flow caches (`dpif-netdev.c`) | per thread: EMC, SMC, flow table, classifiers; a batch on its way through them | receive, look up, upcall, execute; put and delete a flow | lookups without a lock while flows come and go; caches that outlive what they point to; misses that overtake hits | a packet gets a flow that matches it and was there; order kept; reference counts exact |
| Classifier (`dpif-netdev.c`) | rules in subtables, a map of these and a published vector | insert, remove, rank, look up | a lookup goes through a vector that is out of date and subtables as they are | an answer was right at some time during the lookup |
| Flow offload (`dpif-netdev.c`) | marks, their owners, a list of requests, the card | put, modify, delete a flow; the offload thread; ports come and go | flags read under no lock; a request that outlives its flow; a card that refuses, deletions too | a mark has one owner; the card marks for no other mega flow, unless it has kept a rule it was to delete; a removed flow is freed |
| Meters (`dpif-netdev.c`) | buckets, the time of the last use | set, delete, a batch in a thread | threads with clocks of their own; truncation; replaced while used | never more than burst and rate |
| Transmission (`dpif-netdev.c`) | per thread: packets held for each port, when to send them | output, through a bond or not; flush; reload of the ports | a flush in the middle of a batch; an interval that changes; ports thrown away with packets | nothing lost, repeated or reordered; sent in time |
| Rest of `dpif-netdev.c` | ports, statistics, command line | configuration and I/O | | not modelled |

They interact by call (`dfc_processing` calls `write_ringbuffer`, `main` calls
`read_ringbuffer` and the sketches), by shared memory (the ring), by signal (SIGINT) and
by name (`/rb_0`).

## Modules

Arrows read "is used by". MC modules give constants their values for TLC.

    TupleQueue --> RingBuffer --> RingRestart (ring_program) --+
                       |                                       |
                       +--> RingStores --+                     +--> RingBufferProofs
                                         +--> MCRingBuffer ----+   (ring_api)
                       RingLifecycle ----+
                            +--> MCRingLifecycle (ring_names)
    UserReader (user_reader) --> UserReaderProofs
    AreaRing --> AreaWindow --> BloomFilter --+
        |        +--> HeavyKeeper ------------+
        +--> CMSketch ------------------------+
        +--> CountSketch <-- HeapMedian ------+
    P4Sketch ---------------------------------+--> MCSketches (sketches)
        +--> MCP4Sketch (p4_flags)            |        +--> SketchProofs
    SlideRing --> SlidingSketch --------------+
        +--> CountSketchSS <-- HeapMedian ----+
        +--> BloomFilterSS -------------------+
    HeavyKeeperSS ----------------------------+
    PmdReload --> MCPmdReload (pmd_reload), PmdReloadProofs
        +--> MCLiveness (pmd_liveness) <---+
    RxqSchedule --> MCRxqSchedule          |   (rxq_schedule, rxq_isolated)
        +--> RxqScheduleProofs             |
    FlowOffload ---------------------------+--+
    Classifier -------------------------------+--> MCDatapath (datapath) <-- FlowCache
    OutputBatch ------------------------------+--> DatapathProofs  |
    Meter ------------------------------------+         |          |
        +--> MCMeter (meter_refill)                     +----------+--> FlowCacheProofs

`FoldLemmas` holds what `RxqScheduleProofs` and `DatapathProofs` need of sums, folds and sorting.

Where one MC module holds several components that share no state, a behaviour is about one of them
(`sketch`, `part`) and the variables of the others stay as they are: the reachable states are the sum
of those of the components, not the product.

### RingBuffer, RingRestart, TupleQueue

One action of `RingBuffer` is one access to the shared memory, in program order:
`write_ringbuffer` is the sequence `WriteTestLocal`, `WriteTestGlobal`, `WriteLoad`,
`WriteStore`, `WriteCopyBegin`, `WriteCopyEnd`, `WriteAdvance`, `WritePublish`, and
`read_ringbuffer` likewise. `wpc` and `rpc` say which access comes next, `wreg` and `rreg`
hold an index between its load and its store. A memcpy is two steps, between which the slot
holds `NoTuple`: a reader that overlapped a writer would carry half a tuple away, and
`FifoQueue` would fail. Increments of a side's own counter (`wBatchCount++`) are
joined with the access after them where the other side cannot see between.

`flush_ringbuffer` and `read_complete_ringbuffer` are called by neither program; constant
`ApiCalls` turns them on, and the runs and the proofs say which combinations are safe.
`RingRestart` adds a bounded number of kills of the reader at any point.

`TupleQueue` is what the ring promises: a queue of `RB_SIZE - 1` tuples and the tuple a
reader holds. The refinement maps the unread slots to the queue; a tuple enters with
`WriteAdvance`, leaves with `ReadAdvance`, and every other step is invisible.

### RingStores

The same calls when stores are seen late, since `rb_barrier` is commented out. The variables of `RingBuffer`
hold what was stored last; `seenData`, `seenWriteIndex` and `seenReadIndex` hold what has reached the
other side, and `stores`, `readStores` what has not. `RingBuffer` is instantiated once for each side, over what
that side sees; `WriterStoreSeen` and `ReaderStoreSeen` let the oldest store through. `IInv` and `FifoQueue` are stated
over what was stored last and hold as they are: the ring needs no barrier where stores keep their order, as on
x86 (and where the compiler does not move the memcpys, which are not volatile, across the indexes, which are). They
fail as soon as stores to different addresses may overtake one another, which is the mutant of `FifoQueue`.

### RingLifecycle

Objects of shared memory, the name leading to each, the ring of each poll thread, the
mapping of each reader. `create_ringbuffer_shm` is `Unlink`, `Open`, `Zero`;
`connect_ringbuffer_shm` is `ConnectOpen` (it spins until the name exists) and `ConnectMap`.
`OvsKilled` and `ReaderKilled` may come anywhere. Of a ring's contents only the number of
unread tuples is kept. The name of a PMD thread's ring is the constant `ring_name`: the
code makes it from `index`, a function, so that `MCRingLifecycle` gives all PMD threads one name.

### UserReader

`main` one statement at a time from the call of `signal` on, and `handler` between any two of
them. Rings are queues, as proved for `RingBuffer`; a sketch is the list of tuples inserted
since it was cleared, which is the most any sketch could answer from. The handler has no atomicity
to break below the level of statements that the model could tell apart: what it clears, it clears whole.
The uninitialised `t` of a loop iteration is what the previous iteration left, or anything at first.
The ghost `written` has every tuple a PMD thread wrote, so that `CountedOnce` can say that what `main`
has counted or answered is exactly what has been read, no tuple lost and none twice; and, of a `main` that the handler
stops in a failed read (`user_reader.cpp:109`), which exceptions there are: the query in hand is dropped, or a
stale `t` is counted as the last one, and no line is written then.

### AreaRing and the Ring sketches

`AreaRing` holds what the four classes share: `sequence`, `epoches`, the choice of the area, and
what `clear` does. The ghost `held` counts what each area has received since it was
zeroed. `AreaWindow` relates `held` to the stream itself, of which the ghost `log` keeps the last four
windows by number; `CMSketch`, `CountSketch`, `HeavyKeeper` and `BloomFilter` relate their counters to
`held`. Together they bound what a query reports by the stream. `HeavyKeeper` and `BloomFilter` extend `AreaWindow`: their
`insert` and `clear` carry the log with them. What `AreaWindow` says does not depend on the cells, and so
holds of all four. Random draws are free choices, per row, so that the properties hold for
every outcome. `EPOCHS` stands for 2^16. `HeapMedian` is the pure part of the count sketches.

### SlideRing and the sliding sketches

`SlideRing` holds the hand, the shift and the ghost `log` of the last keys for the three sketches
whose hand passes at least a cell per insertion. `HeavyKeeperSS` has a module of its own: its hand
moves once every `step` insertions, its cells are keyed, keys are compared by one byte of
thirteen, and its counters and key pointers start as whatever the heap holds (`heavyKeeper_ss.cpp:22`). A pointer that no
insertion has set is `NoKey`; where its counter is not 0 the code follows it (48, 90), and what the comparison says is a free
choice every time (`Same`), for an insertion as for a query, which therefore may return any of several counts (`query`). Until
the hand has come round such counts are reported, and no property excludes it: `NeverOver` speaks of keys whose cells hold
none (on zeroed memory that is always, since a counter of 0 is never compared), `HeapIsForgotten` says that after a
round of the hand no cell does.

### P4Sketch

`apply` is one packet: `getSub` numbers it, the number modulo 4 chooses the area, three cells
are incremented, and the packets that start a sub-period set flags. `FirstOf` and `Raised` keep the
code's constants and its exchange of register `flag1` for `flag3`.

### PmdReload

One entry of `poll_threads` per core, and the entry without a thread (`NonPmd`) for the main thread. The
main thread's place is `main`, with what is left of its loop in `todo` and where a
`reload_affected_pmds` returns to in `ret`. A reconfiguration is the steps of
`reconfigure_datapath`:

| Step of the code | Actions |
|---|---|
| threads deleted, ids adjusted, threads created (`reconfigure_pmd_threads`) | `CheckThreads`, `DelPmd`, `DelPmdReload`, `DelPmdJoin`, `AllDeleted`, `CreatePmd`, `AllCreated` |
| 1, 2: ports that changed leave the lists, reload | `StartReconfiguration`, `RemoveStalePorts`, `BeginReload` |
| 3: ports are reconfigured, some fail and are destroyed | `PortReconfigured`, `PortFails` |
| 4: scheduling | `ScheduleRxqs`, any assignment (which one is `RxqSchedule`) |
| 5: queues leave the lists, reload | `DropQueues` |
| 6, 7: queues and ports are added, reload | `AddQueue`, `AddTxPorts`, `EndReconfiguration` |
| a reload of one thread | `ReloadNonPmd`, `ReloadSeq`, `ReloadFlag`, `WaitReloaded` |

A thread is `PmdStart`, `PmdIterate` (a look at its queues, ended by `PmdIterated`, before which
`write_ringbuffer` may hold it), `PmdLoad`, `PmdReloadDone`, `PmdFreeTxQid`, `PmdAllocTxQid`, `PmdWake`,
`PmdLeave`. Lists are atomic under `port_mutex`; every flag and the sequence number is a step of its own.

### RxqSchedule

The scheduler runs in the main thread under one lock, so that an operation is one step:
`set_config`, `set_rxq_affinity`, `StoreCycles` (a thread measures) and `run` (`dpif_netdev_run`, with
the dry run and the reconfiguration). Inside, the algorithm is as in the code: `pin`, then
`assign` folded over the queues in the order of their cycles or of their ports, by a walk that turns
back (`next_rr`, `next_noniso_rr`) or to the least loaded (`get_lowest`). A list
(`struct sched_numa_list`) is a record, the same for an assignment that is put in place, one that is
estimated and the current one (`assignments`). The history of a queue's cycles is not a variable: it is
refreshed before every use, but by roundrobin, which has no use for it. A thread's intervals are forgotten by a
reload, but not if the reload leaves it without queues: it sleeps before it comes to that (`dpif-netdev.c:6258-6274`), and
the next dry run divides by the old ones. Whether a thread is
overloaded and the timer has run out is a free choice (`due`).

### FlowCache and Classifier

One batch of `dp_netdev_input__` against the changes of the thread's flow table, which any thread makes under
`flow_mutex`. The batch is in `in`; `pc` says which loop it has come to:

| Step of the code | Actions |
|---|---|
| `dfc_processing`: EMC, and the first misses | `Receive`, `dfc_processing` (one packet each), `dfc_done` |
| `smc_lookup_batch` | `smc_hit`, `smc_miss`, `smc_done` |
| `fast_path_processing`: classifier, upcall, insertions | `dpcls_lookup`, `lookup_done`, `upcall_skip`, `upcall_found`, `upcall_error`, `handle_packet_upcall`, the installation of the flow (`install`, `install_insert`), `upcall_done` |
| the rest of the packets is batched | `enqueue`, `enqueue_done`, `queue` (one packet each), `queue_done` |
| execution of the batches by flow | `packet_batch_per_flow_execute` (one batch each), `Return` |
| `flow_put_on_pmd`, `dp_netdev_pmd_remove_flow` | `flow_put`, `flow_put_table`; `flow_del`, `flow_del_table`, `flow_del_dead` |
| EMC sweep, RCU | `emc_cache_slow_sweep`, `Quiesce` |

The tables the caches point into are concurrent maps: `flow_table` gives each flow a position, which a
cuckoo insertion may change under the SMC. Freed memory is taken again (`Allocate`), so that a stale
pointer would be seen. A key has two entries in the EMC (`emc_pos`), which it may share with other keys in either
order: which is tried first, and which is taken (`EntryFor`), is as in `emc_lookup` and `emc_insert`. Two fields of
`in` only observe: the flows that were dead when the batch came, and whether a flow was removed since.

`Classifier` is the inside of one port's classifier. A lookup keeps the vector it began with (`lookup.vector`)
and goes through it one subtable per step, while `dpcls_insert`, `dpcls_remove`, the destruction of an empty
subtable and `dpcls_sort_subtable_vector` change what is published. `seen` collects what each key would have
found at any moment since the lookup began; `LookupIsAtomic` says that the answer is one of these.

### FlowOffload

`dp_netdev_flow` with its count, mark and `dead`; the list; the offload thread (`pc`, `item`, `held`); the three
tables of `flow_mark`; and the card (`hw`), which is external. The thread's functions are cut where it reads or
writes what others use under no lock: `flow->dead` and `flow->mark` are looked at (`put_dead`, `put_alive`) before
the mark is found or allocated (`put_found`, `flow_mark_alloc`), the card is asked (`netdev_flow_put`,
`put_failed`), and the mark associated (`put_associate`). The card may refuse anything, the deletion of a rule
(`netdev_flow_del`) included, and `do_del_port` may leave rules behind; `mark_to_flow_disassociate` frees the mark
all the same (`dpif-netdev.c:2598`, 2604), so that a rule the card has kept may carry a mark that has gone to another mega
flow. The ghost `undeleted` has the mega flows of such rules: `HardwareOwned` says that all others carry their mega
flow's own mark, and `FoundByMark` that what a thread finds by such a mark (`mark_to_flow_find`) is its one live flow of that
mega flow. What the packets of a kept rule find is not bounded by anything in the code. `dp_netdev_pmd_remove_flow` looks at the mark
(`remove_flow`) and only then sets `dead` (`remove_flow_dead`). Which thread the port's lock makes wait does not
matter: a port that is being deleted is one whose offload fails.

### Meter and OutputBatch

`dp_meter_lookup` and the locked body of `dp_netdev_run_meter` are two steps, with replacement and
deletion of the meter between them. Each thread has the time it last read (`now`), so a meter may see time go back.
The log of what a meter let through is a ghost; `MeterConforms` bounds it over every interval by the bucket.
`MCMeter` has the code's scale of 1000 and one thread.

`OutputBatch` is a thread's `send_port_cache` and `tx_bond`: packets are numbered as a port is given them, and a
flush that sent one out of turn would not advance `sent`. `Done` and `NothingReceived` end a pass as
`pmd_thread_main` does; `pmd_load_cached_ports` throws the copies away.

## Runs

| Run | Checks | Bounds and why they are enough |
|---|---|---|
| ring_program (`RingRestart`) | the program as configured, with kills of the reader: `CopiesApart`, `ReportsHonest`, liveness `WriteReturns`, `StoredIsRead` | 4 slots, `RB_BATCH` 1 as in the code: the ring fills, empties and wraps, both caches go stale; 2 kills: one slot fewer than it takes to stop the writer |
| ring_api (`MCRingBuffer`) | calls: the inductive invariant `IInv` and the refinement `FifoQueue`, with batches and the calls neither program makes; stores (`RingStores`): the same two with stores that are seen late; setup (`RingLifecycle`): `SetupSound`, that is `SingleWriter` and `OverwritesNothing` | calls: 3 slots, batches of 2, 2 tuples: a batch is unpublished on either side; `FewKilledPublishes` caps `rBatchCount`, whose values above `RB_BATCH` act alike. Stores: as calls, 5 stores of a side may wait (`MaxStores`), all that a batch makes. Setup: non-PMD thread and 2 PMD threads, 2 readers, 4 objects: every thread's ring is replaced. 2.8 million states, 1 minute |
| ring_names (`MCRingLifecycle`) | expects a violation of `RingPerThread`, see Findings | the threads and readers of ring_api |
| sketches (`MCSketches`) | the Ring sketches: `WindowExact` (windows, clears), `CountBounds`, `KeeperBounds`, `KeeperCellsOwn`, `BloomBounds`, `MedianBounds` (the median itself, and what it is worth); the switch: `SwitchCounts`; the sliding sketches: `CountBounds`, `BloomBounds` | Ring: `EPOCHS` 8 for 2^16. BloomFilter: 3 keys in a turn of the areas and beyond, 2 in three turns and more, across a wrap, and 2 after an early clear. HeavyKeeper: 3 keys that meet in one row, 6 insertions and a clear anywhere; 2 keys for 19 insertions, windows of 2, beyond the wrap; up to 3 insertions of a key, a clear, and 2 keys until nothing old is left. `CAP` 1 or 2, so that counts are sampled; medians of up to 5 counts in -2 .. 2; a cycle of 16 packets and 5 values of a cell, both of which wrap. Sliding: 6 cells with a window of 3 and `day` 2 or a window of 6 and `day` 3, 4 cells with a window of 4 and `day` 3, the hand two cells at a time; 4 cells and a step of 1 and 2 for heavyKeeper_ss, on zeroed memory and, for two keys, on garbage counts of -1 and 2 with stray pointers; the log is cut at the longest window. `EarlyClear` ends the streams of CMSketch and CountSketch soon after a clear. 0.56 million states, 2 minutes |
| p4_flags | expects a violation of `NewDataIsFlagged`, see Findings | one cycle |
| user_reader (`UserReader`) | `CountedOnce`, `ResultLines`, liveness `StopsWhenTold`, `EveryRingIsRead` | 2 rings, 4 tuples, 1 signal (a second finds the program stopping) |
| pmd_reload (`MCPmdReload`) | `ReloadInv` (the inductive invariant of the proofs), `NoDoublePoll`, `PortQuiescent`, `TxQueuesSound` (ids in range, XPS counters exact), `TxQidsDistinct`, `ReconfigurationTakesEffect` | 2 cores, a PMD port with 2 queues, a port with fewer transmit queues than threads (so XPS and its end occur); 2.6 million states, complete: nothing is bounded but the sets |
| pmd_liveness (`MCLiveness`) | of PmdReload `ReloadsEnd`, that is `ReconfigurationEnds` and `SpinEnds`; of FlowOffload `RemovedFlowsAreFreed`, and `MarksOwned`, `HardwareOwned` on the way | pmd_reload with one port (a reconfiguration has the same steps); 2 threads, 2 mega flows, 2 flows, one mark, one request in the list and one in work: marks run out, the list fills, and a rule the card has kept meets the next owner of its mark. 2 to 3 minutes |
| datapath (`MCDatapath`) | FlowCache: `RefsExact`, `RightFlow`, `OrderKept`; FlowOffload: `OffloadSound`, that is its `RefsExact` and `FoundByMark`; Classifier: `LookupIsAtomic`; Meter: `MeterConforms` (with `MeterCounts`); OutputBatch: `OutputOrder` (with `BatchesCounted`), `FlushedInTime` | see below; 5.7 million states, 3 minutes |
| meter_refill (`MCMeter`) | expects a violation of `IdleFills`, see Findings | one band of 1500 packets per second with a burst of one |
| rxq_schedule | `PlacementSound`, `MovesBalance`, `DryRunGrounded`, `RebalanceMoves` | 3 cores on 2 NUMA nodes, 4 queues: isolated threads on the way of the walk, a node without free threads, a pin to a core without a thread; 3 changes of configuration and any number of measurements and rebalancings |
| rxq_isolated | expects a violation of `VarianceExcludesIsolated`, see Findings | the same |

Bounds of the datapath run. Offload: 2 threads, 2 mega flows, 3 flows, 2 marks, a list of one: a flow of the
same mega flow in each thread and a third that is freed and taken again meanwhile; marks run out when both are
held. Caches: 3 keys of 2 mega flows, 2 flows, an EMC of 2 entries in which two keys meet, one SMC entry;
two keys with the same entries, a third with one of its own before; batches of one and two packets in six arrangements (two keys of one flow, of two, a runt before a packet): the
shortest in which a packet can overtake another. Classifier: 2 keys, 3 rules, 2 masks, 3 subtables, so
that one is freed while a lookup still has it. Meter: 2 threads, 2 memories, 3 batches, packet and bit
rates, one and two bands, one of which takes longer to fill than a `uint32_t` can say (`DELTA_VALUES`, 3 for 2^32). Output: 2 ports, 2 sources, bursts of 2, intervals 0 and 1, one output action a batch.

Three reductions keep it small. `Symmetry` permutes threads and mega flows of FlowOffload, whose
definitions do not tell them apart, and only invariants are checked. `InOrder` takes free memory and free
marks in order of their numbers: nothing compares them, and what has been freed is alike. `LocalFirst` takes
at once the steps that touch only what the thread itself reads (the end of a loop, an upcall that is
skipped; of the offload thread, the allocation of a mark, which no other thread sees): they commute with
every step of another thread, so that the states left out differ from others only by such a step, and what
the properties relate to it does not change meanwhile.

Deadlock is checked in ring_program, ring_api, pmd_reload, pmd_liveness and rxq_schedule, which never
stop. The others stop at a bound: UserReader, the sketches and the switch on insertions, packets or signals
(`MaxInserts`, `MaxPackets`, `MaxSent`, `MaxSignals`), RingLifecycle at `MaxObjects`, Meter at `MaxTime` and
`MaxBatches`; their configurations say `CHECK_DEADLOCK FALSE`.

### Fairness

`RestartSpec` of the ring assumes weak fairness of the writer's and of the reader's steps: each is a
process on a core of its own that busy-waits. Calls of `write_ringbuffer` are not fair: packets may
cease. `UserReader` assumes weak fairness of `main`, a process under an ordinary scheduler; signals and
packets are not fair. `FairSpec` of PmdReload assumes weak fairness of the main thread's steps and of
every PMD thread's, threads of the operating system; requests are not fair. The step that ends
an iteration (`PmdIterated`) is among them, which is to say that the thread's ring is read: that is
`WriteReturns`, with its reader. `ring_names` shows where this is not so. `FairSpec` of FlowOffload assumes
weak fairness of the offload thread, a thread of its own that does nothing else, and of
`remove_flow_dead`, since nobody keeps a `flow_mutex`; that flows are put and removed is not assumed.
`OffloadStep` is one disjunction: the thread takes a step, whichever the card's answer makes it. Nothing else has
a liveness property: the sketches are passive objects, and the scheduler is a function of the main thread.

### Findings

* `meter_refill`: the longest time a meter credits is a truncated quotient (`dpif-netdev.c:6608`), against the
  comment above it. A band whose rate is more than a thousand times its burst never gets anything, and drops
  all once its bucket is empty; of another, a bucket never gets the last `rate - 1` units at a time.
* `ring_names`: all PMD threads name their ring alike (`dpif-netdev.c:6837`), against
  `user_reader.cpp:36-37`; all but the last of these rings cannot be read, and their threads
  spin for ever once the ring is full.
* `p4_flags`: the flags of sub-periods 2 to 4 are never raised (`p4_implementation.p4:568`, 582, 596).
* `rxq_isolated`: the current variance leaves out a thread that is not isolated, because
  `sched_numa_list_assignments` (`dpif-netdev.c:5109`) does not ask whether the core a queue is
  pinned to has a thread. `RebalanceMoves` holds where it has.

Five observations that no run expects. `read_complete_ringbuffer` stores an index of the writer and
`flush_ringbuffer` one of the reader; if a writer flushes with what it loaded before the reader
completed, `readIndex` falls behind `localReadIndex`. Neither program calls them, and
`MCRingBuffer` and the proofs exclude this combination. `connect_ringbuffer_shm` returns before the wait
its comment announces (`ringbuffer_user.cpp:130`), which does no harm as a new object is zero. With a
`pmd-auto-lb-improvement-threshold` of 0 every dry run asks for a rebalancing (`RebalanceMoves` excludes it).
A flow that gets its mark between the look of `dp_netdev_pmd_remove_flow` at it (`dpif-netdev.c:2867`) and the
store of `dead` (2870) is never queued for deletion: it keeps mark, rule and memory (`RemovedFlowsAreFreed`
speaks of those that are queued). A meter used by threads whose clocks differ credits a stretch of time
again when it passes a second time (`MeterConforms` counts the clock's steps forward).

## Proofs

All theorems hold for every value of the constants that meets the assumptions stated beside them.

* `RingBufferProofs` (assumes `RB_SIZE >= 2`, `RB_BATCH >= 1`, `NoTuple` no tuple; and the theorems about `Spec`, but
  for `TypeCorrect`, that `ApiCalls` does not hold both `writerFlush` and `readComplete`).
  `IndexOrder` alone is not inductive: whether the writer may advance depends on what it has
  learnt at its point of the call. `IInv` therefore adds `WriterInv` and `ReaderInv` (what
  each side knows at each program counter) and `SlotInv` (the unread slots hold whole
  tuples, and a copy in progress agrees with its slot). The argument measures every index by its
  distance from one base that is behind all of them; the lemmas on `Ahead` are the only place where
  wrapping is reasoned about. `Init => IInv` and one lemma per conjunct give `Invariance`;
  `IndexesNeverCross`, `CopiesNeverMeet` follow, and `RingIsQueue` maps each step to a
  step of `TupleQueue` or a stutter.
  Kills (`RestartSpec`): without flushes and kills the lag of a published index equals its batch counter, so
  full and empty are reported honestly; with kills, the lag grows by at most one each
  (`RestartsWithholdLittle`, `ReportsAreHonest`).
  Late stores (`StoresSpec`): `LateStoresKeepTheRing`, `LateStoresKeepTheQueue`. `StoresInv` says that what a side sees
  of an index is behind what was stored and never behind what the side knew already; that the stores to an index
  which are still on their way go forward, and the last of them is what was stored; and that no tuple is on its
  way to a slot behind an index that promises it. Then a step on what is seen is a step of the ring on what was
  stored, or one of four (`LateStep`): the ring is found full or empty when it no longer is, or an older index is loaded.
  Such a step keeps `IInv` and is invisible to the queue.
  Setup (`RingLifecycle`; assumes that the names of rings and readers are names): `OneWriter`,
  `CreationDiscardsNothing` and, of the behaviours of `MCRingBuffer` that are about setup, `SetupIsSound`.
  They rest on `O_EXCL` after `shm_unlink`: the object that a name leads to after `Open` is one nobody has
  initialised, and only initialised objects are written to (`FreshInv`). `DistinctNamesFindRings` adds the
  hypothesis that `ring_name` is injective, and shows that it is all `RingPerThread` lacks.
* `UserReaderProofs` (assumes one ring at least, and that the all-zero tuple is none of the others): `TuplesCountedOnce`,
  `ResultsCanBeTrusted`. The handler clears, closes and tells main to stop in one step, so the invariants speak
  of a main that is kept running: what is counted, answered or in hand is all that has been read and
  earlier than what is unread (`OrderInv`, `RingsInv`), both sketches hold what is
  counted but for the tuple in work (`SketchInv`), an answer is the whole sketch (`AnswerInv`). After the
  handler no line is written, the tuple in hand may go unanswered, and at most one stale tuple is counted.
* `SketchProofs` (assumes a window of one key at least, a number of epochs that is more than four and a
  multiple of it, as 2^16 is, that hash functions give columns, `CAP` and `SCALE` positive, and of the sliding
  sketches that the hand moves by whole cells and comes round in whole turns, see below; nothing of
  the number of keys, rows or columns, and every outcome of the draws is allowed): `WindowIsExact`,
  `CountsAreOwn`, `CountsAreBounded`, `SwitchSpreadsAndCounts`, and of the run's own specification,
  which is that of every sketch, `WindowExactHolds`, `KeeperCellsOwnHold`, `KeeperBoundsHold`, `SwitchCountsHold` and
  `BloomBoundsHold`. The Ring sketches first: there are two inductive invariants, which do not need each other.
  `WindowInv` is about the areas: the one at place `i` is of the last epoch `q` to have begun with `q % 4 = i`, its
  number is `q % EPOCHS`, and `held` counts the keys that the log has in that epoch; until its first epoch it is
  empty, or holds what a clear has left. `WindowExact` says nothing of single areas, and is not inductive for that.
  A key is always counted in the area of its epoch (`OwnAreaCounts`), the others keep theirs
  (`OtherAreasKeep`), and an area is zeroed when its next epoch begins, since its number is then another
  (`NarrowEpoch`, across the wrap of the 16 bits too). From there to a query: the areas that are
  counted are those whose epoch is inside the time asked for (`HeldEpochs`, `CountedRecents`, and
  `Counted16Recents` for BloomFilter_new's own test), each contributes what came in its epoch
  (`PartOfArea`), and epochs share no key (`SharesAddUp`). A sum over areas has four terms
  at most, so that `SumOfAreas` needs no induction.
  `HKInv` is about the cells: `NoInheritance`, and `LoneKeysCount`, that a key which is alone on a cell has it and is counted
  there, up to `CAP`. `KeptBounds` carries that through the maximum over the rows. TLC has checked both invariants on the
  HeavyKeeper behaviours of the run.
  The switch (assumes a cycle of which all four areas have equal parts): `TurnsInv` says from the number of the last
  packet how full each area is, and a cell that has not wrapped holds its load up to `CAP`; a packet adds one to a sum
  (`SumOneMore`).
  BloomFilter_new: an area's cells are those of the keys it holds (`CellsHeld`), to which `WindowInv` adds which keys those are.
  The sliding sketches (assume that the cells are a multiple of the window and the window one of `day - 1`, so that the
  hand comes round in whole turns): how often the hand has passed a cell is a number of whole turns
  (`WholeTurns`), which adds up from one insertion to the next (`SinceNext`, `PassesGoOn`); the last `window_size`
  insertions have made fewer than `day` passes, the last `MaxWindow` at least as many (`SinceTurns`), so that the log is long enough
  (`LogGoesOn`). bloomFilter_ss: bit `j` of a cell is set exactly when a key of the log that has the cell was inserted `j`
  passes ago (`SlidingBits`), from which both halves of `BloomBounds` follow.
* `PmdReloadProofs` (assumes a finite set of cores, and nothing of their number, of the ports or of the
  queues). `NoDoublePoll` and `PortQuiescent` speak of private copies, which only a reload
  refreshes: `HandshakeInv` says what a copy may still hold that its list does not, at each place of
  the main thread. Its parts: `ShapeInv` (types and who exists), `IdleInv` (between
  reconfigurations nothing is pending), `FlagInv` and `ExitInv` (what a raised flag means for the
  thread that has not answered), `StaleInv` (a copy differs from its list only in a thread that is to
  be reloaded), `StageInv` (what each step of the reconfiguration has achieved) and `Apart` (the lists
  themselves are disjoint). One lemma per action. `TxQidsNeverShared` adds a pigeonhole: the pool has one
  id more than there are cores, so an allocation always finds one.
  `ReconfigurationsTakeEffect` and `TxQueuesStaySound` need more, and `ReloadInv` is all of it (`ReloadProtocol`).
  `EffectInv` follows the lists and copies exactly: at a stage whose reload is complete every copy is its list, and
  the lists are what scheduling has asked for. `TxQueueInv` explains why a static id never exceeds the queues
  of a port although ids are swapped after the main thread went on: all ids in use stay below the number of threads
  the reconfiguration leads to; a thread that has its old id still is about to change it and will not
  send before; and a port that has fewer queues than wanted is shared by XPS, or held by no such thread but while
  it is being made to give it up. `XpsInv` counts: the counter of a shared port is the number of threads that
  hold a queue of it. TLC has checked `ReloadInv` in the run, and once with three cores, a port and a queue.

* `FoldLemmas`: what the library has no theorems for. Sums (`SumFunctionOnSet`), folds over sequences and sets, a
  function that recurses on numbers, the greatest and least of a finite set, the choice of a sequence that
  is sorted. Each is defined by a recursion, whose induction tlapm has no means to instantiate: here it is an
  induction over the subsets of a finite set (`SubsetInduction`) or over an interval (`CountUp`), for a set that
  a comprehension defines, which is first-order. `RunExists` says that the recursions these operators choose have a
  solution; `SumWith`, `SumNext`, `SumPlus`, `SumSubset`, `SumSame`, `SumCounts` are what is used of sums.
* `RxqScheduleProofs` (assumes finite sets of cores and queues, distinct places in the orders the code
  goes by, and the ranges of the settings): `PlacementIsSound`, `DryRunIsGrounded`, `RebalancingMoves`, `MovesAreBalanced`.
  What the schedule makes of the queues is a fold, and `Sound` its invariant: after any number of queues
  each of those placed is polled where it must be, and the lists agree with each other. The hard step is the walk
  `next_noniso_rr`: that it returns NULL only when all threads of the node are isolated is shown by its distance
  from where it began, along a path that goes up and comes back and visits each thread before it
  gives up. `MovesAreBalanced` has an argument for each algorithm: by roundrobin and cycles a
  walk over threads none of which is isolated gives every thread its queue before any gets the next; by group the least loaded
  gets each queue, the heaviest first, so that without the last and least queue of a thread no other
  has less (the greedy argument of longest processing time). `RebalancingMoves` rests on sums not depending on the
  order they are taken in: an assignment that moves nothing has the loads, and so the variance, of the
  current one. `ScheduleInvariant` adds the types, and what is known of the settings in force.
* `DatapathProofs`: the parts of `MCDatapath` but the caches, for all constants.
  Offload (assumes that `None` is no flow, thread or mega flow): `ReferenceCounts`, `MarkOwnership`,
  `CardOwnership`, `MarkFindsFlow`. They are proved together. A flow that loses its last reference is wiped, its mark
  too, so that who has a mark must have a reference (`RefsExact`); who holds a reference never sees
  the flow change under it (`AllocInv`, `RemovingInv`); and what the offload thread read before a step still holds at
  the next (`PcInv`); a flow that is not dead is still in its table, where its mega flow has no other
(`LiveInv`), so that a mark of the card leads to one flow at most. References are counted as one sum per flow: `AppendCount` and `TailCount` say how the list
  contributes, `FinishRefs` what the end of a request returns; what leaves all marks alone is done
  once and for all (`MarksFrame`, `RulesStay`, `FinishFrame`), and one lemma per action does the rest.
  Classifier (assumes that keys, rules and masks are what their names say): `LookupAtomic`. The hard answer
  is "no rule": `LookupInv` says that a rule which has been there for a key all the time is in a subtable
  the lookup has still to come to, unless the key has matched. That needs `TableInv` (one subtable per mask,
  all of them in the published vector, an empty one before it leaves the map) and `ApartInv` (memory a lookup
  still has is not taken again).
  Output batches (assumes finitely many ports, bursts of one packet at least, and intervals and times that are numbers): `OutputIsSound`.
  The queue of a port is the numbers from `sent` to `given`, without a gap; a flush consumes it whole. A flush of all
  ports is a fold over a set in any order: its result is `Cleared`, which is a function of the set only,
  whichever port is taken first. `FlushedInTime` needs `InTime`: a packet's time to be sent is at most the
  longest interval from when it came, and a pass that leaves it behind ends before that time.
  Meters (assumes rates that are not zero, and bursts, packet sizes and the scale numbers): `MeterIsSound`. That a meter's log conforms
  is not inductive: `BandSound` adds what is left in the bucket, and says that from every batch on the bucket and
  all that went through since are at most the burst and the credit for the time. A batch is credited at most the
  clock's step forward (`DeltaForward`); what it takes with it and what it leaves are at most what there
  was (`DrainBounds`: by the run of `Left`, `LeftRuns`, when packets are tried one by one, and by the quotient when
  they cost the same); and a packet is let through only if it exceeds no band (`FiresOne`), so that what a batch lets through is less than
  what each band would have. That every packet is counted once is `AllCounts`.

* `FlowCacheProofs` (assumes of the constants what their comments say, and of the EMC that it is finite): `CachesAreSound`,
  `ReferencesAreExact`, `FlowsAreRight`, `PacketsKeepTheirOrder` (in order, and once each). There are two inductive
  invariants, the second upon the first. `CacheInv` is about what is right at one time: a flow's references are its
  entries in the EMC and its place in the table (`RefsExact`), so that memory which is freed is in no cache; the holder of
  `flow_mutex` has its flow in the classifier before, and out of it sooner than, the table (`UpdatingInv`),
  and what can be looked up is not dead (`FlowInv`); a miss keeps its place in `flow_map` (`MissedInv`); and every
  array of a batch pairs its packets with flows that match (`RightRules`, `RightMap`, `RightMade`, `RightBatches`):
  a dead flow is freed only when the thread is quiescent, which is never inside a batch. `OrderInv` is about
  order: a flow has one batch, whose packets go up and are earlier than those still waiting in
  `flow_map` (`BatchInv`); a miss without a rule is executed by the upcall or dropped, and all that is
  executed before the batches are is the upcall's (`UpcallInv`, `ExecutedInv`); every packet is somewhere (`AllInv`); and
  while no flow is removed, the flows held are still in the classifier, and the packets of an upcall are earlier than
  those whose flow is of the same mega flow (`FreshInv`): an upcall is made only where no packet holds a flow of
  its mega flow, and the packets that get one after it are later ones. Where a flow is removed that is false, which
  is why `OrderKept` excludes it. TLC has checked both
  invariants with the batches of the run and with batches of three packets.
  The module also carries the theorems of `DatapathProofs` over to the behaviours of `MCDatapath`, the specification
  of the run: `OffloadIsSound`, `LookupsAreAtomic`, `OutputKeepsOrder`, `OutputInTime`, `MetersConform` state its very
  properties. `MCDatapath` and `DatapathProofs` have instances of one module each, and what has to be shown is that the instances
  agree (`SameNext`, `SameOutputNext`, `SameMeterNext` and so on), and that a step of the composition is one of its part.

Only model-checked: every liveness property (`WriteReturns`, `StoredIsRead`, `StopsWhenTold`,
`EveryRingIsRead`, `ReconfigurationEnds`, `SpinEnds`, `RemovedFlowsAreFreed`), which the provers do not reach;
and of the run `sketches` the properties `CountBounds` and `MedianBounds`: what the cells of CMSketch, CountSketch and
the sliding sketches that count hold of the stream, and the median, a fold over two heaps that are sorted sequences.

## Plan

Done, in this order: ring, lifecycle, reader, sketches, P4, the threads' reload, queue scheduling; proofs of the
ring, of `NoInheritance` and of the handshake; the flow caches, the classifier, flow offload, meters and transmission;
proofs of the classifier, of flow offload, of the rings' lifecycle and of user_reader; of late stores, of the whole
reload and of the flow caches; of the window of the Ring sketches and the bounds of HeavyKeeper; of queue scheduling,
of output batches and of meters; of what the datapath run checks, from these; and of the switch and the Bloom filters. What would come next:

1. The destruction of the whole datapath while its offload thread and its readers go on.
2. Proofs of the counting sketches' bounds, which rest on `WindowInv` and on the passes of the hand as the Bloom filters' do.

## Not modelled

* Hash functions (any function of a key is allowed), the failure of allocations, formatting of logs and results,
  the kernel (`kshm`) variants of the ring, which nothing calls, and the destruction of sketches.
* Machines and compilers that reorder stores: with `rb_barrier` commented out (`ringbuffer.h:20`), the tuple may there be
  seen after the index, and the ring is not a queue (see RingStores).
* The ring of a thread that is destroyed: `dp_netdev_destroy_pmd` (`dpif-netdev.c:6844`) neither unmaps
  nor unlinks it, and a reader polls it for ever. It is a hazard without a property, since the code promises nothing else.
* Of flow offload: wakeups of `ovs_mutex_cond_wait` without a signal, after which the thread would pop an
  empty list (it waits in an `if`); and the time a packet waits between the card that marks it and the thread that looks
  its mark up: `FoundByMark` takes both at once, but a packet that was marked before its rule was deleted may still be
  in a receive queue when the mark has gone to another mega flow. The flow caches are modelled with the flow API off.
* Of the flow caches: recirculation inside a batch, the decision of the upcall, statistics, the choice of the
  functions that look up miniflows. Of transmission: tunnels, cut lengths, the counters of bonds, which are
  added to without a lock. Of meters: products beyond 32 bits and the statistics call.
* The P4 parser, deparser and forwarding table.
* Ports, netlink-like dumps, the command line and statistics of `dpif-netdev.c`: configuration and I/O that Open
  vSwitch brings along. They use the state modelled here under the same locks and add none of their own.

# A TLA+ verification of FEMU with a remapping FTL

This directory holds TLA+ models of the emulated NVMe SSD of this repository and
of the vCPU threads that drive it, the TLC configurations that check them on
small instances, and theorems proved with TLAPS for every instance.

## 1. The system and its parts

The repository is a QEMU tree with an emulated NVMe SSD (FEMU). Guest code runs in
vCPU threads. It writes commands into submission rings in its own memory and rings
doorbells; timers of the main loop fetch the commands, hand them to the flash
translation layer (FTL) and post completions when the emulated latency has passed.
The FTL can *remap*: instead of writing a page again it lets several logical pages
share one physical page. The flash page has room for one logical page number in its
spare (OOB) area; the numbers of the other sharers are recorded in NVRAM.

| Part | Code (under `src/`) | Modules |
|---|---|---|
| Address arithmetic | `hw/block/ssd/ftl_mapping_manager.c` | `FlashGeometry` |
| Superblock lists and page allocator | `ftl_inverse_mapping_manager.c`, `ftl_mapping_manager.c` | `BlockPool` |
| NVRAM segments of remapping entries | `ftl_inverse_mapping_manager.c` | `NvramOob` |
| Mapping table, inverse lists, reference counts, statistics | both of the above | `FtlTables` |
| Write, remap, discard, garbage collection | `ftl.c`, `ssd.c`, `ftl_gc_manager.c` | `Ftl` |
| What the host is promised of the FTL | - | `LogicalStore` (abstract) |
| Time stamps of chips, channels and NVRAM | `ssd_io_manager.c` and its callers | `FlashTiming` |
| I/O queues: rings, pollers, doorbells, aborts, deletion | `hw/block/nvme.c` | `NvmeIoQueue` |
| Admin queue, asynchronous events, controller start and reset | `hw/block/nvme.c` | `NvmeAdmin` |
| Exclusive sections of the vCPU threads | `cpus-common.c` | `CpuExclusive` |
| vCPU threads, work queues, iothread lock, synced TLB flushes | `cpus.c`, `cpus-common.c`, `cpu-exec.c`, `cputlb.c`, `ui/console.c` | `VcpuThreads` |

`Ftl` composes `FlashGeometry`, `BlockPool`, `NvramOob` and `FtlTables`;
`VcpuThreads` composes `CpuExclusive` with the threads that call it. The modules
`MC...` give TLC the sets of requests, symmetries and views of the runs.

The models follow the active build. It defines `PAGE_MAP`, `GC_ON`,
`GC_TRIGGER_OVERALL`, `GC_VICTIM_OVERALL`, `SUPERBLOCK`, `SB_DEBUG`, `STAT_COUNT` and
`FTL_META_TRANS`, and not `DUP_RATIO`, `X_FTL`, `FTL_MAP_CACHE`, `FIRM_IO_BUFFER` or
`SSD_THREAD`; there is one plane per flash. Nothing is persisted (`FTL_TERM` saves
nothing), so there is no crash recovery to model. The FTL runs in one thread: its
difficulty is in long sequences of requests with collections nested in them. The
queues and the vCPU threads are where things interleave.

## 2. The modules

### The FTL

**`FlashGeometry`**: the page numbers and `CALC_FLASH`, `CALC_BLOCK`, `CALC_PAGE`. C
division takes page -1 to block 0; the FTL really asks for the block of page -1, so
the model keeps that.

**`BlockPool`**: with `SUPERBLOCK` every list operation is done on all flashes, on
blocks of one number, so one list of superblock numbers stands for the parallel lists
of the code. What differs between flashes stays: the next page of the active block of
each flash, and the flash whose turn it is. `GET_NEW_PAGE` has four results:
`success`; `fault`, when the NULL block is dereferenced by the `SB_DEBUG` lines before
it is tested; `fail`, when the order check of `SB_DEBUG` fails; and `spin`, when the
loop of `GET_EMPTY_BLOCK` would never end.

**`NvramOob`**: the counters of `NVRAM_OOB_TABLE` and the three totals. The emulator
does not store the entries themselves. `NVRAM_OOB_GC` releases the segments of the
victim and writes the live entries back one by one, as the loop of the code does.

**`FtlTables`**: one record with the mapping table, the inverse lists, the reference
counts (`valid_array`, an `int8_t` that wraps), the page statistics, the NVRAM
counters, and a history of what each page holds. The functions of the code are
operators from record to record with the names of the code.

**`Ftl`**: the state machine. `pc` names the loop being executed and one step is one
iteration of it.

| `pc` | Code | Actions |
|---|---|---|
| `idle` | no request | `FTL_WRITE`, `SSD_REMAP`, `femu_discard_process` |
| `page` | the page loop of a request | `DiscardPage`, `CallUseRemap`, `ProgramPage`, `EndRequest` |
| `use_remap` | the loop of `USE_REMAP` | `RemapPage`, `CollectNvram`, `RefuseRemap` |
| `program` | the write after a refusal | `ProgramPage` |
| `gc` | the loop of `GC_CHECK` | `GcDone`, `GcStart` |
| `copy` | the loops of `SB_GARBAGE_COLLECTION` | `GcTakePage`, `GcMoveSharer`, `GcErase` |
| `fault`, `spin` | NULL dereferenced, endless loop | none |

`todo` holds the page operations of the request that are still to do. The nested
`_FTL_WRITE` of a refused remapping is inlined; its `GC_CHECK` returns into the loop of
`SSD_REMAP`, and the source of a move is discarded after that, as an operation at the
head of `todo`. The comparison of copied pages with `valid_page_nb` at the end of each
block (`ftl_gc_manager.c:307`) is left out: nothing changes that count while the block
is copied, so it cannot fail.

**`LogicalStore`**: an array of logical pages; a request is a sequence of page
operations that are applied in order, each exactly once. Collections do not appear in
it. It allows what the code really does where the host might expect otherwise: a copy
or a move whose source is not mapped may leave the destination as it is or blank it,
depending on the NVRAM that is left; and a write with an `FS_GC_WRITE` hint discards
the page the hint names when it is remapped, and does not when it is written.

The inputs of `Ftl` follow `ftl_meta_write` and `nvme_remap`: a hint names a page with
the same data, and the ranges of `SSD_REMAP`, which does not check them, lie in the
device.

**`FlashTiming`**: the stamps of channels, chips and NVRAM segments, relative to the
clock, and every function that moves them. `jobs` is a history of the work that the
calls have scheduled; it is what the properties are about.

### The NVMe controller

**`NvmeIoQueue`**: submission rings, the requests of their `io_req` arrays, the
completion ring they share, and the driver. Timers and callbacks of the block layer
run in the main loop one after the other (`poll`). The two pollers release the
iothread lock, so one step is one iteration of their loops and everything the vCPUs do
comes in between.

| Code | Actions |
|---|---|
| `nvme_process_db` and the driver's side of it | `Submit`, `RingCqDoorbell`, `HandlerEnter`, `Consume` |
| `nvme_process_sq_io` | `PollSq`, `Fetch`, `FetchAborted`, `EndSq` |
| `nvme_misc_cb`, also from the `aio_poll` of `nvme_dsm` | `nvme_misc_cb` |
| `nvme_abort_req` | `nvme_abort_req`; without a free request the main loop faults |
| `nvme_post_cqes_io`, `nvme_post_cqe` | `PollCq`, `Post`, `EndCq` |
| `nvme_del_sq`, `nvme_create_sq` | `nvme_del_sq`, `Post`, `EndDelete`, `nvme_create_sq` |

Posting a completion is one step: the driver looks at the phase bit only, which
`nvme_post_cqe` writes with the rest of the entry. Time is what is left: `io[r].wait`
until a request expires, `cq.timer` until the timer fires. What nobody reads before it
is written again (entries already fetched, completions already taken but for their
phase, the command of a request that was posted) is forgotten.

**`NvmeAdmin`**: the admin queue, which is served by timers that fire once, and the
asynchronous events. The rings are modelled by their contents. The handlers run under
the iothread lock; `nvme_process_sq_admin` takes one step per command because an
abort looks at the ring it is reading. `nvme_aer_process_cb` goes through the event
queue with the skipping of masked events and with what it really unlinks, the head
of the queue. `nvme_write_bar` is a write of CC: starting (which fails when a register
is wrong or a queue exists), disabling and shutting down. `aer_mask` survives a
reset; `ctrl.stale` remembers which types were masked then. Where the code would use a
NULL or freed pointer the model sets `ctrl.fault` and stops.

The driver of both modules is external: it is modelled from what `nvme.c` relies on. It
keeps to the size of the rings and to the announced limit of event requests, reads the
log page of an event that is reported to it, and submits nothing to a queue it deletes.

### The vCPU threads

**`CpuExclusive`**: `cpu_exec_start`, `cpu_exec_end`, `start_exclusive` and
`end_exclusive`, with one step per access to shared memory: `running`, `has_waiter`,
`pending_cpus` and the list lock. Clearing `running` at the end of `cpu_exec` is one step
with leaving the guest, which nobody can tell from two.

**`VcpuThreads`**: the thread function of multi-threaded TCG (wait for an event, process
queued work, `tcg_cpu_exec`, `cpu_exec_step_atomic`), device accesses that take the
iothread lock inside `cpu_exec`, synced TLB flushes, and the main thread with
`run_on_cpu` and the display refresh. A thread starts in its first
`qemu_tcg_wait_io_event`, after `exit_request` is cleared. Taking the lock in
`cpu_handle_interrupt` to look at `interrupt_request` is not an action of its own; a
device access is the step that waits for the lock inside `cpu_exec`.

## 3. The runs

Passing runs explore their instance completely; no state constraint cuts it.

| Run | Instance | What it shows |
|---|---|---|
| `ftl_sharing` | 2 superblocks of 2x2 pages, 3 logical pages, 1 NVRAM segment of 2 entries, 2 values | Lists, counts and mappings agree (`MappingConsistent`); NVRAM counters (`NvramAccounting`, `CollectionBounded`, `RemapWithinNvram`); statistics (`StatsExact`, `SuperblocksPartitioned`); the FTL implements `LogicalStore` (`ImplementsStore`), up to the fault when it runs out of superblocks |
| `ftl_victims` | 3 superblocks, 2 logical pages, 2 segments of 1 entry | No page handed out twice (`UnwrittenFree`), no superblock lost, the allocator in order (`AllocatorSound`) and never dry (`NeverExhausted`); every request ends (`RequestsEnd`) |
| `flash_timing` | 3 chips on 2 channels, 3 jobs at a time | No chip and no channel does two things at once (`NoOverlap`); a collection waits for its NVRAM entries (`CollectionAfterOob`) |
| `nvme_queues` | 2 submission queues of 2 entries, completion ring of 2, latencies 1 and 2, doorbells in registers or memory, one queue deleted and created again | Every command in exactly one place (`Accounted`), phase bits (`PhaseExact`), completion order (`DueFirst`), no request lost (`RequestsConserved`) or left of a deleted queue (`NoneDeleted`), every command answered (`Answered`) |
| `nvme_abort` | 1 queue of 3 entries, 4 commands outstanding, all kinds, one of them aborted, deletion | `RequestsConserved` and `Accounted` with aborts; no free request for an abort only when more commands are outstanding than the queue has entries (`AbortNeedsRequest`; the case is reached) |
| `nvme_admin` | queue of 3, completion ring of 2, error events, aborts, resets | No one-shot timer unarmed with work to do (`Armed`), no command lost (`Accounted`), no type muted but by a reset (`Unmuted`), commands answered and events reported (`Served`) |
| `nvme_events` | the same queues, events of both types, temperature warnings, resets | `Armed` and `Unmuted` with both types; a NULL or freed pointer is used in two ways only (`FaultsKnown`) |
| `vcpu_threads` | 2 vCPUs and the main thread, 1 item per work queue | Exclusive sections exclude guest code and each other (`Exclusion`), a section waits for exactly the vCPUs it has marked (`WaitsForMarked`), synced flushes precede later blocks (`FlushedBeforeBlocks`), nobody waits for ever (`WorkServed`) |
| `ftl_refcount`, `ftl_over_nvram`, `nvme_timer`, `tlb_synced` | see section 4 | *Violations* |

**Bounds.** Two flashes are the fewest with a round robin and two pages the fewest with a
partly written block. Two superblocks force the collection to run with the other one
active; three let it choose a victim. One NVRAM segment of two entries is full after
two remappings, so that remapping, collecting and refusing all happen. A completion ring
of two entries is full after one completion. A submission ring of three entries holds two
commands; with three fetched and not answered and a fourth in the ring, no request is
free. `Depth` bounds the commands of the driver, `MaxQueued` the events queued,
`MaxWork` the items of a work queue, `MaxBacklog` the time stamps; `Ops`, `Types`, `Kinds`
and `Roles` say what the driver, the controller and the guests do in an instance. The
admin queue is checked in two runs because all commands, both types and liveness
together are too many states.

**Symmetry and views.** Data, command identifiers and job slots are symmetric; the one
command that may be aborted is not exchanged with the others, and no run with a
liveness property uses symmetry (`ftl_sharing` has a refinement, which is a safety
property). `nvme_abort` uses a view in which the requests of a queue, which are all
alike, are numbered in the order of the lists.

**Deadlock** is checked except where the system may really stop: the FTL out of
superblocks, the abort without a request, the controller's faults.

**Fairness.** Of the FTL: the thread that executes a request keeps executing it; no step
waits for anything. Of the queues: timers that are armed fire, handlers go on, interrupts
are delivered, time passes. A poller's timer is set again after each run, so it is served
although others are enabled now and then (strong fairness). The admin driver keeps an
event request with the controller and reads the log pages that it has to. Of the threads:
one that can go on infinitely often goes on (strong fairness), which is what the scheduler
and the mutexes give.

## 4. The findings

- **`ftl_refcount`.** `valid_array` is an `int8_t` that `UPDATE_BLOCK_STATE_ENTRY`
  increments without a limit. Its comment says "ref cnt, -1: invalid, 0: free". The run
  takes 2 for the 127 of the code: one sharer more and the count is negative, so a page
  in use counts as invalid.
- **`ftl_over_nvram`.** `USE_REMAP` never lets remapping exceed `TOTAL_OOB_SEG` segments
  (`RemapWithinNvram`). `SB_GARBAGE_COLLECTION` records moved sharers without that check;
  when the sharers of one victim are split over two superblocks it takes one segment more
  than the NVRAM has.
- **`nvme_timer`.** A request that expires before the head of the completion list becomes
  the new head, and `cq->timer` stays where it was. The comment there says "no need to
  trigger cq->timer here, cq->timer is repeating". The request is completed late, when the
  timer fires for the old head.
- **`tlb_synced`.** The comment of `flush_all_helper` promises "a synchronisation point where
  all queued work will be finished before execution starts again". A vCPU that left
  `cpu_exec` with `EXCP_ATOMIC` executes one instruction in `cpu_exec_step_atomic` before it
  looks at its queue, with the TLB that was to be flushed. For blocks the promise holds
  (`FlushedBeforeBlocks`).

Four more weaknesses have no line in the repository that says otherwise. They are kept
as conditions of properties, so that each property says how far the weakness reaches:
`nvme_abort_req` without a free request (`AbortNeedsRequest`), an event freed but still
linked when events of both types are queued, a doorbell that does not exist between a
shutdown and clearing CC.EN (both `FaultsKnown`), and `aer_mask` surviving a reset
(`Unmuted` and `Served` do not speak of types masked from before a reset).

## 5. The proofs

| Module | Content |
|---|---|
| `FlashGeometryProofs` | Page numbers and their parts (`AddressRoundTrip`, `AddressParts`) |
| `ListLemmas` | Appending to, unlinking from and taking from lists without duplicates |
| `BlockPoolProofs` | `PoolInv` is kept by every operation; `NewPageSound` |
| `FtlTablesProofs` | Types and effects of the functions on the tables; that the loop of `NVRAM_OOB_GC` has a result, for any number of entries |
| `FtlProofs` | `TypeCorrect`, `PartitionTheorem`, `AllocatorTheorem` |
| `FtlMappingProofs` | `MappingTheorem`, `UnwrittenTheorem` |
| `FlashTimingProofs` | `ExclusiveTheorem` (`NoOverlap`), `CollectionTheorem` (`CollectionAfterOob`) |
| `CpuExclusiveProofs` | `ExclusionTheorem` (any callers), `FlushTheorem` (the threads of `VcpuThreads`) |

**Assumptions.** The FTL theorems hold for every geometry with at least two flashes and two
pages per block, every number of logical pages, every NVRAM and every set of requests
within the device; the timing theorems for all delays, of which those of the cells are
positive; the thread theorems for any finite set of vCPUs, any other threads, and any
length of the work queues. These are the named `ASSUME`s of the modules, which TLC
evaluates in the runs.

**`Structure`** (`FtlProofs`) holds the types, the partition of the superblocks, the turns
of the flashes, and what the locals may be at each `pc`. The partition alone is not
inductive. That `GET_EMPTY_BLOCK` does not loop needs the turns (`RoundRobin`): when flash
0 is full and it is its turn, so are the others.

**`Mappings`** (`FtlMappingProofs`) holds `MappingConsistent`, `UnwrittenFree` and
`GcProgress`. The collection moves the sharers of a page without touching its count, so in
the middle of it list and count differ on purpose. `GcProgress` says where: pages before
the one being copied have no sharers, pages after it are untouched, and the page it is
copied to is outside the victim and counts its sharers. That is what makes the superblock
free of references when it is erased. The mapping theorems assume `[]SharersFit`: no page
has as many sharers as an `int8_t` can count. The code does not check it, and
`ftl_refcount` shows that it is needed.

**`TimingInv`** (`FlashTimingProofs`) holds `NoOverlap` and that every job in progress ends
no later than the stamps of its chip and channel, which is why the next one can start from
the stamps.

**`ExclInv`** (`CpuExclusiveProofs`) says, for each place a thread can be in, what
`running`, `has_waiter` and `pending_cpus` must be: in particular that a scan has marked
exactly the vCPUs that it found running, and that a vCPU that was not marked has still to
see `pending_cpus`. `Exclusion` alone is not inductive, because it does not say who will
count down `pending_cpus`. **`ThreadInv`** adds where the threads are and that a vCPU with
a flush in its queue has been kicked, or is about to be: from that the vCPU goes
through its queue before its next block. Every step of `VcpuThreads` is a step of
`CpuExclusive` or leaves its variables alone, so `Exclusion` carries over.

**Only model-checked.** Liveness is out of reach of the prover. `NvramAccounting` and
`StatsExact` are sums over all superblocks or pages, which would need induction over sets.
`NeverExhausted` depends on the numbers of the device. `CollectionBounded`,
`RemapWithinNvram`, the refinement `ImplementsStore` and the properties of the NVMe queues
are checked on the instances of the runs.

## 6. Not modelled

- Reads (`_FTL_READ`) change no table; their time stamps are in `FlashTiming`.
- `GARBAGE_COLLECTION` of single blocks, `VICTIM_INCHIP` and `VICTIM_NOPARAL`, copy-back
  and the mapping cache: not used or compiled out in the active build. The same holds for
  the write buffer, the Bloom filter, the trim manager and the log.
- The request list and performance statistics feed no decision of the FTL.
- The data path of `nvme_remap` (a `memcpy` in the backing store) and of the other commands;
  namespaces; features without effect on the queues; creating and deleting completion
  queues.
- Arbitration bursts: the runs use weights 0 and 1, and an admin burst of at least the
  commands outstanding. With a weight of 255 the burst is 0 and a queue is not served;
  with a small admin burst commands wait for the next doorbell.
- A driver that exceeds the announced number of event requests, or that disables the
  controller while it deletes a queue.
- Accelerators other than TCG, hot-unplug and stopping of vCPUs, asynchronous flushes of
  single pages.
- LightNVM mode (`femu-oc.c`) does not use this FTL.

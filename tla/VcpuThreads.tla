---------------------------- MODULE VcpuThreads ----------------------------
(***************************************************************************)
(* The threads of the vCPUs (cpus.c) and the main thread around the        *)
(* exclusive sections of CpuExclusive: the big QEMU lock (BQL), the work   *)
(* queued to vCPUs (cpus-common.c), the flush of all TLBs, which queues    *)
(* work to every vCPU (cputlb.c), and the refresh of the display, which    *)
(* the main thread does in an exclusive section (console.c).               *)
(*                                                                         *)
(* "ctl" says where a thread is in the functions of this module.  While it *)
(* is inside those of CpuExclusive, ctl is the place it returns to.        *)
(***************************************************************************)
EXTENDS CpuExclusive, Sequences

CONSTANTS
  Main,     \* the main thread
  Does,     \* what each guest, and the devices of the main thread, may ask for
  MaxWork   \* work items in a queue (a bound)

Nobody == "nobody"

ASSUME WorkAssumption ==
  /\ Others = {Main} /\ MaxWork \in Nat /\ Nobody \notin Threads
  /\ Does \in [Threads -> SUBSET {"flush", "mmio", "atomic", "sync", "refresh", "interrupt"}]

VARIABLES
  ctl,      \* where each thread is
  bql,      \* the thread that holds the BQL, or Nobody
  work,     \* the work queue of each vCPU
  left,     \* the vCPUs that flush_all_helper has still to reach, for each source
  kicks     \* the vCPU a thread has queued work to and has still to kick, or Nobody

vars == <<xvars, ctl, bql, work, left, kicks>>

\* Work: a flush for a source ("flush"), the safe work of the source itself
\* ("safe"), and the function of run_on_cpu, for which the main thread waits
\* ("sync").
Work == [kind : {"flush", "safe"}, src : Cpus] \cup [kind : {"sync"}, src : Others]

CpuCtl  == {"exec", "atomic", "flush", "flushed", "mmio_lock", "mmio",
            "relock", "step_relock", "step", "step_mmio_lock", "step_mmio", "stepped",
            "event", "doze", "halted", "woken", "process", "next", "safe", "safe_relock"}
MainCtl == {"poll", "sync", "sync_sleep", "sync_woken", "refresh", "refreshing"}

TypeOK ==
  /\ ExclTypeOK
  /\ ctl \in [Threads -> CpuCtl \cup MainCtl]
  /\ \A c \in Cpus : ctl[c] \in CpuCtl
  /\ ctl[Main] \in MainCtl
  /\ bql \in Threads \cup {Nobody}
  /\ work \in [Cpus -> Seq(Work)]
  /\ left \in [Cpus -> SUBSET Cpus]
  /\ kicks \in [Threads -> Cpus \cup {Nobody}]

Init ==
  /\ ExclInit
  /\ ctl = [t \in Threads |-> IF t = Main THEN "poll" ELSE "woken"]
  /\ bql = Nobody
  /\ work = [c \in Cpus |-> << >>]
  /\ left = [c \in Cpus |-> {}]
  /\ kicks = [t \in Threads |-> Nobody]

From(t, place) == ctl[t] = place /\ kicks[t] = Nobody
To(t, place)   == ctl' = [ctl EXCEPT ![t] = place]

\* The thread goes on without, with or after taking or releasing the BQL.
LockBql(t, p, q)   == From(t, p) /\ bql = Nobody /\ bql' = t /\ To(t, q)
UnlockBql(t, p, q) == From(t, p) /\ bql' = Nobody /\ To(t, q)
Plain(t, p, q)     == From(t, p) /\ UNCHANGED bql /\ To(t, q)

NoQueue == UNCHANGED <<work, left, kicks>>
Stays   == UNCHANGED <<ctl, bql, work, left, kicks>>

-----------------------------------------------------------------------------
(***************************************************************************)
(* Work queues (cpus-common.c).                                            *)
(***************************************************************************)
\* queue_work_on_cpu: the item is appended, the kick is the next step.
queue_work_on_cpu(t, c, wi) ==
  /\ work' = [work EXCEPT ![c] = Append(@, wi)]
  /\ kicks' = [kicks EXCEPT ![t] = c]

Items(q)   == {q[i] : i \in DOMAIN q}
Queued(c)  == Items(work[c])
HasSafe(c) == \E w \in Queued(c) : w.kind = "safe"
HasRoom(c) == Len(work[c]) < MaxWork

\* qemu_cpu_kick wakes the thread if it sleeps on halt_cond, and asks cpu_exec to
\* return.
qemu_cpu_kick(c, there) ==
  /\ ctl' = [t \in Threads |-> IF t = c /\ ctl[c] = "halted" THEN "woken" ELSE there[t]]
  /\ cpu_exit(c)

Kick(t) ==
  /\ kicks[t] # Nobody
  /\ kicks' = [kicks EXCEPT ![t] = Nobody]
  /\ qemu_cpu_kick(kicks[t], [ctl EXCEPT ![t] = IF @ = "flushed" THEN "exec" ELSE @])
  /\ UNCHANGED <<bql, work, left>>

\* process_queued_cpu_work: into the loop, or back with nothing to do and then,
\* since the machine runs, into tcg_cpu_exec, which releases the BQL.
ProcessStarts(c) ==
  /\ IF work[c] = << >> THEN UnlockBql(c, "process", "exec")
                        ELSE Plain(c, "process", "next")
  /\ UNCHANGED xvars /\ NoQueue

\* An ordinary item runs with the BQL held.
RunItem(c) ==
  /\ From(c, "next") /\ work[c] # << >> /\ Head(work[c]).kind # "safe"
  /\ work' = [work EXCEPT ![c] = Tail(@)]
  /\ UNCHANGED <<xvars, ctl, bql, left, kicks>>

\* Mutant of TakeSafe: the item is run like any other, in no exclusive section.
TakeSafeInline(c) ==
  /\ From(c, "next") /\ work[c] # << >> /\ Head(work[c]).kind = "safe"
  /\ work' = [work EXCEPT ![c] = Tail(@)]
  /\ UNCHANGED <<xvars, ctl, bql, left, kicks>>

\* An exclusive item runs outside the BQL.
TakeSafe(c) ==
  /\ UnlockBql(c, "next", "safe") /\ work[c] # << >> /\ Head(work[c]).kind = "safe"
  /\ work' = [work EXCEPT ![c] = Tail(@)]
  /\ UNCHANGED <<xvars, left, kicks>>

SafeStarts(c) == From(c, "safe") /\ start_exclusive(c) /\ Stays

SafeEnds(c) ==
  /\ Plain(c, "safe", "safe_relock") /\ end_exclusive(c) /\ NoQueue

SafeRelocks(c) == LockBql(c, "safe_relock", "next") /\ UNCHANGED xvars /\ NoQueue

\* Mutant of ProcessEnds: qemu_work_cond is not broadcast.
ProcessEndsQuietly(c) ==
  /\ UnlockBql(c, "next", "exec") /\ work[c] = << >>
  /\ UNCHANGED xvars /\ NoQueue

\* The queue is empty: qemu_work_cond wakes the main thread, and on to cpu_exec.
ProcessEnds(c) ==
  /\ From(c, "next") /\ work[c] = << >>
  /\ bql' = Nobody
  /\ ctl' = [t \in Threads |-> IF t = c THEN "exec"
                               ELSE IF ctl[t] = "sync_sleep" THEN "sync_woken"
                               ELSE ctl[t]]
  /\ UNCHANGED xvars /\ NoQueue

-----------------------------------------------------------------------------
(***************************************************************************)
(* The loop of qemu_tcg_cpu_thread_fn.                                     *)
(***************************************************************************)
\* The steps of cpu_exec_start, and of cpu_exec between blocks.
ExecStep(c) ==
  /\ From(c, "exec")
  /\ \/ cpu_exec_start(c) \/ StartReadsPending(c) \/ StartLocked(c) \/ StartWoken(c)
     \/ HandleInterrupt(c) \/ BlocksEnd(c)
  /\ Stays

\* cpu_exec returns; a block may return EXCP_ATOMIC.
ExecReturns(c) ==
  /\ From(c, "exec") /\ cpu_exec_end(c)
  /\ To(c, "exec") \/ ("atomic" \in Does[c] /\ at[c] = "guest" /\ To(c, "atomic"))
  /\ UNCHANGED bql /\ NoQueue

\* The rest of cpu_exec_end.
ExecEnds(c) ==
  /\ EndReadsPending(c) \/ EndLocked(c)
  /\ To(c, IF at'[c] # "out" THEN ctl[c]
           ELSE IF ctl[c] = "atomic" THEN "step_relock" ELSE "relock")
  /\ UNCHANGED bql /\ NoQueue

\* The end of tcg_cpu_exec, or of the atomic step; then exit_request is cleared,
\* before the work queue is looked at.
Relock(c) == LockBql(c, "relock", "event") /\ ClearExit(c) /\ NoQueue

\* EXCP_ATOMIC: the BQL is taken at the end of tcg_cpu_exec and released again,
\* then cpu_exec_step_atomic executes one instruction in an exclusive section.
StepUnlocks(c) ==
  /\ Plain(c, "step_relock", "step") /\ bql = Nobody
  /\ UNCHANGED xvars /\ NoQueue

StepStarts(c) == From(c, "step") /\ start_exclusive(c) /\ Stays
StepEnds(c) ==
  /\ Plain(c, "step", "relock") \/ Plain(c, "stepped", "relock")
  /\ end_exclusive(c) /\ NoQueue

\* qemu_tcg_wait_io_event: a CPU that is idle sleeps; if it has work it is not.
Doze(c)    == Plain(c, "event", "doze") /\ work[c] = << >> /\ UNCHANGED xvars /\ NoQueue
Sleeps(c)  == UnlockBql(c, "doze", "halted") /\ UNCHANGED xvars /\ NoQueue
Wakes(c)   == LockBql(c, "woken", "event") /\ UNCHANGED xvars /\ NoQueue
NotIdle(c) == Plain(c, "event", "process") /\ UNCHANGED xvars /\ NoQueue

\* The guest accesses a device: the BQL is taken and released inside cpu_exec, or
\* inside the exclusive step.  A chain of blocks is cut after an access, so that it
\* has one at most.
Mmio(c) ==
  /\ "mmio" \in Does[c]
  /\ \/ at[c] = "guest" /\ Plain(c, "exec", "mmio_lock")
     \/ at[c] = "excl" /\ Plain(c, "step", "step_mmio_lock")
  /\ UNCHANGED xvars /\ NoQueue

MmioLocks(c) ==
  /\ LockBql(c, "mmio_lock", "mmio") \/ LockBql(c, "step_mmio_lock", "step_mmio")
  /\ UNCHANGED xvars /\ NoQueue

MmioEnds(c) ==
  /\ \/ UnlockBql(c, "mmio", "exec") /\ BlocksEnd(c)
     \/ UnlockBql(c, "step_mmio", "stepped") /\ UNCHANGED xvars
  /\ NoQueue

\* tlb_flush_all_cpus_synced, called by the guest: flush_all_helper queues a flush
\* to every other vCPU, then the safe work is queued to the source.
tlb_flush_all_cpus_synced(c) ==
  /\ "flush" \in Does[c]
  /\ at[c] = "guest" /\ Plain(c, "exec", "flush")
  /\ \A d \in Cpus : HasRoom(d)
  /\ left' = [left EXCEPT ![c] = Cpus \ {c}]
  /\ UNCHANGED <<xvars, work, kicks>>

FlushOther(c) ==
  /\ From(c, "flush")
  /\ \E d \in left[c] :
       /\ queue_work_on_cpu(c, d, [kind |-> "flush", src |-> c])
       /\ left' = [left EXCEPT ![c] = @ \ {d}]
  /\ UNCHANGED <<xvars, ctl, bql>>

FlushSelf(c) ==
  /\ left[c] = {} /\ Plain(c, "flush", "flushed")
  /\ queue_work_on_cpu(c, c, [kind |-> "safe", src |-> c])
  /\ UNCHANGED <<xvars, left>>

-----------------------------------------------------------------------------
(***************************************************************************)
(* The main thread.                                                        *)
(***************************************************************************)
\* A device interrupts a vCPU, in some thread that takes the BQL for it.
Interrupt(c) ==
  /\ "interrupt" \in Does[c]
  /\ bql = Nobody /\ qemu_cpu_kick(c, ctl)
  /\ UNCHANGED bql /\ NoQueue

\* The main loop takes the BQL for each of these and is polling otherwise.
\* run_on_cpu waits on qemu_work_cond, with the BQL, until its item is done.
run_on_cpu(c) ==
  /\ "sync" \in Does[Main]
  /\ LockBql(Main, "poll", "sync") /\ HasRoom(c)
  /\ queue_work_on_cpu(Main, c, [kind |-> "sync", src |-> Main])
  /\ UNCHANGED <<xvars, left>>

SyncDone == \A c \in Cpus : \A w \in Queued(c) : w.kind # "sync"

SyncReturns == UnlockBql(Main, "sync", "poll") /\ SyncDone /\ UNCHANGED xvars /\ NoQueue
SyncSleeps  == UnlockBql(Main, "sync", "sync_sleep") /\ ~SyncDone /\ UNCHANGED xvars /\ NoQueue
SyncWakes   == LockBql(Main, "sync_woken", "sync") /\ UNCHANGED xvars /\ NoQueue

\* do_safe_dpy_refresh releases the BQL and asks for an exclusive section, in which
\* it takes the BQL again.
Refresh ==
  /\ "refresh" \in Does[Main]
  /\ Plain(Main, "poll", "refresh") /\ bql = Nobody /\ start_exclusive(Main)
  /\ NoQueue

RefreshLocks ==
  /\ at[Main] = "excl" /\ LockBql(Main, "refresh", "refreshing")
  /\ UNCHANGED xvars /\ NoQueue

RefreshEnds == UnlockBql(Main, "refreshing", "poll") /\ end_exclusive(Main) /\ NoQueue

-----------------------------------------------------------------------------
\* The steps of start_exclusive, whoever calls it.
Exclusive(t) ==
  /\ \/ ExclLocked(t) \/ ScanDone(t) \/ ExclWoken(t)
     \/ \E c \in Cpus : ScanCpu(t, c)
  /\ Stays

\* What the thread of a vCPU does by itself, and what the guest may do.
Progress(c) ==
  \/ Kick(c) \/ Exclusive(c)
  \/ ProcessStarts(c) \/ RunItem(c) \/ TakeSafe(c) \/ SafeStarts(c) \/ SafeEnds(c)
  \/ SafeRelocks(c) \/ ProcessEnds(c)
  \/ (at[c] = "guest" => exit_request[c]) /\ ExecStep(c)
  \/ at[c] = "exec" /\ ExecReturns(c)
  \/ ExecEnds(c) \/ Relock(c) \/ StepUnlocks(c) \/ StepStarts(c) \/ StepEnds(c)
  \/ Doze(c) \/ Sleeps(c) \/ Wakes(c) \/ NotIdle(c)
  \/ MmioLocks(c) \/ MmioEnds(c) \/ FlushOther(c) \/ FlushSelf(c)

Guest(c) ==
  \/ at[c] = "guest" /\ (ExecStep(c) \/ ExecReturns(c))
  \/ Mmio(c) \/ tlb_flush_all_cpus_synced(c)

MainProgress ==
  \/ Kick(Main) \/ Exclusive(Main)
  \/ SyncReturns \/ SyncSleeps \/ SyncWakes \/ RefreshLocks \/ RefreshEnds

MainRequest == Refresh \/ \E c \in Cpus : run_on_cpu(c) \/ Interrupt(c)

Next ==
  \/ \E c \in Cpus : Progress(c) \/ Guest(c)
  \/ MainProgress \/ MainRequest

Spec == Init /\ [][Next]_vars

\* The thread finds an exclusive section going on and would go to sleep.
Delayed(t) ==
  /\ pending_cpus # 0
  /\ \/ at[t] \in {"excl_lock", "start_idle"}
     \/ at[t] = "start_lock" /\ ~has_waiter[t]

\* A thread that can go on infinitely often goes on: the scheduler runs it, the
\* mutexes do not starve it, and it is not always the last to see that an exclusive
\* section has ended.
FairSpec == /\ Spec
            /\ \A c \in Cpus : SF_vars(~Delayed(c) /\ Progress(c))
            /\ SF_vars(~Delayed(Main) /\ MainProgress)

-----------------------------------------------------------------------------
\* The flush of a source is due until its safe work has been done.
FlushDue(u) == ctl[u] \in {"flush", "flushed", "safe"} \/ HasSafe(u)

\* The vCPU has a flush in its queue that its source takes for done.
Overdue(c) == \E w \in Queued(c) : w.kind = "flush" /\ ~FlushDue(w.src)

\* A vCPU executes no block of the guest with a TLB that another vCPU takes for
\* flushed: between the safe work of the source and its next block every vCPU goes
\* through its work queue (flush_all_helper, process_queued_cpu_work).
FlushedBeforeBlocks == \A c \in Cpus : at[c] = "guest" => ~Overdue(c)

\* The comment of flush_all_helper (cputlb.c:78): "a synchronisation point where all
\* queued work will be finished before execution starts again", for blocks and for
\* the single instruction of cpu_exec_step_atomic.
FlushedBeforeExecution ==
  \A c \in Cpus : (at[c] = "guest" \/ (at[c] = "excl" /\ ctl[c] = "step")) => ~Overdue(c)

\* A thread that asks for an exclusive section gets it, safe work is taken from the
\* queue, and run_on_cpu returns, although a vCPU inside cpu_exec may wait for the
\* BQL (process_queued_cpu_work, start_exclusive, do_run_on_cpu).
Waits(t) ==
  \/ at[t] \in InExcl \ {"excl"}
  \/ t \in Cpus /\ HasSafe(t)
  \/ ctl[t] \in {"sync", "sync_sleep", "sync_woken"}

WorkServed == \A t \in Threads : Waits(t) ~> ~Waits(t)
=============================================================================

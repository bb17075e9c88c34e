------------------------- MODULE CpuExclusiveProofs -------------------------
(***************************************************************************)
(* Exclusive sections exclude, for any number of vCPUs and threads; the    *)
(* threads of VcpuThreads use them only through the functions of           *)
(* CpuExclusive, so these exclude there too; and a flush of all TLBs is    *)
(* done before another vCPU executes a block.                              *)
(***************************************************************************)
EXTENDS VcpuThreads, FiniteSetTheorems, TLAPS

Waiters == {c \in Cpus : has_waiter[c]}

\* The threads between pending_cpus = 1 and pending_cpus = 0.
Owning == {"scan", "excl_wait", "excl_check", "excl"}
Owns(t) == at[t] \in Owning

\* A vCPU the owner need not look at any more.
Seen(t, c) == at[t] = "scan" => c \notin scan.left

\* running says where the CPU is.
RunningExact ==
  \A c \in Cpus : running[c] <=> at[c] \in {"started", "start_lock"} \cup InExec

\* One owner, and pending_cpus tells that there is one.
OneOwner ==
  /\ \A t, u \in Threads : Owns(t) /\ Owns(u) => t = u
  /\ pending_cpus = 0 => \A t \in Threads : ~Owns(t)
  /\ \A c \in Cpus : has_waiter[c] => \E t \in Threads : Owns(t)

\* The counts of the owner.
OwnerCounts ==
  \A t \in Threads :
    /\ at[t] = "scan" => pending_cpus = 1 /\ scan.n = Cardinality(Waiters)
                         /\ \A c \in scan.left : ~has_waiter[c]
    /\ at[t] \in {"excl_wait", "excl_check", "excl"} =>
         pending_cpus = 1 + Cardinality(Waiters)
    /\ at[t] = "excl_wait" => pending_cpus > 1
    /\ at[t] = "excl" => pending_cpus = 1

\* A vCPU in cpu_exec that the owner has passed is marked.
MarkedInside ==
  \A t \in Threads, c \in Cpus : Owns(t) /\ Seen(t, c) /\ at[c] \in InExec => has_waiter[c]

\* A marked vCPU is on its way out.
MarkedLeaves ==
  \A c \in Cpus : has_waiter[c] =>
    \/ at[c] \in {"started", "start_lock"} \cup InExec /\ exit_request[c]
    \/ at[c] \in InEnd

ExclInv ==
  /\ ExclTypeOK /\ RunningExact /\ OneOwner /\ OwnerCounts /\ MarkedInside /\ MarkedLeaves

-----------------------------------------------------------------------------
(***************************************************************************)
(* Counting the marked vCPUs.                                              *)
(***************************************************************************)
\* The marked vCPUs are finitely many (has_waiter).
LEMMA WaitersFinite == ASSUME ThreadsAssumption
                       PROVE  IsFiniteSet(Waiters) /\ Cardinality(Waiters) \in Nat
<1>1. Waiters \subseteq Cpus
  BY DEF Waiters
<1>2. IsFiniteSet(Waiters)
  BY <1>1, FS_Subset DEF ThreadsAssumption
<1> QED
  BY <1>2, FS_CardinalityType

\* Without a marked vCPU the count is 0, and only then (has_waiter).
LEMMA NoWaiters == ASSUME ThreadsAssumption
                   PROVE  Cardinality(Waiters) = 0 <=> \A c \in Cpus : ~has_waiter[c]
<1>1. Cardinality(Waiters) = 0 <=> Waiters = {}
  BY WaitersFinite, FS_EmptySet
<1> QED
  BY <1>1 DEF Waiters

\* Marking a vCPU adds one to the count (start_exclusive).
LEMMA Marking ==
  ASSUME ThreadsAssumption, NEW c \in Cpus, has_waiter \in [Cpus -> BOOLEAN], ~has_waiter[c],
         has_waiter' = [has_waiter EXCEPT ![c] = TRUE]
  PROVE  Cardinality(Waiters') = Cardinality(Waiters) + 1
<1>1. Waiters' = Waiters \cup {c}
  BY DEF Waiters
<1>2. c \notin Waiters
  BY DEF Waiters
<1> QED
  BY <1>1, <1>2, WaitersFinite, FS_AddElement

\* Clearing the mark of a vCPU takes one from the count (cpu_exec_end).
LEMMA Clearing ==
  ASSUME ThreadsAssumption, NEW c \in Cpus, has_waiter \in [Cpus -> BOOLEAN], has_waiter[c],
         has_waiter' = [has_waiter EXCEPT ![c] = FALSE]
  PROVE  Cardinality(Waiters') = Cardinality(Waiters) - 1
<1>1. Waiters' = Waiters \ {c}
  BY DEF Waiters
<1>2. c \in Waiters
  BY DEF Waiters
<1> QED
  BY <1>1, <1>2, WaitersFinite, FS_RemoveElement

-----------------------------------------------------------------------------
(***************************************************************************)
(* The invariant is inductive.                                             *)
(***************************************************************************)
\* The invariant holds before any thread has started (qemu_init_cpu_list).
LEMMA ExclStarts == ASSUME ThreadsAssumption, ExclInit PROVE ExclInv
<1>1. ExclTypeOK
  BY DEF ExclInit, ExclTypeOK, Threads, InExcl
<1>2. RunningExact /\ MarkedInside /\ MarkedLeaves
  BY DEF ExclInit, RunningExact, MarkedInside, MarkedLeaves, Owns, Owning, Threads, InExec
<1>3. OneOwner /\ OwnerCounts
  BY DEF ExclInit, OneOwner, OwnerCounts, Owns, Owning, Threads
<1> QED
  BY <1>1, <1>2, <1>3 DEF ExclInv

\* A vCPU that calls cpu_exec_start keeps the invariant.
LEMMA StartKeeps ==
  ASSUME ThreadsAssumption, ExclInv, NEW c \in Cpus, cpu_exec_start(c)
  PROVE  ExclInv'
<1> USE DEF Threads
<1>1. ExclTypeOK'
  BY DEF ExclInv, ExclTypeOK, cpu_exec_start, Goto, InStart, InExec, InEnd, InExcl
<1>2. Waiters' = Waiters
  BY DEF cpu_exec_start, Waiters
<1>3. RunningExact'
  BY DEF ExclInv, ExclTypeOK, RunningExact, cpu_exec_start, Goto, InStart, InExec, InEnd, InExcl
<1>4. OneOwner'
  BY DEF ExclInv, ExclTypeOK, OneOwner, Owns, Owning, cpu_exec_start, Goto
<1>5. OwnerCounts'
  BY <1>2 DEF ExclInv, ExclTypeOK, OwnerCounts, cpu_exec_start, Goto
<1>6. MarkedInside'
  BY DEF ExclInv, ExclTypeOK, MarkedInside, OneOwner, Owns, Owning, Seen, cpu_exec_start, Goto, InExec
<1>7. MarkedLeaves'
  BY DEF ExclInv, ExclTypeOK, MarkedLeaves, RunningExact, cpu_exec_start, Goto, InExec, InEnd
<1> QED
  BY <1>1, <1>3, <1>4, <1>5, <1>6, <1>7 DEF ExclInv

\* Reading pending_cpus in cpu_exec_start keeps the invariant: with an owner the
\* vCPU does not go on.
LEMMA StartReadsKeeps ==
  ASSUME ThreadsAssumption, ExclInv, NEW c \in Cpus, StartReadsPending(c)
  PROVE  ExclInv'
<1> USE DEF Threads
<1>1. ExclTypeOK'
  BY DEF ExclInv, ExclTypeOK, StartReadsPending, Goto, InStart, InExec, InEnd, InExcl
<1>2. Waiters' = Waiters
  BY DEF StartReadsPending, Waiters
<1>3. RunningExact'
  BY DEF ExclInv, ExclTypeOK, RunningExact, StartReadsPending, Goto, InStart, InExec, InEnd, InExcl
<1>4. OneOwner'
  BY DEF ExclInv, ExclTypeOK, OneOwner, Owns, Owning, StartReadsPending, Goto
<1>5. OwnerCounts'
  BY <1>2 DEF ExclInv, ExclTypeOK, OwnerCounts, StartReadsPending, Goto
<1>6. MarkedInside'
  BY DEF ExclInv, ExclTypeOK, MarkedInside, OneOwner, Owns, Owning, Seen, StartReadsPending, Goto, InExec
<1>7. MarkedLeaves'
  BY DEF ExclInv, ExclTypeOK, MarkedLeaves, RunningExact, StartReadsPending, Goto, InExec, InEnd
<1> QED
  BY <1>1, <1>3, <1>4, <1>5, <1>6, <1>7 DEF ExclInv

\* The critical section of cpu_exec_start keeps the invariant.
LEMMA StartLockedKeeps ==
  ASSUME ThreadsAssumption, ExclInv, NEW c \in Cpus, StartLocked(c)
  PROVE  ExclInv'
<1> USE DEF Threads
<1>1. ExclTypeOK'
  BY DEF ExclInv, ExclTypeOK, StartLocked, StartOrSleep, Goto, InStart, InExec, InEnd, InExcl
<1>2. Waiters' = Waiters
  BY DEF StartLocked, StartOrSleep, Waiters
<1>3. RunningExact'
  BY DEF ExclInv, ExclTypeOK, RunningExact, StartLocked, StartOrSleep, Goto, InStart, InExec, InEnd, InExcl
<1>4. OneOwner'
  BY DEF ExclInv, ExclTypeOK, OneOwner, Owns, Owning, StartLocked, StartOrSleep, Goto
<1>5. OwnerCounts'
  BY <1>2 DEF ExclInv, ExclTypeOK, OwnerCounts, StartLocked, StartOrSleep, Goto
<1>6. MarkedInside'
  BY DEF ExclInv, ExclTypeOK, MarkedInside, OneOwner, Owns, Owning, Seen, StartLocked, StartOrSleep, Goto, InExec
<1>7. MarkedLeaves'
  BY DEF ExclInv, ExclTypeOK, MarkedLeaves, RunningExact, StartLocked, StartOrSleep, Goto, InExec, InEnd
<1> QED
  BY <1>1, <1>3, <1>4, <1>5, <1>6, <1>7 DEF ExclInv

\* Waking up in cpu_exec_start keeps the invariant.
LEMMA StartWokenKeeps ==
  ASSUME ThreadsAssumption, ExclInv, NEW c \in Cpus, StartWoken(c)
  PROVE  ExclInv'
<1> USE DEF Threads
<1>1. ExclTypeOK'
  BY DEF ExclInv, ExclTypeOK, StartWoken, StartOrSleep, Goto, InStart, InExec, InEnd, InExcl
<1>2. Waiters' = Waiters
  BY DEF StartWoken, StartOrSleep, Waiters
<1>3. RunningExact'
  BY DEF ExclInv, ExclTypeOK, RunningExact, StartWoken, StartOrSleep, Goto, InStart, InExec, InEnd, InExcl
<1>4. OneOwner'
  BY DEF ExclInv, ExclTypeOK, OneOwner, Owns, Owning, StartWoken, StartOrSleep, Goto
<1>5. OwnerCounts'
  BY <1>2 DEF ExclInv, ExclTypeOK, OwnerCounts, StartWoken, StartOrSleep, Goto
<1>6. MarkedInside'
  BY DEF ExclInv, ExclTypeOK, MarkedInside, OneOwner, Owns, Owning, Seen, StartWoken, StartOrSleep, Goto, InExec
<1>7. MarkedLeaves'
  BY DEF ExclInv, ExclTypeOK, MarkedLeaves, RunningExact, StartWoken, StartOrSleep, Goto, InExec, InEnd
<1> QED
  BY <1>1, <1>3, <1>4, <1>5, <1>6, <1>7 DEF ExclInv

\* Going on to the next blocks in cpu_exec keeps the invariant.
LEMMA InterruptKeeps ==
  ASSUME ThreadsAssumption, ExclInv, NEW c \in Cpus, HandleInterrupt(c)
  PROVE  ExclInv'
<1> USE DEF Threads
<1>1. ExclTypeOK'
  BY DEF ExclInv, ExclTypeOK, HandleInterrupt, Goto, InStart, InExec, InEnd, InExcl
<1>2. Waiters' = Waiters
  BY DEF HandleInterrupt, Waiters
<1>3. RunningExact'
  BY DEF ExclInv, ExclTypeOK, RunningExact, HandleInterrupt, Goto, InStart, InExec, InEnd, InExcl
<1>4. OneOwner'
  BY DEF ExclInv, ExclTypeOK, OneOwner, Owns, Owning, HandleInterrupt, Goto
<1>5. OwnerCounts'
  BY <1>2 DEF ExclInv, ExclTypeOK, OwnerCounts, HandleInterrupt, Goto
<1>6. MarkedInside'
  BY DEF ExclInv, ExclTypeOK, MarkedInside, OneOwner, Owns, Owning, Seen, HandleInterrupt, Goto, InExec
<1>7. MarkedLeaves'
  BY DEF ExclInv, ExclTypeOK, MarkedLeaves, RunningExact, HandleInterrupt, Goto, InExec, InEnd
<1> QED
  BY <1>1, <1>3, <1>4, <1>5, <1>6, <1>7 DEF ExclInv

\* The end of a chain of blocks keeps the invariant.
LEMMA BlocksKeeps ==
  ASSUME ThreadsAssumption, ExclInv, NEW c \in Cpus, BlocksEnd(c)
  PROVE  ExclInv'
<1> USE DEF Threads
<1>1. ExclTypeOK'
  BY DEF ExclInv, ExclTypeOK, BlocksEnd, Goto, InStart, InExec, InEnd, InExcl
<1>2. Waiters' = Waiters
  BY DEF BlocksEnd, Waiters
<1>3. RunningExact'
  BY DEF ExclInv, ExclTypeOK, RunningExact, BlocksEnd, Goto, InStart, InExec, InEnd, InExcl
<1>4. OneOwner'
  BY DEF ExclInv, ExclTypeOK, OneOwner, Owns, Owning, BlocksEnd, Goto
<1>5. OwnerCounts'
  BY <1>2 DEF ExclInv, ExclTypeOK, OwnerCounts, BlocksEnd, Goto
<1>6. MarkedInside'
  BY DEF ExclInv, ExclTypeOK, MarkedInside, OneOwner, Owns, Owning, Seen, BlocksEnd, Goto, InExec
<1>7. MarkedLeaves'
  BY DEF ExclInv, ExclTypeOK, MarkedLeaves, RunningExact, BlocksEnd, Goto, InExec, InEnd
<1> QED
  BY <1>1, <1>3, <1>4, <1>5, <1>6, <1>7 DEF ExclInv

\* A vCPU that leaves cpu_exec keeps the invariant.
LEMMA EndKeeps ==
  ASSUME ThreadsAssumption, ExclInv, NEW c \in Cpus, cpu_exec_end(c)
  PROVE  ExclInv'
<1> USE DEF Threads
<1>1. ExclTypeOK'
  BY DEF ExclInv, ExclTypeOK, cpu_exec_end, Goto, InStart, InExec, InEnd, InExcl
<1>2. Waiters' = Waiters
  BY DEF cpu_exec_end, Waiters
<1>3. RunningExact'
  BY DEF ExclInv, ExclTypeOK, RunningExact, cpu_exec_end, Goto, InStart, InExec, InEnd, InExcl
<1>4. OneOwner'
  BY DEF ExclInv, ExclTypeOK, OneOwner, Owns, Owning, cpu_exec_end, Goto
<1>5. OwnerCounts'
  BY <1>2 DEF ExclInv, ExclTypeOK, OwnerCounts, cpu_exec_end, Goto
<1>6. MarkedInside'
  BY DEF ExclInv, ExclTypeOK, MarkedInside, OneOwner, Owns, Owning, Seen, cpu_exec_end, Goto, InExec
<1>7. MarkedLeaves'
  BY DEF ExclInv, ExclTypeOK, MarkedLeaves, RunningExact, cpu_exec_end, Goto, InExec, InEnd
<1> QED
  BY <1>1, <1>3, <1>4, <1>5, <1>6, <1>7 DEF ExclInv

\* Reading pending_cpus in cpu_exec_end keeps the invariant: a marked vCPU finds an
\* owner.
LEMMA EndReadsKeeps ==
  ASSUME ThreadsAssumption, ExclInv, NEW c \in Cpus, EndReadsPending(c)
  PROVE  ExclInv'
<1> USE DEF Threads
<1>1. ExclTypeOK'
  BY DEF ExclInv, ExclTypeOK, EndReadsPending, Goto, InStart, InExec, InEnd, InExcl
<1>2. Waiters' = Waiters
  BY DEF EndReadsPending, Waiters
<1>3. RunningExact'
  BY DEF ExclInv, ExclTypeOK, RunningExact, EndReadsPending, Goto, InStart, InExec, InEnd, InExcl
<1>4. OneOwner'
  BY DEF ExclInv, ExclTypeOK, OneOwner, Owns, Owning, EndReadsPending, Goto
<1>5. OwnerCounts'
  BY <1>2 DEF ExclInv, ExclTypeOK, OwnerCounts, EndReadsPending, Goto
<1>6. MarkedInside'
  BY DEF ExclInv, ExclTypeOK, MarkedInside, OneOwner, Owns, Owning, Seen, EndReadsPending, Goto, InExec
<1>7. MarkedLeaves'
  BY DEF ExclInv, ExclTypeOK, MarkedLeaves, OneOwner, Owns, EndReadsPending, Goto, InExec, InEnd
<1> QED
  BY <1>1, <1>3, <1>4, <1>5, <1>6, <1>7 DEF ExclInv

\* A request to exit keeps the invariant (cpu_exit).
LEMMA ExitKeeps ==
  ASSUME ThreadsAssumption, ExclInv, NEW c \in Cpus, cpu_exit(c)
  PROVE  ExclInv'
<1> USE DEF Threads
<1>1. ExclTypeOK'
  BY DEF ExclInv, ExclTypeOK, cpu_exit, Goto, InStart, InExec, InEnd, InExcl
<1>2. Waiters' = Waiters
  BY DEF cpu_exit, Waiters
<1>3. RunningExact'
  BY DEF ExclInv, ExclTypeOK, RunningExact, cpu_exit, Goto, InStart, InExec, InEnd, InExcl
<1>4. OneOwner'
  BY DEF ExclInv, ExclTypeOK, OneOwner, Owns, Owning, cpu_exit, Goto
<1>5. OwnerCounts'
  BY <1>2 DEF ExclInv, ExclTypeOK, OwnerCounts, cpu_exit, Goto
<1>6. MarkedInside'
  BY DEF ExclInv, ExclTypeOK, MarkedInside, OneOwner, Owns, Owning, Seen, cpu_exit, Goto, InExec
<1>7. MarkedLeaves'
  BY DEF ExclInv, ExclTypeOK, MarkedLeaves, RunningExact, cpu_exit, Goto, InExec, InEnd
<1> QED
  BY <1>1, <1>3, <1>4, <1>5, <1>6, <1>7 DEF ExclInv

\* Clearing the request outside cpu_exec keeps the invariant.
LEMMA ClearKeeps ==
  ASSUME ThreadsAssumption, ExclInv, NEW c \in Cpus, ClearExit(c)
  PROVE  ExclInv'
<1> USE DEF Threads
<1>1. ExclTypeOK'
  BY DEF ExclInv, ExclTypeOK, ClearExit, Goto, InStart, InExec, InEnd, InExcl
<1>2. Waiters' = Waiters
  BY DEF ClearExit, Waiters
<1>3. RunningExact'
  BY DEF ExclInv, ExclTypeOK, RunningExact, ClearExit, Goto, InStart, InExec, InEnd, InExcl
<1>4. OneOwner'
  BY DEF ExclInv, ExclTypeOK, OneOwner, Owns, Owning, ClearExit, Goto
<1>5. OwnerCounts'
  BY <1>2 DEF ExclInv, ExclTypeOK, OwnerCounts, ClearExit, Goto
<1>6. MarkedInside'
  BY DEF ExclInv, ExclTypeOK, MarkedInside, OneOwner, Owns, Owning, Seen, ClearExit, Goto, InExec
<1>7. MarkedLeaves'
  BY DEF ExclInv, ExclTypeOK, MarkedLeaves, RunningExact, ClearExit, Goto, InExec, InEnd
<1> QED
  BY <1>1, <1>3, <1>4, <1>5, <1>6, <1>7 DEF ExclInv

\* A thread that calls start_exclusive keeps the invariant.
LEMMA ExclStartKeeps ==
  ASSUME ThreadsAssumption, ExclInv, NEW t \in Threads, start_exclusive(t)
  PROVE  ExclInv'
<1> USE DEF Threads
<1>1. ExclTypeOK'
  BY DEF ExclInv, ExclTypeOK, start_exclusive, Goto, InStart, InExec, InEnd, InExcl
<1>2. Waiters' = Waiters
  BY DEF start_exclusive, Waiters
<1>3. RunningExact'
  BY DEF ExclInv, ExclTypeOK, RunningExact, start_exclusive, Goto, InStart, InExec, InEnd, InExcl
<1>4. OneOwner'
  BY DEF ExclInv, ExclTypeOK, OneOwner, Owns, Owning, start_exclusive, Goto
<1>5. OwnerCounts'
  BY <1>2 DEF ExclInv, ExclTypeOK, OwnerCounts, start_exclusive, Goto
<1>6. MarkedInside'
  BY DEF ExclInv, ExclTypeOK, MarkedInside, OneOwner, Owns, Owning, Seen, start_exclusive, Goto, InExec
<1>7. MarkedLeaves'
  BY DEF ExclInv, ExclTypeOK, MarkedLeaves, RunningExact, start_exclusive, Goto, InExec, InEnd
<1> QED
  BY <1>1, <1>3, <1>4, <1>5, <1>6, <1>7 DEF ExclInv

\* The critical section of cpu_exec_end keeps the invariant: the vCPU takes back its
\* mark and its share of pending_cpus, and wakes the owner if it was the last.
LEMMA EndLockedKeeps ==
  ASSUME ThreadsAssumption, ExclInv, NEW c \in Cpus, EndLocked(c)
  PROVE  ExclInv'
<1> USE DEF Threads
<1>1. CASE ~has_waiter[c]
  <2>1. ExclTypeOK' /\ RunningExact'
    BY <1>1 DEF ExclInv, ExclTypeOK, RunningExact, EndLocked, Goto, InStart, InExec, InEnd, InExcl
  <2>2. Waiters' = Waiters
    BY <1>1 DEF EndLocked, Waiters
  <2>3. OneOwner'
    BY <1>1 DEF ExclInv, ExclTypeOK, OneOwner, Owns, Owning, EndLocked, Goto
  <2>4. OwnerCounts'
    BY <1>1, <2>2 DEF ExclInv, ExclTypeOK, OwnerCounts, EndLocked, Goto
  <2>5. MarkedInside'
    BY <1>1 DEF ExclInv, ExclTypeOK, MarkedInside, Owns, Owning, Seen, EndLocked, Goto, InExec
  <2>6. MarkedLeaves'
    BY <1>1 DEF ExclInv, ExclTypeOK, MarkedLeaves, EndLocked, Goto, InExec, InEnd
  <2> QED
    BY <2>1, <2>3, <2>4, <2>5, <2>6 DEF ExclInv
<1>2. CASE has_waiter[c]
  <2>1. PICK o \in Threads : Owns(o)
    BY <1>2 DEF ExclInv, OneOwner
  <2>2. Cardinality(Waiters') = Cardinality(Waiters) - 1
    BY <1>2, Clearing DEF ExclInv, ExclTypeOK, EndLocked
  <2>3. Cardinality(Waiters) \in Nat /\ Cardinality(Waiters) # 0
    BY <1>2, WaitersFinite, NoWaiters
  <2>4. at[o] \in {"excl_wait", "excl_check", "excl"}
    BY <2>1 DEF EndLocked, ListUnlocked, Owns, Owning
  <2>5. pending_cpus = 1 + Cardinality(Waiters)
    BY <2>4 DEF ExclInv, OwnerCounts
  <2>6. /\ pending_cpus' = pending_cpus - 1 /\ at' = AfterEnd(c, pending_cpus - 1)
        /\ has_waiter' = [has_waiter EXCEPT ![c] = FALSE]
        /\ running' = running /\ exit_request' = exit_request /\ scan' = scan
        /\ at[c] = "end_lock" /\ \A t \in Threads : at[t] # "scan"
    BY <1>2 DEF EndLocked, ListUnlocked
  <2>7. ExclTypeOK'
    <3>1. pending_cpus' \in Nat
      BY <2>3, <2>5, <2>6
    <3> QED
      BY <2>6, <3>1 DEF ExclInv, ExclTypeOK, AfterEnd, InStart, InExec, InEnd, InExcl
  <2>8. RunningExact'
    BY <2>6 DEF ExclInv, ExclTypeOK, RunningExact, AfterEnd, InExec
  <2>9. \A t \in Threads : Owns(t)' <=> Owns(t)
    BY <2>6 DEF ExclInv, ExclTypeOK, AfterEnd, Owns, Owning
  <2>10. pending_cpus' # 0
    BY <2>3, <2>5, <2>6
  <2>11. OneOwner'
    BY <2>1, <2>9, <2>10 DEF ExclInv, OneOwner
  <2>12. OwnerCounts'
    <3>1. \A t \in Threads : Owns(t) => t = o
      BY <2>1 DEF ExclInv, OneOwner
    <3>2. at[o] # "excl"
      BY <2>3, <2>5 DEF ExclInv, OwnerCounts
    <3>3. pending_cpus' = 1 + Cardinality(Waiters')
      BY <2>2, <2>3, <2>5, <2>6
    <3>4. \A t \in Threads : at'[t] # "scan" /\ (at'[t] = "excl" => at[t] = "excl")
      BY <2>6 DEF AfterEnd
    <3>5. \A t \in Threads : at'[t] = "excl_wait" => pending_cpus' > 1
      BY <2>3, <2>5, <2>6 DEF AfterEnd
    <3>6. \A t \in Threads : at[t] = "excl" => t = o
      BY <3>1 DEF Owns, Owning
    <3> QED
      BY <3>2, <3>3, <3>4, <3>5, <3>6 DEF OwnerCounts
  <2>13. MarkedInside'
    BY <2>6, <2>9 DEF ExclInv, ExclTypeOK, MarkedInside, Owns, Seen, AfterEnd, InExec
  <2>14. MarkedLeaves'
    BY <2>6 DEF ExclInv, ExclTypeOK, MarkedLeaves, AfterEnd, InExec, InEnd
  <2> QED
    BY <2>7, <2>8, <2>11, <2>12, <2>13, <2>14 DEF ExclInv
<1> QED
  BY <1>1, <1>2

\* Becoming the owner keeps the invariant: pending_cpus was 0, so there was none
\* (start_exclusive).
LEMMA ExclLockedKeeps ==
  ASSUME ThreadsAssumption, ExclInv, NEW t \in Threads, ExclLocked(t)
  PROVE  ExclInv'
<1> USE DEF Threads
<1>1. Waiters' = Waiters
  BY DEF ExclLocked, Waiters
<1>2. ExclTypeOK' /\ RunningExact'
  BY DEF ExclInv, ExclTypeOK, RunningExact, ExclLocked, Goto, InStart, InExec, InEnd, InExcl
<1>3. OneOwner'
  BY DEF ExclInv, ExclTypeOK, OneOwner, Owns, Owning, ExclLocked, Goto
<1>4. pending_cpus = 0 => \A c \in Cpus : ~has_waiter[c]
  BY DEF ExclInv, OneOwner
<1>5. OwnerCounts'
  <2>1. CASE pending_cpus # 0
    BY <2>1, <1>1 DEF ExclInv, ExclTypeOK, OwnerCounts, ExclLocked, Goto
  <2>2. CASE pending_cpus = 0
    <3>1. Cardinality(Waiters) = 0
      BY <2>2, <1>4, NoWaiters
    <3>2. \A u \in Threads : u # t => at'[u] \notin Owning
      BY <2>2 DEF ExclInv, ExclTypeOK, OneOwner, Owns, ExclLocked, Goto
    <3>3. at'[t] = "scan" /\ pending_cpus' = 1 /\ scan'.n = 0 /\ scan'.left = Cpus
      BY <2>2 DEF ExclInv, ExclTypeOK, ExclLocked, Goto
    <3>4. \A c \in Cpus : ~has_waiter'[c]
      BY <2>2, <1>4 DEF ExclLocked
    <3> QED
      BY <1>1, <3>1, <3>2, <3>3, <3>4 DEF OwnerCounts, Owning
  <2> QED
    BY <2>1, <2>2
<1>6. MarkedInside'
  BY DEF ExclInv, ExclTypeOK, MarkedInside, OneOwner, Owns, Owning, Seen, ExclLocked, Goto, InExec
<1>7. MarkedLeaves'
  BY DEF ExclInv, ExclTypeOK, MarkedLeaves, ExclLocked, Goto, InExec, InEnd
<1> QED
  BY <1>2, <1>3, <1>5, <1>6, <1>7 DEF ExclInv

\* Looking at one vCPU keeps the invariant: if it runs it is marked and counted
\* (start_exclusive).
LEMMA ScanKeeps ==
  ASSUME ThreadsAssumption, ExclInv, NEW t \in Threads, NEW c \in Cpus, ScanCpu(t, c)
  PROVE  ExclInv'
<1> USE DEF Threads
<1>1. /\ at' = at /\ running' = running /\ pending_cpus' = pending_cpus
      /\ at[t] = "scan" /\ c \in scan.left /\ ~has_waiter[c]
      /\ scan'.left = scan.left \ {c}
  BY DEF ExclInv, ExclTypeOK, OwnerCounts, ScanCpu
<1>2. ExclTypeOK'
  <2>1. CASE running[c]
    <3>1. scan.left \ {c} \in SUBSET Cpus /\ scan.n + 1 \in Nat
      BY DEF ExclInv, ExclTypeOK
    <3>2. scan' \in [left : SUBSET Cpus, n : Nat]
      BY <2>1, <3>1 DEF ScanCpu
    <3> QED
      BY <2>1, <3>2 DEF ExclInv, ExclTypeOK, ScanCpu
  <2>2. CASE ~running[c]
    BY <2>2 DEF ExclInv, ExclTypeOK, ScanCpu
  <2> QED
    BY <2>1, <2>2
<1>3. RunningExact'
  BY <1>1 DEF ExclInv, RunningExact
<1>4. OneOwner'
  BY <1>1 DEF ExclInv, ExclTypeOK, OneOwner, Owns, Owning, ScanCpu
<1>5. \A u \in Threads : at[u] \in Owning => u = t
  BY <1>1 DEF ExclInv, OneOwner, Owns, Owning
<1>6. scan'.n = Cardinality(Waiters')
  <2>1. CASE running[c]
    <3>1. Cardinality(Waiters') = Cardinality(Waiters) + 1
      BY <2>1, <1>1, Marking DEF ExclInv, ExclTypeOK, ScanCpu
    <3>2. scan'.n = scan.n + 1
      BY <2>1 DEF ScanCpu
    <3> QED
      BY <1>1, <3>1, <3>2 DEF ExclInv, OwnerCounts
  <2>2. CASE ~running[c]
    <3>1. Waiters' = Waiters
      BY <2>2 DEF ScanCpu, Waiters
    <3>2. scan'.n = scan.n
      BY <2>2 DEF ExclInv, ExclTypeOK, ScanCpu
    <3> QED
      BY <1>1, <3>1, <3>2 DEF ExclInv, OwnerCounts
  <2> QED
    BY <2>1, <2>2
<1>7. \A d \in scan'.left : ~has_waiter'[d]
  BY <1>1 DEF ExclInv, ExclTypeOK, OwnerCounts, ScanCpu
<1>8. OwnerCounts'
  BY <1>1, <1>5, <1>6, <1>7 DEF ExclInv, OwnerCounts, Owning
<1>9. MarkedInside'
  <2> SUFFICES ASSUME NEW u \in Threads, NEW d \in Cpus,
                      Owns(u), Seen(u, d)', at[d] \in InExec
               PROVE  has_waiter'[d]
    BY <1>1 DEF MarkedInside, Owns
  <2>1. u = t /\ d \notin scan'.left
    BY <1>1, <1>5 DEF Owns, Seen
  <2>2. CASE d = c
    <3>1. running[c]
      BY <2>2 DEF ExclInv, RunningExact
    <3> QED
      BY <2>2, <3>1 DEF ExclInv, ExclTypeOK, ScanCpu
  <2>3. CASE d # c
    <3>1. d \notin scan.left
      BY <2>1, <2>3, <1>1
    <3>2. has_waiter[d]
      BY <2>1, <3>1 DEF ExclInv, MarkedInside, Owns, Seen
    <3> QED
      BY <2>3, <3>2 DEF ExclInv, ExclTypeOK, ScanCpu
  <2> QED
    BY <2>2, <2>3
<1>10. MarkedLeaves'
  BY <1>1 DEF ExclInv, ExclTypeOK, MarkedLeaves, RunningExact, ScanCpu, InExec, InEnd
<1> QED
  BY <1>2, <1>3, <1>4, <1>8, <1>9, <1>10 DEF ExclInv

\* The end of the loop keeps the invariant: pending_cpus counts the marked vCPUs
\* (start_exclusive).
LEMMA ScanDoneKeeps ==
  ASSUME ThreadsAssumption, ExclInv, NEW t \in Threads, ScanDone(t)
  PROVE  ExclInv'
<1> USE DEF Threads
<1>1. ExclTypeOK' /\ RunningExact'
  BY DEF ExclInv, ExclTypeOK, RunningExact, ScanDone, Goto, InStart, InExec, InEnd, InExcl
<1>2. Waiters' = Waiters
  BY DEF ScanDone, Waiters
<1>3. \A u \in Threads : Owns(u)' <=> Owns(u)
  BY DEF ExclInv, ExclTypeOK, ScanDone, Goto, Owns, Owning
<1>4. OneOwner'
  BY <1>3 DEF ExclInv, ExclTypeOK, OneOwner, ScanDone
<1>5. \A u \in Threads : at[u] \in Owning => u = t
  BY DEF ExclInv, OneOwner, Owns, Owning, ScanDone
<1>6. scan.n = Cardinality(Waiters) /\ scan.n \in Nat
  BY DEF ExclInv, ExclTypeOK, OwnerCounts, ScanDone
<1>7. OwnerCounts'
  BY <1>2, <1>5, <1>6 DEF ExclInv, ExclTypeOK, OwnerCounts, Owning, ScanDone, Goto
<1>8. MarkedInside'
  BY <1>3, <1>5 DEF ExclInv, ExclTypeOK, MarkedInside, Owns, Owning, Seen, ScanDone, Goto, InExec
<1>9. MarkedLeaves'
  BY DEF ExclInv, ExclTypeOK, MarkedLeaves, ScanDone, Goto, InExec, InEnd
<1> QED
  BY <1>1, <1>4, <1>7, <1>8, <1>9 DEF ExclInv

\* Waking up in start_exclusive keeps the invariant.
LEMMA ExclWokenKeeps ==
  ASSUME ThreadsAssumption, ExclInv, NEW t \in Threads, ExclWoken(t)
  PROVE  ExclInv'
<1> USE DEF Threads
<1>1. ExclTypeOK' /\ RunningExact'
  BY DEF ExclInv, ExclTypeOK, RunningExact, ExclWoken, Goto, InStart, InExec, InEnd, InExcl
<1>2. Waiters' = Waiters
  BY DEF ExclWoken, Waiters
<1>3. \A u \in Threads : Owns(u)' <=> Owns(u)
  BY DEF ExclInv, ExclTypeOK, ExclWoken, Goto, Owns, Owning
<1>4. OneOwner'
  BY <1>3 DEF ExclInv, OneOwner, ExclWoken
<1>5. pending_cpus = 1 + Cardinality(Waiters) /\ Cardinality(Waiters) \in Nat
  BY WaitersFinite DEF ExclInv, OwnerCounts, ExclWoken
<1>6. OwnerCounts'
  BY <1>2, <1>5 DEF ExclInv, ExclTypeOK, OwnerCounts, ExclWoken, Goto
<1>7. MarkedInside'
  BY <1>3 DEF ExclInv, ExclTypeOK, MarkedInside, Owns, Owning, Seen, ExclWoken, Goto, InExec
<1>8. MarkedLeaves'
  BY DEF ExclInv, ExclTypeOK, MarkedLeaves, ExclWoken, Goto, InExec, InEnd
<1> QED
  BY <1>1, <1>4, <1>6, <1>7, <1>8 DEF ExclInv

\* The end of a section keeps the invariant: nobody is marked (end_exclusive).
LEMMA ExclEndKeeps ==
  ASSUME ThreadsAssumption, ExclInv, NEW t \in Threads, end_exclusive(t)
  PROVE  ExclInv'
<1> USE DEF Threads
<1>1. ExclTypeOK' /\ RunningExact'
  BY DEF ExclInv, ExclTypeOK, RunningExact, end_exclusive, Resumed, InStart, InExec, InEnd, InExcl
<1>2. \A u \in Threads : ~Owns(u)'
  BY DEF ExclInv, ExclTypeOK, OneOwner, Owns, Owning, end_exclusive, Resumed
<1>3. \A c \in Cpus : ~has_waiter[c]
  BY WaitersFinite, NoWaiters DEF ExclInv, OwnerCounts, end_exclusive
<1>4. OneOwner' /\ OwnerCounts' /\ MarkedInside' /\ MarkedLeaves'
  BY <1>2, <1>3 DEF OneOwner, OwnerCounts, MarkedInside, MarkedLeaves, Owns, Owning, end_exclusive
<1> QED
  BY <1>1, <1>4 DEF ExclInv

\* Every step keeps the invariant.
LEMMA ExclStepKeeps ==
  ASSUME ThreadsAssumption, ExclInv, [ExclNext]_xvars
  PROVE  ExclInv'
<1>1. CASE UNCHANGED xvars
  BY <1>1 DEF xvars, ExclInv, ExclTypeOK, RunningExact, OneOwner, OwnerCounts, MarkedInside,
              MarkedLeaves, Owns, Seen, Waiters
<1>2. ASSUME NEW c \in Cpus, CpuStep(c)
      PROVE  ExclInv'
  BY <1>2, StartKeeps, StartReadsKeeps, StartLockedKeeps, StartWokenKeeps, InterruptKeeps,
     BlocksKeeps, EndKeeps, EndReadsKeeps, EndLockedKeeps, ExitKeeps, ClearKeeps DEF CpuStep
<1>3. ASSUME NEW t \in Threads, ExclStep(t)
      PROVE  ExclInv'
  BY <1>3, ExclStartKeeps, ExclLockedKeeps, ScanKeeps, ScanDoneKeeps, ExclWokenKeeps,
     ExclEndKeeps DEF ExclStep
<1> QED
  BY <1>1, <1>2, <1>3 DEF ExclNext

\* The invariant implies that exclusive sections exclude, and that the owner waits
\* for the marked vCPUs (start_exclusive).
LEMMA ExclConsequences ==
  ASSUME ThreadsAssumption, ExclInv
  PROVE  Exclusion /\ WaitsForMarked
<1>1. Exclusion
  <2> SUFFICES ASSUME NEW t \in Threads, at[t] = "excl", NEW u \in Threads, u # t,
                      at[u] \in InExec \cup {"excl"}
               PROVE  FALSE
    BY DEF Exclusion
  <2>1. \A c \in Cpus : ~has_waiter[c]
    BY WaitersFinite, NoWaiters DEF ExclInv, OwnerCounts
  <2>2. at[u] # "excl"
    BY DEF ExclInv, OneOwner, Owns, Owning
  <2>3. u \in Cpus
    BY <2>2 DEF ExclInv, ExclTypeOK, Threads, InExec, InExcl
  <2> QED
    BY <2>1, <2>2, <2>3 DEF ExclInv, MarkedInside, Owns, Owning, Seen
<1>2. WaitsForMarked
  BY DEF ExclInv, OwnerCounts, MarkedLeaves, WaitsForMarked, Waiters
<1> QED
  BY <1>1, <1>2

\* Inside an exclusive section no vCPU executes and no other thread is in a section,
\* for any number of vCPUs and threads; a thread waits exactly for the vCPUs that
\* will signal it (start_exclusive, end_exclusive, cpu_exec_start, cpu_exec_end).
THEOREM ExclusionTheorem == ExclSpec => [](Exclusion /\ WaitsForMarked)
<1>1. ExclInit => ExclInv
  BY ThreadsAssumption, ExclStarts
<1>2. ExclInv /\ [ExclNext]_xvars => ExclInv'
  BY ThreadsAssumption, ExclStepKeeps
<1>3. ExclInv => Exclusion /\ WaitsForMarked
  BY ThreadsAssumption, ExclConsequences
<1> QED
  BY <1>1, <1>2, <1>3, PTL DEF ExclSpec

-----------------------------------------------------------------------------
(***************************************************************************)
(* The threads of VcpuThreads.                                             *)
(***************************************************************************)
InGuest == {"exec", "mmio_lock", "mmio", "flush", "flushed"}

\* Where a vCPU may be in VcpuThreads, by where it is in CpuExclusive.
PlaceOk(c) ==
  /\ at[c] \in InStart \cup {"exec"} => ctl[c] = "exec"
  /\ at[c] = "guest" => ctl[c] \in InGuest
  /\ at[c] \in InEnd => ctl[c] \in {"exec", "atomic"}
  /\ at[c] \in InExcl => ctl[c] \in {"safe", "step", "step_mmio_lock", "step_mmio", "stepped"}
  /\ ctl[c] \in InGuest \ {"exec"} => at[c] = "guest"

\* Only a vCPU in the flush has still to kick another one, and when it is about to
\* leave the flush its safe work is queued.
FlushOk(c) ==
  /\ kicks[c] # Nobody => ctl[c] \in {"flush", "flushed"}
  /\ ctl[c] = "flushed" => HasSafe(c)

Placed == \A c \in Cpus : PlaceOk(c) /\ FlushOk(c)

\* The vCPU has looked at its queue for the last time before it executes a block.
Exposed(c) == at[c] \in InStart \cup InExec \/ (at[c] = "out" /\ ctl[c] = "exec")

\* A vCPU that has a flush queued behind its back has been told to exit, or its
\* source is about to tell it.
QueuedKicked ==
  \A c \in Cpus : Exposed(c) =>
    \A w \in Queued(c) : w.kind = "flush" /\ kicks[w.src] # c => exit_request[c]

QueueInv  == Placed /\ QueuedKicked /\ FlushedBeforeBlocks
ThreadInv == TypeOK /\ ExclInv /\ QueueInv

\* A step that leaves the queues alone, finishes no flush and starts no block.
Quiet(d) ==
  /\ PlaceOk(d)'
  /\ ctl[d] \in {"flush", "flushed", "safe"} => ctl'[d] = ctl[d]
  /\ ctl'[d] = "flushed" => ctl[d] = "flushed"
  /\ at'[d] = "guest" => at[d] = "guest"
  /\ \/ work[d] = << >>
     \/ Exposed(d)' => Exposed(d) /\ (exit_request[d] => exit_request'[d])

QuietStep == work' = work /\ kicks' = kicks /\ \A d \in Cpus : Quiet(d)

\* A quiet step keeps the queues' part of the invariant (queue_work_on_cpu).
LEMMA QuietKeeps ==
  ASSUME ThreadInv, QuietStep
  PROVE  QueueInv'
<1>1. \A c \in Cpus : Queued(c)' = Queued(c) /\ HasSafe(c)' = HasSafe(c)
  BY Zenon DEF QuietStep, Queued, HasSafe
<1>2. Placed'
  BY <1>1, Zenon DEF ThreadInv, QueueInv, QuietStep, Quiet, Placed, FlushOk
<1>3. QueuedKicked'
  <2> SUFFICES ASSUME NEW c \in Cpus, Exposed(c)', NEW w \in Queued(c),
                      w.kind = "flush", kicks[w.src] # c
               PROVE  exit_request'[c]
    BY <1>1, Zenon DEF QueuedKicked, QuietStep
  <2>1. work[c] # << >>
    BY DEF Queued, Items
  <2> QED
    BY <2>1, Zenon DEF ThreadInv, QueueInv, QueuedKicked, QuietStep, Quiet
<1>4. FlushedBeforeBlocks'
  <2>1. \A c \in Cpus : \A w \in Queued(c) : w.kind = "flush" => w.src \in Cpus
    BY DEF ThreadInv, TypeOK, Queued, Items, Work
  <2>2. \A u \in Cpus : FlushDue(u) => FlushDue(u)'
    BY <1>1, Zenon DEF FlushDue, QuietStep, Quiet
  <2>3. \A c \in Cpus : Overdue(c)' => Overdue(c)
    BY <1>1, <2>1, <2>2, Zenon DEF Overdue
  <2> QED
    BY <2>3, Zenon DEF ThreadInv, QueueInv, FlushedBeforeBlocks, QuietStep, Quiet
<1> QED
  BY <1>2, <1>3, <1>4, Zenon DEF QueueInv

\* The types of the state, in the form the steps below use it.
LEMMA ThreadTypes ==
  ASSUME WorkAssumption, ThreadsAssumption, ThreadInv
  PROVE  /\ at \in [Threads -> {"out"} \cup InStart \cup InExec \cup InEnd \cup InExcl]
         /\ ctl \in [Threads -> CpuCtl \cup MainCtl]
         /\ exit_request \in [Cpus -> BOOLEAN]
         /\ work \in [Cpus -> Seq(Work)]
         /\ kicks \in [Threads -> Cpus \cup {Nobody}]
         /\ Cpus \subseteq Threads /\ Main \in Threads /\ Main \notin Cpus
         /\ Nobody \notin Cpus
         /\ \A c \in Cpus : PlaceOk(c) /\ FlushOk(c)
         /\ \A c \in Cpus : \A w \in Queued(c) : w.kind = "flush" => w.src \in Cpus
<1>1. \A c \in Cpus : \A w \in Queued(c) : w.kind = "flush" => w.src \in Cpus
  BY DEF ThreadInv, TypeOK, Queued, Items, Work
<1> QED
  BY <1>1, Zenon DEF ThreadInv, QueueInv, Placed, TypeOK, ExclTypeOK, Threads, WorkAssumption,
         ThreadsAssumption

\* In a step of another thread a vCPU stays where it is, or is woken up where it
\* sleeps.
Near(d) ==
  \/ at'[d] = at[d]
  \/ at[d] \in InStart /\ at'[d] \in InStart
  \/ at[d] \in InExcl /\ at'[d] \in InExcl

Still(d) == ctl'[d] = ctl[d] /\ Near(d) /\ (exit_request[d] => exit_request'[d])

InSection == {"safe", "step", "step_mmio_lock", "step_mmio", "stepped"}

\* Its own quiet steps: outside cpu_exec, in an exclusive section, in a chain of
\* blocks, between chains, and on its way out of cpu_exec.
StepsOut(d) ==
  /\ at'[d] = "out" /\ ctl[d] \notin {"flush", "flushed", "safe"}
  /\ ctl'[d] \in InGuest => ctl'[d] = "exec" /\ work[d] = << >>
StepsExcl(d) ==
  /\ at'[d] \in InExcl /\ ctl[d] \in InSection /\ ctl'[d] \in InSection
  /\ ctl[d] = "safe" => ctl'[d] = "safe"
StepsGuest(d) ==
  /\ at[d] = "guest" /\ at'[d] = "guest" /\ exit_request'[d] = exit_request[d]
  /\ ctl[d] \in {"exec", "mmio_lock"} /\ ctl'[d] \in {"mmio_lock", "mmio", "flush"}
StepsExec(d) ==
  /\ Exposed(d) /\ at'[d] \in InStart \cup {"exec"} /\ exit_request'[d] = exit_request[d]
  /\ ctl[d] \in {"exec", "mmio"} /\ ctl'[d] = "exec"
StepsEnd(d) ==
  /\ at'[d] \in InEnd
  /\ ctl[d] \in {"exec", "atomic"} /\ ctl'[d] \in {"exec", "atomic"}

Tame(d) ==
  Still(d) \/ StepsOut(d) \/ StepsExcl(d) \/ StepsGuest(d) \/ StepsExec(d) \/ StepsEnd(d)

\* All of them are quiet (qemu_tcg_cpu_thread_fn).
LEMMA TameQuiet ==
  ASSUME NEW d \in Cpus, PlaceOk(d), Tame(d)
  PROVE  Quiet(d)
<1> USE DEF Quiet, PlaceOk, Exposed, InGuest, InStart, InExec, InEnd, InExcl
<1>1. CASE Still(d)
  BY <1>1, Zenon DEF Still, Near
<1>2. CASE StepsOut(d)
  BY <1>2, Zenon DEF StepsOut
<1>3. CASE StepsExcl(d)
  BY <1>3, Zenon DEF StepsExcl, InSection
<1>4. CASE StepsGuest(d)
  BY <1>4, Zenon DEF StepsGuest
<1>5. CASE StepsExec(d)
  BY <1>5, Zenon DEF StepsExec
<1>6. CASE StepsEnd(d)
  BY <1>6, Zenon DEF StepsEnd
<1> QED
  BY <1>1, <1>2, <1>3, <1>4, <1>5, <1>6, Zenon DEF Tame

\* A step is quiet if it is tame for every vCPU.
LEMMA TameStep ==
  ASSUME WorkAssumption, ThreadsAssumption, ThreadInv, work' = work, kicks' = kicks,
         \A d \in Cpus : Tame(d)
  PROVE  QuietStep
  BY ThreadTypes, TameQuiet, Zenon DEF QuietStep

\* A vCPU thread that is in none of these places is outside cpu_exec and exclusive
\* sections (qemu_tcg_cpu_thread_fn).
LEMMA Outside ==
  ASSUME WorkAssumption, ThreadsAssumption, ThreadInv, NEW c \in Cpus,
         ctl[c] \notin InGuest \cup InSection \cup {"atomic"}
  PROVE  at[c] = "out"
<1>1. /\ PlaceOk(c)
      /\ at[c] \in {"out"} \cup InStart \cup InExec \cup InEnd \cup InExcl
  BY ThreadTypes, Zenon
<1> QED
  BY <1>1, Zenon DEF PlaceOk, InGuest, InSection, InExec

\* The broadcast of exclusive_resume wakes sleepers where they sleep (end_exclusive).
LEMMA ResumedNear ==
  ASSUME NEW d \in Cpus, at'[d] = Resumed(d)
  PROVE  Near(d)
<1>1. CASE at[d] = "start_sleep"
  BY <1>1, Zenon DEF Resumed, Near, InStart
<1>2. CASE at[d] = "excl_sleep"
  BY <1>2, Zenon DEF Resumed, Near, InExcl
<1>3. CASE at[d] \notin {"start_sleep", "excl_sleep"}
  BY <1>3, Zenon DEF Resumed, Near
<1> QED
  BY <1>1, <1>2, <1>3, Zenon

\* Its places inside an exclusive step and inside a chain of blocks
\* (cpu_exec_step_atomic, cpu_exec).
LEMMA InChain ==
  ASSUME WorkAssumption, ThreadsAssumption, ThreadInv, NEW c \in Cpus, ctl[c] = "mmio_lock"
  PROVE  at[c] = "guest"
  BY ThreadTypes, Zenon DEF PlaceOk, InGuest

LEMMA InStep ==
  ASSUME WorkAssumption, ThreadsAssumption, ThreadInv, NEW c \in Cpus,
         ctl[c] \in {"step_mmio_lock", "step_mmio"}
  PROVE  at[c] \in InExcl \cup {"out"}
<1>1. /\ PlaceOk(c)
      /\ at[c] \in {"out"} \cup InStart \cup InExec \cup InEnd \cup InExcl
  BY ThreadTypes, Zenon
<1> QED
  BY <1>1, Zenon DEF PlaceOk, InGuest, InExec

\* The steps of a vCPU thread that are quiet (qemu_tcg_cpu_thread_fn).
LEMMA CpuQuiet ==
  ASSUME WorkAssumption, ThreadsAssumption, ThreadInv, NEW c \in Cpus,
         ProcessStarts(c) \/ SafeStarts(c) \/ SafeRelocks(c) \/ ProcessEnds(c) \/ ExecReturns(c) \/
         ExecEnds(c) \/ Relock(c) \/ StepUnlocks(c) \/ StepStarts(c) \/ StepEnds(c) \/
         Doze(c) \/ Sleeps(c) \/ Wakes(c) \/ NotIdle(c) \/ Mmio(c) \/
         MmioLocks(c) \/ MmioEnds(c) \/ tlb_flush_all_cpus_synced(c) \/ Interrupt(c)
  PROVE  QuietStep
<1>0. /\ at \in [Threads -> {"out"} \cup InStart \cup InExec \cup InEnd \cup InExcl]
      /\ ctl \in [Threads -> CpuCtl \cup MainCtl] /\ exit_request \in [Cpus -> BOOLEAN]
      /\ c \in Threads /\ Cpus \subseteq Threads /\ Main \notin Cpus
  BY ThreadTypes, Zenon
<1>a. work' = work /\ kicks' = kicks
  BY Zenon DEF ProcessStarts, SafeStarts, SafeRelocks, ProcessEnds, ExecReturns, ExecEnds, Relock,
         StepUnlocks, StepStarts, StepEnds, Doze, Sleeps, Wakes, NotIdle, Mmio, MmioLocks,
         MmioEnds, tlb_flush_all_cpus_synced, Interrupt, NoQueue, Stays
<1> SUFFICES \A d \in Cpus : Tame(d)
  BY <1>a, TameStep, Zenon
<1> SUFFICES Tame(c) /\ \A d \in Cpus \ {c} : Still(d)
  BY Zenon DEF Tame
<1> USE DEF From, To
<1>1. CASE ProcessStarts(c)
  <2>1. /\ ctl[c] = "process" /\ ctl'[c] \in {"exec", "next"} /\ (ctl'[c] = "exec" => work[c] = << >>)
        /\ at' = at /\ exit_request' = exit_request
        /\ \A d \in Cpus \ {c} : ctl'[d] = ctl[d]
    BY <1>0, <1>1, Zenon DEF ProcessStarts, UnlockBql, Plain, NoQueue, xvars
  <2>2. at'[c] = "out"
    BY <2>1, Outside, Zenon DEF InGuest, InSection
  <2> QED
    BY <2>1, <2>2, Zenon DEF Tame, StepsOut, Still, Near, InGuest
<1>2. CASE SafeRelocks(c)
  <2>1. /\ ctl[c] = "safe_relock" /\ ctl'[c] = "next"
        /\ at' = at /\ exit_request' = exit_request
        /\ \A d \in Cpus \ {c} : ctl'[d] = ctl[d]
    BY <1>0, <1>2, Zenon DEF SafeRelocks, LockBql, NoQueue, xvars
  <2>2. at'[c] = "out"
    BY <2>1, Outside, Zenon DEF InGuest, InSection
  <2> QED
    BY <2>1, <2>2, Zenon DEF Tame, StepsOut, Still, Near, InGuest
<1>3. CASE Relock(c)
  <2>1. /\ ctl[c] = "relock" /\ ctl'[c] = "event"
        /\ at' = at /\ \A d \in Cpus \ {c} : exit_request'[d] = exit_request[d]
        /\ \A d \in Cpus \ {c} : ctl'[d] = ctl[d]
    BY <1>0, <1>3, Zenon DEF Relock, LockBql, ClearExit, NoQueue
  <2>2. at'[c] = "out"
    BY <2>1, Outside, Zenon DEF InGuest, InSection
  <2> QED
    BY <2>1, <2>2, Zenon DEF Tame, StepsOut, Still, Near, InGuest
<1>4. CASE StepUnlocks(c)
  <2>1. /\ ctl[c] = "step_relock" /\ ctl'[c] = "step"
        /\ at' = at /\ exit_request' = exit_request
        /\ \A d \in Cpus \ {c} : ctl'[d] = ctl[d]
    BY <1>0, <1>4, Zenon DEF StepUnlocks, Plain, NoQueue, xvars
  <2>2. at'[c] = "out"
    BY <2>1, Outside, Zenon DEF InGuest, InSection
  <2> QED
    BY <2>1, <2>2, Zenon DEF Tame, StepsOut, Still, Near, InGuest
<1>5. CASE Doze(c)
  <2>1. /\ ctl[c] = "event" /\ ctl'[c] = "doze"
        /\ at' = at /\ exit_request' = exit_request
        /\ \A d \in Cpus \ {c} : ctl'[d] = ctl[d]
    BY <1>0, <1>5, Zenon DEF Doze, Plain, NoQueue, xvars
  <2>2. at'[c] = "out"
    BY <2>1, Outside, Zenon DEF InGuest, InSection
  <2> QED
    BY <2>1, <2>2, Zenon DEF Tame, StepsOut, Still, Near, InGuest
<1>6. CASE Sleeps(c)
  <2>1. /\ ctl[c] = "doze" /\ ctl'[c] = "halted"
        /\ at' = at /\ exit_request' = exit_request
        /\ \A d \in Cpus \ {c} : ctl'[d] = ctl[d]
    BY <1>0, <1>6, Zenon DEF Sleeps, UnlockBql, NoQueue, xvars
  <2>2. at'[c] = "out"
    BY <2>1, Outside, Zenon DEF InGuest, InSection
  <2> QED
    BY <2>1, <2>2, Zenon DEF Tame, StepsOut, Still, Near, InGuest
<1>7. CASE Wakes(c)
  <2>1. /\ ctl[c] = "woken" /\ ctl'[c] = "event"
        /\ at' = at /\ exit_request' = exit_request
        /\ \A d \in Cpus \ {c} : ctl'[d] = ctl[d]
    BY <1>0, <1>7, Zenon DEF Wakes, LockBql, NoQueue, xvars
  <2>2. at'[c] = "out"
    BY <2>1, Outside, Zenon DEF InGuest, InSection
  <2> QED
    BY <2>1, <2>2, Zenon DEF Tame, StepsOut, Still, Near, InGuest
<1>8. CASE NotIdle(c)
  <2>1. /\ ctl[c] = "event" /\ ctl'[c] = "process"
        /\ at' = at /\ exit_request' = exit_request
        /\ \A d \in Cpus \ {c} : ctl'[d] = ctl[d]
    BY <1>0, <1>8, Zenon DEF NotIdle, Plain, NoQueue, xvars
  <2>2. at'[c] = "out"
    BY <2>1, Outside, Zenon DEF InGuest, InSection
  <2> QED
    BY <2>1, <2>2, Zenon DEF Tame, StepsOut, Still, Near, InGuest
<1>9. CASE ProcessEnds(c)
  <2>0. \A d \in Cpus : ctl[d] # "sync_sleep"
    BY Zenon DEF ThreadInv, TypeOK, CpuCtl
  <2>1. /\ ctl[c] = "next" /\ ctl'[c] = "exec" /\ work[c] = << >>
        /\ at' = at /\ exit_request' = exit_request
        /\ \A d \in Cpus \ {c} : ctl'[d] = ctl[d]
    BY <1>0, <1>9, <2>0, Zenon DEF ProcessEnds, NoQueue, xvars
  <2>2. at'[c] = "out"
    BY <2>1, Outside, Zenon DEF InGuest, InSection
  <2> QED
    BY <2>1, <2>2, Zenon DEF Tame, StepsOut, Still, Near, InGuest
<1>10. CASE SafeStarts(c)
  <2>1. /\ ctl[c] = "safe" /\ ctl'[c] = "safe" /\ at'[c] = "excl_lock"
        /\ exit_request' = exit_request
        /\ \A d \in Cpus \ {c} : ctl'[d] = ctl[d] /\ at'[d] = at[d]
    BY <1>0, <1>10, Zenon DEF SafeStarts, start_exclusive, Goto, Stays
  <2> QED
    BY <2>1, Zenon DEF Tame, StepsExcl, Still, Near, InExcl, InSection
<1>11. CASE StepStarts(c)
  <2>1. /\ ctl[c] = "step" /\ ctl'[c] = "step" /\ at'[c] = "excl_lock"
        /\ exit_request' = exit_request
        /\ \A d \in Cpus \ {c} : ctl'[d] = ctl[d] /\ at'[d] = at[d]
    BY <1>0, <1>11, Zenon DEF StepStarts, start_exclusive, Goto, Stays
  <2> QED
    BY <2>1, Zenon DEF Tame, StepsExcl, Still, Near, InExcl, InSection
<1>12. CASE ExecReturns(c)
  <2>1. /\ ctl[c] = "exec" /\ ctl'[c] \in {"exec", "atomic"} /\ at'[c] = "ended"
        /\ \A d \in Cpus \ {c} : ctl'[d] = ctl[d]
    BY <1>0, <1>12, Zenon DEF ExecReturns, cpu_exec_end, Goto
  <2>2. \A d \in Cpus \ {c} : at'[d] = at[d] /\ exit_request'[d] = exit_request[d]
    BY <1>0, <1>12, Zenon DEF ExecReturns, cpu_exec_end, Goto
  <2> QED
    BY <2>1, <2>2, Zenon DEF Tame, StepsEnd, Still, Near, InEnd
<1>13. CASE ExecEnds(c)
  <2>1. at[c] \in InEnd /\ at'[c] \in {"out", "end_lock"} /\ exit_request' = exit_request
    BY <1>0, <1>13, Zenon DEF ExecEnds, EndReadsPending, EndLocked, AfterEnd, Goto, InEnd
  <2>2. ctl[c] \in {"exec", "atomic"}
    BY <2>1, ThreadTypes, Zenon DEF PlaceOk
  <2>3. /\ ctl'[c] = IF at'[c] # "out" THEN ctl[c]
                     ELSE IF ctl[c] = "atomic" THEN "step_relock" ELSE "relock"
        /\ \A d \in Cpus \ {c} : ctl'[d] = ctl[d]
    BY <1>0, <1>13, Zenon DEF ExecEnds
  <2>4. \A d \in Cpus \ {c} :
          at'[d] = at[d] \/ (at[d] = "excl_wait" /\ at'[d] = "excl_check")
    BY <1>0, <1>13, Zenon DEF ExecEnds, EndReadsPending, EndLocked, AfterEnd, Goto
  <2>5. \A d \in Cpus \ {c} : Still(d)
    BY <2>1, <2>3, <2>4, Zenon DEF Still, Near, InExcl
  <2>6. CASE at'[c] = "out"
    <3>1. ctl'[c] \in {"step_relock", "relock"}
      BY <2>3, <2>6, Zenon
    <3> QED
      BY <2>2, <2>5, <2>6, <3>1, Zenon DEF Tame, StepsOut, InGuest
  <2>7. CASE at'[c] = "end_lock"
    <3>1. ctl'[c] = ctl[c]
      BY <2>3, <2>7, Zenon
    <3> QED
      BY <2>2, <2>5, <2>7, <3>1, Zenon DEF Tame, StepsEnd, InEnd
  <2> QED
    BY <2>1, <2>6, <2>7, Zenon
<1>14. CASE StepEnds(c)
  <2>1. /\ ctl[c] \in {"step", "stepped"} /\ ctl'[c] = "relock" /\ exit_request' = exit_request
        /\ \A d \in Cpus \ {c} : ctl'[d] = ctl[d]
    BY <1>0, <1>14, Zenon DEF StepEnds, Plain, end_exclusive
  <2>2. at'[c] = "out" /\ \A d \in Cpus \ {c} : at'[d] = Resumed(d)
    BY <1>0, <1>14, Zenon DEF StepEnds, end_exclusive
  <2>3. \A d \in Cpus \ {c} : Near(d)
    BY <2>2, ResumedNear, Zenon
  <2> QED
    BY <2>1, <2>2, <2>3, Zenon DEF Tame, StepsOut, Still, InGuest
<1>15. CASE Mmio(c)
  <2>1. /\ at' = at /\ exit_request' = exit_request
        /\ \A d \in Cpus \ {c} : ctl'[d] = ctl[d]
    BY <1>0, <1>15, Zenon DEF Mmio, Plain, xvars
  <2>2. \/ at[c] = "guest" /\ ctl[c] = "exec" /\ ctl'[c] = "mmio_lock"
        \/ at[c] = "excl" /\ ctl[c] = "step" /\ ctl'[c] = "step_mmio_lock"
    BY <1>0, <1>15, Zenon DEF Mmio, Plain
  <2> QED
    BY <2>1, <2>2, Zenon DEF Tame, StepsGuest, StepsExcl, Still, Near, InSection, InExcl
<1>16. CASE MmioLocks(c)
  <2>1. /\ at' = at /\ exit_request' = exit_request
        /\ \A d \in Cpus \ {c} : ctl'[d] = ctl[d]
    BY <1>0, <1>16, Zenon DEF MmioLocks, LockBql, xvars
  <2>2. \/ ctl[c] = "mmio_lock" /\ ctl'[c] = "mmio"
        \/ ctl[c] = "step_mmio_lock" /\ ctl'[c] = "step_mmio"
    BY <1>0, <1>16, Zenon DEF MmioLocks, LockBql
  <2> QED
    BY <2>1, <2>2, InStep, InChain, Zenon
    DEF Tame, StepsGuest, StepsExcl, StepsOut, Still, Near, InSection, InGuest
<1>17. CASE MmioEnds(c)
  <2>1. CASE UnlockBql(c, "mmio", "exec") /\ BlocksEnd(c)
    <3>1. /\ ctl[c] = "mmio" /\ ctl'[c] = "exec" /\ at[c] = "guest" /\ at'[c] = "exec"
          /\ exit_request' = exit_request
          /\ \A d \in Cpus \ {c} : ctl'[d] = ctl[d] /\ at'[d] = at[d]
      BY <1>0, <2>1, Zenon DEF UnlockBql, BlocksEnd, Goto
    <3> QED
      BY <3>1, Zenon DEF Tame, StepsExec, Exposed, Still, Near, InExec
  <2>2. CASE UnlockBql(c, "step_mmio", "stepped") /\ UNCHANGED xvars
    <3>1. /\ ctl[c] = "step_mmio" /\ ctl'[c] = "stepped" /\ at' = at
          /\ exit_request' = exit_request
          /\ \A d \in Cpus \ {c} : ctl'[d] = ctl[d]
      BY <1>0, <2>2, Zenon DEF UnlockBql, xvars
    <3> QED
      BY <3>1, InStep, Zenon DEF Tame, StepsExcl, StepsOut, Still, Near, InSection, InGuest
  <2> QED
    BY <1>17, <2>1, <2>2, Zenon DEF MmioEnds
<1>18. CASE tlb_flush_all_cpus_synced(c)
  <2>1. /\ at[c] = "guest" /\ ctl[c] = "exec" /\ ctl'[c] = "flush" /\ at' = at
        /\ exit_request' = exit_request
        /\ \A d \in Cpus \ {c} : ctl'[d] = ctl[d]
    BY <1>0, <1>18, Zenon DEF tlb_flush_all_cpus_synced, Plain, xvars
  <2> QED
    BY <2>1, Zenon DEF Tame, StepsGuest, Still, Near
<1>19. CASE Interrupt(c)
  <2>1. /\ at' = at /\ exit_request'[c]
        /\ \A d \in Cpus \ {c} : ctl'[d] = ctl[d] /\ exit_request'[d] = exit_request[d]
        /\ ctl'[c] = IF ctl[c] = "halted" THEN "woken" ELSE ctl[c]
    BY <1>0, <1>19, Zenon DEF Interrupt, qemu_cpu_kick, cpu_exit
  <2>2. CASE ctl[c] = "halted"
    <3>1. at'[c] = "out" /\ ctl'[c] = "woken"
      BY <2>1, <2>2, Outside, Zenon DEF InGuest, InSection
    <3> QED
      BY <2>1, <2>2, <3>1, Zenon DEF Tame, StepsOut, Still, Near, InGuest
  <2>3. CASE ctl[c] # "halted"
    BY <2>1, <2>3, Zenon DEF Tame, Still, Near
  <2> QED
    BY <2>2, <2>3, Zenon
<1> HIDE DEF From, To
<1> QED
  BY <1>1, <1>2, <1>3, <1>4, <1>5, <1>6, <1>7, <1>8, <1>9, <1>10, <1>11, <1>12, <1>13, <1>14,
     <1>15, <1>16, <1>17, <1>18, <1>19, Zenon

\* So are the steps of cpu_exec_start and of cpu_exec, but for the start of a chain of
\* blocks (cpu_handle_interrupt).
LEMMA ExecQuiet ==
  ASSUME WorkAssumption, ThreadsAssumption, ThreadInv, NEW c \in Cpus,
         ExecStep(c), ~HandleInterrupt(c)
  PROVE  QuietStep
<1>0. /\ at \in [Threads -> {"out"} \cup InStart \cup InExec \cup InEnd \cup InExcl]
      /\ c \in Threads /\ Cpus \subseteq Threads
  BY ThreadTypes, Zenon
<1>1. work' = work /\ kicks' = kicks /\ ctl' = ctl /\ ctl[c] = "exec"
  BY Zenon DEF ExecStep, Stays, From
<1>2. PICK p \in InStart \cup {"exec"} : at' = [at EXCEPT ![c] = p]
  BY Zenon DEF ExecStep, cpu_exec_start, StartReadsPending, StartLocked, StartWoken, StartOrSleep,
         BlocksEnd, Goto, InStart
<1>3. at[c] \in {"out"} \cup InStart \cup {"guest"} /\ exit_request' = exit_request
  BY Zenon DEF ExecStep, cpu_exec_start, StartReadsPending, StartLocked, StartWoken, BlocksEnd, InStart
<1>4. at'[c] = p /\ \A d \in Cpus \ {c} : at'[d] = at[d]
  BY <1>0, <1>2, Zenon
<1>5. Tame(c)
  BY <1>1, <1>3, <1>4, Zenon DEF Tame, StepsExec, Exposed, InExec
<1>6. \A d \in Cpus \ {c} : Still(d)
  BY <1>1, <1>3, <1>4, Zenon DEF Still, Near
<1> QED
  BY <1>1, <1>5, <1>6, TameStep, Zenon DEF Tame

\* So are the steps of start_exclusive, and all but one of the main thread
\* (start_exclusive, do_run_on_cpu, do_safe_dpy_refresh).
LEMMA OtherQuiet ==
  ASSUME WorkAssumption, ThreadsAssumption, ThreadInv,
         \/ \E t \in Threads : Exclusive(t)
         \/ SyncReturns \/ SyncSleeps \/ SyncWakes \/ Refresh \/ RefreshLocks \/ RefreshEnds
  PROVE  QuietStep
<1>0. /\ at \in [Threads -> {"out"} \cup InStart \cup InExec \cup InEnd \cup InExcl]
      /\ ctl \in [Threads -> CpuCtl \cup MainCtl] /\ exit_request \in [Cpus -> BOOLEAN]
      /\ Main \in Threads /\ Main \notin Cpus /\ Cpus \subseteq Threads
  BY ThreadTypes, Zenon
<1>a. work' = work /\ kicks' = kicks
  BY Zenon DEF Exclusive, Stays, NoQueue, SyncReturns, SyncSleeps, SyncWakes, Refresh,
         RefreshLocks, RefreshEnds
<1> SUFFICES \A d \in Cpus : Still(d)
  BY <1>a, TameStep, Zenon DEF Tame
<1>1. ASSUME NEW t \in Threads, Exclusive(t) PROVE \A d \in Cpus : Still(d)
  <2>1. ctl' = ctl
    BY <1>1, Zenon DEF Exclusive, Stays
  <2>2. \A d \in Cpus : exit_request[d] => exit_request'[d]
    BY <1>0, <1>1, Zenon DEF Exclusive, ExclLocked, ScanDone, ExclWoken, ScanCpu
  <2>3. at' = at \/ (at[t] \in InExcl /\ \E p \in InExcl : at' = [at EXCEPT ![t] = p])
    BY <1>1, Zenon DEF Exclusive, ExclLocked, ScanDone, ExclWoken, ScanCpu, Goto, InExcl
  <2>4. \A d \in Cpus : Near(d)
    BY <1>0, <2>3, Zenon DEF Near
  <2> QED
    BY <2>1, <2>2, <2>4, Zenon DEF Still
<1>2. CASE SyncReturns \/ SyncSleeps \/ SyncWakes \/ RefreshLocks
  <2>1. UNCHANGED <<at, exit_request>>
    BY <1>2, Zenon DEF SyncReturns, SyncSleeps, SyncWakes, RefreshLocks, xvars
  <2>2. \A d \in Cpus : ctl'[d] = ctl[d]
    BY <1>0, <1>2, Zenon DEF SyncReturns, SyncSleeps, SyncWakes, RefreshLocks, UnlockBql, LockBql, To
  <2> QED
    BY <2>1, <2>2, Zenon DEF Still, Near
<1>3. CASE Refresh
  <2>1. /\ exit_request' = exit_request
        /\ \A d \in Cpus : ctl'[d] = ctl[d] /\ at'[d] = at[d]
    BY <1>0, <1>3, Zenon DEF Refresh, Plain, start_exclusive, To, Goto
  <2> QED
    BY <2>1, Zenon DEF Still, Near
<1>4. CASE RefreshEnds
  <2>1. /\ exit_request' = exit_request
        /\ \A d \in Cpus : ctl'[d] = ctl[d] /\ at'[d] = Resumed(d)
    BY <1>0, <1>4, Zenon DEF RefreshEnds, UnlockBql, end_exclusive, To
  <2> QED
    BY <2>1, ResumedNear, Zenon DEF Still
<1> QED
  BY <1>1, <1>2, <1>3, <1>4, Zenon

\* What appending to and taking from a queue does to its items (queue_work_on_cpu,
\* process_queued_cpu_work).
LEMMA Appended ==
  ASSUME NEW q \in Seq(Work), NEW w \in Work
  PROVE  Append(q, w) \in Seq(Work) /\ Items(Append(q, w)) = Items(q) \cup {w}
<1>1. /\ Append(q, w) \in Seq(Work) /\ DOMAIN q = 1 .. Len(q) /\ Len(q) \in Nat
      /\ DOMAIN Append(q, w) = 1 .. Len(q) + 1
      /\ \A i \in 1 .. Len(q) : Append(q, w)[i] = q[i]
      /\ Append(q, w)[Len(q) + 1] = w
  OBVIOUS
<1> QED
  BY <1>1 DEF Items

LEMMA Taken ==
  ASSUME NEW q \in Seq(Work), q # << >>
  PROVE  /\ Tail(q) \in Seq(Work) /\ Head(q) \in Work
         /\ Items(q) = {Head(q)} \cup Items(Tail(q))
<1>1. /\ Tail(q) \in Seq(Work) /\ Head(q) \in Work /\ Len(q) \in Nat /\ Len(q) > 0
      /\ DOMAIN q = 1 .. Len(q) /\ DOMAIN Tail(q) = 1 .. Len(q) - 1
      /\ \A i \in 1 .. Len(q) - 1 : Tail(q)[i] = q[i + 1]
      /\ Head(q) = q[1]
  OBVIOUS
<1>2. \A i \in 1 .. Len(q) : i = 1 \/ i - 1 \in 1 .. Len(q) - 1
  BY <1>1
<1>3. \A i \in 1 .. Len(q) - 1 : i + 1 \in 1 .. Len(q) /\ 1 \in 1 .. Len(q)
  BY <1>1
<1>4. Items(q) \subseteq {Head(q)} \cup Items(Tail(q))
  <2> SUFFICES ASSUME NEW i \in 1 .. Len(q) PROVE q[i] \in {Head(q)} \cup Items(Tail(q))
    BY <1>1, Zenon DEF Items
  <2>1. CASE i = 1
    BY <1>1, <2>1, Zenon
  <2>2. CASE i # 1
    <3>1. i - 1 \in DOMAIN Tail(q) /\ Tail(q)[i - 1] = q[i]
      BY <1>1, <1>2, <2>2
    <3> QED
      BY <3>1, Zenon DEF Items
  <2> QED
    BY <2>1, <2>2, Zenon
<1>5. {Head(q)} \cup Items(Tail(q)) \subseteq Items(q)
  <2>1. 1 \in DOMAIN q
    BY <1>1
  <2> QED
    BY <1>1, <1>3, <2>1 DEF Items
<1> QED
  BY <1>1, <1>4, <1>5, Zenon

\* cpu_exec starts a chain of blocks only without an exit request, so a queued flush
\* is one whose source has still to kick (cpu_handle_interrupt).
LEMMA HandleKeeps ==
  ASSUME WorkAssumption, ThreadsAssumption, ThreadInv, NEW c \in Cpus,
         ExecStep(c), HandleInterrupt(c)
  PROVE  QueueInv'
<1>0. /\ at[c] = "exec" /\ ~exit_request[c] /\ at' = [at EXCEPT ![c] = "guest"]
      /\ ctl[c] = "exec" /\ ctl' = ctl /\ work' = work /\ kicks' = kicks
      /\ exit_request' = exit_request
  BY Zenon DEF HandleInterrupt, Goto, ExecStep, From, Stays
<1>1. \A d \in Cpus : Queued(d)' = Queued(d) /\ HasSafe(d)' = HasSafe(d)
  BY <1>0, Zenon DEF Queued, HasSafe
<1>2. \A d \in Cpus : at'[d] = IF d = c THEN "guest" ELSE at[d]
  BY <1>0, ThreadTypes, Zenon
<1>3. Placed'
  BY <1>0, <1>1, <1>2, ThreadTypes, Zenon
     DEF Placed, PlaceOk, FlushOk, InStart, InExec, InEnd, InExcl, InGuest
<1>4. QueuedKicked'
  <2>1. \A d \in Cpus : Exposed(d)' => Exposed(d)
    BY <1>0, <1>2, Zenon DEF Exposed, InStart, InExec
  <2> QED
    BY <1>0, <1>1, <2>1 DEF ThreadInv, QueueInv, QueuedKicked
<1>5. FlushedBeforeBlocks'
  <2>1. \A u \in Cpus : FlushDue(u)' = FlushDue(u)
    BY <1>0, <1>1, Zenon DEF FlushDue
  <2>2. \A d \in Cpus : Overdue(d)' = Overdue(d)
    BY <1>1, <2>1, ThreadTypes, Zenon DEF Overdue
  <2>3. ~Overdue(c)
    <3> SUFFICES ASSUME NEW w \in Queued(c), w.kind = "flush" PROVE FlushDue(w.src)
      BY Zenon DEF Overdue
    <3>1. Exposed(c)
      BY <1>0, Zenon DEF Exposed, InExec
    <3>2. kicks[w.src] = c
      BY <1>0, <3>1, Zenon DEF ThreadInv, QueueInv, QueuedKicked
    <3> QED
      BY <3>2, ThreadTypes, Zenon DEF FlushOk, FlushDue
  <2> QED
    BY <1>2, <2>2, <2>3, Zenon DEF ThreadInv, QueueInv, FlushedBeforeBlocks
<1> QED
  BY <1>3, <1>4, <1>5, Zenon DEF QueueInv

\* The safe work of a source ends when no other vCPU is inside cpu_exec
\* (process_queued_cpu_work).
LEMMA SafeEndsKeeps ==
  ASSUME WorkAssumption, ThreadsAssumption, ThreadInv, NEW c \in Cpus, SafeEnds(c)
  PROVE  QueueInv'
<1>0. /\ at[c] = "excl" /\ at' = [u \in Threads |-> IF u = c THEN "out" ELSE Resumed(u)]
      /\ ctl[c] = "safe" /\ ctl' = [ctl EXCEPT ![c] = "safe_relock"]
      /\ work' = work /\ kicks' = kicks /\ exit_request' = exit_request
  BY Zenon DEF SafeEnds, Plain, From, To, end_exclusive, NoQueue
<1>1. \A d \in Cpus : Queued(d)' = Queued(d) /\ HasSafe(d)' = HasSafe(d)
  BY <1>0, Zenon DEF Queued, HasSafe
<1>2. /\ at'[c] = "out" /\ ctl'[c] = "safe_relock"
      /\ \A d \in Cpus \ {c} : at'[d] = Resumed(d) /\ ctl'[d] = ctl[d]
  BY <1>0, ThreadTypes, ZenonT(30)
<1>3. \A d \in Cpus \ {c} : at[d] \notin InExec
  BY <1>0, ThreadTypes, ExclConsequences, Zenon DEF ThreadInv, Exclusion
<1>4. \A d \in Cpus \ {c} :
        \/ at'[d] = at[d]
        \/ at[d] = "start_sleep" /\ at'[d] = "start_idle"
        \/ at[d] = "excl_sleep" /\ at'[d] = "excl_lock"
  BY <1>2, ZenonT(30) DEF Resumed
<1>5. Placed'
  <2> SUFFICES ASSUME NEW d \in Cpus PROVE PlaceOk(d)' /\ FlushOk(d)'
    BY Zenon DEF Placed
  <2>1. PlaceOk(d) /\ FlushOk(d)
    BY ThreadTypes, Zenon
  <2>2. PlaceOk(d)'
    <3>1. CASE d = c
      BY <1>2, <3>1, Zenon DEF PlaceOk, InStart, InEnd, InExcl, InGuest
    <3>2. CASE d # c
      BY <1>2, <1>4, <2>1, <3>2, Zenon DEF PlaceOk, InStart, InEnd, InExcl, InGuest
    <3> QED
      BY <3>1, <3>2, Zenon
  <2>3. FlushOk(d)'
    BY <1>0, <1>1, <1>2, <2>1, Zenon DEF FlushOk
  <2> QED
    BY <2>2, <2>3, Zenon
<1>6. QueuedKicked'
  <2>1. \A d \in Cpus : Exposed(d)' => Exposed(d)
    BY <1>0, <1>2, <1>4, Zenon DEF Exposed, InStart, InExec
  <2> QED
    BY <1>0, <1>1, <2>1, ZenonT(30) DEF ThreadInv, QueueInv, QueuedKicked
<1>7. FlushedBeforeBlocks'
  BY <1>2, <1>3, <1>4, Zenon DEF FlushedBeforeBlocks, InExec
<1> QED
  BY <1>5, <1>6, <1>7, Zenon DEF QueueInv

\* A kick sets the exit request of the vCPU the work was queued to; a source leaves
\* the flush with its safe work queued (queue_work_on_cpu, qemu_cpu_kick).
LEMMA KickKeeps ==
  ASSUME WorkAssumption, ThreadsAssumption, ThreadInv, NEW t \in Threads, Kick(t)
  PROVE  QueueInv'
<1> DEFINE k == kicks[t]
<1>0. /\ k \in Cpus /\ kicks' = [kicks EXCEPT ![t] = Nobody]
      /\ at' = at /\ work' = work /\ exit_request' = [exit_request EXCEPT ![k] = TRUE]
  BY ThreadTypes, Zenon DEF Kick, qemu_cpu_kick, cpu_exit
<1>1. \A d \in Cpus : Queued(d)' = Queued(d) /\ HasSafe(d)' = HasSafe(d)
  BY <1>0, Zenon DEF Queued, HasSafe
<1>2. \A d \in Cpus :
        \/ ctl'[d] = ctl[d]
        \/ ctl[d] = "halted" /\ ctl'[d] = "woken"
        \/ d = t /\ ctl[d] = "flushed" /\ ctl'[d] = "exec"
  BY ThreadTypes, Zenon DEF Kick, qemu_cpu_kick
<1>3. /\ kicks'[t] = Nobody /\ \A u \in Threads \ {t} : kicks'[u] = kicks[u]
      /\ exit_request'[k] /\ \A d \in Cpus : exit_request[d] => exit_request'[d]
  BY <1>0, ThreadTypes, Zenon
<1> HIDE DEF k
<1>4. Placed'
  <2> SUFFICES ASSUME NEW d \in Cpus PROVE PlaceOk(d)' /\ FlushOk(d)'
    BY Zenon DEF Placed
  <2>1. PlaceOk(d)'
    BY <1>0, <1>2, ThreadTypes, Zenon DEF PlaceOk, InStart, InExec, InEnd, InExcl, InGuest
  <2>2. FlushOk(d)'
    BY <1>1, <1>2, <1>3, ThreadTypes, Zenon DEF FlushOk
  <2> QED
    BY <2>1, <2>2, Zenon
<1>5. QueuedKicked'
  <2>1. \A d \in Cpus : Exposed(d)' => Exposed(d)
    BY <1>0, <1>2, ThreadTypes, Zenon DEF Exposed, PlaceOk, InGuest, InExec
  <2> SUFFICES ASSUME NEW d \in Cpus, Exposed(d), NEW w \in Queued(d), w.kind = "flush",
                      kicks'[w.src] # d
               PROVE  exit_request'[d]
    BY <1>1, <2>1 DEF QueuedKicked
  <2>2. w.src \in Threads
    BY ThreadTypes, Zenon
  <2>3. CASE kicks[w.src] = d
    <3>1. w.src = t /\ d = k
      BY <1>3, <2>2, <2>3, Zenon DEF k
    <3> QED
      BY <1>3, <3>1, Zenon
  <2>4. CASE kicks[w.src] # d
    BY <1>3, <2>4, Zenon DEF ThreadInv, QueueInv, QueuedKicked
  <2> QED
    BY <2>3, <2>4, Zenon
<1>6. FlushedBeforeBlocks'
  <2>1. \A u \in Cpus : FlushDue(u) => FlushDue(u)'
    BY <1>1, <1>2, ThreadTypes, Zenon DEF FlushDue, FlushOk
  <2>2. \A d \in Cpus : Overdue(d)' => Overdue(d)
    BY <1>1, <2>1, ThreadTypes, Zenon DEF Overdue
  <2> QED
    BY <1>0, <2>2, Zenon DEF ThreadInv, QueueInv, FlushedBeforeBlocks
<1> QED
  BY <1>4, <1>5, <1>6, Zenon DEF QueueInv

\* Taking an item shortens one queue and leaves the places alone; an ordinary item is
\* no safe work, and safe work is still due while it is done (process_queued_cpu_work).
LEMMA TakeKeeps ==
  ASSUME WorkAssumption, ThreadsAssumption, ThreadInv, NEW c \in Cpus, RunItem(c) \/ TakeSafe(c)
  PROVE  QueueInv'
<1>0. /\ ctl[c] = "next" /\ kicks' = kicks /\ at' = at /\ exit_request' = exit_request
      /\ work[c] # << >> /\ work' = [work EXCEPT ![c] = Tail(@)]
  BY Zenon DEF RunItem, TakeSafe, From, UnlockBql, xvars
<1>1. /\ Items(work[c]) = {Head(work[c])} \cup Items(Tail(work[c]))
      /\ work'[c] = Tail(work[c]) /\ \A d \in Cpus \ {c} : work'[d] = work[d]
  BY <1>0, Taken, ThreadTypes, Zenon
<1>2. /\ Queued(c) = {Head(work[c])} \cup Queued(c)'
      /\ \A d \in Cpus \ {c} : Queued(d)' = Queued(d) /\ HasSafe(d)' = HasSafe(d)
  BY <1>1, Zenon DEF Queued, HasSafe
<1>3. \/ Head(work[c]).kind # "safe" /\ ctl' = ctl
      \/ ctl' = [ctl EXCEPT ![c] = "safe"]
  BY Zenon DEF RunItem, TakeSafe, UnlockBql, To
<1>4. /\ (ctl'[c] = ctl[c] /\ Head(work[c]).kind # "safe") \/ ctl'[c] = "safe"
      /\ \A d \in Cpus \ {c} : ctl'[d] = ctl[d]
  BY <1>3, ThreadTypes, Zenon
<1>5. Placed'
  BY <1>0, <1>2, <1>4, ThreadTypes, Zenon
     DEF Placed, PlaceOk, FlushOk, InStart, InExec, InEnd, InExcl, InGuest
<1>6. QueuedKicked'
  <2>1. \A d \in Cpus : Exposed(d)' => Exposed(d)
    BY <1>0, <1>4, Zenon DEF Exposed
  <2>2. \A d \in Cpus : Queued(d)' \subseteq Queued(d)
    BY <1>2, Zenon
  <2> QED
    BY <1>0, <2>1, <2>2, Zenon DEF ThreadInv, QueueInv, QueuedKicked
<1>7. FlushedBeforeBlocks'
  <2>1. FlushDue(c) => FlushDue(c)'
    BY <1>0, <1>2, <1>4, Zenon DEF FlushDue, HasSafe
  <2>2. \A u \in Cpus : FlushDue(u) => FlushDue(u)'
    BY <1>2, <1>4, <2>1, Zenon DEF FlushDue
  <2>3. \A d \in Cpus : Overdue(d)' => Overdue(d)
    BY <1>2, <2>2, ThreadTypes, Zenon DEF Overdue
  <2> QED
    BY <1>0, <2>3, Zenon DEF ThreadInv, QueueInv, FlushedBeforeBlocks
<1> QED
  BY <1>5, <1>6, <1>7, Zenon DEF QueueInv

\* Queueing an item: its source has still to kick, and is in the flush
\* (queue_work_on_cpu).
LEMMA QueueKeeps ==
  ASSUME WorkAssumption, ThreadsAssumption, ThreadInv, NEW t \in Threads, NEW c \in Cpus,
         NEW w \in Work, queue_work_on_cpu(t, c, w), kicks[t] = Nobody,
         at' = at, exit_request' = exit_request,
         \A d \in Cpus : \/ ctl'[d] = ctl[d]
                         \/ d = c /\ w.kind = "safe" /\ ctl[d] = "flush" /\ ctl'[d] = "flushed",
         t \in Cpus => ctl[t] = "flush",
         w.kind = "flush" => w.src = t
  PROVE  QueueInv'
<1>1. /\ Items(Append(work[c], w)) = Items(work[c]) \cup {w}
      /\ work'[c] = Append(work[c], w) /\ \A d \in Cpus \ {c} : work'[d] = work[d]
      /\ kicks'[t] = c /\ \A u \in Threads \ {t} : kicks'[u] = kicks[u]
  BY Appended, ThreadTypes, Zenon DEF queue_work_on_cpu
<1>2. /\ Queued(c)' = Queued(c) \cup {w}
      /\ \A d \in Cpus \ {c} : Queued(d)' = Queued(d)
  BY <1>1, Zenon DEF Queued
<1>3. \A d \in Cpus : HasSafe(d) => HasSafe(d)'
  BY <1>2, Zenon DEF HasSafe
<1>4. w.kind = "safe" => HasSafe(c)'
  BY <1>2, Zenon DEF HasSafe
<1>5. Placed'
  <2> SUFFICES ASSUME NEW d \in Cpus PROVE PlaceOk(d)' /\ FlushOk(d)'
    BY Zenon DEF Placed
  <2>1. PlaceOk(d)'
    BY ThreadTypes, Zenon DEF PlaceOk, InStart, InExec, InEnd, InExcl, InGuest
  <2>2. kicks'[d] # Nobody => ctl'[d] \in {"flush", "flushed"}
    BY <1>1, ThreadTypes, Zenon DEF FlushOk
  <2>3. ctl'[d] = "flushed" => HasSafe(d)'
    BY <1>3, <1>4, ThreadTypes, Zenon DEF FlushOk
  <2> QED
    BY <2>1, <2>2, <2>3, Zenon DEF FlushOk
<1>6. QueuedKicked'
  <2>1. \A d \in Cpus : Exposed(d)' => Exposed(d)
    BY Zenon DEF Exposed
  <2> SUFFICES ASSUME NEW d \in Cpus, Exposed(d), NEW v \in Queued(d)', v.kind = "flush",
                      kicks'[v.src] # d
               PROVE  exit_request[d]
    BY <2>1, Zenon DEF QueuedKicked
  <2>2. v \in Queued(d)
    <3>1. CASE d = c
      <4>1. v \in Queued(c) \cup {w}
        BY <1>2, <3>1, Zenon
      <4>2. CASE v = w
        BY <1>1, <3>1, <4>2, Zenon
      <4> QED
        BY <3>1, <4>1, <4>2, Zenon
    <3>2. CASE d # c
      BY <1>2, <3>2, Zenon
    <3> QED
      BY <3>1, <3>2, Zenon
  <2>3. v.src \in Threads /\ kicks[v.src] # d
    BY <1>1, <2>2, ThreadTypes, Zenon
  <2> QED
    BY <2>2, <2>3, Zenon DEF ThreadInv, QueueInv, QueuedKicked
<1>7. FlushedBeforeBlocks'
  <2>1. \A u \in Cpus : FlushDue(u) => FlushDue(u)'
    BY <1>3, Zenon DEF FlushDue
  <2>2. w.kind = "flush" => FlushDue(w.src)'
    <3> SUFFICES ASSUME w.kind = "flush" PROVE FlushDue(w.src)'
      BY Zenon
    <3>1. w.src = t /\ t \in Cpus
      BY Zenon DEF Work
    <3> QED
      BY <2>1, <3>1, Zenon DEF FlushDue
  <2>3. \A d \in Cpus : Overdue(d)' => Overdue(d)
    BY <1>2, <2>1, <2>2, ThreadTypes, Zenon DEF Overdue
  <2> QED
    BY <2>3, Zenon DEF ThreadInv, QueueInv, FlushedBeforeBlocks
<1> QED
  BY <1>5, <1>6, <1>7, Zenon DEF QueueInv

\* The three callers of queue_work_on_cpu (flush_all_helper, async_safe_run_on_cpu,
\* do_run_on_cpu).
LEMMA CallersKeep ==
  ASSUME WorkAssumption, ThreadsAssumption, ThreadInv, NEW c \in Cpus,
         FlushOther(c) \/ FlushSelf(c) \/ run_on_cpu(c)
  PROVE  QueueInv'
<1>1. CASE FlushOther(c)
  <2>1. PICK d \in left[c] : queue_work_on_cpu(c, d, [kind |-> "flush", src |-> c])
    BY <1>1, Zenon DEF FlushOther
  <2>2. d \in Cpus /\ [kind |-> "flush", src |-> c] \in Work /\ c \in Threads
    BY Zenon DEF ThreadInv, TypeOK, Work, Threads
  <2>3. /\ ctl' = ctl /\ at' = at /\ exit_request' = exit_request
        /\ ctl[c] = "flush" /\ kicks[c] = Nobody
    BY <1>1, Zenon DEF FlushOther, From, xvars
  <2> DEFINE w == [kind |-> "flush", src |-> c]
  <2>4. w \in Work /\ w.src = c /\ queue_work_on_cpu(c, d, w)
    BY <2>1, <2>2, Zenon
  <2> HIDE DEF w
  <2> QED
    BY <2>2, <2>3, <2>4, QueueKeeps, Zenon
<1>2. CASE FlushSelf(c)
  <2>1. [kind |-> "safe", src |-> c] \in Work /\ c \in Threads
    BY Zenon DEF Work, Threads
  <2>2. /\ at' = at /\ exit_request' = exit_request
        /\ ctl[c] = "flush" /\ kicks[c] = Nobody
        /\ queue_work_on_cpu(c, c, [kind |-> "safe", src |-> c])
        /\ ctl' = [ctl EXCEPT ![c] = "flushed"]
    BY <1>2, Zenon DEF FlushSelf, Plain, From, To, xvars
  <2>3. \A d \in Cpus : ctl'[d] = IF d = c THEN "flushed" ELSE ctl[d]
    BY <2>2, ThreadTypes, Zenon
  <2> DEFINE w == [kind |-> "safe", src |-> c]
  <2>4. w \in Work /\ w.kind = "safe" /\ queue_work_on_cpu(c, c, w)
    BY <2>1, <2>2, Zenon
  <2> HIDE DEF w
  <2> QED
    BY <2>1, <2>2, <2>3, <2>4, QueueKeeps
<1>3. CASE run_on_cpu(c)
  <2>1. [kind |-> "sync", src |-> Main] \in Work /\ Main \in Threads /\ Main \notin Cpus
    BY ThreadTypes, Zenon DEF Work, WorkAssumption
  <2>2. /\ at' = at /\ exit_request' = exit_request /\ kicks[Main] = Nobody
        /\ queue_work_on_cpu(Main, c, [kind |-> "sync", src |-> Main])
        /\ ctl' = [ctl EXCEPT ![Main] = "sync"]
    BY <1>3, Zenon DEF run_on_cpu, LockBql, From, To, xvars
  <2>3. \A d \in Cpus : ctl'[d] = ctl[d]
    BY <2>1, <2>2, ThreadTypes, Zenon
  <2> DEFINE w == [kind |-> "sync", src |-> Main]
  <2>4. w \in Work /\ w.kind = "sync" /\ queue_work_on_cpu(Main, c, w)
    BY <2>1, <2>2, Zenon
  <2> HIDE DEF w
  <2> QED
    BY <2>1, <2>2, <2>3, <2>4, QueueKeeps, Zenon
<1> QED
  BY <1>1, <1>2, <1>3, Zenon


\* The types of this module's own variables.
OwnTypes ==
  /\ ctl \in [Threads -> CpuCtl \cup MainCtl]
  /\ \A c \in Cpus : ctl[c] \in CpuCtl
  /\ ctl[Main] \in MainCtl
  /\ bql \in Threads \cup {Nobody}
  /\ work \in [Cpus -> Seq(Work)]
  /\ left \in [Cpus -> SUBSET Cpus]
  /\ kicks \in [Threads -> Cpus \cup {Nobody}]

\* A thread that goes to one of its places keeps the types of the places
\* (qemu_tcg_cpu_thread_fn).
LEMMA PlaceTypes ==
  ASSUME WorkAssumption, ThreadsAssumption, OwnTypes,
         \/ \E c \in Cpus, p \in CpuCtl : ctl' = [ctl EXCEPT ![c] = p]
         \/ \E p \in MainCtl : ctl' = [ctl EXCEPT ![Main] = p]
  PROVE  /\ ctl' \in [Threads -> CpuCtl \cup MainCtl]
         /\ \A c \in Cpus : ctl'[c] \in CpuCtl
         /\ ctl'[Main] \in MainCtl
<1>0. Main \in Threads /\ Main \notin Cpus /\ Cpus \subseteq Threads
  BY Zenon DEF Threads, WorkAssumption, ThreadsAssumption
<1>1. ASSUME NEW c \in Cpus, NEW p \in CpuCtl, ctl' = [ctl EXCEPT ![c] = p]
      PROVE  /\ ctl' \in [Threads -> CpuCtl \cup MainCtl]
             /\ \A d \in Cpus : ctl'[d] \in CpuCtl
             /\ ctl'[Main] \in MainCtl
  BY <1>0, <1>1, Zenon DEF OwnTypes
<1>2. ASSUME NEW p \in MainCtl, ctl' = [ctl EXCEPT ![Main] = p]
      PROVE  /\ ctl' \in [Threads -> CpuCtl \cup MainCtl]
             /\ \A d \in Cpus : ctl'[d] \in CpuCtl
             /\ ctl'[Main] \in MainCtl
  BY <1>0, <1>2, Zenon DEF OwnTypes
<1> QED
  BY <1>1, <1>2, Zenon

\* A kick wakes one vCPU at most (qemu_cpu_kick).
LEMMA Woken ==
  ASSUME WorkAssumption, NEW c \in Cpus, NEW there \in [Threads -> CpuCtl \cup MainCtl],
         ctl' = [t \in Threads |-> IF t = c /\ ctl[c] = "halted" THEN "woken" ELSE there[t]],
         there[c] \in CpuCtl
  PROVE  \E p \in CpuCtl : ctl' = [there EXCEPT ![c] = p]
<1>0. c \in Threads
  BY Zenon DEF Threads
<1>1. CASE ctl[c] = "halted"
  <2>1. ctl' = [there EXCEPT ![c] = "woken"]
    BY <1>0, <1>1, Zenon
  <2> QED
    BY <2>1, Zenon DEF CpuCtl
<1>2. CASE ctl[c] # "halted"
  <2>1. ctl' = [there EXCEPT ![c] = there[c]]
    BY <1>0, <1>2, Zenon
  <2> QED
    BY <2>1, Zenon
<1> QED
  BY <1>1, <1>2, Zenon

\* The steps of a vCPU thread keep the types (qemu_tcg_cpu_thread_fn).
LEMMA CpuTypes ==
  ASSUME WorkAssumption, ThreadsAssumption, OwnTypes, NEW c \in Cpus,
         \/ Progress(c) /\ ~Kick(c) /\ ~Exclusive(c)
         \/ Guest(c) \/ Interrupt(c)
  PROVE  OwnTypes'
<1>0. /\ c \in Threads /\ Main \in Threads /\ Main \notin Cpus /\ Main # c /\ Cpus \subseteq Threads
      /\ ctl[Main] \notin CpuCtl
  BY Zenon DEF Threads, WorkAssumption, ThreadsAssumption, OwnTypes, CpuCtl, MainCtl
<1> USE DEF OwnTypes, From, To

<1>1. CASE ProcessStarts(c)
  <2>1. \E p \in CpuCtl : ctl' = [ctl EXCEPT ![c] = p]
    BY <1>1, Zenon DEF ProcessStarts, UnlockBql, Plain, CpuCtl
  <2>2. bql' \in Threads \cup {Nobody} /\ work' = work /\ left' = left /\ kicks' = kicks
    BY <1>0, <1>1, Zenon DEF ProcessStarts, UnlockBql, Plain, NoQueue
  <2> QED
    BY <2>1, <2>2, PlaceTypes, Zenon
<1>2. CASE SafeStarts(c)
  BY <1>2, Zenon DEF SafeStarts, Stays
<1>3. CASE SafeRelocks(c)
  <2>1. \E p \in CpuCtl : ctl' = [ctl EXCEPT ![c] = p]
    BY <1>3, Zenon DEF SafeRelocks, LockBql, CpuCtl
  <2>2. bql' \in Threads \cup {Nobody} /\ work' = work /\ left' = left /\ kicks' = kicks
    BY <1>0, <1>3, Zenon DEF SafeRelocks, LockBql, NoQueue
  <2> QED
    BY <2>1, <2>2, PlaceTypes, Zenon
<1>4. CASE ExecReturns(c)
  <2>1. \E p \in CpuCtl : ctl' = [ctl EXCEPT ![c] = p]
    BY <1>4, Zenon DEF ExecReturns, CpuCtl
  <2>2. bql' \in Threads \cup {Nobody} /\ work' = work /\ left' = left /\ kicks' = kicks
    BY <1>0, <1>4, Zenon DEF ExecReturns, NoQueue
  <2> QED
    BY <2>1, <2>2, PlaceTypes, Zenon
<1>5. CASE ExecEnds(c)
  <2>1. \E p \in CpuCtl : ctl' = [ctl EXCEPT ![c] = p]
    BY <1>5, Zenon DEF ExecEnds, CpuCtl
  <2>2. bql' \in Threads \cup {Nobody} /\ work' = work /\ left' = left /\ kicks' = kicks
    BY <1>0, <1>5, Zenon DEF ExecEnds, NoQueue
  <2> QED
    BY <2>1, <2>2, PlaceTypes, Zenon
<1>6. CASE Relock(c)
  <2>1. \E p \in CpuCtl : ctl' = [ctl EXCEPT ![c] = p]
    BY <1>6, Zenon DEF Relock, LockBql, CpuCtl
  <2>2. bql' \in Threads \cup {Nobody} /\ work' = work /\ left' = left /\ kicks' = kicks
    BY <1>0, <1>6, Zenon DEF Relock, LockBql, NoQueue
  <2> QED
    BY <2>1, <2>2, PlaceTypes, Zenon
<1>7. CASE StepUnlocks(c)
  <2>1. \E p \in CpuCtl : ctl' = [ctl EXCEPT ![c] = p]
    BY <1>7, Zenon DEF StepUnlocks, Plain, CpuCtl
  <2>2. bql' \in Threads \cup {Nobody} /\ work' = work /\ left' = left /\ kicks' = kicks
    BY <1>0, <1>7, Zenon DEF StepUnlocks, Plain, NoQueue
  <2> QED
    BY <2>1, <2>2, PlaceTypes, Zenon
<1>8. CASE StepStarts(c)
  BY <1>8, Zenon DEF StepStarts, Stays
<1>9. CASE Doze(c)
  <2>1. \E p \in CpuCtl : ctl' = [ctl EXCEPT ![c] = p]
    BY <1>9, Zenon DEF Doze, Plain, CpuCtl
  <2>2. bql' \in Threads \cup {Nobody} /\ work' = work /\ left' = left /\ kicks' = kicks
    BY <1>0, <1>9, Zenon DEF Doze, Plain, NoQueue
  <2> QED
    BY <2>1, <2>2, PlaceTypes, Zenon
<1>10. CASE Sleeps(c)
  <2>1. \E p \in CpuCtl : ctl' = [ctl EXCEPT ![c] = p]
    BY <1>10, Zenon DEF Sleeps, UnlockBql, CpuCtl
  <2>2. bql' \in Threads \cup {Nobody} /\ work' = work /\ left' = left /\ kicks' = kicks
    BY <1>0, <1>10, Zenon DEF Sleeps, UnlockBql, NoQueue
  <2> QED
    BY <2>1, <2>2, PlaceTypes, Zenon
<1>11. CASE Wakes(c)
  <2>1. \E p \in CpuCtl : ctl' = [ctl EXCEPT ![c] = p]
    BY <1>11, Zenon DEF Wakes, LockBql, CpuCtl
  <2>2. bql' \in Threads \cup {Nobody} /\ work' = work /\ left' = left /\ kicks' = kicks
    BY <1>0, <1>11, Zenon DEF Wakes, LockBql, NoQueue
  <2> QED
    BY <2>1, <2>2, PlaceTypes, Zenon
<1>12. CASE NotIdle(c)
  <2>1. \E p \in CpuCtl : ctl' = [ctl EXCEPT ![c] = p]
    BY <1>12, Zenon DEF NotIdle, Plain, CpuCtl
  <2>2. bql' \in Threads \cup {Nobody} /\ work' = work /\ left' = left /\ kicks' = kicks
    BY <1>0, <1>12, Zenon DEF NotIdle, Plain, NoQueue
  <2> QED
    BY <2>1, <2>2, PlaceTypes, Zenon
<1>13. CASE Mmio(c)
  <2>1. \E p \in CpuCtl : ctl' = [ctl EXCEPT ![c] = p]
    BY <1>13, Zenon DEF Mmio, Plain, CpuCtl
  <2>2. bql' \in Threads \cup {Nobody} /\ work' = work /\ left' = left /\ kicks' = kicks
    BY <1>0, <1>13, Zenon DEF Mmio, Plain, NoQueue
  <2> QED
    BY <2>1, <2>2, PlaceTypes, Zenon
<1>14. CASE MmioLocks(c)
  <2>1. \E p \in CpuCtl : ctl' = [ctl EXCEPT ![c] = p]
    BY <1>14, Zenon DEF MmioLocks, LockBql, CpuCtl
  <2>2. bql' \in Threads \cup {Nobody} /\ work' = work /\ left' = left /\ kicks' = kicks
    BY <1>0, <1>14, Zenon DEF MmioLocks, LockBql, NoQueue
  <2> QED
    BY <2>1, <2>2, PlaceTypes, Zenon
<1>15. CASE MmioEnds(c)
  <2>1. \E p \in CpuCtl : ctl' = [ctl EXCEPT ![c] = p]
    BY <1>15, Zenon DEF MmioEnds, UnlockBql, CpuCtl
  <2>2. bql' \in Threads \cup {Nobody} /\ work' = work /\ left' = left /\ kicks' = kicks
    BY <1>0, <1>15, Zenon DEF MmioEnds, UnlockBql, NoQueue
  <2> QED
    BY <2>1, <2>2, PlaceTypes, Zenon
<1>16. CASE tlb_flush_all_cpus_synced(c)
  <2>1. \E p \in CpuCtl : ctl' = [ctl EXCEPT ![c] = p]
    BY <1>16, Zenon DEF tlb_flush_all_cpus_synced, Plain, CpuCtl
  <2>2. bql' = bql /\ work' = work /\ left' \in [Cpus -> SUBSET Cpus] /\ kicks' = kicks
    BY <1>16, Zenon DEF tlb_flush_all_cpus_synced, Plain
  <2> QED
    BY <2>1, <2>2, PlaceTypes, Zenon
<1>17. CASE ExecStep(c)
  BY <1>17, Zenon DEF ExecStep, Stays
<1>18. CASE StepEnds(c)
  <2>1. \E p \in CpuCtl : ctl' = [ctl EXCEPT ![c] = p]
    BY <1>18, Zenon DEF StepEnds, Plain, CpuCtl
  <2>2. bql' \in Threads \cup {Nobody} /\ work' = work /\ left' = left /\ kicks' = kicks
    BY <1>0, <1>18, Zenon DEF StepEnds, Plain, NoQueue
  <2> QED
    BY <2>1, <2>2, PlaceTypes, Zenon
<1>19. CASE SafeEnds(c)
  <2>1. \E p \in CpuCtl : ctl' = [ctl EXCEPT ![c] = p]
    BY <1>19, Zenon DEF SafeEnds, Plain, CpuCtl
  <2>2. bql' \in Threads \cup {Nobody} /\ work' = work /\ left' = left /\ kicks' = kicks
    BY <1>0, <1>19, Zenon DEF SafeEnds, Plain, NoQueue
  <2> QED
    BY <2>1, <2>2, PlaceTypes, Zenon
<1>20. CASE ProcessEnds(c)
  <2>1. bql' \in Threads \cup {Nobody} /\ work' = work /\ left' = left /\ kicks' = kicks
    BY <1>20, Zenon DEF ProcessEnds, NoQueue
  <2>2. ctl' = [t \in Threads |-> IF t = c THEN "exec"
                                  ELSE IF ctl[t] = "sync_sleep" THEN "sync_woken"
                                  ELSE ctl[t]]
    BY <1>20, Zenon DEF ProcessEnds
  <2>3. \A d \in Cpus : ctl'[d] \in {"exec", ctl[d]}
    BY <1>0, <2>2, Zenon DEF CpuCtl
  <2>4. ctl'[Main] \in {"sync_woken", ctl[Main]}
    BY <1>0, <2>2, Zenon
  <2>5. /\ \A d \in Cpus : ctl'[d] \in CpuCtl
        /\ ctl'[Main] \in MainCtl
    BY <2>3, <2>4, Zenon DEF CpuCtl, MainCtl
  <2>6. ctl' \in [Threads -> CpuCtl \cup MainCtl]
    BY <1>0, <2>2, <2>5, Zenon DEF Threads, WorkAssumption
  <2> QED
    BY <2>1, <2>5, <2>6, Zenon
<1>21. CASE Interrupt(c)
  <2>1. bql' = bql /\ work' = work /\ left' = left /\ kicks' = kicks
    BY <1>21, Zenon DEF Interrupt, NoQueue
  <2>2. ctl' = [t \in Threads |-> IF t = c /\ ctl[c] = "halted" THEN "woken" ELSE ctl[t]]
    BY <1>21, Zenon DEF Interrupt, qemu_cpu_kick
  <2>3. \E p \in CpuCtl : ctl' = [ctl EXCEPT ![c] = p]
    BY <2>2, Woken, Zenon
  <2> QED
    BY <2>1, <2>3, PlaceTypes, Zenon
<1>22. CASE RunItem(c)
  <2>1. work[c] \in Seq(Work) /\ work[c] # << >> /\ work' = [work EXCEPT ![c] = Tail(work[c])]
    BY <1>22, Zenon DEF RunItem
  <2>2. Tail(work[c]) \in Seq(Work)
    BY <2>1, Taken, Zenon
  <2>3. work' \in [Cpus -> Seq(Work)]
    BY <2>1, <2>2, Zenon
  <2> QED
    BY <1>22, <2>3, Zenon DEF RunItem
<1>23. CASE TakeSafe(c)
  <2>1. work[c] \in Seq(Work) /\ work[c] # << >> /\ work' = [work EXCEPT ![c] = Tail(work[c])]
    BY <1>23, Zenon DEF TakeSafe
  <2>2. Tail(work[c]) \in Seq(Work)
    BY <2>1, Taken, Zenon
  <2>3. work' \in [Cpus -> Seq(Work)]
    BY <2>1, <2>2, Zenon
  <2>4. \E p \in CpuCtl : ctl' = [ctl EXCEPT ![c] = p]
    BY <1>23, Zenon DEF TakeSafe, UnlockBql, CpuCtl
  <2>5. bql' = Nobody /\ left' = left /\ kicks' = kicks
    BY <1>23, Zenon DEF TakeSafe, UnlockBql
  <2> QED
    BY <2>3, <2>4, <2>5, PlaceTypes, Zenon
<1>24. CASE FlushOther(c)
  <2>1. PICK d \in left[c] :
          /\ queue_work_on_cpu(c, d, [kind |-> "flush", src |-> c])
          /\ left' = [left EXCEPT ![c] = @ \ {d}]
    BY <1>24, Zenon DEF FlushOther
  <2>2. d \in Cpus /\ [kind |-> "flush", src |-> c] \in Work
    BY Zenon DEF Work
  <2>3. Append(work[d], [kind |-> "flush", src |-> c]) \in Seq(Work)
    BY <2>2, Appended, Zenon
  <2>4. work' \in [Cpus -> Seq(Work)] /\ kicks' \in [Threads -> Cpus \cup {Nobody}]
    BY <1>0, <2>1, <2>2, <2>3, Zenon DEF queue_work_on_cpu
  <2>5. left' \in [Cpus -> SUBSET Cpus]
    BY <2>1, Zenon
  <2> QED
    BY <1>24, <2>4, <2>5, Zenon DEF FlushOther
<1>25. CASE FlushSelf(c)
  <2>1. [kind |-> "safe", src |-> c] \in Work
    BY Zenon DEF Work
  <2>2. Append(work[c], [kind |-> "safe", src |-> c]) \in Seq(Work)
    BY <2>1, Appended, Zenon
  <2>3. work' \in [Cpus -> Seq(Work)] /\ kicks' \in [Threads -> Cpus \cup {Nobody}]
    BY <1>0, <1>25, <2>2, Zenon DEF FlushSelf, queue_work_on_cpu
  <2>4. \E p \in CpuCtl : ctl' = [ctl EXCEPT ![c] = p]
    BY <1>25, Zenon DEF FlushSelf, Plain, CpuCtl
  <2> QED
    BY <1>25, <2>3, <2>4, PlaceTypes, Zenon DEF FlushSelf, Plain
<1> HIDE DEF OwnTypes, From, To
<1> QED
  BY <1>1, <1>2, <1>3, <1>4, <1>5, <1>6, <1>7, <1>8, <1>9, <1>10, <1>11, <1>12, <1>13, <1>14, <1>15, <1>16, <1>17, <1>18, <1>19, <1>20, <1>21, <1>22, <1>23, <1>24, <1>25, Zenon DEF Progress, Guest

\* So do the steps of the main thread, of start_exclusive, and kicks (do_run_on_cpu,
\* start_exclusive, qemu_cpu_kick).
LEMMA OtherTypes ==
  ASSUME WorkAssumption, ThreadsAssumption, OwnTypes,
         \/ \E t \in Threads : Exclusive(t) \/ Kick(t)
         \/ SyncReturns \/ SyncSleeps \/ SyncWakes \/ Refresh \/ RefreshLocks \/ RefreshEnds
         \/ \E c \in Cpus : run_on_cpu(c)
  PROVE  OwnTypes'
<1>0. Main \in Threads /\ Main \notin Cpus /\ Cpus \subseteq Threads
  BY Zenon DEF Threads, WorkAssumption, ThreadsAssumption
<1> USE DEF OwnTypes, From, To
<1>1. ASSUME NEW t \in Threads, Exclusive(t) PROVE OwnTypes'
  BY <1>1, Zenon DEF Exclusive, Stays
<1>2. ASSUME NEW t \in Threads, Kick(t) PROVE OwnTypes'
  <2> DEFINE k == kicks[t]
             there == [ctl EXCEPT ![t] = IF @ = "flushed" THEN "exec" ELSE @]
  <2>1. /\ k \in Cpus /\ bql' = bql /\ work' = work /\ left' = left
        /\ kicks' = [kicks EXCEPT ![t] = Nobody]
        /\ ctl' = [u \in Threads |-> IF u = k /\ ctl[k] = "halted" THEN "woken" ELSE there[u]]
    BY <1>2, Zenon DEF Kick, qemu_cpu_kick
  <2>2. kicks' \in [Threads -> Cpus \cup {Nobody}]
    BY <2>1, Zenon
  <2>3. /\ there \in [Threads -> CpuCtl \cup MainCtl]
        /\ \A u \in Threads : there[u] = ctl[u] \/ (ctl[u] = "flushed" /\ there[u] = "exec")
    BY Zenon DEF CpuCtl
  <2>4. /\ \A c \in Cpus : there[c] \in CpuCtl
        /\ there[Main] \in MainCtl
    BY <1>0, <2>3, Zenon DEF CpuCtl, MainCtl
  <2> HIDE DEF k, there
  <2>5. PICK p \in CpuCtl : ctl' = [there EXCEPT ![k] = p]
    BY <2>1, <2>3, <2>4, Woken, Zenon
  <2>6. k \in Threads /\ Main # k
    BY <1>0, <2>1, Zenon
  <2>7. \A u \in Threads : ctl'[u] = IF u = k THEN p ELSE there[u]
    BY <2>3, <2>5, <2>6, Zenon
  <2>8. \A c \in Cpus : ctl'[c] \in CpuCtl
    BY <1>0, <2>4, <2>7, Zenon
  <2>9. ctl'[Main] \in MainCtl
    BY <1>0, <2>4, <2>6, <2>7, Zenon
  <2>10. ctl' \in [Threads -> CpuCtl \cup MainCtl]
    BY <2>3, <2>5, <2>6, Zenon
  <2> QED
    BY <2>1, <2>2, <2>8, <2>9, <2>10, Zenon
<1>3. CASE SyncReturns
  <2>1. \E p \in MainCtl : ctl' = [ctl EXCEPT ![Main] = p]
    BY <1>3, Zenon DEF SyncReturns, UnlockBql, MainCtl
  <2>2. bql' \in Threads \cup {Nobody} /\ work' = work /\ left' = left /\ kicks' = kicks
    BY <1>0, <1>3, Zenon DEF SyncReturns, UnlockBql, NoQueue
  <2> QED
    BY <2>1, <2>2, PlaceTypes, Zenon
<1>4. CASE SyncSleeps
  <2>1. \E p \in MainCtl : ctl' = [ctl EXCEPT ![Main] = p]
    BY <1>4, Zenon DEF SyncSleeps, UnlockBql, MainCtl
  <2>2. bql' \in Threads \cup {Nobody} /\ work' = work /\ left' = left /\ kicks' = kicks
    BY <1>0, <1>4, Zenon DEF SyncSleeps, UnlockBql, NoQueue
  <2> QED
    BY <2>1, <2>2, PlaceTypes, Zenon
<1>5. CASE SyncWakes
  <2>1. \E p \in MainCtl : ctl' = [ctl EXCEPT ![Main] = p]
    BY <1>5, Zenon DEF SyncWakes, LockBql, MainCtl
  <2>2. bql' \in Threads \cup {Nobody} /\ work' = work /\ left' = left /\ kicks' = kicks
    BY <1>0, <1>5, Zenon DEF SyncWakes, LockBql, NoQueue
  <2> QED
    BY <2>1, <2>2, PlaceTypes, Zenon
<1>6. CASE Refresh
  <2>1. \E p \in MainCtl : ctl' = [ctl EXCEPT ![Main] = p]
    BY <1>6, Zenon DEF Refresh, Plain, MainCtl
  <2>2. bql' \in Threads \cup {Nobody} /\ work' = work /\ left' = left /\ kicks' = kicks
    BY <1>0, <1>6, Zenon DEF Refresh, Plain, NoQueue
  <2> QED
    BY <2>1, <2>2, PlaceTypes, Zenon
<1>7. CASE RefreshLocks
  <2>1. \E p \in MainCtl : ctl' = [ctl EXCEPT ![Main] = p]
    BY <1>7, Zenon DEF RefreshLocks, LockBql, MainCtl
  <2>2. bql' \in Threads \cup {Nobody} /\ work' = work /\ left' = left /\ kicks' = kicks
    BY <1>0, <1>7, Zenon DEF RefreshLocks, LockBql, NoQueue
  <2> QED
    BY <2>1, <2>2, PlaceTypes, Zenon
<1>8. CASE RefreshEnds
  <2>1. \E p \in MainCtl : ctl' = [ctl EXCEPT ![Main] = p]
    BY <1>8, Zenon DEF RefreshEnds, UnlockBql, MainCtl
  <2>2. bql' \in Threads \cup {Nobody} /\ work' = work /\ left' = left /\ kicks' = kicks
    BY <1>0, <1>8, Zenon DEF RefreshEnds, UnlockBql, NoQueue
  <2> QED
    BY <2>1, <2>2, PlaceTypes, Zenon
<1>9. ASSUME NEW c \in Cpus, run_on_cpu(c) PROVE OwnTypes'
  <2>1. [kind |-> "sync", src |-> Main] \in Work
    BY Zenon DEF Work, WorkAssumption
  <2>2. Append(work[c], [kind |-> "sync", src |-> Main]) \in Seq(Work)
    BY <2>1, Appended, Zenon
  <2>3. work' \in [Cpus -> Seq(Work)] /\ kicks' \in [Threads -> Cpus \cup {Nobody}]
    BY <1>0, <1>9, <2>2, Zenon DEF run_on_cpu, queue_work_on_cpu
  <2>4. \E p \in MainCtl : ctl' = [ctl EXCEPT ![Main] = p]
    BY <1>9, Zenon DEF run_on_cpu, LockBql, MainCtl
  <2> QED
    BY <1>0, <1>9, <2>3, <2>4, PlaceTypes, Zenon DEF run_on_cpu, LockBql
<1> HIDE DEF OwnTypes, From, To
<1> QED
  BY <1>1, <1>2, <1>3, <1>4, <1>5, <1>6, <1>7, <1>8, <1>9, Zenon

\* A step of the threads is a step of the exclusive sections, or none of theirs
\* (qemu_tcg_cpu_thread_fn, do_safe_dpy_refresh).
LEMMA NextIsExclusive ==
  ASSUME WorkAssumption, OwnTypes, [Next]_vars
  PROVE  [ExclNext]_xvars
<1>0. Main \in Threads /\ Cpus \subseteq Threads
  BY Zenon DEF WorkAssumption, Threads
<1>1. ASSUME NEW c \in Cpus, CpuStep(c) PROVE ExclNext
  BY <1>1, Zenon DEF ExclNext
<1>2. ASSUME NEW t \in Threads, ExclStep(t) PROVE ExclNext
  BY <1>2, Zenon DEF ExclNext
<1>3. ASSUME NEW t \in Threads, Kick(t) PROVE ExclNext
  <2>1. kicks[t] \in Cpus /\ cpu_exit(kicks[t])
    BY <1>3, Zenon DEF Kick, qemu_cpu_kick, OwnTypes
  <2> QED
    BY <1>1, <2>1, Zenon DEF CpuStep
<1>4. ASSUME NEW t \in Threads, Exclusive(t) PROVE ExclNext
  BY <1>2, <1>4, Zenon DEF Exclusive, ExclStep
<1>5. ASSUME NEW c \in Cpus, Progress(c) \/ Guest(c) PROVE [ExclNext]_xvars
  <2>1. CASE Kick(c) \/ Exclusive(c)
    BY <1>0, <1>3, <1>4, <2>1, Zenon
  <2>2. CASE ExecStep(c) \/ ExecReturns(c) \/ ExecEnds(c) \/ Relock(c) \/ MmioEnds(c)
    <3>1. CpuStep(c) \/ UNCHANGED xvars
      BY <2>2, Zenon DEF ExecStep, ExecReturns, ExecEnds, Relock, MmioEnds, CpuStep
    <3> QED
      BY <1>1, <3>1, Zenon
  <2>3. CASE SafeStarts(c) \/ SafeEnds(c) \/ StepStarts(c) \/ StepEnds(c)
    <3>1. ExclStep(c)
      BY <2>3, Zenon DEF SafeStarts, SafeEnds, StepStarts, StepEnds, ExclStep
    <3> QED
      BY <1>0, <1>2, <3>1, Zenon
  <2>4. CASE \/ ProcessStarts(c) \/ RunItem(c) \/ TakeSafe(c) \/ SafeRelocks(c)
             \/ ProcessEnds(c) \/ StepUnlocks(c) \/ Doze(c) \/ Sleeps(c) \/ Wakes(c)
             \/ NotIdle(c) \/ Mmio(c) \/ MmioLocks(c) \/ FlushOther(c) \/ FlushSelf(c)
             \/ tlb_flush_all_cpus_synced(c)
    <3>1. UNCHANGED xvars
      BY <2>4, Zenon DEF ProcessStarts, RunItem, TakeSafe, SafeRelocks, ProcessEnds, StepUnlocks,
                  Doze, Sleeps, Wakes, NotIdle, Mmio, MmioLocks, FlushOther, FlushSelf,
                  tlb_flush_all_cpus_synced
    <3> QED
      BY <3>1, Zenon
  <2> QED
    BY <1>5, <2>1, <2>2, <2>3, <2>4, Zenon DEF Progress, Guest
<1>6. ASSUME MainProgress \/ MainRequest PROVE [ExclNext]_xvars
  <2>1. CASE Kick(Main) \/ Exclusive(Main)
    BY <1>0, <1>3, <1>4, <2>1, Zenon
  <2>2. CASE Refresh \/ RefreshEnds
    <3>1. ExclStep(Main)
      BY <2>2, Zenon DEF Refresh, RefreshEnds, ExclStep
    <3> QED
      BY <1>0, <1>2, <3>1, Zenon
  <2>3. CASE SyncReturns \/ SyncSleeps \/ SyncWakes \/ RefreshLocks
    BY <2>3, Zenon DEF SyncReturns, SyncSleeps, SyncWakes, RefreshLocks
  <2>4. ASSUME NEW c \in Cpus, run_on_cpu(c) PROVE [ExclNext]_xvars
    BY <2>4, Zenon DEF run_on_cpu
  <2>5. ASSUME NEW c \in Cpus, Interrupt(c) PROVE [ExclNext]_xvars
    BY <1>1, <2>5, Zenon DEF Interrupt, qemu_cpu_kick, CpuStep
  <2> QED
    BY <1>6, <2>1, <2>2, <2>3, <2>4, <2>5, Zenon DEF MainProgress, MainRequest
<1> QED
  BY <1>5, <1>6, Zenon DEF Next, vars

\* Every step of the threads keeps the invariant (qemu_tcg_cpu_thread_fn).
LEMMA ThreadStepKeeps ==
  ASSUME WorkAssumption, ThreadsAssumption, ThreadInv, [Next]_vars
  PROVE  ThreadInv'
<1>0. OwnTypes /\ Main \in Threads /\ Cpus \subseteq Threads
  BY Zenon DEF ThreadInv, TypeOK, OwnTypes, WorkAssumption, Threads
<1>1. ExclInv'
  BY <1>0, NextIsExclusive, ExclStepKeeps, Zenon DEF ThreadInv
<1>2. OwnTypes'
  <2>1. CASE UNCHANGED vars
    BY <1>0, <2>1, Zenon DEF vars, OwnTypes
  <2>2. CASE Next
    BY <1>0, <2>2, CpuTypes, OtherTypes, Zenon DEF Next, MainProgress, MainRequest
  <2> QED
    BY <2>1, <2>2, Zenon
<1>3. TypeOK'
  BY <1>1, <1>2, Zenon DEF ExclInv, OwnTypes, TypeOK
<1>4. QueueInv'
  <2>1. CASE UNCHANGED vars
    <3>1. /\ at' = at /\ ctl' = ctl /\ exit_request' = exit_request
          /\ work' = work /\ kicks' = kicks
      BY <2>1, Zenon DEF vars, xvars
    <3>2. \A d \in Cpus : Tame(d)
      BY <3>1, Zenon DEF Tame, Still, Near
    <3> QED
      BY <3>1, <3>2, TameStep, QuietKeeps, Zenon
  <2>2. ASSUME NEW c \in Cpus, Progress(c) \/ Guest(c) PROVE QueueInv'
    <3>1. CASE Kick(c) \/ Exclusive(c)
      BY <1>0, <3>1, KickKeeps, OtherQuiet, QuietKeeps, Zenon
    <3>2. CASE ExecStep(c)
      BY <3>2, HandleKeeps, ExecQuiet, QuietKeeps, Zenon
    <3>3. CASE SafeEnds(c) \/ RunItem(c) \/ TakeSafe(c) \/ FlushOther(c) \/ FlushSelf(c)
      BY <3>3, SafeEndsKeeps, TakeKeeps, CallersKeep, Zenon
    <3> QED
      BY <2>2, <3>1, <3>2, <3>3, CpuQuiet, QuietKeeps, Zenon DEF Progress, Guest
  <2>3. CASE MainProgress \/ MainRequest
    <3>1. ASSUME NEW c \in Cpus, run_on_cpu(c) PROVE QueueInv'
      BY <3>1, CallersKeep, Zenon
    <3>2. ASSUME NEW c \in Cpus, Interrupt(c) PROVE QueueInv'
      BY <3>2, CpuQuiet, QuietKeeps, Zenon
    <3>3. CASE Kick(Main) \/ Exclusive(Main)
      BY <1>0, <3>3, KickKeeps, OtherQuiet, QuietKeeps, Zenon
    <3> QED
      BY <2>3, <3>1, <3>2, <3>3, OtherQuiet, QuietKeeps, Zenon DEF MainProgress, MainRequest
  <2> QED
    BY <2>1, <2>2, <2>3, Zenon DEF Next
<1> QED
  BY <1>1, <1>3, <1>4, Zenon DEF ThreadInv

\* For any number of vCPUs and queues of any length: the threads keep their types and
\* exclude each other in exclusive sections, and a vCPU executes no block of the guest
\* before it has done the flushes that another vCPU takes for done
\* (tlb_flush_all_cpus_synced, process_queued_cpu_work, qemu_tcg_cpu_thread_fn).
THEOREM FlushTheorem ==
  Spec => [](TypeOK /\ Exclusion /\ WaitsForMarked /\ FlushedBeforeBlocks)
<1>1. Init => ThreadInv
  <2> SUFFICES ASSUME Init PROVE ThreadInv
    BY Zenon
  <2>1. ExclInv
    BY ThreadsAssumption, ExclStarts, Zenon DEF Init
  <2>2. TypeOK
    <3>1. Main \in Threads /\ Main \notin Cpus /\ Cpus \subseteq Threads
      BY WorkAssumption, ThreadsAssumption, Zenon DEF WorkAssumption, ThreadsAssumption, Threads
    <3>2. << >> \in Seq(Work)
      OBVIOUS
    <3> QED
      BY <2>1, <3>1, <3>2, Zenon DEF Init, TypeOK, ExclInv, CpuCtl, MainCtl
  <2>3. /\ \A c \in Cpus : at[c] = "out" /\ ctl[c] = "woken" /\ kicks[c] = Nobody
    <3>1. Main \notin Cpus /\ Cpus \subseteq Threads
      BY WorkAssumption, ThreadsAssumption, Zenon DEF WorkAssumption, ThreadsAssumption, Threads
    <3> QED
      BY <3>1, Zenon DEF Init, ExclInit
  <2>4. QueueInv
    BY <2>3, Zenon DEF QueueInv, Placed, PlaceOk, FlushOk, QueuedKicked, Exposed, FlushedBeforeBlocks,
                InStart, InExec, InEnd, InExcl, InGuest
  <2> QED
    BY <2>1, <2>2, <2>4, Zenon DEF ThreadInv
<1>2. ThreadInv /\ [Next]_vars => ThreadInv'
  BY WorkAssumption, ThreadsAssumption, ThreadStepKeeps, Zenon
<1>3. ThreadInv => TypeOK /\ Exclusion /\ WaitsForMarked /\ FlushedBeforeBlocks
  BY ThreadsAssumption, ExclConsequences, Zenon DEF ThreadInv, QueueInv
<1> QED
  BY <1>1, <1>2, <1>3, PTL DEF Spec
=============================================================================

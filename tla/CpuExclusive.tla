---------------------------- MODULE CpuExclusive ----------------------------
(***************************************************************************)
(* Exclusive sections of QEMU's threads (cpus-common.c): a thread asks for *)
(* a section in which no vCPU is inside cpu_exec.  A vCPU enters and       *)
(* leaves cpu_exec without a lock, by writing its own "running" and then   *)
(* reading pending_cpus; the thread that asks writes pending_cpus and then *)
(* reads every "running".                                                  *)
(*                                                                         *)
(* One step is one access to a variable that is read without the lock, or  *)
(* one critical section of qemu_cpu_list_lock.  Only start_exclusive holds *)
(* that lock over several steps.  The full barriers of the code make the   *)
(* accesses sequentially consistent.                                       *)
(***************************************************************************)
EXTENDS Integers, FiniteSets

CONSTANTS
  Cpus,     \* the vCPUs of the list cpus, each with its thread
  Others    \* the threads that are not vCPUs

ASSUME ThreadsAssumption == Cpus \cap Others = {} /\ IsFiniteSet(Cpus)

Threads == Cpus \cup Others

VARIABLES
  at,             \* where each thread is in the functions of this module
  running,        \* cpu->running
  has_waiter,     \* cpu->has_waiter
  exit_request,   \* cpu->exit_request
  pending_cpus,
  scan            \* locals of start_exclusive: CPUs not yet looked at, running_cpus

xvars == <<at, running, has_waiter, exit_request, pending_cpus, scan>>

\* In cpu_exec: "exec" is the check of exit_request between translation blocks,
\* "guest" a chain of blocks.
InStart == {"started", "start_lock", "start_sleep", "start_idle"}
InExec  == {"exec", "guest"}
InEnd   == {"ended", "end_lock"}
InExcl  == {"excl_lock", "excl_sleep", "scan", "excl_wait", "excl_check", "excl"}

ExclTypeOK ==
  /\ at \in [Threads -> {"out"} \cup InStart \cup InExec \cup InEnd \cup InExcl]
  /\ \A t \in Others : at[t] \in {"out"} \cup InExcl
  /\ running \in [Cpus -> BOOLEAN] /\ has_waiter \in [Cpus -> BOOLEAN]
  /\ exit_request \in [Cpus -> BOOLEAN]
  /\ pending_cpus \in Nat
  /\ scan \in [left : SUBSET Cpus, n : Nat]

ExclInit ==
  /\ at = [t \in Threads |-> "out"]
  /\ running = [c \in Cpus |-> FALSE] /\ has_waiter = [c \in Cpus |-> FALSE]
  /\ exit_request = [c \in Cpus |-> FALSE]
  /\ pending_cpus = 0
  /\ scan = [left |-> {}, n |-> 0]

Goto(t, place) == at' = [at EXCEPT ![t] = place]

\* qemu_cpu_list_lock is free.
ListUnlocked == \A t \in Threads : at[t] # "scan"

-----------------------------------------------------------------------------
(***************************************************************************)
(* cpu_exec_start and cpu_exec_end.                                        *)
(***************************************************************************)
cpu_exec_start(c) ==
  /\ at[c] = "out"
  /\ running' = [running EXCEPT ![c] = TRUE]
  /\ Goto(c, "started")
  /\ UNCHANGED <<has_waiter, exit_request, pending_cpus, scan>>

StartReadsPending(c) ==
  /\ at[c] = "started"
  /\ Goto(c, IF pending_cpus = 0 THEN "exec" ELSE "start_lock")
  /\ UNCHANGED <<running, has_waiter, exit_request, pending_cpus, scan>>

\* The body of exclusive_idle and what follows it, in cpu_exec_start.
StartOrSleep(c) ==
  /\ running' = [running EXCEPT ![c] = (pending_cpus = 0)]
  /\ Goto(c, IF pending_cpus = 0 THEN "exec" ELSE "start_sleep")

StartLocked(c) ==
  /\ at[c] = "start_lock" /\ ListUnlocked
  /\ IF has_waiter[c] THEN Goto(c, "exec") /\ UNCHANGED running
                      ELSE StartOrSleep(c)
  /\ UNCHANGED <<has_waiter, exit_request, pending_cpus, scan>>

\* Mutant of StartWoken: pending_cpus is not looked at again.
StartWokenOnce(c) ==
  /\ at[c] = "start_idle" /\ ListUnlocked
  /\ running' = [running EXCEPT ![c] = TRUE] /\ Goto(c, "exec")
  /\ UNCHANGED <<has_waiter, exit_request, pending_cpus, scan>>

StartWoken(c) ==
  /\ at[c] = "start_idle" /\ ListUnlocked
  /\ StartOrSleep(c)
  /\ UNCHANGED <<has_waiter, exit_request, pending_cpus, scan>>

\* cpu_handle_interrupt looks at exit_request, between two chains of blocks.
HandleInterrupt(c) ==
  /\ at[c] = "exec" /\ ~exit_request[c]
  /\ Goto(c, "guest")
  /\ UNCHANGED <<running, has_waiter, exit_request, pending_cpus, scan>>

\* A chain of blocks ends, because cpu_exit asked for it or by itself.
BlocksEnd(c) ==
  /\ at[c] = "guest"
  /\ Goto(c, "exec")
  /\ UNCHANGED <<running, has_waiter, exit_request, pending_cpus, scan>>

\* cpu_exec returns because of exit_request, or from a block (an exception, a
\* halt); then the first statement of cpu_exec_end.
cpu_exec_end(c) ==
  /\ \/ at[c] = "exec" /\ exit_request[c]
        /\ exit_request' = [exit_request EXCEPT ![c] = FALSE]
     \/ at[c] = "guest" /\ UNCHANGED exit_request
  /\ running' = [running EXCEPT ![c] = FALSE]
  /\ Goto(c, "ended")
  /\ UNCHANGED <<has_waiter, pending_cpus, scan>>

EndReadsPending(c) ==
  /\ at[c] = "ended"
  /\ Goto(c, IF pending_cpus = 0 THEN "out" ELSE "end_lock")
  /\ UNCHANGED <<running, has_waiter, exit_request, pending_cpus, scan>>

\* at' when c leaves cpu_exec_end and, if n CPUs are pending, signals
\* exclusive_cond; at most one thread waits for it.
AfterEnd(c, n) ==
  [t \in Threads |-> IF t = c THEN "out"
                     ELSE IF n = 1 /\ at[t] = "excl_wait" THEN "excl_check"
                     ELSE at[t]]

\* Mutant of EndLocked: has_waiter stays set.
EndLockedKeepsWaiter(c) ==
  /\ at[c] = "end_lock" /\ ListUnlocked
  /\ IF has_waiter[c]
       THEN /\ pending_cpus' = pending_cpus - 1
            /\ at' = AfterEnd(c, pending_cpus - 1)
       ELSE Goto(c, "out") /\ UNCHANGED pending_cpus
  /\ UNCHANGED <<running, has_waiter, exit_request, scan>>

EndLocked(c) ==
  /\ at[c] = "end_lock" /\ ListUnlocked
  /\ IF has_waiter[c]
       THEN /\ has_waiter' = [has_waiter EXCEPT ![c] = FALSE]
            /\ pending_cpus' = pending_cpus - 1
            /\ at' = AfterEnd(c, pending_cpus - 1)
       ELSE Goto(c, "out") /\ UNCHANGED <<has_waiter, pending_cpus>>
  /\ UNCHANGED <<running, exit_request, scan>>

-----------------------------------------------------------------------------
(***************************************************************************)
(* start_exclusive and end_exclusive.                                      *)
(***************************************************************************)
start_exclusive(t) ==
  /\ at[t] = "out"
  /\ Goto(t, "excl_lock")
  /\ UNCHANGED <<running, has_waiter, exit_request, pending_cpus, scan>>

\* With the lock: exclusive_idle, then pending_cpus = 1.
ExclLocked(t) ==
  /\ at[t] = "excl_lock" /\ ListUnlocked
  /\ IF pending_cpus # 0
       THEN Goto(t, "excl_sleep") /\ UNCHANGED <<pending_cpus, scan>>
       ELSE /\ pending_cpus' = 1
            /\ scan' = [left |-> Cpus, n |-> 0]
            /\ Goto(t, "scan")
  /\ UNCHANGED <<running, has_waiter, exit_request>>

\* One iteration of CPU_FOREACH; a running CPU is kicked.
ScanCpu(t, c) ==
  /\ at[t] = "scan" /\ c \in scan.left
  /\ IF running[c]
       THEN /\ has_waiter' = [has_waiter EXCEPT ![c] = TRUE]
            /\ exit_request' = [exit_request EXCEPT ![c] = TRUE]
            /\ scan' = [left |-> scan.left \ {c}, n |-> scan.n + 1]
       ELSE /\ scan' = [scan EXCEPT !.left = @ \ {c}]
            /\ UNCHANGED <<has_waiter, exit_request>>
  /\ UNCHANGED <<at, running, pending_cpus>>

\* Mutant of ScanDone: the thread that asks is not counted.
ScanDoneUncounted(t) ==
  /\ at[t] = "scan" /\ scan.left = {}
  /\ pending_cpus' = scan.n - 1
  /\ Goto(t, IF scan.n = 0 THEN "excl" ELSE "excl_wait")
  /\ UNCHANGED <<running, has_waiter, exit_request, scan>>

\* The loop is over: wait if anybody runs; the lock is released.
ScanDone(t) ==
  /\ at[t] = "scan" /\ scan.left = {}
  /\ pending_cpus' = scan.n + 1
  /\ Goto(t, IF scan.n = 0 THEN "excl" ELSE "excl_wait")
  /\ UNCHANGED <<running, has_waiter, exit_request, scan>>

ExclWoken(t) ==
  /\ at[t] = "excl_check" /\ ListUnlocked
  /\ Goto(t, IF pending_cpus > 1 THEN "excl_wait" ELSE "excl")
  /\ UNCHANGED <<running, has_waiter, exit_request, pending_cpus, scan>>

\* The broadcast of exclusive_resume wakes the sleepers.
Resumed(t) == CASE at[t] = "start_sleep" -> "start_idle"
                [] at[t] = "excl_sleep"  -> "excl_lock"
                [] OTHER                 -> at[t]

end_exclusive(t) ==
  /\ at[t] = "excl" /\ ListUnlocked
  /\ pending_cpus' = 0
  /\ at' = [u \in Threads |-> IF u = t THEN "out" ELSE Resumed(u)]
  /\ UNCHANGED <<running, has_waiter, exit_request, scan>>

-----------------------------------------------------------------------------
\* cpu_exit by anybody, at any time; the thread of a vCPU clears the request
\* outside cpu_exec.
cpu_exit(c) ==
  /\ exit_request' = [exit_request EXCEPT ![c] = TRUE]
  /\ UNCHANGED <<at, running, has_waiter, pending_cpus, scan>>

ClearExit(c) ==
  /\ at[c] = "out"
  /\ exit_request' = [exit_request EXCEPT ![c] = FALSE]
  /\ UNCHANGED <<at, running, has_waiter, pending_cpus, scan>>

CpuStep(c) ==
  \/ cpu_exec_start(c) \/ StartReadsPending(c) \/ StartLocked(c) \/ StartWoken(c)
  \/ HandleInterrupt(c) \/ BlocksEnd(c)
  \/ cpu_exec_end(c) \/ EndReadsPending(c) \/ EndLocked(c)
  \/ cpu_exit(c) \/ ClearExit(c)

ExclStep(t) ==
  \/ start_exclusive(t) \/ ExclLocked(t)
  \/ \E c \in Cpus : ScanCpu(t, c)
  \/ ScanDone(t) \/ ExclWoken(t) \/ end_exclusive(t)

ExclNext == (\E c \in Cpus : CpuStep(c)) \/ (\E t \in Threads : ExclStep(t))

ExclSpec == ExclInit /\ [][ExclNext]_xvars

-----------------------------------------------------------------------------
\* While a thread is inside its exclusive section no vCPU is inside cpu_exec and
\* no other thread is inside a section (start_exclusive, cpu_exec_start).
Exclusion ==
  \A t \in Threads : at[t] = "excl" =>
    \A u \in Threads \ {t} : at[u] \notin InExec \cup {"excl"}

\* A thread waiting for the vCPUs to leave cpu_exec waits for exactly those that
\* will signal it: pending_cpus counts the waiter and every CPU with has_waiter,
\* and each of these is on its way out, with a request to exit if it has not left
\* cpu_exec (start_exclusive, cpu_exec_end).
WaitsForMarked ==
  \A t \in Threads : at[t] \in {"excl_wait", "excl_check", "excl"} =>
    /\ pending_cpus = 1 + Cardinality({c \in Cpus : has_waiter[c]})
    /\ at[t] = "excl_wait" => pending_cpus > 1
    /\ \A c \in Cpus : has_waiter[c] =>
         \/ at[c] \in {"started", "start_lock"} \cup InExec /\ exit_request[c]
         \/ at[c] \in InEnd
=============================================================================

--------------------------- MODULE MCVcpuThreads ---------------------------
(***************************************************************************)
(* Instances of the vCPU threads for model checking.                       *)
(***************************************************************************)
EXTENDS VcpuThreads, TLC

CONSTANTS v1, v2

\* One guest flushes the TLBs; the other accesses devices, executes atomic
\* instructions and is sent interrupts.
Roles == v1 :> {"flush"} @@ v2 :> {"mmio", "atomic", "interrupt"}
         @@ Main :> {"sync", "refresh"}
=============================================================================

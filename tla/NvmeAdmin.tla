----------------------------- MODULE NvmeAdmin -----------------------------
(***************************************************************************)
(* The admin queue of the NVMe controller and its asynchronous events      *)
(* (nvme.c).  Unlike the I/O queues, which are polled for ever, the admin  *)
(* queue, its completion queue and the event queue are served by timers    *)
(* that fire once: whoever adds work has to arm them, and a handler that   *)
(* stops early relies on somebody arming them again.                       *)
(*                                                                         *)
(* The handlers run in the main loop and the doorbells in the vCPUs, all   *)
(* under the iothread lock; only the driver's accesses to its own memory   *)
(* run at any time.                                                        *)
(*                                                                         *)
(* The rings are modelled by what is in them, the completions the driver   *)
(* has taken but not acknowledged by their number; indices and phase bits  *)
(* are the subject of NvmeIoQueue.                                         *)
(*                                                                         *)
(* Where the code uses a pointer that is NULL or points to freed memory,   *)
(* anything may happen next: ctrl.fault is set and the model stops.        *)
(***************************************************************************)
EXTENDS Integers, Sequences, FiniteSets, SequencesExt

CONSTANTS
  SQ_SIZE,    \* entries of the admin submission queue, and of its io_req array
  CQ_SIZE,    \* entries of the admin completion queue
  ArbBurst,   \* sq->arb_burst
  AERL,       \* aerl, the limit of asynchronous event requests, counted from 0
  Cids,       \* command identifiers
  Types,      \* the types of event there may be
  Ops,        \* the commands the driver uses
  MaxQueued   \* events queued at a time (a bound)

\* With a burst smaller than the number of commands outstanding the rest waits for
\* another doorbell; ArbBurst is 32 for the default weights.
ASSUME AdminAssumption ==
  /\ SQ_SIZE \in Nat /\ SQ_SIZE >= 2 /\ CQ_SIZE \in Nat /\ CQ_SIZE >= 2
  /\ ArbBurst \in Nat /\ ArbBurst >= SQ_SIZE - 1
  /\ AERL \in Nat /\ MaxQueued \in Nat
  /\ Types \subseteq {"error", "smart"}
  /\ Ops \subseteq {"aer", "error", "smart", "hot", "cold", "abort"}

VARIABLES
  ctrl,    \* NvmeCtrl: CC, CSTS, whether its admin queues and timers exist, aer_mask,
           \* temp_warn_issued; which types of event are raised at all
  sq,      \* the commands not yet fetched, and sq->timer
  cq,      \* cq->req_list, and cq->timer
  aer,     \* aer_queue, aer_reqs, and aer_timer
  burst,   \* commands handled by the running nvme_process_sq_admin, -1 for none
  ring,    \* completions posted and not taken; how many are taken, not acknowledged
  irq,     \* the interrupt is raised
  host     \* the driver: its commands, its interrupt handler, the log pages to read

vars == <<ctrl, sq, cq, aer, burst, ring, irq, host>>

\* The commands are event requests, reading the log page of a type, a temperature
\* threshold at most or above the temperature, and aborting another command of the
\* admin queue; those that are left out only complete.  res is the result in a completion: the type of an
\* event, or that the command was aborted.  In the submission queue it marks the
\* entries that hold NVME_OP_ABORTED.
Cmd == [cid : Cids, op : Ops, target : Cids, res : {"none", "aborted", "error", "smart"}]

\* An entry of aer_queue whose memory has been freed.
Freed == "freed"

TypeOK ==
  /\ ctrl \in [en : BOOLEAN, shn : BOOLEAN, ready : BOOLEAN, live : BOOLEAN,
               mask : SUBSET Types, stale : SUBSET Types, warned : BOOLEAN,
               types : SUBSET Types, fault : BOOLEAN]
  /\ sq \in [cmds : Seq(Cmd), timer : BOOLEAN]
  /\ cq \in [req_list : Seq(Cmd), timer : BOOLEAN]
  /\ aer \in [queue : Seq(Types \cup {Freed}), reqs : Seq(Cmd), timer : BOOLEAN]
  /\ burst \in {-1} \cup Nat
  /\ ring \in [posted : Seq(Cmd), taken : Nat]
  /\ irq \in BOOLEAN
  /\ host \in [pending : SUBSET Cmd, at : {"idle", "take", "ring"}, unread : SUBSET Types]

\* The queues are freed with their requests and timers, outstanding_aers is 0.
Empty ==
  /\ sq' = [cmds |-> << >>, timer |-> FALSE]
  /\ cq' = [req_list |-> << >>, timer |-> FALSE]
  /\ aer' = [queue |-> << >>, reqs |-> << >>, timer |-> FALSE]
  /\ ring' = [posted |-> << >>, taken |-> 0]
  /\ irq' = FALSE

Init ==
  /\ ctrl \in [en : {TRUE}, shn : {FALSE}, ready : {TRUE}, live : {TRUE}, mask : {{}},
               stale : {{}}, warned : {FALSE}, types : SUBSET Types \ {{}}, fault : {FALSE}]
  /\ sq = [cmds |-> << >>, timer |-> FALSE]
  /\ cq = [req_list |-> << >>, timer |-> FALSE]
  /\ aer = [queue |-> << >>, reqs |-> << >>, timer |-> FALSE]
  /\ burst = -1
  /\ ring = [posted |-> << >>, taken |-> 0]
  /\ irq = FALSE
  /\ host = [pending |-> {}, at |-> "idle", unread |-> {}]

Unlocked == burst = -1 /\ ~ctrl.fault

----------------------------------------------------------------------------
(* The driver and the doorbells *)

Pending(op) == {p \in host.pending : p.op = op}

\* The commands the driver has a reason to send.  It keeps to the limit the
\* controller announces, AERL + 1 event requests, and aborts a command that is
\* outstanding once.
Sends(op, target) ==
  /\ op = "aer" => Cardinality(Pending("aer")) <= AERL
  /\ op \in {"error", "smart"} => op \in ctrl.types
  /\ op \in {"hot", "cold"} => "smart" \in ctrl.types
  /\ op = "hot" => Len(aer.queue) + Cardinality(Pending("hot")) < MaxQueued
  /\ op = "abort" => /\ \E p \in host.pending : p.cid = target
                     /\ \A p \in Pending("abort") : p.target # target

\* A command is submitted; nvme_process_db arms the timer unless it is pending.
Submit(c, op, target) ==
  LET e == [cid |-> c, op |-> op, target |-> target, res |-> "none"] IN
  /\ Unlocked /\ ctrl.ready /\ ctrl.live /\ Sends(op, target)
  /\ (op = "abort") # (target = c)
  /\ \A p \in host.pending : p.cid # c
  /\ Cardinality(host.pending) < SQ_SIZE - 1
  /\ sq' = [cmds |-> Append(sq.cmds, e), timer |-> TRUE]
  /\ host' = [host EXCEPT !.pending = @ \cup {e}, !.unread = @ \ {op}]
  /\ UNCHANGED <<ctrl, cq, aer, burst, ring, irq>>

ReadyUntested == TRUE

\* nvme_enqueue_event drops the event unless CSTS.RDY is set, ...
Ready == ctrl.ready

\* ... links it behind the last one, and arms aer_timer.  After a shutdown RDY is
\* set and there is no timer.
nvme_enqueue_event(t) ==
  /\ aer' = [aer EXCEPT !.queue = Append(@, t), !.timer = TRUE]
  /\ ctrl' = [ctrl EXCEPT !.warned = @ \/ t = "smart",
                          !.fault = ~ctrl.live \/ (aer.queue # << >> /\ Last(aer.queue) = Freed)]

\* nvme_process_db: a doorbell that does not exist is an error event.
InvalidDoorbell ==
  /\ Unlocked /\ Ready /\ "error" \in ctrl.types /\ Len(aer.queue) < MaxQueued
  /\ nvme_enqueue_event("error")
  /\ UNCHANGED <<sq, cq, burst, ring, irq, host>>

HandlerEnter ==
  /\ irq /\ host.at = "idle" /\ ~ctrl.fault
  /\ irq' = FALSE
  /\ host' = [host EXCEPT !.at = "take"]
  /\ UNCHANGED <<ctrl, sq, cq, aer, burst, ring>>

\* The driver has to read the log page of an event that is reported to it, and
\* again if the command that was to read it was aborted.
Take ==
  LET e == Head(ring.posted) IN
  /\ host.at = "take" /\ ring.posted # << >> /\ ~ctrl.fault
  /\ ring' = [posted |-> Tail(ring.posted), taken |-> ring.taken + 1]
  /\ host' = [host EXCEPT !.pending = {p \in @ : p.cid # e.cid},
                          !.unread = @ \cup (Types \cap IF e.res = "aborted" THEN {e.op} ELSE {e.res})]
  /\ UNCHANGED <<ctrl, sq, cq, aer, burst, irq>>

HandlerLeave ==
  /\ host.at = "take" /\ ring.posted = << >> /\ ~ctrl.fault
  /\ host' = [host EXCEPT !.at = "ring"]
  /\ UNCHANGED <<ctrl, sq, cq, aer, burst, ring, irq>>

\* nvme_cq_full
nvme_cq_full == Len(ring.posted) + ring.taken = CQ_SIZE - 1

\* start_sqs
StartSqs == nvme_cq_full

\* cq->tail != cq->head: completions came in after the driver took the last one.
MoreToTake == ring.posted # << >>

\* nvme_process_db: where the queue was full both timers are armed, otherwise the
\* interrupt is raised again for completions that came in between.
RingCqDoorbell ==
  /\ Unlocked /\ host.at = "ring"
  /\ host' = [host EXCEPT !.at = "idle"]
  /\ ring' = [ring EXCEPT !.taken = 0]
  /\ sq' = [sq EXCEPT !.timer = @ \/ StartSqs]
  /\ cq' = [cq EXCEPT !.timer = @ \/ StartSqs]
  /\ irq' = (irq \/ (~StartSqs /\ MoreToTake))
  /\ UNCHANGED <<ctrl, aer, burst>>

----------------------------------------------------------------------------
(* nvme_process_sq_admin *)

\* The requests of the io_req array that are not in sq->req_list.
InUse == Len(aer.reqs) + Len(cq.req_list)

SqLoop == sq.cmds # << >> /\ InUse < SQ_SIZE /\ burst < ArbBurst

StartAdmin ==
  /\ Unlocked /\ sq.timer
  /\ sq' = [sq EXCEPT !.timer = FALSE]
  /\ burst' = 0
  /\ UNCHANGED <<ctrl, cq, aer, ring, irq, host>>

\* nvme_enqueue_req_completion_admin, nvme_enqueue_req_completion
Completed(es) == [req_list |-> cq.req_list \o es, timer |-> TRUE]

AsyncReqUnarmed(e) ==
  /\ aer' = [aer EXCEPT !.reqs = Append(@, e)]
  /\ UNCHANGED <<ctrl, cq>>

\* nvme_async_req: the request is kept for an event, unless there are too many.
nvme_async_req(e) ==
  IF Len(aer.reqs) > AERL + 1 THEN cq' = Completed(<<e>>) /\ UNCHANGED <<ctrl, aer>>
  ELSE /\ aer' = [aer EXCEPT !.reqs = Append(@, e), !.timer = TRUE]
       /\ UNCHANGED <<ctrl, cq>>

GetLogKeepsMask(e) ==
  /\ cq' = Completed(<<e>>)
  /\ aer' = [aer EXCEPT !.timer = @ \/ aer.queue # << >>]
  /\ UNCHANGED ctrl

\* nvme_error_log_info, nvme_smart_info: events of the type may be reported again.
nvme_get_log(e) ==
  /\ ctrl' = [ctrl EXCEPT !.mask = @ \ {e.op}, !.stale = @ \ {e.op}]
  /\ cq' = Completed(<<e>>)
  /\ aer' = [aer EXCEPT !.timer = @ \/ aer.queue # << >>]

\* nvme_set_feature, a temperature threshold below the temperature or above it:
\* one warning until the threshold is raised again with nothing to be read.
nvme_set_feature(e) ==
  /\ cq' = Completed(<<e>>)
  /\ \/ /\ e.op = "hot" /\ ~ctrl.warned
        /\ nvme_enqueue_event("smart")
     \/ /\ e.op = "hot" /\ ctrl.warned
        /\ UNCHANGED <<ctrl, aer>>
     \/ /\ e.op = "cold"
        /\ ctrl' = [ctrl EXCEPT !.warned = @ /\ "smart" \in ctrl.mask]
        /\ UNCHANGED aer

AbortUnmarked(e) ==
  LET rest == Tail(sq.cmds)
      hits == {i \in DOMAIN rest : rest[i].cid = e.target} IN
  /\ ctrl' = [ctrl EXCEPT !.fault = hits # {} /\ InUse + 1 = SQ_SIZE]
  /\ sq' = [sq EXCEPT !.cmds = rest]
  /\ cq' = IF hits = {} THEN Completed(<<e>>)
           ELSE Completed(<<[rest[Min(hits)] EXCEPT !.res = "aborted"], e>>)
  /\ UNCHANGED aer

\* nvme_abort_req for a command of the admin queue itself: one that is still in the
\* ring, which is one submitted after the abort with the identifier of another that
\* was answered meanwhile.  Its entry is marked, and a free request answers it.
nvme_abort_req(e) ==
  LET rest == Tail(sq.cmds)
      hits == {i \in DOMAIN rest : rest[i].cid = e.target} IN
  /\ ctrl' = [ctrl EXCEPT !.fault = hits # {} /\ InUse + 1 = SQ_SIZE]
  /\ IF hits = {} THEN cq' = Completed(<<e>>) /\ sq' = [sq EXCEPT !.cmds = rest]
     ELSE LET i == Min(hits) IN
          /\ cq' = Completed(<<[rest[i] EXCEPT !.res = "aborted"], e>>)
          /\ sq' = [sq EXCEPT !.cmds = [rest EXCEPT ![i].res = "aborted"]]
  /\ UNCHANGED aer

\* A command is fetched and executed; an entry that holds NVME_OP_ABORTED is skipped.
Execute ==
  LET e == Head(sq.cmds) IN
  /\ burst >= 0 /\ ~ctrl.fault /\ SqLoop
  /\ burst' = burst + 1
  /\ \/ e.res = "aborted" /\ UNCHANGED <<ctrl, cq, aer>>
     \/ e.res = "none" /\ e.op = "aer" /\ nvme_async_req(e)
     \/ e.res = "none" /\ e.op \in Types /\ nvme_get_log(e)
     \/ e.res = "none" /\ e.op \in {"hot", "cold"} /\ nvme_set_feature(e)
     \/ e.res = "none" /\ e.op = "abort" /\ nvme_abort_req(e)
  /\ (e.res = "none" /\ e.op = "abort") \/ sq' = [sq EXCEPT !.cmds = Tail(@)]
  /\ UNCHANGED <<ring, irq, host>>

\* The loop ends; the timer is not armed again.
EndAdmin ==
  /\ burst >= 0 /\ ~ctrl.fault /\ ~SqLoop
  /\ burst' = -1
  /\ UNCHANGED <<ctrl, sq, cq, aer, ring, irq, host>>

----------------------------------------------------------------------------
(* The other timers *)

NotifyBatch(n) == n > 1

\* The interrupt is raised whether something is posted or not.
Notify(n) == TRUE

\* nvme_post_cqes_admin: what there is room for is posted.
nvme_post_cqes_admin ==
  LET room == CQ_SIZE - 1 - Len(ring.posted) - ring.taken
      n == IF Len(cq.req_list) < room THEN Len(cq.req_list) ELSE room IN
  /\ Unlocked /\ cq.timer
  /\ ring' = [ring EXCEPT !.posted = @ \o SubSeq(cq.req_list, 1, n)]
  /\ cq' = [req_list |-> SubSeq(cq.req_list, n + 1, Len(cq.req_list)), timer |-> FALSE]
  /\ irq' = (irq \/ Notify(n))
  /\ UNCHANGED <<ctrl, sq, aer, burst, host>>

AerReportAfterFree(t) == Freed

\* The event is reported, and freed after that.
AerReport(t) == t

\* nvme_aer_process_cb goes through the queue until there is no request left.  An
\* event whose type is masked is skipped.  Any other is reported to the last request
\* and freed, and masks its type; what is unlinked is the head of the queue, which
\* is another event if one was skipped.
nvme_aer_process_cb ==
  LET q == aer.queue
      Scan[i \in 0 .. Len(q)] ==
        LET s == Scan[i - 1] IN
        IF i = 0 THEN [at |-> "scan", queue |-> q, heads |-> 0, reqs |-> aer.reqs,
                       mask |-> ctrl.mask, done |-> << >>]
        ELSE IF s.at # "scan" THEN s
        ELSE IF q[i] = Freed THEN [s EXCEPT !.at = "fault"]
        ELSE IF s.reqs = << >> THEN [s EXCEPT !.at = "end"]
        ELSE IF q[i] \in s.mask THEN s
        ELSE [s EXCEPT !.queue[i] = Freed, !.heads = @ + 1, !.reqs = Front(@),
                       !.mask = @ \cup {AerReport(q[i])},
                       !.done = Append(@, [Last(s.reqs) EXCEPT !.res = AerReport(q[i])])]
      s == Scan[Len(q)] IN
  /\ Unlocked /\ aer.timer
  /\ ctrl' = [ctrl EXCEPT !.mask = s.mask, !.fault = s.at = "fault"]
  /\ aer' = [queue |-> SubSeq(s.queue, s.heads + 1, Len(q)), reqs |-> s.reqs, timer |-> FALSE]
  /\ cq' = IF s.done = << >> THEN cq ELSE Completed(s.done)
  /\ UNCHANGED <<sq, burst, ring, irq, host>>

----------------------------------------------------------------------------
(* nvme_write_bar: the driver writes CC.  CC.EN starts and disables the           *)
(* controller, CC.SHN shuts it down.                                             *)

\* What nvme_start_ctrl finds wrong is either a queue that exists or one of the
\* registers (ok is FALSE).  nvme_clear_ctrl leaves aer_mask as it was: the types
\* that are masked then are stale until their log page is read.
nvme_write_bar(en, shn, ok) ==
  LET start == en /\ ~ctrl.en
      stop  == ~en /\ ctrl.en
      shut  == shn /\ ~(IF start THEN shn ELSE ~stop /\ ctrl.shn)
      clear == stop \/ shut
      begun == start /\ ok /\ ~ctrl.live IN
  /\ Unlocked /\ (start \/ ok)
  /\ ctrl' = [ctrl EXCEPT !.en = en, !.shn = shn,
                          !.ready = IF start THEN begun ELSE @ /\ ~stop,
                          !.live = IF clear THEN FALSE ELSE @ \/ begun,
                          !.warned = @ /\ ~clear,
                          !.stale = IF clear THEN ctrl.mask ELSE @,
                          !.fault = clear /\ Freed \in Range(aer.queue)]
  /\ IF clear THEN Empty /\ host' = [pending |-> {}, at |-> "idle", unread |-> {}]
     ELSE UNCHANGED <<sq, cq, aer, ring, irq, host>>
  /\ UNCHANGED burst

----------------------------------------------------------------------------

Next ==
  \/ \E c, t \in Cids, op \in Ops : Submit(c, op, t)
  \/ InvalidDoorbell
  \/ HandlerEnter \/ Take \/ HandlerLeave \/ RingCqDoorbell
  \/ StartAdmin \/ Execute \/ EndAdmin
  \/ nvme_post_cqes_admin \/ nvme_aer_process_cb
  \/ \E en, shn, ok \in BOOLEAN : nvme_write_bar(en, shn, ok)

Spec == Init /\ [][Next]_vars

\* Armed timers fire, handlers and interrupt handlers go on (of their steps one at a
\* time is enabled).  The driver keeps an
\* event request with the controller and reads the log pages that it has to.
Fairness ==
  /\ WF_vars(StartAdmin \/ Execute \/ EndAdmin)
  /\ SF_vars(nvme_post_cqes_admin) /\ SF_vars(nvme_aer_process_cb)
  /\ WF_vars(HandlerEnter \/ Take \/ HandlerLeave)
  /\ SF_vars(RingCqDoorbell)
  /\ SF_vars(Pending("aer") = {} /\ \E c \in Cids : Submit(c, "aer", c))
  /\ \A t \in Types : SF_vars(t \in host.unread /\ \E c \in Cids : Submit(c, t, c))

FairSpec == Spec /\ Fairness

----------------------------------------------------------------------------
(* Properties *)

\* Where the commands are: not fetched, kept for an event, waiting to be posted or
\* posted.
Everywhere ==
  SelectSeq(sq.cmds, LAMBDA e : e.res = "none") \o aer.reqs \o cq.req_list \o ring.posted

\* Every command of the driver is in exactly one place, and no other command is
\* anywhere: also the event requests, which are kept until there is an event, the
\* commands that are aborted in the ring, and also after the controller was disabled
\* with requests outstanding.
Accounted ==
  LET cids == [i \in DOMAIN Everywhere |-> Everywhere[i].cid] IN
  IsInjective(cids) /\ Range(cids) = {p.cid : p \in host.pending}

\* No timer is left unarmed while there is something to do: commands that could be
\* fetched, completions there is room for, an event that could be reported.
Armed == ctrl.fault \/
  /\ sq.cmds # << >> => sq.timer \/ burst >= 0
  /\ cq.req_list # << >> => cq.timer \/ nvme_cq_full
  /\ aer.reqs = << >> \/ Range(aer.queue) \cap Types \subseteq ctrl.mask \/ aer.timer

\* A type of event is muted for good only by a reset: while it is masked its report
\* is on its way to the driver, or the driver still has to read the log page, or has
\* asked for it; or it was masked when nvme_clear_ctrl left aer_mask as it was.
Unmuted ==
  \A t \in ctrl.mask \ ctrl.stale :
    \/ t \in host.unread
    \/ \E e \in Range(cq.req_list \o ring.posted) : e.res = t \/ (e.res = "aborted" /\ e.op = t)
    \/ \E e \in Range(sq.cmds) : e.op = t /\ e.res = "none"

\* A pointer that is NULL or freed is used only in two ways: events of both types
\* are raised, so that nvme_aer_process_cb frees one that it does not unlink; or a
\* doorbell that does not exist is rung between a shutdown and CC.EN being cleared.
FaultsKnown ==
  ctrl.fault => ctrl.types = {"error", "smart"} \/ (ctrl.ready /\ ~ctrl.live)

\* Every command but an event request is answered.  Where the events are all of one
\* type, every one is reported unless the controller is disabled, the type is masked
\* from before a reset, or a command of the driver is aborted.
Served ==
  /\ \A c \in Cids :
       LET waits == \E p \in host.pending : p.cid = c /\ p.op # "aer" IN
       waits ~> ~waits \/ ctrl.fault
  /\ \A t \in Types :
       ctrl.types = {t} /\ aer.queue # << >> ~>
         \/ ctrl.fault \/ ~ctrl.ready \/ ~ctrl.live \/ t \in ctrl.stale
         \/ \E e \in Range(cq.req_list) : e.res \in {t, "aborted"}
=============================================================================

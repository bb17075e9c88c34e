---------------------------- MODULE NvmeIoQueue ----------------------------
(***************************************************************************)
(* The I/O queues of the NVMe controller (nvme.c): submission rings that   *)
(* the controller polls, the requests that carry their commands, and the   *)
(* completion ring they share.                                             *)
(*                                                                         *)
(* All timers, and the callbacks of the block layer, run in the main loop, *)
(* one after the other.  The two pollers release the iothread lock, so     *)
(* that the vCPUs (submissions, doorbells, interrupt handlers) and time    *)
(* run between any two iterations of their loops; one step is one          *)
(* iteration.                                                              *)
(*                                                                         *)
(* A ring entry that has been fetched, a completion that has been taken    *)
(* (but for its phase) and a request that has been posted are read by      *)
(* nobody before they are written again: the model forgets what they held. *)
(*                                                                         *)
(* Time.  io[r].wait is the time left until the request's expire_time, 0   *)
(* when it has passed; cq.timer is the time left until cq->timer fires.    *)
(* One tick stands for the polling period and for the 500 ns of            *)
(* nvme_enqueue_req_completion.                                            *)
(***************************************************************************)
EXTENDS Integers, Sequences, FiniteSets, SequencesExt

CONSTANTS
  SQS,         \* the submission queues
  SQ_SIZE,     \* entries of a submission queue, and of its io_req array
  CQ_SIZE,     \* entries of the completion queue
  Cids,        \* command identifiers
  NoCid,       \* of a request or an entry that has carried no command
  Depth,       \* the commands the host keeps outstanding, at most (a bound)
  Kinds,       \* how the commands end: see nvme_io_cmd
  Latencies,   \* what SSD_READ and SSD_WRITE return, in ticks
  Weight,      \* the arbitration weight of the queues' priority class
  Mapped,      \* may the doorbells be mapped memory (db_addr # 0): a set of Booleans
  Aborts,      \* the commands the driver may abort
  Deletes      \* the queues the driver may delete and create again

ASSUME QueueAssumption ==
  /\ SQS # {}
  /\ SQ_SIZE \in Nat /\ SQ_SIZE >= 2
  /\ CQ_SIZE \in Nat /\ CQ_SIZE >= 2
  /\ Depth \in Nat /\ Weight \in 0 .. 255
  /\ Kinds \subseteq {"rw", "plain", "async"} /\ Latencies \subseteq Nat
  /\ NoCid \notin Cids /\ Mapped \in SUBSET BOOLEAN /\ Aborts \subseteq Cids /\ Deletes \subseteq SQS

VARIABLES
  ring,   \* the submission rings, in the host's memory
  cqes,   \* the completion ring, in the host's memory
  sq,     \* NvmeSQueue, with the doorbell memory its db_addr points to
  cq,     \* NvmeCQueue, likewise
  io,     \* the requests: the command they carry and the time it has left
  poll,   \* where the main loop is
  host,   \* the driver
  irq     \* the interrupt is raised

vars == <<ring, cqes, sq, cq, io, poll, host, irq>>

\* A request is an element of some queue's io_req array.
Req    == SQS \X (0 .. SQ_SIZE - 1)
Slot   == 0 .. SQ_SIZE - 1
CqSlot == 0 .. CQ_SIZE - 1
PERIOD == 1
NoCmd  == [cid |-> NoCid, aborted |-> FALSE]
Idle   == [at |-> "idle", q |-> CHOOSE q \in SQS : TRUE, n |-> 0]

\* sq->arb_burst is a uint8_t.
ArbBurst == (Weight + 1) % 256

TypeOK ==
  /\ ring \in [SQS -> [Slot -> [cid : Cids \cup {NoCid}, aborted : BOOLEAN]]]
  /\ cqes \in [CqSlot -> [phase : {0, 1}, q : SQS, cid : Cids \cup {NoCid}, sq_head : Slot]]
  /\ sq \in [SQS -> [live : BOOLEAN, head : Slot, tail : Slot, db : Slot,
                     req_list : Seq(Req), out_req_list : Seq(Req)]]
  /\ cq \in [head : CqSlot, tail : CqSlot, db : CqSlot, mapped : Mapped, phase : {0, 1},
             req_list : Seq(Req), timer : Nat]
  /\ io \in [Req -> [cid : Cids \cup {NoCid}, wait : Nat]]
  /\ poll \in [at : {"idle", "sq", "cq", "del", "fault"}, q : SQS, n : Nat]
  /\ host \in [tail : [SQS -> Slot], sq_head : [SQS -> Slot], head : CqSlot,
               phase : {0, 1}, pending : SUBSET (SQS \X Cids), busy : BOOLEAN]
  /\ irq \in BOOLEAN

----------------------------------------------------------------------------
(* nvme_init_sq, nvme_init_cq *)

NewSq(q) ==
  [live |-> TRUE, head |-> 0, tail |-> 0, db |-> 0,
   req_list |-> [i \in 1 .. SQ_SIZE |-> <<q, i - 1>>], out_req_list |-> << >>]

Init ==
  /\ ring = [q \in SQS |-> [s \in Slot |-> NoCmd]]
  /\ cqes = [s \in CqSlot |-> [phase |-> 0, q |-> Idle.q, cid |-> NoCid, sq_head |-> 0]]
  /\ sq = [q \in SQS |-> NewSq(q)]
  /\ cq \in [head : {0}, tail : {0}, db : {0}, mapped : Mapped, phase : {1},
             req_list : {<< >>}, timer : {PERIOD}]
  /\ io = [r \in Req |-> [cid |-> NoCid, wait |-> 0]]
  /\ poll = Idle
  /\ host = [tail |-> [q \in SQS |-> 0], sq_head |-> [q \in SQS |-> 0], head |-> 0,
             phase |-> 1, pending |-> {}, busy |-> FALSE]
  /\ irq = FALSE

----------------------------------------------------------------------------
(* The driver and the doorbells *)

\* A command is written to the ring and its doorbell rung.  nvme_process_db
\* takes the value only where the doorbells are not mapped.
Submit(q, c) ==
  LET tail == (host.tail[q] + 1) % SQ_SIZE IN
  /\ sq[q].live /\ ~(poll.at = "del" /\ poll.q = q)
  /\ <<q, c>> \notin host.pending
  /\ Cardinality(host.pending) < Depth
  /\ tail # host.sq_head[q]
  /\ ring' = [ring EXCEPT ![q][host.tail[q]] = [cid |-> c, aborted |-> FALSE]]
  /\ host' = [host EXCEPT !.tail[q] = tail, !.pending = @ \cup {<<q, c>>}]
  /\ sq' = [sq EXCEPT ![q] = IF cq.mapped THEN [@ EXCEPT !.db = tail]
                                       ELSE [@ EXCEPT !.tail = tail]]
  /\ UNCHANGED <<cqes, cq, io, poll, irq>>

CqFullNever(head) == FALSE

\* nvme_cq_full
nvme_cq_full(head) == (cq.tail + 1) % CQ_SIZE = head

\* The interrupt handler takes the completions whose phase it expects, ...
HandlerEnter ==
  /\ irq /\ ~host.busy
  /\ irq' = FALSE
  /\ host' = [host EXCEPT !.busy = TRUE]
  /\ UNCHANGED <<ring, cqes, sq, cq, io, poll>>

Consume ==
  LET e == cqes[host.head]
      next == (host.head + 1) % CQ_SIZE IN
  /\ host.busy /\ e.phase = host.phase
  /\ host' = [host EXCEPT !.pending = @ \ {<<e.q, e.cid>>},
                          !.sq_head[e.q] = e.sq_head,
                          !.head = next,
                          !.phase = IF next = 0 THEN 1 - @ ELSE @]
  /\ cqes' = [cqes EXCEPT ![host.head] = [@ EXCEPT !.q = Idle.q, !.cid = NoCid, !.sq_head = 0]]
  /\ UNCHANGED <<ring, sq, cq, io, poll, irq>>

\* ... and rings the doorbell of the completion queue.  Where the doorbells are
\* mapped the write to the register may be left out.
RingCqDoorbell(mmio) ==
  LET head == IF cq.mapped THEN host.head ELSE cq.head IN
  /\ host.busy /\ cqes[host.head].phase # host.phase
  /\ mmio \/ cq.mapped
  /\ host' = [host EXCEPT !.busy = FALSE]
  /\ cq' = [cq EXCEPT !.db = IF cq.mapped THEN host.head ELSE @,
                      !.head = IF mmio THEN host.head ELSE @]
  /\ irq' = (irq \/ (mmio /\ ~nvme_cq_full(head) /\ cq.tail # host.head))
  /\ UNCHANGED <<ring, cqes, sq, io, poll>>

----------------------------------------------------------------------------
(* Completion lists *)

PositionsTail(list, wait) == {Len(list) + 1}

\* nvme_enqueue_req_completion_io: a request goes before the first one that
\* expires later.  Expire times that have passed are all 0 here, so that a
\* request whose own has passed may go before any other such request.
Positions(list, wait) ==
  LET later == {i \in DOMAIN list : io[list[i]].wait > wait}
      first == IF later = {} THEN Len(list) + 1 ELSE Min(later)
  IN IF wait > 0 THEN {first} ELSE 1 .. first

EnqueueIo(r, wait) ==
  IF cq.req_list = << >>
  THEN cq' = [cq EXCEPT !.req_list = <<r>>, !.timer = wait]
  ELSE \E i \in Positions(cq.req_list, wait) :
         cq' = [cq EXCEPT !.req_list = InsertAt(@, i, r)]

\* nvme_enqueue_req_completion: to the tail, and the timer is set.
EnqueueTail(r) == cq' = [cq EXCEPT !.req_list = Append(@, r), !.timer = PERIOD]

----------------------------------------------------------------------------
(* nvme_process_sq_io *)

PollSq(q) ==
  /\ poll.at = "idle" /\ sq[q].live
  /\ poll' = [at |-> "sq", q |-> q, n |-> 0]
  /\ sq' = [sq EXCEPT ![q].tail = IF cq.mapped THEN sq[q].db ELSE @]
  /\ UNCHANGED <<ring, cqes, cq, io, host, irq>>

SqLoop(q) ==
  /\ sq[q].head # sq[q].tail
  /\ sq[q].req_list # << >>
  /\ poll.n < ArbBurst

IncHeadNoWrap(q) == sq[q].head + 1

\* nvme_inc_sq_head
IncHead(q) == (sq[q].head + 1) % SQ_SIZE

SkipNone(q) == FALSE

\* The next entry is one that nvme_abort_req has marked NVME_OP_ABORTED.
Aborted(q) == ring[q][sq[q].head].aborted

\* The entry of an aborted command is skipped.
FetchAborted ==
  LET q == poll.q IN
  /\ poll.at = "sq" /\ SqLoop(q) /\ Aborted(q)
  /\ sq' = [sq EXCEPT ![q].head = IncHead(q)]
  /\ poll' = [poll EXCEPT !.n = @ + 1]
  /\ ring' = [ring EXCEPT ![q][sq[q].head] = NoCmd]
  /\ UNCHANGED <<cqes, cq, io, host, irq>>

\* A command is fetched, executed and, unless it waits for the block layer,
\* queued for completion.  Only reads and writes set expire_time; the others
\* keep the one the request had.
Fetch(kind) ==
  LET q == poll.q
      r == Head(sq[q].req_list) IN
  /\ poll.at = "sq" /\ SqLoop(q) /\ ~Aborted(q)
  /\ \E wait \in IF kind = "rw" THEN Latencies ELSE {io[r].wait} :
       /\ io' = [io EXCEPT ![r] = [cid |-> ring[q][sq[q].head].cid, wait |-> wait]]
       /\ IF kind = "async" THEN UNCHANGED cq ELSE EnqueueIo(r, wait)
  /\ sq' = [sq EXCEPT ![q].head = IncHead(q),
                      ![q].req_list = Tail(@),
                      ![q].out_req_list = IF kind = "async" THEN Append(@, r) ELSE @]
  /\ poll' = [poll EXCEPT !.n = @ + 1]
  /\ ring' = [ring EXCEPT ![q][sq[q].head] = NoCmd]
  /\ UNCHANGED <<cqes, host, irq>>

\* The loop ends; the queue's timer is set again.
EndSq ==
  /\ poll.at = "sq" /\ ~SqLoop(poll.q)
  /\ poll' = Idle
  /\ UNCHANGED <<ring, cqes, sq, cq, io, host, irq>>

\* nvme_misc_cb: the block layer is done with a command.  It calls back from the main
\* loop, or from the aio_poll of nvme_dsm while that command is fetched.
nvme_misc_cb(r) ==
  /\ \/ poll.at = "idle"
     \/ "plain" \in Kinds /\ poll.at = "sq" /\ SqLoop(poll.q) /\ ~Aborted(poll.q)
  /\ r \in Range(sq[r[1]].out_req_list)
  /\ sq' = [sq EXCEPT ![r[1]].out_req_list = RemoveFirst(@, r)]
  /\ EnqueueTail(r)
  /\ UNCHANGED <<ring, cqes, io, poll, host, irq>>

----------------------------------------------------------------------------
(* nvme_abort_req, run by the admin queue.  The driver aborts a command that is *)
(* outstanding, and does not abort its identifier again while the entry that was *)
(* marked is still in the queue: the search looks at identifiers only.          *)

\* The entries from head to the tail the controller knows of.
Queued(q) == {s \in Slot : (s - sq[q].head) % SQ_SIZE < (sq[q].tail - sq[q].head) % SQ_SIZE}

\* A command that is with the block layer is cancelled, which calls it back.
Cancelled(q, c) ==
  {r \in Range(sq[q].out_req_list) : io[r].cid = c}

\* The request is taken before the entry is found, where there is none to take.
AbortTakesFirst(q, c) ==
  /\ c \in Aborts /\ poll.at = "idle" /\ <<q, c>> \in host.pending
  /\ Cancelled(q, c) = {} /\ sq[q].req_list = << >>
  /\ poll' = [at |-> "fault", q |-> q, n |-> 0]
  /\ UNCHANGED <<ring, cqes, sq, cq, io, host, irq>>

\* Otherwise the first free request answers for an entry that is not fetched yet.
\* Nothing is known of a free request there: without one the NULL pointer that
\* QTAILQ_FIRST returns is used, and the main loop ends.
nvme_abort_req(q, c) ==
  /\ c \in Aborts /\ poll.at = "idle" /\ <<q, c>> \in host.pending
  /\ \A s \in Queued(q) : ring[q][s].cid = c => ~ring[q][s].aborted
  /\ \/ \E r \in Cancelled(q, c) : nvme_misc_cb(r)
     \/ /\ Cancelled(q, c) = {} /\ sq[q].req_list # << >>
        /\ LET r == Head(sq[q].req_list) IN
           \E s \in Queued(q) :
             /\ ring[q][s].cid = c
             /\ sq' = [sq EXCEPT ![q].req_list = Tail(@)]
             /\ io' = [io EXCEPT ![r].cid = c]
             /\ ring' = [ring EXCEPT ![q][s].aborted = TRUE]
             /\ EnqueueTail(r)
        /\ UNCHANGED <<cqes, poll, host, irq>>
     \/ /\ Cancelled(q, c) = {} /\ sq[q].req_list = << >>
        /\ \E s \in Queued(q) : ring[q][s].cid = c
        /\ poll' = [at |-> "fault", q |-> q, n |-> 0]
        /\ UNCHANGED <<ring, cqes, sq, cq, io, host, irq>>

----------------------------------------------------------------------------
(* nvme_post_cqes_io *)

PollCq ==
  /\ poll.at = "idle" /\ cq.timer = 0
  /\ poll' = [Idle EXCEPT !.at = "cq"]
  /\ UNCHANGED <<ring, cqes, sq, cq, io, host, irq>>

\* nvme_update_cq_head
CqHead == IF cq.mapped THEN cq.db ELSE cq.head

\* nvme_inc_cq_tail
CqNext  == (cq.tail + 1) % CQ_SIZE
CqPhaseStuck == cq.phase
CqPhase == IF CqNext = 0 THEN 1 - cq.phase ELSE cq.phase

Due == io[Head(cq.req_list)].wait = 0

PostKeepsRequest ==
  LET r == Head(cq.req_list)
      q == r[1] IN
  /\ poll.at \in {"cq", "del"} /\ cq.req_list # << >> /\ ~nvme_cq_full(CqHead) /\ Due
  /\ cqes' = [cqes EXCEPT ![cq.tail] = [phase |-> cq.phase, q |-> q, cid |-> io[r].cid,
                                        sq_head |-> sq[q].head]]
  /\ cq' = [cq EXCEPT !.req_list = Tail(@), !.head = CqHead, !.tail = CqNext,
                      !.phase = CqPhase]
  /\ poll' = [poll EXCEPT !.n = @ + 1]
  /\ UNCHANGED <<ring, sq, io, host, irq>>

\* nvme_post_cqe
Post ==
  LET r == Head(cq.req_list)
      q == r[1] IN
  /\ poll.at \in {"cq", "del"} /\ cq.req_list # << >> /\ ~nvme_cq_full(CqHead) /\ Due
  /\ cqes' = [cqes EXCEPT ![cq.tail] = [phase |-> cq.phase, q |-> q, cid |-> io[r].cid,
                                        sq_head |-> sq[q].head]]
  /\ cq' = [cq EXCEPT !.req_list = Tail(@), !.head = CqHead, !.tail = CqNext,
                      !.phase = CqPhase]
  /\ sq' = [sq EXCEPT ![q].req_list = Append(@, r)]
  /\ io' = [io EXCEPT ![r].cid = NoCid]
  /\ poll' = [poll EXCEPT !.n = @ + 1]
  /\ UNCHANGED <<ring, host, irq>>

NotifyBatch(nc) == nc > 1

\* "only interrupt guest when we do complete some I/Os"
Notify(nc) == nc > 0

\* The loop ends; the timer is set and, if it posted anything, the interrupt
\* is raised.
RoundEnds(list) ==
  /\ \/ /\ cq.req_list = << >>
        /\ cq' = [cq EXCEPT !.timer = PERIOD]
     \/ /\ cq.req_list # << >> /\ nvme_cq_full(CqHead)
        /\ cq' = [cq EXCEPT !.head = CqHead, !.timer = PERIOD, !.req_list = list]
     \/ /\ cq.req_list # << >> /\ ~nvme_cq_full(CqHead) /\ ~Due
        /\ cq' = [cq EXCEPT !.head = CqHead, !.timer = io[Head(cq.req_list)].wait,
                            !.req_list = list]
  /\ irq' = (irq \/ Notify(poll.n))
  /\ poll' = Idle

EndCq ==
  /\ poll.at = "cq"
  /\ RoundEnds(cq.req_list)
  /\ UNCHANGED <<ring, cqes, sq, io, host>>

----------------------------------------------------------------------------
(* nvme_del_sq and nvme_create_sq, run by the admin queue.  The driver submits *)
(* nothing to a queue that it deletes, and takes the completions of a queue    *)
(* before it creates it again.                                                 *)

\* What is with the block layer is cancelled, which queues it for completion;
\* what can be posted is posted (nvme_post_cqes does what nvme_post_cqes_io does).
nvme_del_sq(q) ==
  /\ poll.at = "idle" /\ q \in Deletes /\ sq[q].live
  /\ poll' = [at |-> "del", q |-> q, n |-> 0]
  /\ cq' = IF sq[q].out_req_list = << >> THEN cq
           ELSE [cq EXCEPT !.req_list = @ \o sq[q].out_req_list, !.timer = PERIOD]
  /\ sq' = [sq EXCEPT ![q].out_req_list = << >>]
  /\ UNCHANGED <<ring, cqes, io, host, irq>>

OthersKept(q) == cq.req_list

\* The requests of the other queues: those of the deleted one go back to it.
Others(q) == SelectSeq(cq.req_list, LAMBDA r : r[1] # q)

\* nvme_free_sq.  For the driver the commands that were not answered are over.
EndDelete ==
  LET q == poll.q IN
  /\ poll.at = "del"
  /\ RoundEnds(Others(q))
  /\ sq' = [sq EXCEPT ![q] = [@ EXCEPT !.live = FALSE, !.req_list = << >>]]
  /\ host' = [host EXCEPT !.pending = {p \in @ : p[1] # q}]
  /\ UNCHANGED <<ring, cqes, io>>

\* The entries the controller has not fetched, and the completions the driver
\* has not taken.
Unfetched(q) == {s \in Slot : (s - sq[q].head) % SQ_SIZE < (host.tail[q] - sq[q].head) % SQ_SIZE}
Unread == {s \in CqSlot : (s - host.head) % CQ_SIZE < (cq.tail - host.head) % CQ_SIZE}

nvme_create_sq(q) ==
  /\ poll.at = "idle" /\ ~sq[q].live
  /\ \A s \in Unread : cqes[s].q # q
  /\ sq' = [sq EXCEPT ![q] = NewSq(q)]
  /\ ring' = [ring EXCEPT ![q] = [s \in Slot |-> NoCmd]]
  /\ io' = [r \in Req |-> IF r[1] = q THEN [cid |-> NoCid, wait |-> 0] ELSE io[r]]
  /\ host' = [host EXCEPT !.tail[q] = 0, !.sq_head[q] = 0]
  /\ UNCHANGED <<cqes, cq, poll, irq>>

----------------------------------------------------------------------------

\* A tick of the clock.
Tick ==
  /\ cq.timer > 0 \/ \E r \in Req : io[r].wait > 0
  /\ io' = [r \in Req |-> [io[r] EXCEPT !.wait = IF @ = 0 THEN 0 ELSE @ - 1]]
  /\ cq' = [cq EXCEPT !.timer = IF @ = 0 THEN 0 ELSE @ - 1]
  /\ UNCHANGED <<ring, cqes, sq, poll, host, irq>>

Driver == (\E q \in SQS, c \in Cids : Submit(q, c)) \/ HandlerEnter \/ Consume
          \/ \E mmio \in BOOLEAN : RingCqDoorbell(mmio)

MainLoop ==
  \/ \E q \in SQS : PollSq(q)
  \/ FetchAborted \/ (\E kind \in Kinds : Fetch(kind)) \/ EndSq
  \/ \E r \in Req : nvme_misc_cb(r)
  \/ \E q \in SQS, c \in Cids : nvme_abort_req(q, c)
  \/ PollCq \/ Post \/ EndCq
  \/ (\E q \in SQS : nvme_del_sq(q) \/ nvme_create_sq(q)) \/ EndDelete

Next == Driver \/ MainLoop \/ Tick

Spec == Init /\ [][Next]_vars

\* The timers are set again after every run, so each of them gets its turn in
\* the main loop; loops, callbacks, the interrupt handler and time go on.
Fairness ==
  /\ \A q \in SQS : SF_vars(PollSq(q))
  /\ WF_vars(FetchAborted \/ \E kind \in Kinds : Fetch(kind)) /\ WF_vars(EndSq)
  /\ \A r \in {r \in Req : "async" \in Kinds} : SF_vars(nvme_misc_cb(r))
  /\ SF_vars(PollCq) /\ WF_vars(Post) /\ WF_vars(EndCq) /\ WF_vars(EndDelete)
  /\ WF_vars(HandlerEnter) /\ WF_vars(Consume)
  /\ WF_vars(\E mmio \in BOOLEAN : RingCqDoorbell(mmio))
  /\ WF_vars(Tick)

FairSpec == Spec /\ Fairness

----------------------------------------------------------------------------
(* Properties *)

\* No request is lost or is in two places: those of a queue's io_req array are,
\* each once, in its req_list, in its out_req_list or in the completion list.
RequestsConserved ==
  \A q \in {q \in SQS : sq[q].live} :
    LET own == sq[q].req_list \o sq[q].out_req_list IN
    /\ IsInjective(own \o cq.req_list)
    /\ Range(own) \cup {r \in Range(cq.req_list) : r[1] = q} = {q} \X Slot

\* The completion list holds no request of a queue that has been deleted, whose
\* io_req array is freed; so the list is empty when nvme_del_cq frees the
\* completion queue, which it does when no submission queue is left.
NoneDeleted == \A i \in DOMAIN cq.req_list : sq[cq.req_list[i][1]].live

\* nvme_abort_req finds no free request only where the driver has more commands
\* outstanding in the queue than the queue has entries, which the ring allows as
\* soon as commands are fetched faster than they are answered.
AbortNeedsRequest ==
  poll.at = "fault" => Cardinality({p \in host.pending : p[1] = poll.q}) > SQ_SIZE

\* Where a command of the driver can be: in an entry not yet fetched, with the
\* block layer, waiting for its completion to be posted, or in a completion
\* not yet taken.
Places(q, c) ==
  {<<"ring", s>> : s \in {s \in IF sq[q].live THEN Unfetched(q) ELSE {} : ring[q][s] = [cid |-> c, aborted |-> FALSE]}}
  \cup {<<"out", i>> : i \in {i \in DOMAIN sq[q].out_req_list :
                               io[sq[q].out_req_list[i]].cid = c}}
  \cup {<<"list", i>> : i \in {i \in DOMAIN cq.req_list :
                                cq.req_list[i][1] = q /\ io[cq.req_list[i]].cid = c}}
  \cup {<<"cqe", s>> : s \in {s \in Unread : cqes[s].q = q /\ cqes[s].cid = c}}

\* Every outstanding command is in exactly one place and no other command is
\* anywhere, but for completions of a deleted queue that are yet to be taken: none
\* is dropped, overwritten in a ring, fetched or answered twice.
Accounted ==
  \A q \in {q \in SQS : sq[q].live}, c \in Cids :
    Cardinality(Places(q, c)) = IF <<q, c>> \in host.pending THEN 1 ELSE 0

\* The phase bits tell the driver exactly which entries are unread.
PhaseExact ==
  \A s \in CqSlot :
    s \in Unread <=>
      cqes[s].phase = (IF s >= host.head THEN host.phase ELSE 1 - host.phase)

\* With reads and writes only, no completion that is due waits behind one that
\* is not: nvme_post_cqes_io stops at the first that is not due.
DueFirst ==
  \A i, j \in DOMAIN cq.req_list :
    i < j /\ io[cq.req_list[j]].wait = 0 => io[cq.req_list[i]].wait = 0

\* Every command is answered.
Answered == \A q \in SQS, c \in Cids : <<q, c>> \in host.pending ~> <<q, c>> \notin host.pending

\* cq->timer fires no later than the head of the list is due, or a polling
\* period from now.
TimerCovers ==
  poll.at = "idle" /\ cq.req_list # << >> =>
    cq.timer <= PERIOD \/ cq.timer <= io[Head(cq.req_list)].wait
=============================================================================

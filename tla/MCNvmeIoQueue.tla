--------------------------- MODULE MCNvmeIoQueue ---------------------------
(***************************************************************************)
(* Instances of the I/O queues for model checking.                         *)
(***************************************************************************)
EXTENDS NvmeIoQueue, TLC

CidSymmetry == Permutations(Cids \ Aborts) \cup Permutations(Aborts)

\* A view of the state.  The requests of a queue are all alike: in the view they
\* are numbered in the order in which they are found in the lists.
Listed(q) == sq[q].req_list \o sq[q].out_req_list \o cq.req_list
Number(r) == Min({i \in DOMAIN Listed(r[1]) : Listed(r[1])[i] = r})
Busy(list) == [i \in DOMAIN list |-> <<list[i][1], Number(list[i]), io[list[i]]>>]
Free(list) == [i \in DOMAIN list |-> <<Number(list[i]), io[list[i]].wait>>]

Numbered ==
  <<ring, cqes,
    [q \in SQS |-> [sq[q] EXCEPT !.req_list = Free(@), !.out_req_list = Busy(@)]],
    [cq EXCEPT !.req_list = Busy(@)],
    poll, host, irq>>
=============================================================================

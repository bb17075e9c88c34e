---------------------------- MODULE LogicalStore ----------------------------
(***************************************************************************)
(* What the FTL promises its host: an array of logical pages, and requests *)
(* that are sequences of page operations, applied one page after the other *)
(* in request order, each exactly once.  Where a page is stored, how many  *)
(* logical pages share it and when flash or NVRAM is collected is not      *)
(* visible here.                                                           *)
(***************************************************************************)
EXTENDS Integers, Sequences

CONSTANTS LPN,          \* logical pages
          Blank,        \* contents of a page that is not mapped
          Request,      \* the requests a host may submit
          Hinted,       \* flags of writes that name a page with the same data
          Releasing,    \* of those, the ones that may discard that page
          Copying,      \* flags of the remapping operations
          Moving,       \* of those, the ones that discard the source
          TRIM          \* flag of a discard

VARIABLES store,        \* contents of each logical page
          pending       \* operations of the current request still to apply

vars == <<store, pending>>

Init == store = [l \in LPN |-> Blank] /\ pending = << >>

Submit == /\ pending = << >>
          /\ pending' \in Request
          /\ UNCHANGED store

Discarded(s, l) == [s EXCEPT ![l] = Blank]
Copied(s, d, h) == [s EXCEPT ![d] = s[h]]

\* A write stores the host's data.  A hinted write names a page that already
\* has that data, so copying the page is the same thing; the hint may also
\* name a page that is not mapped.
ApplyWrite == LET op == Head(pending)
                  hinted == op.flag \in Hinted /\ op.h_lpn \in LPN IN
  /\ op.flag \notin Copying \cup {TRIM}
  /\ \/ hinted /\ store' = Copied(store, op.lpn, op.h_lpn)
     \/ /\ hinted => store[op.h_lpn] = Blank
        /\ store' = [store EXCEPT ![op.lpn] = op.val]
     \/ /\ hinted /\ op.flag \in Releasing
        /\ store' = Discarded(Copied(store, op.lpn, op.h_lpn), op.h_lpn)
  /\ pending' = Tail(pending)

ApplyTrim == LET op == Head(pending) IN
  /\ op.flag = TRIM
  /\ store' = Discarded(store, op.lpn)
  /\ pending' = Tail(pending)

\* A copy whose source is not mapped may leave the destination as it is.
ApplyCopy == LET op == Head(pending) IN
  /\ op.flag \in Copying \ Moving
  /\ \/ store' = Copied(store, op.lpn, op.h_lpn)
     \/ store[op.h_lpn] = Blank /\ UNCHANGED store
  /\ pending' = Tail(pending)

ApplyMove == LET op == Head(pending) IN
  /\ op.flag \in Moving
  /\ \/ store' = Discarded(Copied(store, op.lpn, op.h_lpn), op.h_lpn)
     \/ store[op.h_lpn] = Blank /\ UNCHANGED store
  /\ pending' = Tail(pending)

\* A move may also be done in two steps: the copy, and then the discard.
ApplyMoveCopy == LET op == Head(pending) IN
  /\ op.flag \in Moving
  /\ store' = Copied(store, op.lpn, op.h_lpn)
  /\ pending' = <<[op EXCEPT !.flag = TRIM, !.lpn = op.h_lpn]>> \o Tail(pending)

Next == \/ Submit
        \/ /\ pending # << >>
           /\ (ApplyWrite \/ ApplyTrim \/ ApplyCopy \/ ApplyMove \/ ApplyMoveCopy)

Spec == Init /\ [][Next]_vars
=============================================================================

------------------------------ MODULE NvramOob ------------------------------
(***************************************************************************)
(* The NVRAM segments that hold the remapping entries of a superblock (the *)
(* OOB area of its flash pages holds one logical page number; every other  *)
(* logical page that shares the page has an entry in NVRAM).               *)
(*                                                                         *)
(* The entries themselves are not stored by the emulator: it only counts   *)
(* them, per superblock in NVRAM_OOB_TABLE and in total.  An nv value is   *)
(* that table (seg) and the three totals that steer USE_REMAP.             *)
(***************************************************************************)
EXTENDS FlashGeometry

CONSTANTS TOTAL_OOB_SEG,        \* segments of the NVRAM
          OOB_ENTRY_PER_SEG,    \* entries of one segment
          INVALID_PERCENT       \* INVALID_ENTRY_THRE, in percent

ASSUME NvramAssumption ==
          /\ TOTAL_OOB_SEG \in Nat /\ TOTAL_OOB_SEG >= 1
          /\ OOB_ENTRY_PER_SEG \in Nat /\ OOB_ENTRY_PER_SEG >= 1
          /\ INVALID_PERCENT \in Nat

NVRAM_OOB_seg == [alloc_seg : Int, free_entry : Int, invalid_entry : Int]

NvType == [seg : [SuperBlock -> NVRAM_OOB_seg],
           total_alloc_seg : Int, total_OOB_entry : Int,
           total_invalid_entry : Int]

EmptySeg == [alloc_seg |-> 0, free_entry |-> 0, invalid_entry |-> 0]

InitNv == [seg |-> [b \in SuperBlock |-> EmptySeg], total_alloc_seg |-> 0,
           total_OOB_entry |-> 0, total_invalid_entry |-> 0]

\* Entries written to the segments s of a superblock, and the live ones.
Entries(s) == s.alloc_seg * OOB_ENTRY_PER_SEG - s.free_entry
Live(s)    == Entries(s) - s.invalid_entry

-----------------------------------------------------------------------------
\* UPDATE_NVRAM_OOB(b, VALID): one more entry, in a new segment when the last
\* one is full, whether or not TOTAL_OOB_SEG segments are in use already.
AddEntry(nv, b) ==
  LET full == nv.seg[b].free_entry = 0 IN
  [nv EXCEPT
     !.seg[b].alloc_seg  = IF full THEN @ + 1 ELSE @,
     !.seg[b].free_entry = IF full THEN OOB_ENTRY_PER_SEG - 1 ELSE @ - 1,
     !.total_alloc_seg   = IF full THEN @ + 1 ELSE @,
     !.total_OOB_entry   = @ + 1]

\* UPDATE_NVRAM_OOB(b, 0): the segments of superblock b are released.
ReleaseSegs(nv, b) ==
  [nv EXCEPT
     !.seg[b] = EmptySeg,
     !.total_alloc_seg     = @ - nv.seg[b].alloc_seg,
     !.total_OOB_entry     = @ - Entries(nv.seg[b]),
     !.total_invalid_entry = @ - nv.seg[b].invalid_entry]

INCREASE_INVALID_OOB_ENTRY_COUNT(nv, b) ==
  [nv EXCEPT !.seg[b].invalid_entry = @ + 1, !.total_invalid_entry = @ + 1]

-----------------------------------------------------------------------------
(***************************************************************************)
(* NVRAM_OOB_GC: the first superblock with most invalid entries is the     *)
(* victim; its segments are released and its live entries written back     *)
(* into new ones, filled one after the other.                              *)
(***************************************************************************)
HasGcVictim(nv) == \E b \in SuperBlock : nv.seg[b].invalid_entry > 0

GcVictim(nv) ==
  CHOOSE b \in SuperBlock :
    \A c \in SuperBlock :
      /\ nv.seg[c].invalid_entry <= nv.seg[b].invalid_entry
      /\ c < b => nv.seg[c].invalid_entry < nv.seg[b].invalid_entry

\* The loop that writes the entries back does for each what AddEntry does.
NVRAM_OOB_GC(nv) ==
  LET v == GcVictim(nv)
      live == Live(nv.seg[v])
      Written[i \in 0 .. live] ==
        IF i = 0 THEN ReleaseSegs(nv, v) ELSE AddEntry(Written[i - 1], v)
  IN  IF live > 0 THEN Written[live] ELSE ReleaseSegs(nv, v)

-----------------------------------------------------------------------------
(***************************************************************************)
(* The conditions of the loop of USE_REMAP for superblock b: an entry can  *)
(* be written; or NVRAM is full, and then collecting it is worth while or  *)
(* it is not.                                                              *)
(***************************************************************************)
\* Mutant of RoomForEntry: the limit is taken as one segment higher.
RoomForOneMore(nv, b) ==
  nv.seg[b].free_entry > 0 \/ nv.total_alloc_seg <= TOTAL_OOB_SEG

RoomForEntry(nv, b) ==
  nv.seg[b].free_entry > 0 \/ nv.total_alloc_seg < TOTAL_OOB_SEG

WorthCollecting(nv) ==
  /\ nv.total_OOB_entry > 0
  /\ 100 * nv.total_invalid_entry > INVALID_PERCENT * nv.total_OOB_entry
  /\ HasGcVictim(nv)
=============================================================================

----------------------------- MODULE BlockPool -----------------------------
(***************************************************************************)
(* The superblock lists and the page allocator: GET_EMPTY_BLOCK (its       *)
(* VICTIM_OVERALL mode), GET_NEW_PAGE, and the insertion and ejection of   *)
(* empty and victim blocks.                                                *)
(*                                                                         *)
(* The code keeps one list per flash.  With SUPERBLOCK defined every list  *)
(* operation is done for all flashes in one loop, on blocks of the same    *)
(* number, so one list of superblock numbers stands for the FLASH_NB       *)
(* parallel lists.  What differs from flash to flash is kept: the next     *)
(* page of its active block and the flash whose turn it is.                *)
(***************************************************************************)
EXTENDS FlashGeometry, SequencesExt

\* No active superblock: every curr_root_entry->head is NULL.
NoBlock == -1

(***************************************************************************)
(* A pool:                                                                 *)
(*   active       the superblock at the heads, or NoBlock                  *)
(*   curr         curr_phy_page_nb of the active block of each flash       *)
(*   index        empty_block_table_index                                  *)
(*   empty        superblocks on the empty_head lists, in order            *)
(*   victim       superblocks on the victim lists, in order                *)
(*   total_empty  total_empty_block_nb (blocks, the active ones included)  *)
(*   total_victim total_victim_block_nb                                    *)
(*   sb_plane     sb_deb.plane_nb,  sb_block  sb_deb.block_nb              *)
(***************************************************************************)
PoolType ==
  [active : SuperBlock \cup {NoBlock}, curr : [Flash -> 0 .. PAGE_NB],
   index : Flash, empty : Seq(SuperBlock), victim : Seq(SuperBlock),
   total_empty : Int, total_victim : Int,
   sb_plane : Flash, sb_block : SuperBlock]

InitPool ==
  [active |-> NoBlock, curr |-> [f \in Flash |-> 0], index |-> 0,
   empty |-> [i \in 1 .. BLOCK_NB |-> i - 1], victim |-> << >>,
   total_empty |-> FLASH_NB * BLOCK_NB, total_victim |-> 0,
   sb_plane |-> FLASH_NB - 1, sb_block |-> 0]

-----------------------------------------------------------------------------
(***************************************************************************)
(* GET_EMPTY_BLOCK                                                         *)
(***************************************************************************)
\* Mutant of NextIndex: the index is not wrapped after the last flash.
NextIndexUnwrapped(i) == i + 1

NextIndex(i) == IF i = FLASH_NB - 1 THEN 0 ELSE i + 1

\* Flashes, from the current one to the last, whose active block has room.
Roomy(pool) == {f \in pool.index .. FLASH_NB - 1 : pool.curr[f] < PAGE_NB}

\* Mutant of RetireActive: the retired blocks still count as empty ones.
RetireActiveUncounted(pool) ==
  [pool EXCEPT !.active = NoBlock, !.index = 0,
               !.victim = Append(@, pool.active), !.total_victim = @ + FLASH_NB]

\* All active blocks become victims (INSERT_VICTIM_BLOCK for every flash).
RetireActive(pool) ==
  [pool EXCEPT !.active = NoBlock, !.index = 0,
               !.victim = Append(@, pool.active),
               !.total_empty = @ - FLASH_NB, !.total_victim = @ + FLASH_NB]

\* Mutant of ActivateNext: the turn stays with flash 0.
ActivateNextSameTurn(pool) ==
  [pool EXCEPT !.active = Head(pool.empty), !.empty = Tail(@),
               !.curr = [f \in Flash |-> 0], !.index = 0]

\* The first empty block of every list becomes the active one of its flash.
\* The page is taken on flash 0 and the turn passes to flash 1.
ActivateNext(pool) ==
  [pool EXCEPT !.active = Head(pool.empty), !.empty = Tail(@),
               !.curr = [f \in Flash |-> 0], !.index = 1]

\* The loop of GET_EMPTY_BLOCK: skip the flashes whose block is full, retire
\* the active superblock at the last one, then activate or use a block.  The
\* result is "block" (with its flash), "null", or "spin" when the loop finds
\* no list to make progress on and never ends.
GET_EMPTY_BLOCK(pool) ==
  LET p == IF pool.active # NoBlock /\ Roomy(pool) = {}
             THEN RetireActive(pool) ELSE pool
      f == CHOOSE g \in Roomy(p) : \A h \in Roomy(p) : g <= h
  IN  IF p.total_empty = 0
        THEN [ret |-> "null", flash |-> 0, pool |-> p]
      ELSE IF p.active # NoBlock
        THEN [ret |-> "block", flash |-> f,
              pool |-> [p EXCEPT !.index = NextIndex(f)]]
      ELSE IF p.index = 0 /\ p.empty # << >>
        THEN [ret |-> "block", flash |-> 0, pool |-> ActivateNext(p)]
      ELSE [ret |-> "spin", flash |-> 0, pool |-> p]

-----------------------------------------------------------------------------
(***************************************************************************)
(* GET_NEW_PAGE: GET_EMPTY_BLOCK, the SB_DEBUG order check, the address.   *)
(* A NULL block is dereferenced by the SB_DEBUG lines before it is tested: *)
(* the result is "fault", not FAIL.                                        *)
(***************************************************************************)
InOrder(pool, flash) ==
  IF flash = 0 THEN pool.sb_plane = FLASH_NB - 1
               ELSE pool.sb_block = pool.active /\ pool.sb_plane = flash - 1

\* Mutant of TakePage: curr_phy_page_nb is not advanced.
TakePageAgain(pool, flash) ==
  [pool EXCEPT !.sb_plane = flash, !.sb_block = IF flash = 0 THEN pool.active ELSE @]

TakePage(pool, flash) ==
  [pool EXCEPT !.curr[flash] = @ + 1, !.sb_plane = flash,
               !.sb_block = IF flash = 0 THEN pool.active ELSE @]

GET_NEW_PAGE(pool) ==
  LET g == GET_EMPTY_BLOCK(pool)
      q == g.pool
  IN  IF g.ret = "null" THEN [ret |-> "fault", ppn |-> NoPpn, pool |-> q]
      ELSE IF g.ret = "spin" THEN [ret |-> "spin", ppn |-> NoPpn, pool |-> q]
      ELSE IF ~InOrder(q, g.flash)
        THEN [ret |-> "fail", ppn |-> NoPpn, pool |-> q]
      ELSE [ret |-> "success",
            ppn |-> MakePpn(g.flash, q.active, q.curr[g.flash]),
            pool |-> TakePage(q, g.flash)]

-----------------------------------------------------------------------------
\* Mutant of EjectVictim: total_victim_block_nb keeps counting the blocks.
EjectVictimUncounted(pool, off) ==
  [pool EXCEPT !.victim = SubSeq(@, 1, off - 1) \o SubSeq(@, off + 1, Len(@))]

\* EJECT_VICTIM_BLOCK of entry off of every victim list.
EjectVictim(pool, off) ==
  [pool EXCEPT !.victim = SubSeq(@, 1, off - 1) \o SubSeq(@, off + 1, Len(@)),
               !.total_victim = @ - FLASH_NB]

\* INSERT_EMPTY_BLOCK of block b of every flash.
InsertEmpty(pool, b) ==
  [pool EXCEPT !.empty = Append(@, b), !.total_empty = @ + FLASH_NB]

-----------------------------------------------------------------------------
(***************************************************************************)
(* What the allocator maintains.  held is the superblock under collection, *)
(* or NoBlock.                                                             *)
(***************************************************************************)
\* The pages GET_NEW_PAGE has not handed out since their superblock was last
\* erased.
Unwritten(pool) ==
  {p \in PPN : \/ CALC_BLOCK(p) \in ToSet(pool.empty)
               \/ /\ pool.active = CALC_BLOCK(p)
                  /\ pool.curr[CALC_FLASH(p)] <= CALC_PAGE(p)}

\* The superblocks at the heads of the lists or under collection.
Single(b) == {b} \ {NoBlock}

\* Every superblock is in exactly one place: the empty list, the active
\* position, the victim list, or under collection; the block totals count the
\* blocks in those places.
Partitioned(pool, held) ==
  /\ IsInjective(pool.empty) /\ IsInjective(pool.victim)
  /\ ToSet(pool.empty) \cap ToSet(pool.victim) = {}
  /\ (ToSet(pool.empty) \cup ToSet(pool.victim))
       \cap (Single(pool.active) \cup Single(held)) = {}
  /\ Single(pool.active) \cap Single(held) = {}
  /\ ToSet(pool.empty) \cup ToSet(pool.victim)
       \cup Single(pool.active) \cup Single(held) = SuperBlock
  /\ pool.total_victim = FLASH_NB * Len(pool.victim)
  /\ pool.total_empty = FLASH_NB *
       (IF pool.active = NoBlock THEN Len(pool.empty) ELSE Len(pool.empty) + 1)

\* The flashes take turns: those before the index are one page ahead, and the
\* SB_DEBUG record names the flash before it.
RoundRobin(pool) ==
  /\ pool.sb_plane = IF pool.index = 0 THEN FLASH_NB - 1 ELSE pool.index - 1
  /\ pool.active = NoBlock => pool.index = 0
  /\ pool.active # NoBlock =>
       /\ pool.index # 0 => pool.sb_block = pool.active
       /\ \A f \in Flash :
            pool.curr[f] = IF pool.index # 0 /\ f >= pool.index
                             THEN pool.curr[0] - 1 ELSE pool.curr[0]

PoolInv(pool, held) ==
  pool \in PoolType /\ Partitioned(pool, held) /\ RoundRobin(pool)
=============================================================================

--------------------------- MODULE FlashGeometry ---------------------------
(***************************************************************************)
(* The physical address space of the emulated flash array and the address  *)
(* arithmetic of ftl_mapping_manager.c.                                    *)
(*                                                                         *)
(* A physical page number (ppn) packs a flash number, a block number and a *)
(* page number into one integer.  With SUPERBLOCK and one plane per flash, *)
(* the blocks that share a block number on all flashes form a superblock;  *)
(* a superblock is named by that number.                                   *)
(***************************************************************************)
EXTENDS Integers

CONSTANTS FLASH_NB,     \* flash chips of the device
          BLOCK_NB,     \* blocks of one flash, hence superblocks
          PAGE_NB       \* pages of one block

\* The round robin of GET_EMPTY_BLOCK needs two flashes: on the flash 0 path
\* it increments empty_block_table_index without wrapping it.  CALC_BLOCK(-1)
\* is 0 only when a block has more than one page.
ASSUME GeometryAssumption ==
          /\ FLASH_NB \in Nat /\ FLASH_NB >= 2
          /\ BLOCK_NB \in Nat /\ BLOCK_NB >= 1
          /\ PAGE_NB \in Nat /\ PAGE_NB >= 2

Flash      == 0 .. FLASH_NB - 1
SuperBlock == 0 .. BLOCK_NB - 1
PageOf     == 0 .. PAGE_NB - 1
PPN        == 0 .. FLASH_NB * BLOCK_NB * PAGE_NB - 1

\* The value -1 of a mapping_table entry: the logical page is not mapped.
NoPpn == -1

\* The address GET_NEW_PAGE composes.
MakePpn(flash, block, page) == (flash * BLOCK_NB + block) * PAGE_NB + page

CALC_FLASH(ppn) == (ppn \div PAGE_NB) \div BLOCK_NB

\* C division truncates towards zero, so that -1 is taken to block 0.
CALC_BLOCK(ppn) == IF ppn = NoPpn THEN 0 ELSE (ppn \div PAGE_NB) % BLOCK_NB

CALC_PAGE(ppn)  == ppn % PAGE_NB

\* The pages of superblock b, over all flashes.
PagesOf(b) == {p \in PPN : CALC_BLOCK(p) = b}
=============================================================================

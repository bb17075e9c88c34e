----------------------------- MODULE FtlTables -----------------------------
(***************************************************************************)
(* The tables of the page-mapping FTL and the functions that update them:  *)
(* the mapping table, the inverse mapping lists, the reference counts in   *)
(* the block state table, the page statistics, and the NVRAM counters.     *)
(*                                                                         *)
(* Several logical pages may map to one physical page.  The functions are  *)
(* operators from a table record t to a table record, named as in the      *)
(* code, so that an operation of the FTL reads as the calls it makes.      *)
(***************************************************************************)
EXTENDS NvramOob, SequencesExt

CONSTANTS LPN_NB,       \* logical pages the host uses
          REFCNT_MAX,   \* largest value of the int8_t counters (127)
          Data,         \* page contents
          Blank         \* contents of a page that was never written

ASSUME TablesAssumption ==
          /\ LPN_NB \in Nat /\ LPN_NB >= 1
          /\ REFCNT_MAX \in Nat /\ REFCNT_MAX >= 1
          /\ Blank \notin Data

LPN   == 0 .. LPN_NB - 1
Bytes == Data \cup {Blank}

Int8 == -(REFCNT_MAX + 1) .. REFCNT_MAX

\* The successor of an int8_t: it wraps to the smallest value.
Int8Inc(n) == IF n = REFCNT_MAX THEN -(REFCNT_MAX + 1) ELSE n + 1

\* The int8_t that counts a list of n nodes, up to one wrap.
Int8Of(n) == IF n > REFCNT_MAX THEN n - 2 * (REFCNT_MAX + 1) ELSE n

(***************************************************************************)
(* t.mapping_table[lpn]   physical page of lpn, or NoPpn                   *)
(* t.in_nvram[lpn]        0: lpn is in the flash OOB; 1: in NVRAM; -1: new *)
(* t.inverse[ppn]         the list of logical pages that share ppn         *)
(* t.valid_array[ppn]     reference count; -1 invalid; 0 free              *)
(* t.stat                 stat_ppn_free, _valid, _invalid, _n21, lpn_valid *)
(* t.nv                   the NVRAM counters                               *)
(* t.data[ppn]            history variable: what the page holds.  A page   *)
(*                        without references may be erased at any time; it *)
(*                        is taken as lost as soon as its count says so.   *)
(***************************************************************************)
StatType == [ppn_free : Int, ppn_valid : Int, ppn_invalid : Int,
             ppn_n21 : Int, lpn_valid : Int]

TabType == [mapping_table : [LPN -> PPN \cup {NoPpn}],
            in_nvram      : [LPN -> {-1, 0, 1}],
            inverse       : [PPN -> Seq(LPN)],
            valid_array   : [PPN -> Int8],
            stat          : StatType,
            nv            : NvType,
            data          : [PPN -> Bytes]]

InitTab == [mapping_table |-> [l \in LPN |-> NoPpn],
            in_nvram      |-> [l \in LPN |-> -1],
            inverse       |-> [p \in PPN |-> << >>],
            valid_array   |-> [p \in PPN |-> 0],
            stat          |-> [ppn_free |-> FLASH_NB * BLOCK_NB * PAGE_NB,
                               ppn_valid |-> 0, ppn_invalid |-> 0,
                               ppn_n21 |-> 0, lpn_valid |-> 0],
            nv            |-> InitNv,
            data          |-> [p \in PPN |-> Blank]]

If(c) == IF c THEN 1 ELSE 0

-----------------------------------------------------------------------------
(***************************************************************************)
(* The inverse mapping lists                                               *)
(***************************************************************************)
\* inverse_entry->lpn_cnt
lpn_cnt(t, ppn) == Int8Of(Len(t.inverse[ppn]))

\* For ppn # NoPpn; with NoPpn the function returns FAIL and does nothing.
INCREASE_INVERSE_MAPPING(t, ppn, lpn) ==
  [t EXCEPT !.inverse[ppn] =
     IF lpn_cnt(t, ppn) = 0 THEN <<lpn>> ELSE Append(@, lpn)]

\* The first node that holds lpn is unlinked.
DECREASE_INVERSE_MAPPING(t, ppn, lpn) ==
  [t EXCEPT !.inverse[ppn] = RemoveFirst(@, lpn)]

-----------------------------------------------------------------------------
(***************************************************************************)
(* UPDATE_BLOCK_STATE_ENTRY with VALID, INVALID, and 0 for all the pages   *)
(* of a superblock.  The recount of valid_page_nb at its end is the        *)
(* definition ValidPages below.                                            *)
(***************************************************************************)
EntryVALID(t, ppn) ==
  LET v == t.valid_array[ppn] IN
  IF v < 0 THEN t
  ELSE [t EXCEPT !.valid_array[ppn] = Int8Inc(v),
                 !.stat.ppn_free    = @ - If(v = 0),
                 !.stat.ppn_valid   = @ + If(v = 0),
                 !.stat.ppn_n21     = @ + If(v = 1),
                 !.stat.lpn_valid   = @ + 1]

\* Mutant of EntryINVALID: stat_ppn_n21 is not decremented.
EntryINVALIDStillShared(t, ppn) ==
  LET v == t.valid_array[ppn] IN
  IF v <= 0 THEN t
  ELSE [t EXCEPT !.valid_array[ppn] = IF v = 1 THEN -1 ELSE v - 1,
                 !.stat.ppn_invalid = @ + If(v = 1),
                 !.stat.ppn_valid   = @ - If(v = 1),
                 !.stat.lpn_valid   = @ - 1,
                 !.data[ppn]        = IF v = 1 THEN Blank ELSE @]

EntryINVALID(t, ppn) ==
  LET v == t.valid_array[ppn] IN
  IF v <= 0 THEN t
  ELSE [t EXCEPT !.valid_array[ppn] = IF v = 1 THEN -1 ELSE v - 1,
                 !.stat.ppn_invalid = @ + If(v = 1),
                 !.stat.ppn_valid   = @ - If(v = 1),
                 !.stat.ppn_n21     = @ - If(v = 2),
                 !.stat.lpn_valid   = @ - 1,
                 !.data[ppn]        = IF v = 1 THEN Blank ELSE @]

EraseSuperblock(t, b) ==
  LET va   == t.valid_array
      used == {p \in PagesOf(b) : va[p] > 0}
      inv  == {p \in PagesOf(b) : va[p] = -1}
      refs == UNION {{p} \X (1 .. va[p]) : p \in used}   \* sum of the counts
  IN  [t EXCEPT
         !.valid_array = [p \in PPN |-> IF p \in used \cup inv THEN 0 ELSE va[p]],
         !.data        = [p \in PPN |-> IF p \in used \cup inv THEN Blank ELSE @[p]],
         !.stat = [ppn_free    |-> @.ppn_free + Cardinality(used \cup inv),
                   ppn_valid   |-> @.ppn_valid - Cardinality(used),
                   ppn_invalid |-> @.ppn_invalid - Cardinality(inv),
                   ppn_n21     |-> @.ppn_n21
                                     - Cardinality({p \in used : va[p] > 1}),
                   lpn_valid   |-> @.lpn_valid - Cardinality(refs)]]

\* The sum of b_s_entry->valid_page_nb over the blocks of superblock b.
ValidPages(t, b) == Cardinality({p \in PagesOf(b) : t.valid_array[p] > 0})

-----------------------------------------------------------------------------
(***************************************************************************)
(* The mapping updates                                                     *)
(***************************************************************************)
\* Mutant of UPDATE_OLD_PAGE_MAPPING: the NVRAM entry is not invalidated.
UpdateOldForgetsNvram(t, lpn) ==
  LET old == t.mapping_table[lpn]
      u   == EntryINVALID(DECREASE_INVERSE_MAPPING(t, old, lpn), old)
  IN  IF old = NoPpn THEN t
      ELSE IF lpn_cnt(t, old) = 0 THEN t ELSE u

UPDATE_OLD_PAGE_MAPPING(t, lpn) ==
  LET old == t.mapping_table[lpn]
      u   == EntryINVALID(DECREASE_INVERSE_MAPPING(t, old, lpn), old)
  IN  IF old = NoPpn THEN t
      ELSE IF lpn_cnt(t, old) = 0 THEN t
      ELSE IF t.in_nvram[lpn] # 1 THEN u
      ELSE [u EXCEPT !.nv =
              INCREASE_INVALID_OOB_ENTRY_COUNT(@, CALC_BLOCK(old))]

UPDATE_NEW_PAGE_MAPPING(t, lpn, ppn) ==
  EntryVALID([INCREASE_INVERSE_MAPPING(t, ppn, lpn)
                EXCEPT !.mapping_table[lpn] = ppn], ppn)

\* UPDATE_OLD_PAGE_MAPPING followed by mapping_table[lpn] = -1.
Unmap(t, lpn) ==
  [UPDATE_OLD_PAGE_MAPPING(t, lpn) EXCEPT !.mapping_table[lpn] = NoPpn]

\* Mutant of Remap: the page that lpn had is given up before the new reference
\* is taken.
RemapReleasesFirst(t, ppn, lpn) ==
  LET a == UPDATE_OLD_PAGE_MAPPING(t, lpn)
      b == EntryVALID(INCREASE_INVERSE_MAPPING(a, ppn, lpn), ppn)
  IN  [b EXCEPT !.nv = AddEntry(@, CALC_BLOCK(ppn)),
                !.mapping_table[lpn] = ppn, !.in_nvram[lpn] = 1]

\* The body of every remapping branch: lpn becomes one more reference to ppn,
\* recorded in NVRAM, and gives up the page it had.
Remap(t, ppn, lpn) ==
  LET a == EntryVALID(INCREASE_INVERSE_MAPPING(t, ppn, lpn), ppn)
      b == [a EXCEPT !.nv = AddEntry(@, CALC_BLOCK(ppn))]
      c == UPDATE_OLD_PAGE_MAPPING(b, lpn)
  IN  [c EXCEPT !.mapping_table[lpn] = ppn, !.in_nvram[lpn] = 1]

\* The body of the ordinary write, after GET_NEW_PAGE has returned ppn.
Program(t, ppn, lpn, bytes) ==
  LET a == UPDATE_NEW_PAGE_MAPPING(UPDATE_OLD_PAGE_MAPPING(t, lpn), lpn, ppn)
  IN  [a EXCEPT !.in_nvram[lpn] = 0, !.data[ppn] = bytes]

\* What the host reads from lpn.
Contents(t, lpn) ==
  IF t.mapping_table[lpn] = NoPpn THEN Blank ELSE t.data[t.mapping_table[lpn]]
=============================================================================

-------------------------------- MODULE Ftl --------------------------------
(***************************************************************************)
(* The flash translation layer: host writes, remapping operations and      *)
(* discards (_FTL_WRITE, SSD_REMAP, femu_discard_process), the allocation  *)
(* of NVRAM for remapping entries (USE_REMAP, NVRAM_OOB_GC), and the       *)
(* garbage collection of superblocks (GC_CHECK, SB_GARBAGE_COLLECTION).    *)
(*                                                                         *)
(* The whole submission path runs in one thread, so a request is a forced  *)
(* sequence of steps: pc says which loop of the code is being executed,    *)
(* one step is one iteration of it, and nothing else can happen until pc   *)
(* is "idle" again.                                                        *)
(***************************************************************************)
EXTENDS BlockPool, FtlTables

CONSTANTS GC_THRESHOLD_BLOCK_NB,  \* blocks that GC_CHECK keeps empty
          Writes,                 \* <<lpn, n>>: ranges the host writes
          WriteFlags,             \* flags it gives to the pages it writes
          Remaps,                 \* <<src, dst, n, ope>>: remappings it asks for
          Discards                \* <<lpn, n>>: ranges it discards

VARIABLES tab,          \* the FTL tables
          pool,         \* the superblock lists and the allocator
          pc,           \* the loop being executed
          todo,         \* page operations of the request still to do
          kind,         \* "write" or "remap": where GC_CHECK returns to
          new_ppn,      \* the local new_ppn of _FTL_WRITE
          count,        \* the local count of USE_REMAP
          gc            \* the locals of SB_GARBAGE_COLLECTION

vars == <<tab, pool, pc, todo, kind, new_ppn, count, gc>>

-----------------------------------------------------------------------------
(***************************************************************************)
(* Requests.  The flags are those of common.h; TRIM marks the pages of a   *)
(* discard, and the discard of the source page of a move.                  *)
(***************************************************************************)
TRIM         == 1
REMAP_CKPT   == 2
REMAP_COPY   == 3
REMAP_MOVE   == 4
WAL_WRITE    == 100
CP_WRITE     == 102
DEDUP_WRITE  == 103
FS_GC_WRITE  == 104

Hinted       == {CP_WRITE, DEDUP_WRITE, FS_GC_WRITE}
RemapOpe     == {REMAP_CKPT, REMAP_COPY, REMAP_MOVE}
HostFlags    == {0, WAL_WRITE, WAL_WRITE + 1} \cup Hinted

\* The sector range lies within the device; otherwise a write or a discard
\* returns FAIL before it changes anything.  SSD_REMAP does not check its
\* ranges: the host is assumed to.
Fits(lpn, n) == lpn + n <= LPN_NB

ASSUME FtlAssumption ==
          /\ GC_THRESHOLD_BLOCK_NB \in Nat
          /\ WriteFlags \subseteq HostFlags
          /\ Writes \subseteq LPN \X Nat /\ Discards \subseteq LPN \X Nat
          /\ Remaps \subseteq LPN \X LPN \X Nat \X RemapOpe
          /\ \A r \in Remaps : Fits(r[1], r[3]) /\ Fits(r[2], r[3])

\* An operation on one page; a hinted write and a remapping name a source.
PageOp == [flag : (HostFlags \ Hinted) \cup {TRIM}, lpn : LPN,
           h_lpn : {-1}, val : Bytes]
            \cup [flag : Hinted \cup RemapOpe \cup {TRIM}, lpn : LPN,
                  h_lpn : LPN, val : Bytes]

\* What request1->lpns_info says of a page, and the data written to it.
Hint == [flag : WriteFlags \ Hinted, h_lpn : {-1}, val : Data]
          \cup [flag : WriteFlags \cap Hinted, h_lpn : LPN, val : Data]

TypeOK ==
  /\ tab \in TabType
  /\ pool \in PoolType
  /\ pc \in {"idle", "page", "use_remap", "program", "gc", "copy", "fault", "spin"}
  /\ todo \in Seq(PageOp)
  /\ kind \in {"write", "remap"}
  /\ new_ppn \in PPN \cup {NoPpn}
  /\ count \in 0 .. BLOCK_NB + 1
  /\ gc \in [victim : SuperBlock \cup {NoBlock}, old : PPN \cup {NoPpn},
             new : PPN \cup {NoPpn}, oob_write : {0, 1}]

NoGc == [victim |-> NoBlock, old |-> NoPpn, new |-> NoPpn, oob_write |-> 0]

Init == /\ tab = InitTab
        /\ pool = InitPool
        /\ pc = "idle" /\ todo = << >> /\ kind = "write"
        /\ new_ppn = NoPpn /\ count = 0 /\ gc = NoGc

-----------------------------------------------------------------------------
(***************************************************************************)
(* The three kinds of requests that change the tables.                     *)
(***************************************************************************)
Accept(k, ops) ==
  /\ pc = "idle" /\ pc' = "page"
  /\ kind' = k /\ todo' = ops /\ new_ppn' = NoPpn
  /\ UNCHANGED <<tab, pool, count, gc>>

FTL_WRITE(lpn, n, hint) ==
  /\ Fits(lpn, n)
  /\ Accept("write", [i \in 1 .. n |->
                        [flag |-> hint[i].flag, lpn |-> lpn + i - 1,
                         h_lpn |-> hint[i].h_lpn, val |-> hint[i].val]])

SSD_REMAP(src, dst, n, ope) ==
  Accept("remap", [i \in 1 .. n |->
                        [flag |-> ope, lpn |-> dst + i - 1,
                         h_lpn |-> src + i - 1, val |-> Blank]])

femu_discard_process(lpn, n) ==
  /\ Fits(lpn, n)
  /\ Accept("remap", [i \in 1 .. n |->
                        [flag |-> TRIM, lpn |-> lpn + i - 1,
                         h_lpn |-> -1, val |-> Blank]])

-----------------------------------------------------------------------------
(***************************************************************************)
(* One page of a request.                                                  *)
(***************************************************************************)
op == Head(todo)

\* The physical page the hint or the source names.  A write ignores the hint
\* that names logical page 0.
SourcePpn ==
  IF op.flag \in RemapOpe \/ op.h_lpn > 0
    THEN tab.mapping_table[op.h_lpn] ELSE NoPpn

TriesRemap ==
  op.flag \in RemapOpe \/ (op.flag \in Hinted /\ SourcePpn # NoPpn)

AtPage == pc = "page" /\ todo # << >>

\* Mutant of NextPage: the count of USE_REMAP is kept from call to call.
NextPageKeepsCount == pc' = "page" /\ todo' = Tail(todo) /\ UNCHANGED count

NextPage == pc' = "page" /\ todo' = Tail(todo) /\ count' = 0

\* The request returns; its locals are gone.
Return == pc' = "idle" /\ todo' = << >> /\ kind' = "write" /\ new_ppn' = NoPpn

\* UPDATE_OLD_PAGE_MAPPING; mapping_table[lpn] = -1.
DiscardPage ==
  /\ AtPage /\ op.flag = TRIM
  /\ tab' = Unmap(tab, op.lpn)
  /\ NextPage
  /\ UNCHANGED <<pool, kind, new_ppn, gc>>

\* The remapping branches and SSD_REMAP call USE_REMAP first.
CallUseRemap ==
  /\ AtPage /\ op.flag # TRIM /\ TriesRemap
  /\ pc' = "use_remap"
  /\ UNCHANGED <<tab, pool, todo, kind, new_ppn, count, gc>>

\* USE_REMAP returns SUCCESS and the page is remapped: the destination becomes
\* one more reference to the source page, and a move drops the source.  When
\* the source is not mapped INCREASE_INVERSE_MAPPING fails and nothing is done.
RemapPage ==
  /\ pc = "use_remap" /\ count <= BLOCK_NB
  /\ RoomForEntry(tab.nv, CALC_BLOCK(SourcePpn))
  /\ tab' = IF SourcePpn = NoPpn THEN tab
            ELSE LET r == Remap(tab, SourcePpn, op.lpn)
                 IN  IF op.flag \in {FS_GC_WRITE, REMAP_MOVE}
                       THEN Unmap(r, op.h_lpn) ELSE r
  /\ NextPage
  /\ UNCHANGED <<pool, kind, new_ppn, gc>>

\* One iteration of USE_REMAP that collects NVRAM.
Collects == /\ count <= BLOCK_NB
            /\ ~RoomForEntry(tab.nv, CALC_BLOCK(SourcePpn))
            /\ WorthCollecting(tab.nv)

CollectNvram ==
  /\ pc = "use_remap" /\ Collects
  /\ tab' = [tab EXCEPT !.nv = NVRAM_OOB_GC(@)]
  /\ count' = count + 1
  /\ UNCHANGED <<pool, pc, todo, kind, new_ppn, gc>>

\* Mutant of RefuseRemap: the page is tried again instead.
RefuseRemapRetries ==
  /\ pc = "use_remap" /\ ~Collects
  /\ count <= BLOCK_NB => ~RoomForEntry(tab.nv, CALC_BLOCK(SourcePpn))
  /\ pc' = "page" /\ count' = 0
  /\ UNCHANGED <<tab, pool, todo, kind, new_ppn, gc>>

\* USE_REMAP returns FAIL: the page is written instead.
RefuseRemap ==
  /\ pc = "use_remap" /\ ~Collects
  /\ count <= BLOCK_NB => ~RoomForEntry(tab.nv, CALC_BLOCK(SourcePpn))
  /\ pc' = "program"
  /\ UNCHANGED <<tab, pool, todo, kind, new_ppn, count, gc>>

\* The data of the page: a hint or a source names a page with the same data.
PageBytes ==
  IF op.flag \in RemapOpe THEN Contents(tab, op.h_lpn)
  ELSE IF op.flag \in Hinted /\ Contents(tab, op.h_lpn) # Blank
    THEN Contents(tab, op.h_lpn)
  ELSE op.val

\* Mutant of AfterNested: the source of a move is kept.
AfterNestedKeepsSource == Tail(todo)

\* SSD_REMAP writes the page with a nested _FTL_WRITE, which ends with its own
\* GC_CHECK; the source of a move is discarded after that.
AfterNested ==
  IF op.flag = REMAP_MOVE
    THEN <<[op EXCEPT !.flag = TRIM, !.lpn = op.h_lpn]>> \o Tail(todo)
    ELSE Tail(todo)

AfterProgram(ppn) ==
  IF kind = "write"
    THEN pc' = "page" /\ todo' = Tail(todo) /\ new_ppn' = ppn /\ UNCHANGED kind
    ELSE /\ pc' = IF ppn > 0 THEN "gc" ELSE "page"
         /\ todo' = AfterNested
         /\ UNCHANGED <<kind, new_ppn>>

\* GET_NEW_PAGE returned FAIL: a write gives up, while SSD_REMAP does not look
\* at the result of the nested write.  It may also not return at all.
AfterFailure(ret) ==
  IF ret # "fail" THEN pc' = ret /\ UNCHANGED <<todo, kind, new_ppn>>
  ELSE IF kind = "write" THEN Return
  ELSE pc' = "page" /\ todo' = AfterNested /\ UNCHANGED <<kind, new_ppn>>

\* The ordinary write of one page, to a page GET_NEW_PAGE returns.
ProgramPage ==
  LET g == GET_NEW_PAGE(pool) IN
  /\ \/ pc = "program"
     \/ AtPage /\ op.flag # TRIM /\ ~TriesRemap
  /\ pool' = g.pool /\ count' = 0
  /\ IF g.ret = "success"
       THEN tab' = Program(tab, g.ppn, op.lpn, PageBytes) /\ AfterProgram(g.ppn)
       ELSE UNCHANGED tab /\ AfterFailure(g.ret)
  /\ UNCHANGED gc

\* The end of the request.  A write calls GC_CHECK if new_ppn > 0.
EndRequest ==
  /\ pc = "page" /\ todo = << >>
  /\ IF kind = "write" /\ new_ppn > 0
       THEN pc' = "gc" /\ UNCHANGED <<todo, kind, new_ppn>>
       ELSE Return
  /\ UNCHANGED <<tab, pool, count, gc>>

-----------------------------------------------------------------------------
(***************************************************************************)
(* Garbage collection of superblocks.                                      *)
(***************************************************************************)
\* Mutant of GcNeeded: only the blocks are counted.
GcNeededByBlocks == pool.total_empty < GC_THRESHOLD_BLOCK_NB

GcNeeded == \/ pool.total_empty < GC_THRESHOLD_BLOCK_NB
            \/ tab.stat.ppn_free < GC_THRESHOLD_BLOCK_NB * PAGE_NB

\* SELECT_VICTIM_SUPERBLOCK: the first victim with fewest valid pages, unless
\* every page of every victim is valid.
VictimPages(i) == ValidPages(tab, pool.victim[i])

Victims == {i \in 1 .. Len(pool.victim) :
              /\ VictimPages(i) < FLASH_NB * PAGE_NB
              /\ \A j \in 1 .. Len(pool.victim) :
                   /\ VictimPages(i) <= VictimPages(j)
                   /\ j < i => VictimPages(i) < VictimPages(j)}

SelectFails == pool.total_victim = 0 \/ Victims = {}

\* GC_CHECK returns to the end of a write, or into the loop of SSD_REMAP.
AfterGc == IF kind = "write" THEN Return
                             ELSE pc' = "page" /\ UNCHANGED <<todo, kind, new_ppn>>

\* The loop of GC_CHECK ends, or SB_GARBAGE_COLLECTION finds no victim.
GcDone ==
  /\ pc = "gc" /\ (GcNeeded => SelectFails)
  /\ AfterGc
  /\ UNCHANGED <<tab, pool, count, gc>>

\* The victim leaves the victim lists and its NVRAM segments are released.
GcStart ==
  /\ pc = "gc" /\ GcNeeded /\ ~SelectFails
  /\ \E i \in Victims :
       /\ pool' = EjectVictim(pool, i)
       /\ tab' = [tab EXCEPT !.nv = ReleaseSegs(@, pool.victim[i])]
       /\ gc' = [NoGc EXCEPT !.victim = pool.victim[i]]
  /\ pc' = "copy"
  /\ UNCHANGED <<todo, kind, new_ppn, count>>

\* The page being copied has no sharer left to move; valid pages after it.
PageMoved == gc.old # NoPpn => tab.inverse[gc.old] = << >>

StillValid == {p \in PagesOf(gc.victim) : p > gc.old /\ tab.valid_array[p] > 0}

NextValid == CHOOSE p \in StillValid : \A q \in StillValid : p <= q

\* GET_NEW_PAGE for the next valid page of the victim.
GcTakePage ==
  LET g == GET_NEW_PAGE(pool) IN
  /\ pc = "copy" /\ PageMoved /\ StillValid # {}
  /\ pool' = g.pool
  /\ gc' = CASE g.ret = "success" -> [gc EXCEPT !.old = NextValid, !.new = g.ppn,
                                                !.oob_write = 0]
             [] g.ret = "fail"    -> NoGc
             [] OTHER             -> gc
  /\ CASE g.ret = "success" -> UNCHANGED <<pc, todo, kind, new_ppn>>
       [] g.ret = "fail"    -> AfterGc
       [] OTHER             -> pc' = g.ret /\ UNCHANGED <<todo, kind, new_ppn>>
  /\ UNCHANGED <<tab, count>>

\* The last sharer of the old page is moved to the new page.  The first one
\* moved is recorded in the flash OOB, the others in NVRAM.
GcMoveSharer ==
  LET lpn == Last(tab.inverse[gc.old])
      t   == UPDATE_NEW_PAGE_MAPPING(DECREASE_INVERSE_MAPPING(tab, gc.old, lpn),
                                     lpn, gc.new)
      u   == [t EXCEPT !.data[gc.new] = tab.data[gc.old]]
  IN
  /\ pc = "copy" /\ ~PageMoved
  /\ tab' = IF gc.oob_write = 0
              THEN [u EXCEPT !.in_nvram[lpn] = 0]
              ELSE [u EXCEPT !.in_nvram[lpn] = 1,
                             !.nv = AddEntry(@, CALC_BLOCK(gc.new))]
  /\ gc' = [gc EXCEPT !.oob_write = 1]
  /\ UNCHANGED <<pool, pc, todo, kind, new_ppn, count>>

\* All valid pages are copied: the superblock is erased and becomes empty.
GcErase ==
  /\ pc = "copy" /\ PageMoved /\ StillValid = {}
  /\ tab' = EraseSuperblock(tab, gc.victim)
  /\ pool' = InsertEmpty(pool, gc.victim)
  /\ gc' = NoGc /\ pc' = "gc"
  /\ UNCHANGED <<todo, kind, new_ppn, count>>

-----------------------------------------------------------------------------
Host ==
  \/ \E w \in Writes : \E hint \in [1 .. w[2] -> Hint] : FTL_WRITE(w[1], w[2], hint)
  \/ \E r \in Remaps : SSD_REMAP(r[1], r[2], r[3], r[4])
  \/ \E d \in Discards : femu_discard_process(d[1], d[2])

Ssd == \/ DiscardPage \/ CallUseRemap \/ RemapPage \/ CollectNvram
       \/ RefuseRemap \/ ProgramPage \/ EndRequest
       \/ GcDone \/ GcStart \/ GcTakePage \/ GcMoveSharer \/ GcErase

Next == Host \/ Ssd

Spec == Init /\ [][Next]_vars

\* The thread that runs the FTL keeps running once it has taken a request: weak
\* fairness of Ssd, which is enabled exactly in the states that are not Halted
\* and is the only action that is.
Halted == pc \in {"idle", "fault", "spin"}

FairSpec == Spec /\ ([]<>Halted \/ []<><<~Halted>>_vars)

-----------------------------------------------------------------------------
(***************************************************************************)
(* Safety                                                                  *)
(***************************************************************************)
\* The logical pages mapped to p.
Sharers(p) == {l \in LPN : tab.mapping_table[l] = p}

Collecting(p) == gc.victim # NoBlock /\ CALC_BLOCK(p) = gc.victim

\* The inverse list of a physical page holds exactly the logical pages that
\* map to it, each once, and its reference count in valid_array is their
\* number; only the pages of the superblock under collection may keep the
\* count they had.  DECREASE_INVERSE_MAPPING relies on it: it dereferences
\* NULL when the logical page is not in the list.
MappingConsistent ==
  \A p \in PPN :
    /\ ToSet(tab.inverse[p]) = Sharers(p)
    /\ IsInjective(tab.inverse[p])
    /\ \/ Collecting(p)
       \/ tab.valid_array[p] > 0 /\ tab.valid_array[p] = Len(tab.inverse[p])
       \/ tab.valid_array[p] \in {-1, 0} /\ tab.inverse[p] = << >>

\* The comment on valid_array says "ref cnt, -1: invalid, 0: free": a page that
\* logical pages map to has their number there, however many they are.
RefcountExact ==
  \A p \in PPN : Collecting(p) \/ Sharers(p) = {}
                  \/ tab.valid_array[p] = Cardinality(Sharers(p))

\* A page that GET_NEW_PAGE has not handed out since the last erase is free
\* and nothing refers to it, so that no page is programmed twice between two
\* erases and no page still in use is handed out.
UnwrittenFree ==
  \A p \in Unwritten(pool) :
    tab.valid_array[p] = 0 /\ tab.inverse[p] = << >> /\ p # gc.old

\* No superblock is lost or in two places, and the block totals that trigger
\* and bound the collection are exact, also in the middle of a collection.
SuperblocksPartitioned == Partitioned(pool, gc.victim)

\* The logical pages of superblock b that are recorded in NVRAM.
InNvram(b) == {l \in LPN : /\ tab.mapping_table[l] # NoPpn
                           /\ CALC_BLOCK(tab.mapping_table[l]) = b
                           /\ tab.in_nvram[l] = 1}

\* The live NVRAM entries of a superblock are exactly the logical pages mapped
\* into it that in_nvram says are recorded there, and the three totals USE_REMAP
\* decides on are the sums over the superblocks.
NvramAccounting ==
  LET sum(F(_)) == MapThenSumSet(LAMBDA b : F(tab.nv.seg[b]), SuperBlock) IN
  /\ \A b \in SuperBlock \ {gc.victim} :
       LET s == tab.nv.seg[b] IN
       /\ Live(s) = Cardinality(InNvram(b))
       /\ s.free_entry \in 0 .. OOB_ENTRY_PER_SEG - 1 /\ s.invalid_entry >= 0
  /\ tab.nv.total_alloc_seg = sum(LAMBDA s : s.alloc_seg)
  /\ tab.nv.total_OOB_entry = sum(Entries)
  /\ tab.nv.total_invalid_entry = sum(LAMBDA s : s.invalid_entry)

\* The loop of USE_REMAP ends by itself: it collects no superblock twice, so the
\* bound count <= BLOCK_NB on its iterations is never what ends it.
CollectionBounded ==
  pc = "use_remap" =>
    count + Cardinality({b \in SuperBlock : tab.nv.seg[b].invalid_entry > 0}) <= BLOCK_NB

\* Remapping never takes more than the TOTAL_OOB_SEG segments there are: what
\* NVRAM_OOB_GC writes back fits in what it released, and USE_REMAP allows a
\* new segment only below the limit.  Flash collection is the exception.
RemapWithinNvram ==
  [][/\ pc # "copy"
     /\ tab.nv.total_alloc_seg <= TOTAL_OOB_SEG
     => tab'.nv.total_alloc_seg <= TOTAL_OOB_SEG]_vars

\* The segments in use never exceed the NVRAM there is.
NvramCapacity == tab.nv.total_alloc_seg <= TOTAL_OOB_SEG

\* The page statistics, which trigger the collection, count the pages: free,
\* valid, invalid and shared ones, and the logical pages that are mapped.
StatsExact ==
  LET n(P(_)) == Cardinality({p \in PPN : P(tab.valid_array[p])}) IN
  /\ tab.stat.ppn_free    = n(LAMBDA v : v = 0)
  /\ tab.stat.ppn_valid   = n(LAMBDA v : v > 0)
  /\ tab.stat.ppn_invalid = n(LAMBDA v : v < 0)
  /\ tab.stat.ppn_n21     = n(LAMBDA v : v > 1)
  /\ gc.victim = NoBlock =>
       tab.stat.lpn_valid = Cardinality({l \in LPN : tab.mapping_table[l] # NoPpn})

\* GET_NEW_PAGE never fails its own order check and never loops: it takes a page
\* or, when there is no superblock left, dereferences NULL.
AllocatorSound ==
  pc # "spin" /\ GET_NEW_PAGE(pool).ret \in {"success", "fault"}

\* The collection keeps GET_NEW_PAGE from running out of superblocks, in a write
\* and while it copies, as long as the host leaves enough space unused.
NeverExhausted == pc # "fault"

\* The FTL implements the logical store: requests are applied page by page, and
\* neither garbage collection nor NVRAM collection nor the way a page is written
\* shows in what the host reads.
Store == INSTANCE LogicalStore WITH
           store <- [l \in LPN |-> Contents(tab, l)], pending <- todo,
           Request <- Seq(PageOp), Releasing <- {FS_GC_WRITE},
           Copying <- RemapOpe, Moving <- {REMAP_MOVE}

ImplementsStore == Store!Spec

(***************************************************************************)
(* Liveness                                                                *)
(***************************************************************************)
\* Every request ends: the loops of USE_REMAP, GC_CHECK and
\* SB_GARBAGE_COLLECTION all terminate.
RequestsEnd == pc # "idle" ~> pc = "idle"
=============================================================================

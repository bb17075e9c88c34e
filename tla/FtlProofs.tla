----------------------------- MODULE FtlProofs -----------------------------
(***************************************************************************)
(* Theorems about the FTL for every geometry, every number of logical      *)
(* pages and every set of host requests.                                   *)
(*                                                                         *)
(* Structure is an inductive invariant of Spec: the types, the lists of    *)
(* superblocks and the turns of the flashes, and what the locals may be at *)
(* each place of the code.                                                 *)
(***************************************************************************)
EXTENDS Ftl, BlockPoolProofs, FtlTablesProofs

Structure ==
  /\ TypeOK /\ PoolInv(pool, gc.victim)
  /\ pc # "spin"
  /\ pc \in {"use_remap", "program"} => todo # << >>
  /\ pc = "copy" => gc.victim # NoBlock
  /\ pc \notin {"copy", "fault"} => gc = NoGc
  /\ gc.old # NoPpn => gc.new # NoPpn

-----------------------------------------------------------------------------
(***************************************************************************)
(* Requests                                                                *)
(***************************************************************************)
LEMMA OpFields ==
  ASSUME NEW o \in PageOp
  PROVE  /\ o.lpn \in LPN /\ o.val \in Bytes /\ o.h_lpn \in LPN \cup {-1}
         /\ o.flag \in Hinted \cup RemapOpe => o.h_lpn \in LPN
         /\ o.h_lpn \in LPN => [o EXCEPT !.flag = TRIM, !.lpn = o.h_lpn] \in PageOp
<1>1. CASE o \in [flag : (HostFlags \ Hinted) \cup {TRIM}, lpn : LPN,
                 h_lpn : {-1}, val : Bytes]
  <2>1. o.flag \notin Hinted \cup RemapOpe
    BY <1>1 DEF HostFlags, Hinted, RemapOpe, CP_WRITE, DEDUP_WRITE, FS_GC_WRITE,
                REMAP_CKPT, REMAP_COPY, REMAP_MOVE, TRIM, WAL_WRITE
  <2>2. o.h_lpn \notin LPN
    BY <1>1 DEF LPN
  <2> QED BY <1>1, <2>1, <2>2
<1>2. CASE o \in [flag : Hinted \cup RemapOpe \cup {TRIM}, lpn : LPN,
                 h_lpn : LPN, val : Bytes]
  BY <1>2 DEF PageOp
<1> QED BY <1>1, <1>2 DEF PageOp

LEMMA RequestSeq ==
  ASSUME NEW n \in Nat, NEW f, f \in [1 .. n -> PageOp]
  PROVE  f \in Seq(PageOp)
OBVIOUS

\* The state with the variables that Accept changes.
LEMMA AcceptStructure ==
  ASSUME Structure, NEW k \in {"write", "remap"}, NEW ops \in Seq(PageOp), Accept(k, ops)
  PROVE  Structure'
<1>1. NoPpn \in PPN \cup {NoPpn}
  OBVIOUS
<1>2. TypeOK'
  BY <1>1 DEF Structure, TypeOK, Accept
<1>3. PoolInv(pool, gc.victim)'
  BY DEF Structure, Accept
<1> QED BY <1>2, <1>3 DEF Structure, Accept

LEMMA HostStructure ==
  ASSUME Structure, Host
  PROVE  Structure'
<1> USE FtlAssumption, TablesAssumption
<1>1. ASSUME NEW w \in Writes, NEW hint \in [1 .. w[2] -> Hint],
             FTL_WRITE(w[1], w[2], hint)
      PROVE  Structure'
  <2> DEFINE n == w[2]
             Op(i) == [flag |-> hint[i].flag, lpn |-> w[1] + i - 1,
                       h_lpn |-> hint[i].h_lpn, val |-> hint[i].val]
             ops == [i \in 1 .. n |-> Op(i)]
  <2>1. w[1] \in LPN /\ n \in Nat /\ w[1] + n <= LPN_NB
    BY <1>1 DEF FTL_WRITE, Fits
  <2>2. ASSUME NEW i \in 1 .. n PROVE Op(i) \in PageOp
    <3>1. hint[i] \in Hint
      BY <1>1, <2>2
    <3>2. w[1] + i - 1 \in LPN
      BY <2>1, <2>2 DEF LPN
    <3>3. Data \subseteq Bytes
      BY DEF Bytes
    <3>4. CASE hint[i] \in [flag : WriteFlags \ Hinted, h_lpn : {-1}, val : Data]
      BY <3>2, <3>3, <3>4 DEF PageOp
    <3>5. CASE hint[i] \in [flag : WriteFlags \cap Hinted, h_lpn : LPN, val : Data]
      BY <3>2, <3>3, <3>5 DEF PageOp
    <3> QED BY <3>1, <3>4, <3>5 DEF Hint
  <2>3. ops \in [1 .. n -> PageOp]
    BY <2>2
  <2>4. Accept("write", ops)
    BY <1>1 DEF FTL_WRITE
  <2> HIDE DEF ops, n
  <2>5. ops \in Seq(PageOp)
    BY <2>1, <2>3, RequestSeq
  <2> QED BY <2>4, <2>5, AcceptStructure
<1>2. ASSUME NEW r \in Remaps, SSD_REMAP(r[1], r[2], r[3], r[4])
      PROVE  Structure'
  <2> DEFINE n == r[3]
             Op(i) == [flag |-> r[4], lpn |-> r[2] + i - 1,
                       h_lpn |-> r[1] + i - 1, val |-> Blank]
             ops == [i \in 1 .. n |-> Op(i)]
  <2>1. /\ r[1] \in LPN /\ r[2] \in LPN /\ n \in Nat /\ r[4] \in RemapOpe
        /\ r[1] + n <= LPN_NB /\ r[2] + n <= LPN_NB
    BY DEF Fits
  <2>2. ASSUME NEW i \in 1 .. n PROVE Op(i) \in PageOp
    <3>1. r[1] + i - 1 \in LPN /\ r[2] + i - 1 \in LPN
      BY <2>1, <2>2 DEF LPN
    <3>2. Blank \in Bytes
      BY DEF Bytes
    <3> QED BY <2>1, <3>1, <3>2 DEF PageOp
  <2>3. ops \in [1 .. n -> PageOp]
    BY <2>2
  <2>4. Accept("remap", ops)
    BY <1>2 DEF SSD_REMAP
  <2> HIDE DEF ops, n
  <2>5. ops \in Seq(PageOp)
    BY <2>1, <2>3, RequestSeq
  <2> QED BY <2>4, <2>5, AcceptStructure
<1>3. ASSUME NEW d \in Discards, femu_discard_process(d[1], d[2])
      PROVE  Structure'
  <2> DEFINE n == d[2]
             Op(i) == [flag |-> TRIM, lpn |-> d[1] + i - 1, h_lpn |-> -1, val |-> Blank]
             ops == [i \in 1 .. n |-> Op(i)]
  <2>1. d[1] \in LPN /\ n \in Nat /\ d[1] + n <= LPN_NB
    BY <1>3 DEF femu_discard_process, Fits
  <2>2. ASSUME NEW i \in 1 .. n PROVE Op(i) \in PageOp
    <3>1. d[1] + i - 1 \in LPN
      BY <2>1, <2>2 DEF LPN
    <3>2. Blank \in Bytes
      BY DEF Bytes
    <3> QED BY <3>1, <3>2 DEF PageOp
  <2>3. ops \in [1 .. n -> PageOp]
    BY <2>2
  <2>4. Accept("remap", ops)
    BY <1>3 DEF femu_discard_process
  <2> HIDE DEF ops, n
  <2>5. ops \in Seq(PageOp)
    BY <2>1, <2>3, RequestSeq
  <2> QED BY <2>4, <2>5, AcceptStructure
<1> QED BY <1>1, <1>2, <1>3 DEF Host

-----------------------------------------------------------------------------
(***************************************************************************)
(* The page operations                                                     *)
(***************************************************************************)
\* The operation being executed.
LEMMA OpInRequest ==
  ASSUME TypeOK, todo # << >>
  PROVE  op \in PageOp /\ Tail(todo) \in Seq(PageOp)
BY DEF TypeOK, op

\* A step that only changes the tables and goes to the next page.
LEMMA NextPageStructure ==
  ASSUME Structure, pc \in {"page", "use_remap"}, todo # << >>,
         tab' \in TabType, NextPage, UNCHANGED <<pool, kind, new_ppn, gc>>
  PROVE  Structure'
<1>1. Tail(todo) \in Seq(PageOp)
  BY OpInRequest DEF Structure
<1>2. 0 \in 0 .. BLOCK_NB + 1
  BY GeometryAssumption
<1>3. TypeOK'
  BY <1>1, <1>2 DEF Structure, TypeOK, NextPage
<1>4. PoolInv(pool, gc.victim)'
  BY DEF Structure
<1>5. gc = NoGc
  BY DEF Structure
<1> QED BY <1>3, <1>4, <1>5 DEF Structure, NextPage, NoGc, NoPpn

\* The source of an operation.
LEMMA SourceType ==
  ASSUME Structure, todo # << >>
  PROVE  SourcePpn \in PPN \cup {NoPpn}
<1>1. op.h_lpn \in LPN \cup {-1} /\ (op.flag \in RemapOpe => op.h_lpn \in LPN)
  BY OpInRequest, OpFields DEF Structure
<1>2. tab.mapping_table \in [LPN -> PPN \cup {NoPpn}]
  BY TabFields DEF Structure, TypeOK
<1> QED BY <1>1, <1>2 DEF SourcePpn

LEMMA ContentsType ==
  ASSUME NEW t \in TabType, NEW l \in LPN
  PROVE  Contents(t, l) \in Bytes
<1>1. t.mapping_table[l] \in PPN \cup {NoPpn} /\ t.data \in [PPN -> Bytes]
  BY TabFields
<1> QED BY <1>1 DEF Contents, Bytes

LEMMA DiscardStructure ==
  ASSUME Structure, DiscardPage
  PROVE  Structure'
<1>1. op.lpn \in LPN /\ tab \in TabType
  BY OpInRequest, OpFields DEF DiscardPage, AtPage, Structure, TypeOK
<1>2. tab' \in TabType
  BY <1>1, UnmapEffect DEF DiscardPage
<1> QED BY <1>2, NextPageStructure DEF DiscardPage, AtPage

LEMMA RemapStructure ==
  ASSUME Structure, RemapPage
  PROVE  Structure'
<1> DEFINE s == SourcePpn
           r == Remap(tab, s, op.lpn)
<1>1. /\ todo # << >> /\ pc = "use_remap" /\ tab \in TabType
  BY DEF RemapPage, Structure, TypeOK
<1>2. /\ op.lpn \in LPN /\ s \in PPN \cup {NoPpn}
      /\ op.flag \in Hinted \cup RemapOpe => op.h_lpn \in LPN
  BY <1>1, OpInRequest, OpFields, SourceType DEF Structure
<1>3. tab' = IF s = NoPpn THEN tab
             ELSE IF op.flag \in {FS_GC_WRITE, REMAP_MOVE} THEN Unmap(r, op.h_lpn) ELSE r
  BY DEF RemapPage
<1>4. op.flag \in {FS_GC_WRITE, REMAP_MOVE} => op.flag \in Hinted \cup RemapOpe
  BY DEF Hinted, RemapOpe
<1> HIDE DEF s
<1>5. s # NoPpn => r \in TabType
  BY <1>1, <1>2, RemapEffect
<1> HIDE DEF r
<1>6. s # NoPpn /\ op.h_lpn \in LPN => Unmap(r, op.h_lpn) \in TabType
  BY <1>5, UnmapEffect
<1>7. tab' \in TabType
  BY <1>1, <1>2, <1>3, <1>4, <1>5, <1>6
<1> QED BY <1>1, <1>7, NextPageStructure DEF RemapPage

\* The steps that decide between remapping and writing.
LEMMA DecideStructure ==
  ASSUME Structure, CallUseRemap \/ CollectNvram \/ RefuseRemap
  PROVE  Structure'
<1>1. CASE CallUseRemap
  <2>1. TypeOK'
    BY <1>1 DEF Structure, TypeOK, CallUseRemap
  <2>2. PoolInv(pool, gc.victim)'
    BY <1>1 DEF Structure, CallUseRemap
  <2> QED BY <1>1, <2>1, <2>2 DEF Structure, CallUseRemap, AtPage
<1>2. CASE CollectNvram
  <2> DEFINE n == NVRAM_OOB_GC(tab.nv)
  <2>1. tab \in TabType /\ tab' = [tab EXCEPT !.nv = n]
    BY <1>2 DEF Structure, TypeOK, CollectNvram
  <2>2. n \in NvType
    BY <2>1, TabFields, NvramGcType
  <2> HIDE DEF n
  <2>3. tab' \in TabType
    BY <2>1, <2>2 DEF TabType
  <2>4. count' \in 0 .. BLOCK_NB + 1
    BY <1>2, GeometryAssumption DEF Structure, TypeOK, CollectNvram, Collects
  <2>5. TypeOK'
    BY <1>2, <2>3, <2>4 DEF Structure, TypeOK, CollectNvram
  <2>6. PoolInv(pool, gc.victim)'
    BY <1>2 DEF Structure, CollectNvram
  <2> QED BY <1>2, <2>5, <2>6 DEF Structure, CollectNvram
<1>3. CASE RefuseRemap
  <2>1. TypeOK'
    BY <1>3 DEF Structure, TypeOK, RefuseRemap
  <2>2. PoolInv(pool, gc.victim)'
    BY <1>3 DEF Structure, RefuseRemap
  <2> QED BY <1>3, <2>1, <2>2 DEF Structure, RefuseRemap
<1> QED BY <1>1, <1>2, <1>3

LEMMA AfterNestedType ==
  ASSUME TypeOK, todo # << >>
  PROVE  AfterNested \in Seq(PageOp)
<1> DEFINE x == [op EXCEPT !.flag = TRIM, !.lpn = op.h_lpn]
           t == Tail(todo)
<1>1. op \in PageOp /\ t \in Seq(PageOp)
  BY OpInRequest
<1>2. op.flag = REMAP_MOVE => x \in PageOp
  BY <1>1, OpFields DEF RemapOpe
<1> HIDE DEF x, t
<1>3. x \in PageOp => <<x>> \o t \in Seq(PageOp)
  BY <1>1
<1> QED BY <1>1, <1>2, <1>3 DEF AfterNested, x, t

\* The data that is written.
LEMMA PageBytesType ==
  ASSUME TypeOK, todo # << >>
  PROVE  PageBytes \in Bytes
<1>1. op \in PageOp /\ tab \in TabType
  BY OpInRequest DEF TypeOK
<1>2. op.val \in Bytes /\ (op.flag \in Hinted \cup RemapOpe => op.h_lpn \in LPN)
  BY <1>1, OpFields
<1>3. op.h_lpn \in LPN => Contents(tab, op.h_lpn) \in Bytes
  BY <1>1, ContentsType
<1> QED BY <1>2, <1>3 DEF PageBytes

LEMMA UnwrittenType ==
  ASSUME NEW q
  PROVE  Unwritten(q) \subseteq PPN
BY DEF Unwritten

\* GET_NEW_PAGE in a state of the FTL.
LEMMA NewPage ==
  ASSUME Structure
  PROVE  LET g == GET_NEW_PAGE(pool) IN
         /\ g.ret \in {"success", "fault"}
         /\ PoolInv(g.pool, gc.victim) /\ g.pool \in PoolType
         /\ g.ret = "success" => /\ g.ppn \in PPN /\ g.ppn \in Unwritten(pool)
                                 /\ Unwritten(g.pool) \subseteq Unwritten(pool) \ {g.ppn}
         /\ g.ret = "fault" => Unwritten(g.pool) \subseteq Unwritten(pool)
<1> DEFINE g == GET_NEW_PAGE(pool)
<1>1. gc.victim \in Held /\ PoolInv(pool, gc.victim)
  BY DEF Structure, TypeOK, Held
<1>2. /\ g.ret \in {"success", "fault"}
      /\ PoolInv(g.pool, gc.victim)
      /\ g.ret = "success" => /\ g.ppn \in Unwritten(pool)
                              /\ Unwritten(g.pool) \subseteq Unwritten(pool) \ {g.ppn}
      /\ g.ret = "fault" => Unwritten(g.pool) \subseteq Unwritten(pool)
  BY <1>1, NewPageSound
<1>3. g.pool \in PoolType
  BY <1>2 DEF PoolInv
<1> HIDE DEF g
<1>4. g.ret = "success" => g.ppn \in PPN
  BY <1>2, UnwrittenType
<1> QED BY <1>2, <1>3, <1>4 DEF g

LEMMA ProgramStructure ==
  ASSUME Structure, ProgramPage
  PROVE  Structure'
<1> DEFINE g == GET_NEW_PAGE(pool)
<1>1. TypeOK /\ todo # << >> /\ pc \in {"page", "program"} /\ gc = NoGc
  BY DEF Structure, ProgramPage, AtPage
<1>2. /\ g.ret \in {"success", "fault"} /\ PoolInv(g.pool, gc.victim) /\ g.pool \in PoolType
      /\ g.ret = "success" => g.ppn \in PPN
  BY NewPage
<1>3. /\ pool' = g.pool /\ count' = 0 /\ gc' = gc
      /\ IF g.ret = "success"
           THEN tab' = Program(tab, g.ppn, op.lpn, PageBytes) /\ AfterProgram(g.ppn)
           ELSE UNCHANGED tab /\ AfterFailure(g.ret)
  BY DEF ProgramPage
<1> HIDE DEF g
<1>4. /\ op.lpn \in LPN /\ PageBytes \in Bytes /\ tab \in TabType
      /\ Tail(todo) \in Seq(PageOp) /\ AfterNested \in Seq(PageOp)
      /\ kind \in {"write", "remap"} /\ new_ppn \in PPN \cup {NoPpn} /\ todo \in Seq(PageOp)
  BY <1>1, OpInRequest, OpFields, PageBytesType, AfterNestedType DEF TypeOK
<1>5. PoolInv(pool, gc.victim)' /\ pool' \in PoolType /\ count' \in 0 .. BLOCK_NB + 1
  BY <1>2, <1>3, GeometryAssumption
<1>6. CASE g.ret = "success"
  <2>1. tab' \in TabType
    <3>1. g.ppn \in PPN
      BY <1>2, <1>6
    <3>2. Program(tab, g.ppn, op.lpn, PageBytes) \in TabType
      BY <1>4, <3>1, ProgramEffect
    <3> QED BY <1>3, <1>6, <3>2
  <2>2. /\ pc' \in {"page", "gc"} /\ todo' \in Seq(PageOp) /\ kind' \in {"write", "remap"}
        /\ new_ppn' \in PPN \cup {NoPpn}
    BY <1>2, <1>3, <1>4, <1>6 DEF AfterProgram
  <2>3. TypeOK'
    BY <1>1, <1>3, <1>5, <2>1, <2>2 DEF TypeOK
  <2> QED BY <1>1, <1>3, <1>5, <2>2, <2>3 DEF Structure, NoGc
<1>7. CASE g.ret = "fault"
  <2>1. /\ tab' = tab /\ pc' = "fault" /\ todo' = todo /\ kind' = kind /\ new_ppn' = new_ppn
    BY <1>3, <1>7 DEF AfterFailure
  <2>2. TypeOK'
    BY <1>1, <1>3, <1>5, <2>1 DEF TypeOK
  <2> QED BY <1>1, <1>3, <1>5, <2>1, <2>2 DEF Structure, NoGc
<1> QED BY <1>2, <1>6, <1>7

\* The end of the request and of GC_CHECK.
LEMMA ReturnStructure ==
  ASSUME Structure, EndRequest \/ GcDone
  PROVE  Structure'
<1>1. /\ pc' \in {"idle", "page", "gc"} /\ todo' \in {todo, << >>}
      /\ kind' \in {kind, "write"} /\ new_ppn' \in {new_ppn, NoPpn}
      /\ UNCHANGED <<tab, pool, count, gc>> /\ pc \in {"page", "gc"}
  BY DEF EndRequest, GcDone, AfterGc, Return
<1>2. << >> \in Seq(PageOp)
  OBVIOUS
<1>3. TypeOK'
  BY <1>1, <1>2 DEF Structure, TypeOK
<1>4. PoolInv(pool, gc.victim)'
  BY <1>1 DEF Structure
<1> QED BY <1>1, <1>3, <1>4 DEF Structure

-----------------------------------------------------------------------------
(***************************************************************************)
(* The collection of a superblock                                          *)
(***************************************************************************)
LEMMA GcStartStructure ==
  ASSUME Structure, GcStart
  PROVE  Structure'
<1>1. PICK i \in Victims :
        /\ pool' = EjectVictim(pool, i)
        /\ tab' = [tab EXCEPT !.nv = ReleaseSegs(@, pool.victim[i])]
        /\ gc' = [NoGc EXCEPT !.victim = pool.victim[i]]
  BY DEF GcStart
<1>2. i \in 1 .. Len(pool.victim)
  BY DEF Victims
<1>3. /\ pc = "gc" /\ pc' = "copy" /\ UNCHANGED <<todo, kind, new_ppn, count>>
      /\ gc = NoGc /\ gc.victim = NoBlock
  BY DEF GcStart, Structure, NoGc
<1> DEFINE b == pool.victim[i]
           n == ReleaseSegs(tab.nv, b)
<1>4. b \in SuperBlock /\ PoolInv(EjectVictim(pool, i), b)
  BY <1>2, <1>3, EjectInv DEF Structure
<1>5. gc' = [victim |-> b, old |-> NoPpn, new |-> NoPpn, oob_write |-> 0]
  BY <1>1 DEF NoGc
<1>6. tab \in TabType /\ tab' = [tab EXCEPT !.nv = n]
  BY <1>1 DEF Structure, TypeOK
<1> HIDE DEF b
<1>7. n \in NvType
  BY <1>4, <1>6, TabFields, ReleaseSegsType
<1> HIDE DEF n
<1>8. tab' \in TabType
  BY <1>6, <1>7 DEF TabType
<1>9. PoolInv(pool, gc.victim)' /\ pool' \in PoolType
  BY <1>1, <1>4, <1>5 DEF PoolInv
<1>10. TypeOK'
  BY <1>3, <1>4, <1>5, <1>8, <1>9 DEF Structure, TypeOK
<1> QED BY <1>3, <1>4, <1>5, <1>9, <1>10, NoBlockOutside DEF Structure

\* The next valid page of the superblock under collection.
LEMMA NextValidType ==
  ASSUME StillValid # {}
  PROVE  /\ NextValid \in StillValid /\ NextValid \in PPN
         /\ \A q \in StillValid : NextValid <= q
<1>1. StillValid \subseteq PPN
  BY DEF StillValid, PagesOf
<1>2. StillValid \subseteq Nat
  BY <1>1, GeometryAssumption DEF PPN
<1>3. \E p \in StillValid : \A q \in StillValid : p <= q
  BY <1>2, SmallestExists
<1>4. NextValid \in StillValid /\ \A q \in StillValid : NextValid <= q
  BY <1>3, Zenon DEF NextValid
<1> QED BY <1>1, <1>4

LEMMA TakeStructure ==
  ASSUME Structure, GcTakePage
  PROVE  Structure'
<1> DEFINE g == GET_NEW_PAGE(pool)
<1>1. /\ g.ret \in {"success", "fault"} /\ PoolInv(g.pool, gc.victim) /\ g.pool \in PoolType
      /\ g.ret = "success" => g.ppn \in PPN
  BY NewPage
<1>2. /\ pc = "copy" /\ NextValid \in PPN /\ pool' = g.pool /\ tab' = tab /\ count' = count
  BY NextValidType DEF GcTakePage
<1>3. g.ret = "success" =>
        /\ gc' = [gc EXCEPT !.old = NextValid, !.new = g.ppn, !.oob_write = 0]
        /\ pc' = pc /\ todo' = todo /\ kind' = kind /\ new_ppn' = new_ppn
  BY DEF GcTakePage
<1>4. g.ret = "fault" =>
        gc' = gc /\ pc' = "fault" /\ todo' = todo /\ kind' = kind /\ new_ppn' = new_ppn
  BY DEF GcTakePage
<1> HIDE DEF g
<1>5. TypeOK /\ gc.victim # NoBlock /\ NoPpn \notin PPN
  BY <1>2 DEF Structure, PPN, NoPpn
<1>6. CASE g.ret = "success"
  <2>1. gc' \in [victim : SuperBlock \cup {NoBlock}, old : PPN \cup {NoPpn},
                 new : PPN \cup {NoPpn}, oob_write : {0, 1}]
        /\ gc'.victim = gc.victim /\ gc'.new \in PPN
    BY <1>1, <1>2, <1>3, <1>5, <1>6 DEF TypeOK
  <2>2. TypeOK'
    BY <1>1, <1>2, <1>3, <1>5, <1>6, <2>1 DEF TypeOK
  <2>3. PoolInv(pool, gc.victim)'
    BY <1>1, <1>2, <2>1
  <2> QED BY <1>2, <1>3, <1>5, <1>6, <2>1, <2>2, <2>3 DEF Structure
<1>7. CASE g.ret = "fault"
  <2>1. TypeOK'
    BY <1>1, <1>2, <1>4, <1>5, <1>7 DEF TypeOK
  <2>2. PoolInv(pool, gc.victim)'
    BY <1>1, <1>2, <1>4, <1>7
  <2> QED BY <1>2, <1>4, <1>5, <1>7, <2>1, <2>2 DEF Structure
<1> QED BY <1>1, <1>6, <1>7

\* The sharer that is moved, and the tables after the move.
LEMMA MoveEffect ==
  ASSUME Structure, GcMoveSharer
  PROVE  LET lpn == Last(tab.inverse[gc.old])
             w   == Moved(tab, gc.old, gc.new, lpn) IN
         /\ gc.old \in PPN /\ gc.new \in PPN
         /\ lpn \in LPN /\ lpn \in ToSet(tab.inverse[gc.old])
         /\ tab' \in TabType /\ tab'.mapping_table = w.mapping_table
         /\ tab'.inverse = w.inverse /\ tab'.valid_array = w.valid_array
<1> DEFINE s   == tab.inverse[gc.old]
           lpn == Last(s)
           d   == DECREASE_INVERSE_MAPPING(tab, gc.old, lpn)
           w   == Moved(tab, gc.old, gc.new, lpn)
<1>1. gc.old \in PPN /\ gc.new \in PPN /\ s # << >> /\ tab \in TabType
  BY DEF Structure, TypeOK, GcMoveSharer, PageMoved
<1>2. s \in Seq(LPN)
  BY <1>1, TabFields
<1>3. lpn \in LPN /\ lpn \in ToSet(s)
  <2> HIDE DEF s
  <2>1. Len(s) \in 1 .. Len(s) /\ s[Len(s)] \in LPN /\ Last(s) = s[Len(s)]
    BY <1>1, <1>2 DEF Last
  <2> QED BY <1>2, <2>1, InToSet
<1>4. /\ tab' = IF gc.oob_write = 0
                  THEN [[w EXCEPT !.data[gc.new] = tab.data[gc.old]]
                          EXCEPT !.in_nvram[lpn] = 0]
                  ELSE [[w EXCEPT !.data[gc.new] = tab.data[gc.old]]
                          EXCEPT !.in_nvram[lpn] = 1,
                                 !.nv = AddEntry(@, CALC_BLOCK(gc.new))]
  BY Zenon DEF GcMoveSharer, Moved
<1> HIDE DEF lpn
<1>5. d \in TabType
  BY <1>1, <1>3, DecreaseEffect
<1> HIDE DEF d
<1>6. w \in TabType
  BY <1>1, <1>3, <1>5, UpdateNewEffect DEF Moved, d
<1> HIDE DEF w, s
<1> DEFINE x  == [w.data EXCEPT ![gc.new] = tab.data[gc.old]]
           i0 == [w.in_nvram EXCEPT ![lpn] = 0]
           i1 == [w.in_nvram EXCEPT ![lpn] = 1]
           n  == AddEntry(w.nv, CALC_BLOCK(gc.new))
<1>7. /\ x \in [PPN -> Bytes] /\ i0 \in [LPN -> {-1, 0, 1}] /\ i1 \in [LPN -> {-1, 0, 1}]
      /\ n \in NvType
  BY <1>1, <1>3, <1>6, TabFields, AddressParts, AddEntryType
<1>8. tab' = IF gc.oob_write = 0 THEN [w EXCEPT !.data = x, !.in_nvram = i0]
             ELSE [w EXCEPT !.data = x, !.in_nvram = i1, !.nv = n]
  BY <1>4, <1>6 DEF TabType
<1> HIDE DEF x, i0, i1, n
<1>9. /\ tab' \in TabType /\ tab'.mapping_table = w.mapping_table
      /\ tab'.inverse = w.inverse /\ tab'.valid_array = w.valid_array
  BY <1>6, <1>7, <1>8 DEF TabType
<1> QED BY <1>1, <1>3, <1>9 DEF s, lpn, w

LEMMA MoveStructure ==
  ASSUME Structure, GcMoveSharer
  PROVE  Structure'
<1>1. tab' \in TabType
  BY MoveEffect
<1>2. /\ gc' = [gc EXCEPT !.oob_write = 1] /\ pc = "copy"
      /\ UNCHANGED <<pool, pc, todo, kind, new_ppn, count>> /\ TypeOK
  BY DEF GcMoveSharer, Structure
<1>3. /\ gc' \in [victim : SuperBlock \cup {NoBlock}, old : PPN \cup {NoPpn},
                  new : PPN \cup {NoPpn}, oob_write : {0, 1}]
      /\ gc'.victim = gc.victim /\ gc'.old = gc.old /\ gc'.new = gc.new
  BY <1>2 DEF TypeOK
<1>4. TypeOK'
  BY <1>1, <1>2, <1>3 DEF TypeOK
<1>5. PoolInv(pool, gc.victim)'
  BY <1>2, <1>3 DEF Structure
<1> QED BY <1>2, <1>3, <1>4, <1>5 DEF Structure

LEMMA EraseStructure ==
  ASSUME Structure, GcErase
  PROVE  Structure'
<1>1. gc.victim \in SuperBlock /\ tab \in TabType /\ PoolInv(pool, gc.victim)
  BY DEF Structure, TypeOK, GcErase
<1>2. EraseSuperblock(tab, gc.victim) \in TabType
  BY <1>1, EraseEffect
<1>3. PoolInv(InsertEmpty(pool, gc.victim), NoBlock)
  BY <1>1, InsertInv
<1>4. /\ tab' \in TabType /\ PoolInv(pool', NoBlock) /\ gc' = NoGc /\ pc' = "gc"
      /\ UNCHANGED <<todo, kind, new_ppn, count>> /\ TypeOK
  BY <1>2, <1>3 DEF GcErase, Structure
<1>5. gc' = [victim |-> NoBlock, old |-> NoPpn, new |-> NoPpn, oob_write |-> 0]
  BY <1>4 DEF NoGc
<1>6. PoolInv(pool, gc.victim)' /\ pool' \in PoolType
  BY <1>4, <1>5 DEF PoolInv
<1>7. TypeOK'
  BY <1>4, <1>5, <1>6 DEF TypeOK
<1> QED BY <1>4, <1>5, <1>6, <1>7 DEF Structure

-----------------------------------------------------------------------------
(***************************************************************************)
(* Structure is an invariant                                               *)
(***************************************************************************)
LEMMA InitStructure == Init => Structure
<1> SUFFICES ASSUME Init PROVE Structure
  OBVIOUS
<1>1. tab \in TabType
  BY InitTabType DEF Init
<1>2. gc = [victim |-> NoBlock, old |-> NoPpn, new |-> NoPpn, oob_write |-> 0]
  BY DEF Init, NoGc
<1>3. PoolInv(pool, gc.victim) /\ pool \in PoolType
  BY <1>2, InitPoolInv DEF Init, PoolInv
<1>4. todo \in Seq(PageOp) /\ count \in 0 .. BLOCK_NB + 1
  BY GeometryAssumption DEF Init
<1>5. TypeOK
  BY <1>1, <1>2, <1>3, <1>4 DEF Init, TypeOK
<1> QED BY <1>2, <1>3, <1>5 DEF Init, Structure

LEMMA StepStructure == Structure /\ [Next]_vars => Structure'
<1> SUFFICES ASSUME Structure, [Next]_vars PROVE Structure'
  OBVIOUS
<1>1. CASE Host
  BY <1>1, HostStructure
<1>2. CASE DiscardPage
  BY <1>2, DiscardStructure
<1>3. CASE CallUseRemap \/ CollectNvram \/ RefuseRemap
  BY <1>3, DecideStructure
<1>4. CASE RemapPage
  BY <1>4, RemapStructure
<1>5. CASE ProgramPage
  BY <1>5, ProgramStructure
<1>6. CASE EndRequest \/ GcDone
  BY <1>6, ReturnStructure
<1>7. CASE GcStart
  BY <1>7, GcStartStructure
<1>8. CASE GcTakePage
  BY <1>8, TakeStructure
<1>9. CASE GcMoveSharer
  BY <1>9, MoveStructure
<1>10. CASE GcErase
  BY <1>10, EraseStructure
<1>11. CASE UNCHANGED vars
  <2>1. TypeOK'
    BY <1>11 DEF Structure, TypeOK, vars
  <2>2. PoolInv(pool, gc.victim)'
    BY <1>11 DEF Structure, vars
  <2> QED BY <1>11, <2>1, <2>2 DEF Structure, vars
<1> QED BY <1>1, <1>2, <1>3, <1>4, <1>5, <1>6, <1>7, <1>8, <1>9, <1>10, <1>11 DEF Next, Ssd

THEOREM StructureInvariant == Spec => []Structure
BY InitStructure, StepStructure, PTL DEF Spec

\* The tables, the lists, the counters and the locals of the FTL keep their
\* types: among others every page GET_NEW_PAGE returns is a page of the device,
\* and USE_REMAP collects at most BLOCK_NB + 1 times.
THEOREM TypeCorrect == Spec => []TypeOK
<1>1. Structure => TypeOK
  BY DEF Structure
<1> QED BY <1>1, StructureInvariant, PTL

\* No superblock is lost or in two lists and the block totals are exact,
\* whatever requests and collections follow each other (INSERT_/EJECT_ of empty
\* and victim blocks).
THEOREM PartitionTheorem == Spec => []SuperblocksPartitioned
<1>1. Structure => SuperblocksPartitioned
  BY DEF Structure, PoolInv, SuperblocksPartitioned
<1> QED BY <1>1, StructureInvariant, PTL

\* GET_NEW_PAGE never fails its SB_DEBUG order check and GET_EMPTY_BLOCK never
\* loops, with any number of flashes, blocks and pages.
THEOREM AllocatorTheorem == Spec => []AllocatorSound
<1>1. Structure => AllocatorSound
  BY NewPage DEF Structure, AllocatorSound
<1> QED BY <1>1, StructureInvariant, PTL
=============================================================================

-------------------------- MODULE FtlMappingProofs --------------------------
(***************************************************************************)
(* The mapping table, the inverse lists and the reference counts stay      *)
(* consistent through writes, remappings, discards and the collection of   *)
(* superblocks, and no page in use is handed out again.                    *)
(*                                                                         *)
(* Mappings is inductive relative to Structure as long as no page has so   *)
(* many references that its int8_t count could wrap.  It adds to the two   *)
(* properties how far the collection of a superblock has come, because the *)
(* collection leaves the counts of the pages it empties as they were.      *)
(***************************************************************************)
EXTENDS FtlProofs

\* The pages of the superblock under collection: those before the page being
\* copied have no references left, those after it are not touched yet.  The
\* page it is copied to is outside the superblock and counts its references.
GcProgress ==
  gc.victim # NoBlock =>
    /\ \A p \in PagesOf(gc.victim) :
         /\ p < gc.old => tab.inverse[p] = << >>
         /\ p <= gc.old => tab.valid_array[p] >= -1
         /\ p > gc.old => Counted(tab, p)
    /\ gc.old # NoPpn =>
         /\ CALC_BLOCK(gc.old) = gc.victim
         /\ CALC_BLOCK(gc.new) # gc.victim /\ gc.new \notin Unwritten(pool)
         /\ tab.valid_array[gc.new] = Len(tab.inverse[gc.new])

Mappings == MappingConsistent /\ UnwrittenFree /\ GcProgress

\* No page has as many references as its count can hold.
SharersFit == \A p \in PPN : Len(tab.inverse[p]) < REFCNT_MAX

-----------------------------------------------------------------------------
(***************************************************************************)
(* While no superblock is under collection                                 *)
(***************************************************************************)
LEMMA NoPpnOutside == NoPpn \notin PPN
BY DEF NoPpn, PPN

LEMMA QuietState ==
  ASSUME Mappings, gc = NoGc
  PROVE  Consistent(tab) /\ \A p \in Unwritten(pool) : Free(tab, p)
<1>1. gc.victim = NoBlock
  BY DEF NoGc
<1> QED BY <1>1 DEF Mappings, MappingConsistent, UnwrittenFree, Collecting, Consistent,
                    ListedAt, Mapped, Sharers, Counted, Free

LEMMA QuietNext ==
  ASSUME gc' = NoGc, Consistent(tab'), \A p \in Unwritten(pool') : Free(tab', p)
  PROVE  Mappings'
<1>1. gc'.victim = NoBlock /\ gc'.old = NoPpn
  BY DEF NoGc
<1>2. MappingConsistent'
  BY DEF MappingConsistent, Collecting, Consistent, ListedAt, Mapped, Sharers, Counted
<1>3. UnwrittenFree'
  BY <1>1, UnwrittenType, NoPpnOutside DEF UnwrittenFree, Free
<1>4. GcProgress'
  BY <1>1 DEF GcProgress
<1> QED BY <1>2, <1>3, <1>4 DEF Mappings

\* A step that changes none of the mappings.
LEMMA SameMappings ==
  ASSUME Mappings, pool' = pool, gc' = gc,
         tab'.mapping_table = tab.mapping_table, tab'.inverse = tab.inverse,
         tab'.valid_array = tab.valid_array
  PROVE  Mappings'
<1>1. MappingConsistent'
  BY DEF Mappings, MappingConsistent, Collecting, Sharers
<1>2. UnwrittenFree'
  BY DEF Mappings, UnwrittenFree
<1>3. GcProgress'
  BY DEF Mappings, GcProgress, Counted
<1> QED BY <1>1, <1>2, <1>3 DEF Mappings

LEMMA InitMappings == Init => Mappings
<1> SUFFICES ASSUME Init PROVE Mappings
  OBVIOUS
<1>1. /\ tab.mapping_table = [l \in LPN |-> NoPpn]
      /\ tab.inverse = [p \in PPN |-> << >>] /\ tab.valid_array = [p \in PPN |-> 0]
  BY DEF Init, InitTab
<1>2. gc.victim = NoBlock /\ gc.old = NoPpn
  BY DEF Init, NoGc
<1>3. MappingConsistent
  <2> SUFFICES ASSUME NEW p \in PPN
               PROVE  /\ Sharers(p) = {} /\ tab.inverse[p] = << >>
                      /\ tab.valid_array[p] \in {-1, 0}
    BY EmptyList DEF MappingConsistent
  <2> QED BY <1>1, NoPpnOutside DEF Sharers
<1>4. UnwrittenFree
  BY <1>1, <1>2, UnwrittenType, NoPpnOutside DEF UnwrittenFree
<1>5. GcProgress
  BY <1>2 DEF GcProgress
<1> QED BY <1>3, <1>4, <1>5 DEF Mappings

-----------------------------------------------------------------------------
(***************************************************************************)
(* The page operations                                                     *)
(***************************************************************************)
LEMMA DiscardMappings ==
  ASSUME Structure, Mappings, DiscardPage
  PROVE  Mappings'
<1>1. /\ tab \in TabType /\ op.lpn \in LPN /\ gc = NoGc
      /\ tab' = Unmap(tab, op.lpn) /\ pool' = pool /\ gc' = gc
  BY OpInRequest, OpFields DEF DiscardPage, AtPage, Structure, TypeOK
<1>2. Consistent(tab) /\ \A p \in Unwritten(pool) : Free(tab, p)
  BY <1>1, QuietState
<1>3. Consistent(tab') /\ \A p \in PPN : Free(tab, p) => Free(tab', p)
  BY <1>1, <1>2, UnmapConsistent
<1>4. Unwritten(pool') = Unwritten(pool) /\ Unwritten(pool) \subseteq PPN
  BY <1>1, UnwrittenType
<1> QED BY <1>1, <1>2, <1>3, <1>4, QuietNext

LEMMA RemapMappings ==
  ASSUME Structure, Mappings, SharersFit, RemapPage
  PROVE  Mappings'
<1> DEFINE s == SourcePpn
           r == Remap(tab, s, op.lpn)
<1>1. /\ todo # << >> /\ tab \in TabType /\ gc = NoGc
  BY DEF RemapPage, Structure, TypeOK
<1>2. /\ op.lpn \in LPN /\ s \in PPN \cup {NoPpn} /\ op.h_lpn \in LPN \cup {-1}
      /\ op.flag \in Hinted \cup RemapOpe => op.h_lpn \in LPN
  BY <1>1, OpInRequest, OpFields, SourceType DEF Structure
<1>3. /\ tab' = IF s = NoPpn THEN tab
                ELSE IF op.flag \in {FS_GC_WRITE, REMAP_MOVE} THEN Unmap(r, op.h_lpn) ELSE r
      /\ pool' = pool /\ gc' = gc
  BY DEF RemapPage
<1>4. op.flag \in {FS_GC_WRITE, REMAP_MOVE} => op.h_lpn \in LPN
  BY <1>2 DEF Hinted, RemapOpe
<1>5. Consistent(tab) /\ \A p \in Unwritten(pool) : Free(tab, p)
  BY <1>1, QuietState
<1>6. s # NoPpn => op.h_lpn \in LPN /\ tab.mapping_table[op.h_lpn] = s
  BY <1>2 DEF SourcePpn, LPN
<1> HIDE DEF s
<1>7. ASSUME s # NoPpn
      PROVE  /\ s \in PPN /\ tab.inverse[s] # << >> /\ Len(tab.inverse[s]) < REFCNT_MAX
  <2>1. s \in PPN
    BY <1>2, <1>7
  <2>2. op.h_lpn \in ToSet(tab.inverse[s])
    BY <1>5, <1>6, <1>7, <2>1 DEF Consistent, ListedAt, Mapped
  <2> QED BY <2>1, <2>2, EmptyList DEF SharersFit
<1>8. s # NoPpn => r \in TabType /\ Consistent(r) /\ \A p \in PPN : Free(tab, p) => Free(r, p)
  BY <1>1, <1>2, <1>5, <1>7, RemapEffect, RemapConsistent
<1> HIDE DEF r
<1>9. s # NoPpn /\ op.h_lpn \in LPN =>
        /\ Consistent(Unmap(r, op.h_lpn))
        /\ \A p \in PPN : Free(r, p) => Free(Unmap(r, op.h_lpn), p)
  BY <1>8, UnmapConsistent
<1>10. Consistent(tab') /\ \A p \in PPN : Free(tab, p) => Free(tab', p)
  BY <1>3, <1>4, <1>5, <1>8, <1>9
<1>11. Unwritten(pool') = Unwritten(pool) /\ Unwritten(pool) \subseteq PPN
  BY <1>3, UnwrittenType
<1> QED BY <1>1, <1>3, <1>5, <1>10, <1>11, QuietNext

LEMMA ProgramMappings ==
  ASSUME Structure, Mappings, ProgramPage
  PROVE  Mappings'
<1> DEFINE g == GET_NEW_PAGE(pool)
<1>1. TypeOK /\ todo # << >> /\ gc = NoGc /\ tab \in TabType
  BY DEF Structure, ProgramPage, AtPage, TypeOK
<1>2. op.lpn \in LPN /\ PageBytes \in Bytes
  BY <1>1, OpInRequest, OpFields, PageBytesType
<1>3. /\ g.ret \in {"success", "fault"}
      /\ g.ret = "success" => /\ g.ppn \in PPN /\ g.ppn \in Unwritten(pool)
                              /\ Unwritten(g.pool) \subseteq Unwritten(pool) \ {g.ppn}
      /\ g.ret = "fault" => Unwritten(g.pool) \subseteq Unwritten(pool)
  BY NewPage
<1>4. /\ pool' = g.pool /\ gc' = gc
      /\ g.ret = "success" => tab' = Program(tab, g.ppn, op.lpn, PageBytes)
      /\ g.ret = "fault" => tab' = tab
  BY DEF ProgramPage
<1> HIDE DEF g
<1>5. Consistent(tab) /\ \A p \in Unwritten(pool) : Free(tab, p)
  BY <1>1, QuietState
<1>6. CASE g.ret = "success"
  <2>1. Consistent(tab') /\ \A p \in PPN \ {g.ppn} : Free(tab, p) => Free(tab', p)
    BY <1>1, <1>2, <1>3, <1>4, <1>5, <1>6, ProgramConsistent
  <2>2. \A p \in Unwritten(pool') : Free(tab', p)
    BY <1>3, <1>4, <1>5, <1>6, <2>1, UnwrittenType
  <2> QED BY <1>1, <1>4, <2>1, <2>2, QuietNext
<1>7. CASE g.ret = "fault"
  BY <1>1, <1>3, <1>4, <1>5, <1>7, QuietNext
<1> QED BY <1>3, <1>6, <1>7

-----------------------------------------------------------------------------
(***************************************************************************)
(* The collection of a superblock                                          *)
(***************************************************************************)
\* MappingConsistent says of each page that its list is right and, outside the
\* superblock under collection, its count.
LEMMA ListedState ==
  ASSUME MappingConsistent
  PROVE  Listed(tab) /\ \A p \in PPN : Collecting(p) \/ Counted(tab, p)
BY DEF MappingConsistent, Listed, ListedAt, Mapped, Sharers, Counted

LEMMA ListedNext ==
  ASSUME Listed(tab'), \A p \in PPN : Collecting(p)' \/ Counted(tab', p)
  PROVE  MappingConsistent'
BY DEF MappingConsistent, Listed, ListedAt, Mapped, Sharers, Counted

\* The pages of the superblock under collection have been handed out.
LEMMA VictimWritten ==
  ASSUME Structure, NEW p \in Unwritten(pool)
  PROVE  CALC_BLOCK(p) # gc.victim
<1>1. Partitioned(pool, gc.victim) /\ gc.victim \in SuperBlock \cup {NoBlock}
  BY DEF Structure, PoolInv, TypeOK
<1>2. p \in PPN /\ (CALC_BLOCK(p) \in ToSet(pool.empty) \/ pool.active = CALC_BLOCK(p))
  BY DEF Unwritten
<1>3. CALC_BLOCK(p) \in SuperBlock
  BY <1>2, AddressParts
<1>4. CALC_BLOCK(p) # NoBlock
  BY <1>3, NoBlockOutside
<1> HIDE DEF CALC_BLOCK
<1> QED BY <1>1, <1>2, <1>4 DEF Partitioned, Single

LEMMA GcStartMappings ==
  ASSUME Structure, Mappings, GcStart
  PROVE  Mappings'
<1>1. PICK i \in Victims :
        /\ pool' = EjectVictim(pool, i)
        /\ tab' = [tab EXCEPT !.nv = ReleaseSegs(@, pool.victim[i])]
        /\ gc' = [NoGc EXCEPT !.victim = pool.victim[i]]
  BY DEF GcStart
<1>2. i \in 1 .. Len(pool.victim) /\ gc = NoGc /\ gc.victim = NoBlock /\ tab \in TabType
  BY DEF Victims, GcStart, Structure, NoGc, TypeOK
<1>3. Unwritten(EjectVictim(pool, i)) = Unwritten(pool)
  BY <1>2, EjectInv DEF Structure
<1>4. /\ tab'.mapping_table = tab.mapping_table /\ tab'.inverse = tab.inverse
      /\ tab'.valid_array = tab.valid_array
  BY <1>1, <1>2 DEF TabType
<1>5. gc'.old = NoPpn
  BY <1>1 DEF NoGc
<1>6. Consistent(tab) /\ \A p \in Unwritten(pool) : Free(tab, p)
  BY <1>2, QuietState
<1>7. Consistent(tab')
  BY <1>4, <1>6 DEF Consistent, ListedAt, Mapped, Counted
<1>8. MappingConsistent'
  BY <1>7, ListedNext DEF Consistent, Listed
<1>9. UnwrittenFree'
  BY <1>1, <1>3, <1>4, <1>5, <1>6, UnwrittenType, NoPpnOutside DEF UnwrittenFree, Free
<1>10. GcProgress'
  <2>1. \A p \in PPN : p > NoPpn /\ ~(p < NoPpn) /\ ~(p <= NoPpn)
    BY GeometryAssumption DEF PPN, NoPpn
  <2> QED BY <1>5, <1>7, <2>1 DEF GcProgress, Consistent, PagesOf
<1> QED BY <1>8, <1>9, <1>10 DEF Mappings

\* Pages of the superblock up to the next valid one have no references.
LEMMA Skipped ==
  ASSUME Structure, Mappings, PageMoved, gc.victim # NoBlock,
         NEW p \in PagesOf(gc.victim), p \notin StillValid
  PROVE  tab.inverse[p] = << >> /\ tab.valid_array[p] >= -1
         /\ (p > gc.old => tab.valid_array[p] \in {-1, 0})
<1>1. /\ p \in PPN /\ p \in Int /\ gc.old \in Int /\ tab \in TabType
      /\ gc.old \in PPN \cup {NoPpn}
  BY GeometryAssumption DEF PagesOf, PPN, Structure, TypeOK, NoPpn
<1>2. /\ p < gc.old => tab.inverse[p] = << >>
      /\ p <= gc.old => tab.valid_array[p] >= -1
      /\ p > gc.old => Counted(tab, p)
  BY DEF Mappings, GcProgress
<1>3. tab.valid_array[p] \in Int
  BY <1>1, ListFacts
<1>4. CASE p > gc.old
  <2>1. ~(tab.valid_array[p] > 0)
    BY <1>4 DEF StillValid
  <2> QED BY <1>2, <1>3, <1>4, <2>1 DEF Counted
<1>5. CASE p = gc.old
  <2>1. gc.old # NoPpn
    BY <1>1, <1>5, NoPpnOutside
  <2> QED BY <1>1, <1>2, <1>5, <2>1 DEF PageMoved
<1>6. CASE p < gc.old
  BY <1>1, <1>2, <1>6
<1> QED BY <1>1, <1>4, <1>5, <1>6

LEMMA TakeMappings ==
  ASSUME Structure, Mappings, GcTakePage
  PROVE  Mappings'
<1> DEFINE g == GET_NEW_PAGE(pool)
           n == NextValid
<1>1. /\ g.ret \in {"success", "fault"}
      /\ g.ret = "success" => /\ g.ppn \in PPN /\ g.ppn \in Unwritten(pool)
                              /\ Unwritten(g.pool) \subseteq Unwritten(pool) \ {g.ppn}
      /\ g.ret = "fault" => Unwritten(g.pool) \subseteq Unwritten(pool)
  BY NewPage
<1>2. /\ pool' = g.pool /\ tab' = tab
      /\ g.ret = "success" =>
           gc' = [gc EXCEPT !.old = NextValid, !.new = g.ppn, !.oob_write = 0]
      /\ g.ret = "fault" => gc' = gc
  BY DEF GcTakePage
<1>3. /\ n \in StillValid /\ n \in PPN /\ (\A q \in StillValid : n <= q)
      /\ PageMoved /\ gc.victim # NoBlock
  BY NextValidType DEF GcTakePage, Structure
<1> HIDE DEF g, n
<1>4. n \in PagesOf(gc.victim) /\ CALC_BLOCK(n) = gc.victim /\ n > gc.old
  BY <1>3 DEF StillValid, PagesOf
<1>5. /\ gc \in [victim : SuperBlock \cup {NoBlock}, old : PPN \cup {NoPpn},
                 new : PPN \cup {NoPpn}, oob_write : {0, 1}]
      /\ gc.old \in Int /\ PPN \subseteq Int /\ tab \in TabType
  BY GeometryAssumption DEF Structure, TypeOK, PPN, NoPpn
<1>6. Listed(tab) /\ \A p \in PPN : Collecting(p) \/ Counted(tab, p)
  BY ListedState DEF Mappings
<1>7. CASE g.ret = "success"
  <2>1. gc'.victim = gc.victim /\ gc'.old = n /\ gc'.new = g.ppn
    BY <1>2, <1>5, <1>7 DEF n
  <2>2. MappingConsistent'
    BY <1>2, <1>6, <2>1, ListedNext DEF Collecting
  <2>3. UnwrittenFree'
    <3> SUFFICES ASSUME NEW p \in Unwritten(pool')
                 PROVE  tab'.valid_array[p] = 0 /\ tab'.inverse[p] = << >> /\ p # gc'.old
      BY DEF UnwrittenFree
    <3>1. p \in Unwritten(pool)
      BY <1>1, <1>2, <1>7
    <3>2. p # n
      BY <1>4, <3>1, VictimWritten
    <3> QED BY <1>2, <2>1, <3>1, <3>2 DEF Mappings, UnwrittenFree
  <2>4. GcProgress'
    <3>1. ASSUME NEW p \in PagesOf(gc.victim)
          PROVE  /\ p < n => tab.inverse[p] = << >>
                 /\ p <= n => tab.valid_array[p] >= -1
                 /\ p > n => Counted(tab, p)
      <4>1. p \in Int /\ n \in Int /\ p \in PPN
        BY <1>3, <1>5 DEF PagesOf
      <4>2. CASE p < n
        <5>1. p \notin StillValid
          BY <1>3, <4>1, <4>2
        <5> QED BY <1>3, <4>1, <4>2, <5>1, Skipped
      <4>3. CASE p = n
        <5>1. tab.valid_array[p] > 0
          BY <1>3, <4>3 DEF StillValid
        <5>2. tab.valid_array[p] \in Int
          BY <1>5, <4>1, ListFacts
        <5> QED BY <4>1, <4>3, <5>1, <5>2
      <4>4. CASE p > n
        <5>1. p > gc.old
          BY <1>4, <1>5, <4>1, <4>4
        <5>2. Counted(tab, p)
          BY <1>3, <5>1 DEF Mappings, GcProgress
        <5> QED BY <4>1, <4>4, <5>2
      <4> QED BY <4>1, <4>2, <4>3, <4>4
    <3>2. CALC_BLOCK(g.ppn) # gc.victim /\ g.ppn \notin Unwritten(g.pool)
      BY <1>1, <1>7, VictimWritten
    <3>3. tab.valid_array[g.ppn] = 0 /\ tab.inverse[g.ppn] = << >>
      BY <1>1, <1>7 DEF Mappings, UnwrittenFree
    <3>4. tab.valid_array[g.ppn] = Len(tab.inverse[g.ppn])
      BY <3>3
    <3> QED BY <1>2, <1>4, <2>1, <3>1, <3>2, <3>4 DEF GcProgress, Counted
  <2> QED BY <2>2, <2>3, <2>4 DEF Mappings
<1>8. CASE g.ret = "fault"
  <2>1. pool' = g.pool /\ tab' = tab /\ gc' = gc /\ Unwritten(pool') \subseteq Unwritten(pool)
    BY <1>1, <1>2, <1>8
  <2>2. MappingConsistent'
    BY <2>1, <1>6, ListedNext DEF Collecting
  <2>3. UnwrittenFree'
    BY <2>1 DEF Mappings, UnwrittenFree
  <2>4. GcProgress'
    BY <2>1 DEF Mappings, GcProgress, Counted
  <2> QED BY <2>2, <2>3, <2>4 DEF Mappings
<1> QED BY <1>1, <1>7, <1>8

LEMMA MoveMappings ==
  ASSUME Structure, Mappings, SharersFit, GcMoveSharer
  PROVE  Mappings'
<1> DEFINE old == gc.old
           new == gc.new
           lpn == Last(tab.inverse[gc.old])
           w   == Moved(tab, old, new, lpn)
<1>1. /\ old \in PPN /\ new \in PPN /\ lpn \in LPN /\ lpn \in ToSet(tab.inverse[old])
      /\ tab' \in TabType /\ tab'.mapping_table = w.mapping_table
      /\ tab'.inverse = w.inverse /\ tab'.valid_array = w.valid_array
  BY MoveEffect
<1>2. /\ gc' = [gc EXCEPT !.oob_write = 1] /\ pool' = pool /\ pc = "copy"
      /\ tab \in TabType /\ gc.victim # NoBlock
      /\ gc \in [victim : SuperBlock \cup {NoBlock}, old : PPN \cup {NoPpn},
                 new : PPN \cup {NoPpn}, oob_write : {0, 1}]
  BY DEF GcMoveSharer, Structure, TypeOK
<1>3. gc'.victim = gc.victim /\ gc'.old = old /\ gc'.new = new
  BY <1>2
<1>4. /\ CALC_BLOCK(old) = gc.victim /\ CALC_BLOCK(new) # gc.victim
      /\ new \notin Unwritten(pool) /\ tab.valid_array[new] = Len(tab.inverse[new])
      /\ Len(tab.inverse[new]) < REFCNT_MAX
  BY <1>1, <1>2, NoPpnOutside DEF Mappings, GcProgress, SharersFit
<1>5. Listed(tab) /\ \A p \in PPN : Collecting(p) \/ Counted(tab, p)
  BY ListedState DEF Mappings
<1> HIDE DEF old, new, lpn
<1>6. old # new
  BY <1>4
<1>7. /\ Listed(w) /\ w.valid_array[old] = tab.valid_array[old]
      /\ w.valid_array[new] = Len(w.inverse[new]) /\ w.valid_array[new] > 0
      /\ \A p \in PPN \ {old, new} : SameAt(tab, w, p)
  BY <1>1, <1>2, <1>4, <1>5, <1>6, MoveListed
<1> HIDE DEF w
<1>8. /\ Listed(tab') /\ tab'.valid_array[old] = tab.valid_array[old]
      /\ tab'.valid_array[new] = Len(tab'.inverse[new]) /\ tab'.valid_array[new] > 0
      /\ \A p \in PPN \ {old, new} : SameAt(tab, tab', p)
  BY <1>1, <1>7 DEF Listed, ListedAt, Mapped, SameAt
<1>9. \A p \in PPN \ {old, new} : Counted(tab, p) => Counted(tab', p)
  BY <1>8 DEF SameAt, Counted
<1>10. MappingConsistent'
  <2> SUFFICES ASSUME NEW p \in PPN PROVE Collecting(p)' \/ Counted(tab', p)
    BY <1>8, ListedNext
  <2>1. Collecting(p)' <=> Collecting(p)
    BY <1>3 DEF Collecting
  <2>2. p = old => Collecting(p)
    BY <1>2, <1>4 DEF Collecting
  <2>3. p = new => Counted(tab', p)
    BY <1>8 DEF Counted
  <2> QED BY <1>5, <1>9, <2>1, <2>2, <2>3
<1>11. UnwrittenFree'
  <2> SUFFICES ASSUME NEW p \in Unwritten(pool)
               PROVE  tab'.valid_array[p] = 0 /\ tab'.inverse[p] = << >> /\ p # old
    BY <1>2, <1>3 DEF UnwrittenFree
  <2>1. tab.valid_array[p] = 0 /\ tab.inverse[p] = << >> /\ p # old
    BY DEF Mappings, UnwrittenFree, old
  <2>2. p \in PPN \ {old, new}
    BY <1>4, <2>1, UnwrittenType
  <2> QED BY <1>8, <2>1, <2>2 DEF SameAt
<1>12. GcProgress'
  <2>1. ASSUME NEW p \in PagesOf(gc.victim)
        PROVE  /\ p < old => tab'.inverse[p] = << >>
               /\ p <= old => tab'.valid_array[p] >= -1
               /\ p > old => Counted(tab', p)
    <3>1. /\ p < old => tab.inverse[p] = << >>
          /\ p <= old => tab.valid_array[p] >= -1
          /\ p > old => Counted(tab, p)
      BY <1>2 DEF Mappings, GcProgress, old
    <3>2. p \in PPN /\ p # new /\ p \in Int /\ old \in Int
      BY <1>1, <1>4, GeometryAssumption DEF PagesOf, PPN
    <3>3. p = old => ~(p < old) /\ ~(p > old)
      BY <3>2
    <3> QED BY <1>8, <1>9, <3>1, <3>2, <3>3 DEF SameAt
  <2> QED BY <1>2, <1>3, <1>4, <1>8, <2>1 DEF GcProgress
<1> QED BY <1>10, <1>11, <1>12 DEF Mappings

LEMMA EraseMappings ==
  ASSUME Structure, Mappings, GcErase
  PROVE  Mappings'
<1> DEFINE b  == gc.victim
           va == tab.valid_array
           u  == EraseSuperblock(tab, b)
           dirty == {p \in PagesOf(b) : va[p] > 0 \/ va[p] = -1}
<1>1. /\ b \in SuperBlock /\ b # NoBlock /\ tab \in TabType /\ PageMoved /\ StillValid = {}
      /\ tab' = u /\ pool' = InsertEmpty(pool, b) /\ gc' = NoGc /\ PoolInv(pool, b)
  BY DEF GcErase, Structure, TypeOK
<1>2. /\ u \in TabType
      /\ u.valid_array = [p \in PPN |-> IF p \in dirty THEN 0 ELSE va[p]]
      /\ u.data = [p \in PPN |-> IF p \in dirty THEN Blank ELSE tab.data[p]]
      /\ u.mapping_table = tab.mapping_table /\ u.in_nvram = tab.in_nvram
      /\ u.inverse = tab.inverse /\ u.nv = tab.nv
  BY <1>1, EraseEffect
<1>3. Unwritten(pool') \subseteq Unwritten(pool) \cup PagesOf(b)
  BY <1>1, InsertInv
<1>4. Listed(tab) /\ \A p \in PPN : Collecting(p) \/ Counted(tab, p)
  BY ListedState DEF Mappings
<1>5. \A p \in PagesOf(b) : tab.inverse[p] = << >> /\ va[p] >= -1
  BY <1>1, Skipped
<1> HIDE DEF u
<1>6. \A p \in PPN : va[p] \in Int
  BY <1>1, ListFacts
<1>7. \A p \in PagesOf(b) : StillValid = {} => Free(tab', p)
  <2> SUFFICES ASSUME NEW p \in PagesOf(b) PROVE Free(tab', p)
    OBVIOUS
  <2>1. p \in PPN /\ va[p] \in Int /\ tab.inverse[p] = << >> /\ va[p] >= -1
    BY <1>5, <1>6 DEF PagesOf
  <2>2. p \in dirty <=> va[p] > 0 \/ va[p] = -1
    OBVIOUS
  <2> HIDE DEF dirty, va
  <2> QED BY <1>1, <1>2, <2>1, <2>2 DEF Free
<1>8. \A p \in PPN \ PagesOf(b) : SameAt(tab, tab', p)
  BY <1>1, <1>2 DEF SameAt
<1>9. Listed(tab')
  BY <1>1, <1>2, <1>4, SMTT(30) DEF Listed, ListedAt, Mapped
<1>10. Consistent(tab')
  <2> SUFFICES ASSUME NEW p \in PPN PROVE Counted(tab', p)
    BY <1>9 DEF Consistent, Listed
  <2>1. CASE p \in PagesOf(b)
    BY <1>1, <1>7, <2>1 DEF Free, Counted
  <2>2. CASE p \notin PagesOf(b)
    <3>1. ~Collecting(p)
      BY <2>2 DEF Collecting, PagesOf
    <3> QED BY <1>4, <1>8, <2>2, <3>1 DEF SameAt, Counted
  <2> QED BY <2>1, <2>2
<1>11. ASSUME NEW p \in Unwritten(pool') PROVE Free(tab', p)
  <2>1. CASE p \in PagesOf(b)
    BY <1>1, <1>7, <2>1
  <2>2. CASE p \notin PagesOf(b)
    <3>1. p \in Unwritten(pool) /\ p \in PPN
      BY <1>3, <1>11, <2>2, UnwrittenType
    <3>2. Free(tab, p)
      BY <3>1 DEF Mappings, UnwrittenFree, Free
    <3> QED BY <1>8, <2>2, <3>1, <3>2 DEF SameAt, Free
  <2> QED BY <2>1, <2>2
<1> QED BY <1>1, <1>10, <1>11, QuietNext

-----------------------------------------------------------------------------
(***************************************************************************)
(* The theorems                                                            *)
(***************************************************************************)
LEMMA StepMappings ==
  Structure /\ Mappings /\ SharersFit /\ [Next]_vars => Mappings'
<1> SUFFICES ASSUME Structure, Mappings, SharersFit, [Next]_vars PROVE Mappings'
  OBVIOUS
<1>1. CASE Host
  <2>1. tab' = tab /\ pool' = pool /\ gc' = gc
    BY <1>1 DEF Host, FTL_WRITE, SSD_REMAP, femu_discard_process, Accept
  <2> QED BY <2>1, SameMappings
<1>2. CASE CallUseRemap \/ RefuseRemap \/ EndRequest \/ GcDone \/ UNCHANGED vars
  <2>1. tab' = tab /\ pool' = pool /\ gc' = gc
    BY <1>2 DEF CallUseRemap, RefuseRemap, EndRequest, GcDone, vars
  <2> QED BY <2>1, SameMappings
<1>3. CASE CollectNvram
  <2>1. /\ tab' = [tab EXCEPT !.nv = NVRAM_OOB_GC(@)] /\ pool' = pool /\ gc' = gc
        /\ tab \in TabType
    BY <1>3 DEF CollectNvram, Structure, TypeOK
  <2>2. /\ tab'.mapping_table = tab.mapping_table /\ tab'.inverse = tab.inverse
        /\ tab'.valid_array = tab.valid_array
    BY <2>1 DEF TabType
  <2> QED BY <2>1, <2>2, SameMappings
<1>4. CASE DiscardPage
  BY <1>4, DiscardMappings
<1>5. CASE RemapPage
  BY <1>5, RemapMappings
<1>6. CASE ProgramPage
  BY <1>6, ProgramMappings
<1>7. CASE GcStart
  BY <1>7, GcStartMappings
<1>8. CASE GcTakePage
  BY <1>8, TakeMappings
<1>9. CASE GcMoveSharer
  BY <1>9, MoveMappings
<1>10. CASE GcErase
  BY <1>10, EraseMappings
<1> QED BY <1>1, <1>2, <1>3, <1>4, <1>5, <1>6, <1>7, <1>8, <1>9, <1>10 DEF Next, Ssd

LEMMA MappingsInvariant == Spec /\ []SharersFit => []Mappings
BY InitMappings, StepMappings, StructureInvariant, PTL DEF Spec

\* As long as no physical page has so many sharers that its int8_t reference
\* count could wrap, the inverse lists hold exactly the sharers of each page and
\* the reference counts are their numbers, through writes, remappings, discards
\* and collections in any order (UPDATE_OLD_PAGE_MAPPING, INCREASE_ and
\* DECREASE_INVERSE_MAPPING, UPDATE_BLOCK_STATE_ENTRY).
THEOREM MappingTheorem == Spec /\ []SharersFit => []MappingConsistent
<1>1. Mappings => MappingConsistent
  BY DEF Mappings
<1> QED BY <1>1, MappingsInvariant, PTL

\* Under the same condition no page that is in use is handed out again by
\* GET_NEW_PAGE, and none twice between two erases of its superblock.
THEOREM UnwrittenTheorem == Spec /\ []SharersFit => []UnwrittenFree
<1>1. Mappings => UnwrittenFree
  BY DEF Mappings
<1> QED BY <1>1, MappingsInvariant, PTL
=============================================================================

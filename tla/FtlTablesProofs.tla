-------------------------- MODULE FtlTablesProofs --------------------------
(***************************************************************************)
(* What the functions on the FTL tables do, for every geometry and every   *)
(* number of logical pages: they keep the types, and they keep the mapping *)
(* table, the inverse lists and the reference counts consistent as long as *)
(* a reference count does not wrap.                                        *)
(***************************************************************************)
EXTENDS FtlTables, FlashGeometryProofs, ListLemmas, FiniteSetTheorems

-----------------------------------------------------------------------------
(***************************************************************************)
(* NVRAM                                                                   *)
(***************************************************************************)
LEMMA InitNvType == InitNv \in NvType
<1> DEFINE s == [b \in SuperBlock |-> EmptySeg]
<1>1. s \in [SuperBlock -> NVRAM_OOB_seg]
  BY DEF EmptySeg, NVRAM_OOB_seg
<1>2. InitNv = [seg |-> s, total_alloc_seg |-> 0,
                total_OOB_entry |-> 0, total_invalid_entry |-> 0]
  BY DEF InitNv
<1> HIDE DEF s
<1> QED BY <1>1, <1>2 DEF NvType

LEMMA NvFields ==
  ASSUME NEW nv \in NvType, NEW b \in SuperBlock
  PROVE  /\ nv.seg \in [SuperBlock -> NVRAM_OOB_seg]
         /\ nv.seg[b] \in NVRAM_OOB_seg
         /\ nv.seg[b].alloc_seg \in Int /\ nv.seg[b].free_entry \in Int
         /\ nv.seg[b].invalid_entry \in Int
         /\ nv.total_alloc_seg \in Int /\ nv.total_OOB_entry \in Int
         /\ nv.total_invalid_entry \in Int
         /\ Entries(nv.seg[b]) \in Int /\ Live(nv.seg[b]) \in Int
<1>1. nv.seg \in [SuperBlock -> NVRAM_OOB_seg] /\ nv.total_alloc_seg \in Int
      /\ nv.total_OOB_entry \in Int /\ nv.total_invalid_entry \in Int
  BY DEF NvType
<1>2. /\ nv.seg[b] \in NVRAM_OOB_seg
      /\ nv.seg[b].alloc_seg \in Int /\ nv.seg[b].free_entry \in Int
      /\ nv.seg[b].invalid_entry \in Int
  BY <1>1 DEF NVRAM_OOB_seg
<1>3. nv.seg[b].alloc_seg * OOB_ENTRY_PER_SEG \in Int
  BY <1>2, NvramAssumption
<1>4. Entries(nv.seg[b]) \in Int /\ Live(nv.seg[b]) \in Int
  BY <1>2, <1>3 DEF Entries, Live
<1> QED BY <1>1, <1>2, <1>4

LEMMA AddEntryType ==
  ASSUME NEW nv \in NvType, NEW b \in SuperBlock
  PROVE  AddEntry(nv, b) \in NvType
<1> DEFINE full == nv.seg[b].free_entry = 0
           a == IF full THEN nv.seg[b].alloc_seg + 1 ELSE nv.seg[b].alloc_seg
           f == IF full THEN OOB_ENTRY_PER_SEG - 1 ELSE nv.seg[b].free_entry - 1
           x == IF full THEN nv.total_alloc_seg + 1 ELSE nv.total_alloc_seg
           y == nv.total_OOB_entry + 1
           s == [nv.seg EXCEPT ![b].alloc_seg = a, ![b].free_entry = f]
<1>1. a \in Int /\ f \in Int /\ x \in Int /\ y \in Int
  BY NvFields, NvramAssumption
<1>2. AddEntry(nv, b) = [nv EXCEPT !.seg = s, !.total_alloc_seg = x, !.total_OOB_entry = y]
  BY NvFields DEF AddEntry, NvType
<1> HIDE DEF a, f, x, y
<1>3. s \in [SuperBlock -> NVRAM_OOB_seg]
  BY <1>1, NvFields DEF NVRAM_OOB_seg
<1> HIDE DEF s
<1> QED BY <1>1, <1>2, <1>3 DEF NvType

LEMMA ReleaseSegsType ==
  ASSUME NEW nv \in NvType, NEW b \in SuperBlock
  PROVE  ReleaseSegs(nv, b) \in NvType
<1> DEFINE x == nv.total_alloc_seg - nv.seg[b].alloc_seg
           y == nv.total_OOB_entry - Entries(nv.seg[b])
           z == nv.total_invalid_entry - nv.seg[b].invalid_entry
           s == [nv.seg EXCEPT ![b] = EmptySeg]
<1>1. x \in Int /\ y \in Int /\ z \in Int
  BY NvFields
<1>2. s \in [SuperBlock -> NVRAM_OOB_seg]
  BY NvFields DEF EmptySeg, NVRAM_OOB_seg
<1>3. ReleaseSegs(nv, b) = [nv EXCEPT !.seg = s, !.total_alloc_seg = x,
                              !.total_OOB_entry = y, !.total_invalid_entry = z]
  BY DEF ReleaseSegs
<1> HIDE DEF x, y, z, s
<1> QED BY <1>1, <1>2, <1>3 DEF NvType

LEMMA InvalidCountType ==
  ASSUME NEW nv \in NvType, NEW b \in SuperBlock
  PROVE  INCREASE_INVALID_OOB_ENTRY_COUNT(nv, b) \in NvType
<1> DEFINE i == nv.seg[b].invalid_entry + 1
           z == nv.total_invalid_entry + 1
           s == [nv.seg EXCEPT ![b].invalid_entry = i]
<1>1. i \in Int /\ z \in Int
  BY NvFields
<1>2. INCREASE_INVALID_OOB_ENTRY_COUNT(nv, b) =
        [nv EXCEPT !.seg = s, !.total_invalid_entry = z]
  BY NvFields DEF INCREASE_INVALID_OOB_ENTRY_COUNT, NvType
<1> HIDE DEF i, z
<1>3. s \in [SuperBlock -> NVRAM_OOB_seg]
  BY <1>1, NvFields DEF NVRAM_OOB_seg
<1> HIDE DEF s
<1> QED BY <1>1, <1>2, <1>3 DEF NvType

\* NVRAM_OOB_GC finds its victim: among the superblocks with most invalid
\* entries there is a first one.
LEMMA GcVictimFound ==
  ASSUME NEW nv \in NvType
  PROVE  /\ GcVictim(nv) \in SuperBlock
         /\ \A c \in SuperBlock :
              nv.seg[c].invalid_entry <= nv.seg[GcVictim(nv)].invalid_entry
<1> USE GeometryAssumption
<1> DEFINE f == [b \in SuperBlock |-> nv.seg[b].invalid_entry]
           First(n) == \E b \in 0 .. n : \A c \in 0 .. n :
                         f[c] <= f[b] /\ (c < b => f[c] < f[b])
           T == {n \in SuperBlock : ~First(n)}
<1>1. \A b \in SuperBlock : f[b] \in Int
  BY NvFields
<1>2. T = {}
  <2>1. SUFFICES ASSUME T # {} PROVE FALSE
    OBVIOUS
  <2>2. T \subseteq Nat
    BY DEF SuperBlock
  <2>3. PICK m \in T : \A n \in T : m <= n
    BY <2>1, <2>2, SmallestExists
  <2> HIDE DEF f
  <2>4. m \in SuperBlock /\ m \in Nat /\ 0 .. m \subseteq SuperBlock /\ ~First(m)
    <3>1. m \in SuperBlock /\ ~First(m)
      BY <2>3
    <3>2. m \in Nat /\ 0 .. m \subseteq SuperBlock
      BY <3>1 DEF SuperBlock
    <3> QED BY <3>1, <3>2
  <2>5. CASE m = 0
    <3>1. 0 \in 0 .. 0 /\ \A c \in 0 .. 0 : c = 0
      OBVIOUS
    <3>2. f[0] <= f[0]
      BY <1>1, <2>4, <2>5
    <3> QED BY <2>4, <2>5, <3>1, <3>2
  <2>6. CASE m # 0
    <3>1. m - 1 \in SuperBlock /\ m - 1 \notin T
      <4> HIDE DEF T
      <4> QED BY <2>3, <2>4, <2>6 DEF SuperBlock
    <3>2. PICK b \in 0 .. m - 1 : \A c \in 0 .. m - 1 :
                         f[c] <= f[b] /\ (c < b => f[c] < f[b])
      BY <3>1
    <3>3. /\ b \in 0 .. m /\ m \in 0 .. m /\ b < m /\ f[b] \in Int /\ f[m] \in Int
          /\ \A c \in 0 .. m : c \in 0 .. m - 1 \/ c = m
          /\ \A c \in 0 .. m : f[c] \in Int
      BY <1>1, <2>4, <2>6, <3>2
    <3>4. CASE f[m] > f[b]
      <4>1. \A c \in 0 .. m : f[c] <= f[m] /\ (c < m => f[c] < f[m])
        BY <3>2, <3>3, <3>4
      <4> QED BY <2>4, <3>3, <4>1
    <3>5. CASE ~(f[m] > f[b])
      <4>1. \A c \in 0 .. m : f[c] <= f[b] /\ (c < b => f[c] < f[b])
        BY <3>2, <3>3, <3>5
      <4> QED BY <2>4, <3>3, <4>1
    <3> QED BY <3>4, <3>5
  <2> QED BY <2>5, <2>6
<1>3. BLOCK_NB - 1 \in SuperBlock /\ SuperBlock = 0 .. BLOCK_NB - 1
  BY DEF SuperBlock
<1>4. First(BLOCK_NB - 1)
  BY <1>2, <1>3
<1>5. \E b \in SuperBlock : \A c \in SuperBlock :
        /\ nv.seg[c].invalid_entry <= nv.seg[b].invalid_entry
        /\ c < b => nv.seg[c].invalid_entry < nv.seg[b].invalid_entry
  BY <1>3, <1>4
<1> QED BY <1>5 DEF GcVictim

\* A set of numbers that has 0 and with each number below n the next one.
LEMMA CountUp ==
  ASSUME NEW n \in Nat, NEW T, 0 \in T, \A i \in 0 .. n - 1 : i \in T => i + 1 \in T
  PROVE  0 .. n \subseteq T
<1> DEFINE R == {i \in 0 .. n : i \notin T}
<1> SUFFICES ASSUME R # {} PROVE FALSE
  OBVIOUS
<1>1. R \subseteq Nat
  OBVIOUS
<1>2. PICK m \in R : \A k \in R : m <= k
  BY <1>1, SmallestExists, Zenon
<1>3. m \in 0 .. n /\ m \notin T /\ m # 0
  BY <1>2
<1>4. m - 1 \in 0 .. n - 1 /\ m - 1 \in 0 .. n /\ ~(m <= m - 1) /\ (m - 1) + 1 = m
  BY <1>3
<1>5. m - 1 \in T
  BY <1>2, <1>4
<1> QED BY <1>3, <1>4, <1>5

\* F[i] is r after i entries of superblock v have been written.
WritesBack(r, v, n, F) == F = [i \in 0 .. n |-> IF i = 0 THEN r ELSE AddEntry(F[i - 1], v)]

\* The recursive definition of NVRAM_OOB_GC defines something.
LEMMA WritesExist ==
  ASSUME NEW r, NEW v, NEW n \in Nat
  PROVE  \E F : WritesBack(r, v, n, F)
<1> DEFINE T == {i \in Nat : \E F : WritesBack(r, v, i, F)}
<1>1. 0 \in T
  <2> DEFINE G == [i \in 0 .. 0 |-> r]
  <2>1. WritesBack(r, v, 0, G)
    BY DEF WritesBack
  <2> QED BY <2>1
<1>2. ASSUME NEW m \in 0 .. n - 1, m \in T PROVE m + 1 \in T
  <2>1. PICK F : WritesBack(r, v, m, F)
    BY <1>2
  <2> DEFINE G == [i \in 0 .. m + 1 |-> IF i = m + 1 THEN AddEntry(F[m], v) ELSE F[i]]
  <2>2. \A i \in 0 .. m : F[i] = IF i = 0 THEN r ELSE AddEntry(F[i - 1], v)
    BY <2>1 DEF WritesBack
  <2>3. \A i \in 0 .. m : G[i] = F[i]
    OBVIOUS
  <2>4. G[m + 1] = AddEntry(F[m], v) /\ m \in 0 .. m
    OBVIOUS
  <2>5. DOMAIN G = 0 .. m + 1 /\ G = [i \in 0 .. m + 1 |-> G[i]]
    OBVIOUS
  <2> HIDE DEF G
  <2>6. ASSUME NEW i \in 0 .. m + 1 PROVE G[i] = IF i = 0 THEN r ELSE AddEntry(G[i - 1], v)
    <3>1. CASE i = m + 1
      BY <2>3, <2>4, <3>1
    <3>2. CASE i \in 0 .. m /\ i # 0
      <4>1. i - 1 \in 0 .. m
        BY <3>2
      <4> QED BY <2>2, <2>3, <3>2, <4>1
    <3>3. CASE i = 0
      <4>1. 0 \in 0 .. m
        OBVIOUS
      <4> QED BY <2>2, <2>3, <3>3, <4>1
    <3> QED BY <3>1, <3>2, <3>3
  <2>7. G = [i \in 0 .. m + 1 |-> IF i = 0 THEN r ELSE AddEntry(G[i - 1], v)]
    BY <2>5, <2>6
  <2> QED BY <2>7 DEF WritesBack
<1> HIDE DEF T
<1>3. 0 .. n \subseteq T
  BY <1>1, <1>2, CountUp
<1> QED BY <1>3 DEF T

LEMMA WritesType ==
  ASSUME NEW r \in NvType, NEW v \in SuperBlock, NEW n \in Nat, NEW F, WritesBack(r, v, n, F)
  PROVE  F[n] \in NvType
<1> DEFINE T == {i \in 0 .. n : F[i] \in NvType}
<1>1. \A i \in 0 .. n : F[i] = IF i = 0 THEN r ELSE AddEntry(F[i - 1], v)
  BY DEF WritesBack
<1>2. 0 \in T
  BY <1>1
<1>3. ASSUME NEW m \in 0 .. n - 1, m \in T PROVE m + 1 \in T
  <2>1. m + 1 \in 0 .. n /\ m + 1 # 0 /\ (m + 1) - 1 = m
    OBVIOUS
  <2>2. F[m + 1] = AddEntry(F[m], v)
    BY <1>1, <2>1
  <2> QED BY <1>3, <2>1, <2>2, AddEntryType
<1> HIDE DEF T
<1>4. 0 .. n \subseteq T
  BY <1>2, <1>3, CountUp
<1> QED BY <1>4 DEF T

LEMMA NvramGcType ==
  ASSUME NEW nv \in NvType
  PROVE  NVRAM_OOB_GC(nv) \in NvType
<1> DEFINE v == GcVictim(nv)
           live == Live(nv.seg[v])
           r == ReleaseSegs(nv, v)
           K == CHOOSE F : F = [i \in 0 .. live |-> IF i = 0 THEN r ELSE AddEntry(F[i - 1], v)]
<1>1. v \in SuperBlock
  BY GcVictimFound
<1>2. live \in Int /\ r \in NvType
  BY <1>1, NvFields, ReleaseSegsType
<1>3. NVRAM_OOB_GC(nv) = IF live > 0 THEN K[live] ELSE r
  BY Zenon DEF NVRAM_OOB_GC
<1>4. K = CHOOSE F : WritesBack(r, v, live, F)
  BY Zenon DEF WritesBack
<1> HIDE DEF v, live, r, K
<1>5. CASE live > 0
  <2>1. live \in Nat
    BY <1>2, <1>5
  <2>2. \E F : WritesBack(r, v, live, F)
    BY <2>1, WritesExist
  <2>3. WritesBack(r, v, live, K)
    BY <1>4, <2>2, Zenon
  <2> QED BY <1>1, <1>2, <1>3, <1>5, <2>1, <2>3, WritesType
<1>6. CASE ~(live > 0)
  BY <1>2, <1>3, <1>6
<1> QED BY <1>5, <1>6

-----------------------------------------------------------------------------
(***************************************************************************)
(* The tables: types and effects                                           *)
(***************************************************************************)
LEMMA TabFields ==
  ASSUME NEW t \in TabType
  PROVE  /\ t.mapping_table \in [LPN -> PPN \cup {NoPpn}]
         /\ t.in_nvram \in [LPN -> {-1, 0, 1}]
         /\ t.inverse \in [PPN -> Seq(LPN)]
         /\ t.valid_array \in [PPN -> Int8]
         /\ t.stat \in StatType /\ t.nv \in NvType /\ t.data \in [PPN -> Bytes]
BY DEF TabType

LEMMA InitTabType == InitTab \in TabType
<1> USE GeometryAssumption, TablesAssumption
<1> DEFINE m == [l \in LPN |-> NoPpn]
           n == [l \in LPN |-> -1]
           i == [p \in PPN |-> << >>]
           v == [p \in PPN |-> 0]
           d == [p \in PPN |-> Blank]
           s == [ppn_free |-> FLASH_NB * BLOCK_NB * PAGE_NB,
                 ppn_valid |-> 0, ppn_invalid |-> 0, ppn_n21 |-> 0, lpn_valid |-> 0]
<1>1. m \in [LPN -> PPN \cup {NoPpn}] /\ n \in [LPN -> {-1, 0, 1}]
  OBVIOUS
<1>2. << >> \in Seq(LPN)
  OBVIOUS
<1>3. i \in [PPN -> Seq(LPN)]
  BY <1>2
<1>4. v \in [PPN -> Int8] /\ d \in [PPN -> Bytes]
  BY DEF Int8, Bytes
<1>5. s \in StatType
  <2>1. FLASH_NB * BLOCK_NB * PAGE_NB \in Int /\ 0 \in Int
    OBVIOUS
  <2> QED BY <2>1 DEF StatType
<1>6. InitTab = [mapping_table |-> m, in_nvram |-> n, inverse |-> i,
                 valid_array |-> v, stat |-> s, nv |-> InitNv, data |-> d]
  BY DEF InitTab
<1> HIDE DEF m, n, i, v, d, s
<1> QED BY <1>1, <1>3, <1>4, <1>5, <1>6, InitNvType DEF TabType

\* The list of ppn with one more node, and a count one up and one down.
Appended(t, ppn, lpn) ==
  IF lpn_cnt(t, ppn) = 0 THEN <<lpn>> ELSE Append(t.inverse[ppn], lpn)

OneMore(v) == IF v < 0 THEN v ELSE Int8Inc(v)
OneLess(v) == IF v <= 0 THEN v ELSE IF v = 1 THEN -1 ELSE v - 1

LEMMA IncreaseEffect ==
  ASSUME NEW t \in TabType, NEW ppn \in PPN, NEW lpn \in LPN
  PROVE  LET u == INCREASE_INVERSE_MAPPING(t, ppn, lpn) IN
         /\ u \in TabType
         /\ u.inverse = [t.inverse EXCEPT ![ppn] = Appended(t, ppn, lpn)]
         /\ u.mapping_table = t.mapping_table /\ u.in_nvram = t.in_nvram
         /\ u.valid_array = t.valid_array /\ u.stat = t.stat
         /\ u.nv = t.nv /\ u.data = t.data
<1> DEFINE e == Appended(t, ppn, lpn)
           i == [t.inverse EXCEPT ![ppn] = e]
           u == INCREASE_INVERSE_MAPPING(t, ppn, lpn)
<1>1. e \in Seq(LPN)
  <2>1. t.inverse[ppn] \in Seq(LPN)
    BY TabFields
  <2>2. Append(t.inverse[ppn], lpn) \in Seq(LPN) /\ <<lpn>> \in Seq(LPN)
    BY <2>1
  <2> QED BY <2>2 DEF Appended
<1>2. u = [t EXCEPT !.inverse = i]
  BY DEF INCREASE_INVERSE_MAPPING, Appended
<1>3. i = [t.inverse EXCEPT ![ppn] = e]
  OBVIOUS
<1> HIDE DEF e, u
<1>4. i \in [PPN -> Seq(LPN)]
  BY <1>1, TabFields
<1> HIDE DEF i
<1>5. /\ u \in TabType /\ u.inverse = i
      /\ u.mapping_table = t.mapping_table /\ u.in_nvram = t.in_nvram
      /\ u.valid_array = t.valid_array /\ u.stat = t.stat
      /\ u.nv = t.nv /\ u.data = t.data
  BY <1>2, <1>4 DEF TabType
<1> QED BY <1>5 DEF e, i, u

\* RemoveFirst gives a list of the same kind, whether or not lpn is in it.
LEMMA RemoveFirstType ==
  ASSUME NEW S, NEW s \in Seq(S), NEW e
  PROVE  RemoveFirst(s, e) \in Seq(S)
<1>1. CASE e \in ToSet(s)
  <2>1. PICK i \in 1 .. Len(s) :
          RemoveFirst(s, e) = SubSeq(s, 1, i - 1) \o SubSeq(s, i + 1, Len(s))
    BY <1>1, FirstEntry
  <2> QED BY <2>1, ListRemove
<1>2. CASE e \notin ToSet(s)
  <2>1. ~ \E i \in 1 .. Len(s) : s[i] = e
    BY <1>2, InToSet
  <2> QED BY <2>1 DEF RemoveFirst
<1> QED BY <1>1, <1>2

LEMMA DecreaseEffect ==
  ASSUME NEW t \in TabType, NEW ppn \in PPN, NEW lpn \in LPN
  PROVE  LET u == DECREASE_INVERSE_MAPPING(t, ppn, lpn) IN
         /\ u \in TabType
         /\ u.inverse = [t.inverse EXCEPT ![ppn] = RemoveFirst(t.inverse[ppn], lpn)]
         /\ u.mapping_table = t.mapping_table /\ u.in_nvram = t.in_nvram
         /\ u.valid_array = t.valid_array /\ u.stat = t.stat
         /\ u.nv = t.nv /\ u.data = t.data
<1> DEFINE e == RemoveFirst(t.inverse[ppn], lpn)
           i == [t.inverse EXCEPT ![ppn] = e]
           u == DECREASE_INVERSE_MAPPING(t, ppn, lpn)
<1>1. e \in Seq(LPN)
  <2>1. t.inverse[ppn] \in Seq(LPN)
    BY TabFields
  <2> QED BY <2>1, RemoveFirstType
<1>2. u = [t EXCEPT !.inverse = i]
  BY DEF DECREASE_INVERSE_MAPPING
<1> HIDE DEF e, u
<1>4. i \in [PPN -> Seq(LPN)]
  BY <1>1, TabFields
<1> HIDE DEF i
<1>5. /\ u \in TabType /\ u.inverse = i
      /\ u.mapping_table = t.mapping_table /\ u.in_nvram = t.in_nvram
      /\ u.valid_array = t.valid_array /\ u.stat = t.stat
      /\ u.nv = t.nv /\ u.data = t.data
  BY <1>2, <1>4 DEF TabType
<1> QED BY <1>5 DEF e, i, u

LEMMA StatFields ==
  ASSUME NEW s \in StatType
  PROVE  /\ s.ppn_free \in Int /\ s.ppn_valid \in Int /\ s.ppn_invalid \in Int
         /\ s.ppn_n21 \in Int /\ s.lpn_valid \in Int
BY DEF StatType

\* One more reference, unless the page is invalid.
LEMMA EntryVALIDEffect ==
  ASSUME NEW t \in TabType, NEW ppn \in PPN
  PROVE  LET u == EntryVALID(t, ppn)
             v == t.valid_array[ppn] IN
         /\ u \in TabType
         /\ u.valid_array = [t.valid_array EXCEPT ![ppn] = OneMore(v)]
         /\ u.mapping_table = t.mapping_table /\ u.in_nvram = t.in_nvram
         /\ u.inverse = t.inverse /\ u.nv = t.nv /\ u.data = t.data
<1> USE TablesAssumption
<1> DEFINE u == EntryVALID(t, ppn)
           v == t.valid_array[ppn]
<1>1. v \in Int8 /\ t.valid_array \in [PPN -> Int8] /\ t.stat \in StatType
  BY TabFields
<1>2. CASE v < 0
  <2>1. u = t
    BY <1>2 DEF EntryVALID
  <2>2. t.valid_array = [t.valid_array EXCEPT ![ppn] = OneMore(v)]
    BY <1>1, <1>2 DEF OneMore
  <2> QED BY <2>1, <2>2
<1>3. CASE ~(v < 0)
  <2> DEFINE z == t.stat
             f == z.ppn_free - If(v = 0)
             g == z.ppn_valid + If(v = 0)
             h == z.ppn_n21 + If(v = 1)
             k == z.lpn_valid + 1
             s == [z EXCEPT !.ppn_free = f, !.ppn_valid = g, !.ppn_n21 = h, !.lpn_valid = k]
             a == [t.valid_array EXCEPT ![ppn] = Int8Inc(v)]
  <2>1. s \in StatType
    <3>1. If(v = 0) \in Int /\ If(v = 1) \in Int
      BY DEF If
    <3>2. f \in Int /\ g \in Int /\ h \in Int /\ k \in Int
      BY <1>1, <3>1, StatFields
    <3> HIDE DEF f, g, h, k
    <3> QED BY <1>1, <3>2 DEF StatType
  <2>2. a \in [PPN -> Int8]
    <3>1. Int8Inc(v) \in Int8
      BY <1>1 DEF Int8Inc, Int8
    <3> QED BY <1>1, <3>1
  <2>3. u = [t EXCEPT !.valid_array = a, !.stat = s]
    BY <1>3 DEF EntryVALID, TabType
  <2>4. a = [t.valid_array EXCEPT ![ppn] = OneMore(v)]
    BY <1>3 DEF OneMore
  <2> HIDE DEF u, s, a
  <2>5. /\ u \in TabType /\ u.valid_array = a
        /\ u.mapping_table = t.mapping_table /\ u.in_nvram = t.in_nvram
        /\ u.inverse = t.inverse /\ u.nv = t.nv /\ u.data = t.data
    BY <2>1, <2>2, <2>3 DEF TabType
  <2> QED BY <2>4, <2>5 DEF u
<1> QED BY <1>2, <1>3

\* One reference less; a page without references is invalid.
LEMMA EntryINVALIDEffect ==
  ASSUME NEW t \in TabType, NEW ppn \in PPN
  PROVE  LET u == EntryINVALID(t, ppn)
             v == t.valid_array[ppn] IN
         /\ u \in TabType
         /\ u.valid_array = [t.valid_array EXCEPT ![ppn] = OneLess(v)]
         /\ u.data = [t.data EXCEPT ![ppn] = IF v = 1 THEN Blank ELSE t.data[ppn]]
         /\ u.mapping_table = t.mapping_table /\ u.in_nvram = t.in_nvram
         /\ u.inverse = t.inverse /\ u.nv = t.nv
<1> USE TablesAssumption
<1> DEFINE u == EntryINVALID(t, ppn)
           v == t.valid_array[ppn]
           w == OneLess(v)
           x == IF v = 1 THEN Blank ELSE t.data[ppn]
           a == [t.valid_array EXCEPT ![ppn] = w]
           d == [t.data EXCEPT ![ppn] = x]
<1>1. /\ v \in Int8 /\ t.valid_array \in [PPN -> Int8] /\ t.stat \in StatType
      /\ t.data \in [PPN -> Bytes]
  BY TabFields
<1>2. CASE v <= 0
  <2>1. u = t
    BY <1>2 DEF EntryINVALID
  <2>2. a = t.valid_array
    BY <1>1, <1>2 DEF OneLess
  <2>3. v # 1
    BY <1>1, <1>2 DEF Int8
  <2>4. d = t.data
    BY <1>1, <2>3
  <2> QED BY <2>1, <2>2, <2>4
<1>3. CASE ~(v <= 0)
  <2> DEFINE z == t.stat
             f == z.ppn_invalid + If(v = 1)
             g == z.ppn_valid - If(v = 1)
             h == z.ppn_n21 - If(v = 2)
             k == z.lpn_valid - 1
             s == [z EXCEPT !.ppn_invalid = f, !.ppn_valid = g, !.ppn_n21 = h, !.lpn_valid = k]
  <2>1. s \in StatType
    <3>1. If(v = 1) \in Int /\ If(v = 2) \in Int
      BY DEF If
    <3>2. f \in Int /\ g \in Int /\ h \in Int /\ k \in Int
      BY <1>1, <3>1, StatFields
    <3> HIDE DEF f, g, h, k
    <3> QED BY <1>1, <3>2 DEF StatType
  <2>2. a \in [PPN -> Int8]
    <3>1. w \in Int8
      BY <1>1 DEF Int8, OneLess
    <3> QED BY <1>1, <3>1
  <2>3. d \in [PPN -> Bytes]
    BY <1>1 DEF Bytes
  <2>4. u = [t EXCEPT !.valid_array = a, !.stat = s, !.data = d]
    <3>1. w = IF v = 1 THEN -1 ELSE v - 1
      BY <1>3 DEF OneLess
    <3> DEFINE b == [t.valid_array EXCEPT ![ppn] = IF v = 1 THEN -1 ELSE v - 1]
    <3>2. u = [t EXCEPT !.valid_array = b, !.stat = s, !.data = d]
      <4>1. u = [t EXCEPT !.valid_array[ppn] = IF v = 1 THEN -1 ELSE v - 1,
                 !.stat.ppn_invalid = @ + If(v = 1),
                 !.stat.ppn_valid   = @ - If(v = 1),
                 !.stat.ppn_n21     = @ - If(v = 2),
                 !.stat.lpn_valid   = @ - 1,
                 !.data[ppn]        = IF v = 1 THEN Blank ELSE @]
        BY <1>3, Zenon DEF EntryINVALID
      <4> QED BY <4>1, ZenonT(60) DEF TabType
    <3>3. a = b
      BY <3>1
    <3> HIDE DEF a, b
    <3> QED BY <3>2, <3>3
  <2> HIDE DEF u, s, a, d
  <2>5. /\ u \in TabType /\ u.valid_array = a /\ u.data = d
        /\ u.mapping_table = t.mapping_table /\ u.in_nvram = t.in_nvram
        /\ u.inverse = t.inverse /\ u.nv = t.nv
    BY <2>1, <2>2, <2>3, <2>4 DEF TabType
  <2> QED BY <2>5 DEF u, a, d
<1> QED BY <1>2, <1>3

LEMMA CountOfPages ==
  ASSUME NEW A, A \subseteq PPN
  PROVE  Cardinality(A) \in Int
<1>1. IsFiniteSet(PPN)
  <2>1. FLASH_NB * BLOCK_NB * PAGE_NB - 1 \in Int /\ 0 \in Int
    BY GeometryAssumption
  <2> QED BY <2>1, FS_Interval DEF PPN
<1>2. IsFiniteSet(A)
  BY <1>1, FS_Subset
<1> QED BY <1>2, FS_CardinalityType

\* The used and the invalid pages of superblock b are free.
LEMMA EraseEffect ==
  ASSUME NEW t \in TabType, NEW b \in SuperBlock
  PROVE  LET u == EraseSuperblock(t, b)
             va == t.valid_array
             dirty == {p \in PagesOf(b) : va[p] > 0 \/ va[p] = -1} IN
         /\ u \in TabType
         /\ u.valid_array = [p \in PPN |-> IF p \in dirty THEN 0 ELSE va[p]]
         /\ u.data = [p \in PPN |-> IF p \in dirty THEN Blank ELSE t.data[p]]
         /\ u.mapping_table = t.mapping_table /\ u.in_nvram = t.in_nvram
         /\ u.inverse = t.inverse /\ u.nv = t.nv
<1> USE TablesAssumption
<1> DEFINE u     == EraseSuperblock(t, b)
           va    == t.valid_array
           used  == {p \in PagesOf(b) : va[p] > 0}
           inv   == {p \in PagesOf(b) : va[p] = -1}
           refs  == UNION {{p} \X (1 .. va[p]) : p \in used}
           dirty == {p \in PagesOf(b) : va[p] > 0 \/ va[p] = -1}
           a == [p \in PPN |-> IF p \in used \cup inv THEN 0 ELSE va[p]]
           d == [p \in PPN |-> IF p \in used \cup inv THEN Blank ELSE t.data[p]]
           z == t.stat
           f == z.ppn_free + Cardinality(used \cup inv)
           g == z.ppn_valid - Cardinality(used)
           h == z.ppn_invalid - Cardinality(inv)
           k == z.ppn_n21 - Cardinality({p \in used : va[p] > 1})
           m == z.lpn_valid - Cardinality(refs)
           s == [ppn_free |-> f, ppn_valid |-> g, ppn_invalid |-> h,
                 ppn_n21 |-> k, lpn_valid |-> m]
<1>1. va \in [PPN -> Int8] /\ t.data \in [PPN -> Bytes] /\ z \in StatType
  BY TabFields
<1>2. /\ Cardinality(used \cup inv) \in Int /\ Cardinality(used) \in Int
      /\ Cardinality(inv) \in Int /\ Cardinality({p \in used : va[p] > 1}) \in Int
  <2>1. /\ used \cup inv \subseteq PPN /\ used \subseteq PPN /\ inv \subseteq PPN
        /\ {p \in used : va[p] > 1} \subseteq PPN
    BY DEF PagesOf
  <2> HIDE DEF used, inv
  <2> QED BY <2>1, CountOfPages
<1>3. Cardinality(refs) \in Int
  <2>1. refs \subseteq PPN \X (1 .. REFCNT_MAX)
    <3>1. ASSUME NEW p \in used PROVE {p} \X (1 .. va[p]) \subseteq PPN \X (1 .. REFCNT_MAX)
      <4>1. p \in PPN /\ va[p] \in Int8
        BY <1>1, <3>1 DEF PagesOf
      <4>2. 1 .. va[p] \subseteq 1 .. REFCNT_MAX
        BY <4>1 DEF Int8
      <4> QED BY <4>1, <4>2
    <3> HIDE DEF used
    <3> QED BY <3>1
  <2>2. IsFiniteSet(PPN) /\ IsFiniteSet(1 .. REFCNT_MAX)
    <3>1. FLASH_NB * BLOCK_NB * PAGE_NB - 1 \in Int /\ 0 \in Int /\ 1 \in Int
          /\ REFCNT_MAX \in Int
      BY GeometryAssumption
    <3> QED BY <3>1, FS_Interval DEF PPN
  <2>3. IsFiniteSet(PPN \X (1 .. REFCNT_MAX))
    BY <2>2, FS_Product
  <2> HIDE DEF refs
  <2> QED BY <2>1, <2>3, FS_Subset, FS_CardinalityType
<1>4. s \in StatType
  <2>1. f \in Int /\ g \in Int /\ h \in Int /\ k \in Int /\ m \in Int
    <3> HIDE DEF used, inv, refs
    <3> QED BY <1>1, <1>2, <1>3, StatFields
  <2> HIDE DEF f, g, h, k, m
  <2> QED BY <2>1 DEF StatType
<1>5. used \cup inv = dirty
  OBVIOUS
<1>6. u = [t EXCEPT !.valid_array = a, !.data = d, !.stat = s]
  BY Zenon DEF EraseSuperblock
<1>7. a = [p \in PPN |-> IF p \in dirty THEN 0 ELSE va[p]]
      /\ d = [p \in PPN |-> IF p \in dirty THEN Blank ELSE t.data[p]]
  <2> HIDE DEF used, inv, dirty
  <2> QED BY <1>5
<1>8. a \in [PPN -> Int8] /\ d \in [PPN -> Bytes]
  <2>1. 0 \in Int8 /\ Blank \in Bytes
    BY DEF Int8, Bytes
  <2> HIDE DEF used, inv, dirty
  <2> QED BY <1>1, <2>1
<1> HIDE DEF u, a, d, s
<1>9. /\ u \in TabType /\ u.valid_array = a /\ u.data = d
      /\ u.mapping_table = t.mapping_table /\ u.in_nvram = t.in_nvram
      /\ u.inverse = t.inverse /\ u.nv = t.nv
  BY <1>4, <1>6, <1>8 DEF TabType
<1> QED BY <1>7, <1>9 DEF u

\* The reference of lpn to its page is dropped: unless lpn is not mapped, or
\* the list of its page is taken as empty, nothing is done then.
LEMMA UpdateOldEffect ==
  ASSUME NEW t \in TabType, NEW lpn \in LPN
  PROVE  LET u == UPDATE_OLD_PAGE_MAPPING(t, lpn)
             old == t.mapping_table[lpn]
             v == t.valid_array[old] IN
         /\ u \in TabType
         /\ u.mapping_table = t.mapping_table /\ u.in_nvram = t.in_nvram
         /\ old = NoPpn => u = t
         /\ old # NoPpn /\ lpn_cnt(t, old) # 0 =>
              /\ u.inverse = [t.inverse EXCEPT ![old] = RemoveFirst(t.inverse[old], lpn)]
              /\ u.valid_array = [t.valid_array EXCEPT ![old] = OneLess(v)]
              /\ u.data = [t.data EXCEPT ![old] = IF v = 1 THEN Blank ELSE t.data[old]]
<1> DEFINE u   == UPDATE_OLD_PAGE_MAPPING(t, lpn)
           old == t.mapping_table[lpn]
           x   == DECREASE_INVERSE_MAPPING(t, old, lpn)
           y   == EntryINVALID(x, old)
           n   == INCREASE_INVALID_OOB_ENTRY_COUNT(y.nv, CALC_BLOCK(old))
           z   == [y EXCEPT !.nv = n]
           v   == t.valid_array[old]
<1>1. old \in PPN \cup {NoPpn}
  BY TabFields
<1>2. CASE old = NoPpn \/ lpn_cnt(t, old) = 0
  <2>1. u = t
    BY <1>2 DEF UPDATE_OLD_PAGE_MAPPING
  <2> QED BY <1>2, <2>1
<1>3. CASE ~(old = NoPpn \/ lpn_cnt(t, old) = 0)
  <2>1. old \in PPN
    BY <1>1, <1>3
  <2>2. u = IF t.in_nvram[lpn] # 1 THEN y ELSE z
    BY <1>3 DEF UPDATE_OLD_PAGE_MAPPING
  <2> HIDE DEF old
  <2>3. /\ x \in TabType
        /\ x.inverse = [t.inverse EXCEPT ![old] = RemoveFirst(t.inverse[old], lpn)]
        /\ x.mapping_table = t.mapping_table /\ x.in_nvram = t.in_nvram
        /\ x.valid_array = t.valid_array /\ x.nv = t.nv /\ x.data = t.data
    BY <2>1, DecreaseEffect
  <2> HIDE DEF x, v
  <2>4. /\ y \in TabType
        /\ y.valid_array = [x.valid_array EXCEPT ![old] = OneLess(x.valid_array[old])]
        /\ y.data = [x.data EXCEPT ![old] = IF x.valid_array[old] = 1 THEN Blank ELSE x.data[old]]
        /\ y.mapping_table = x.mapping_table /\ y.in_nvram = x.in_nvram
        /\ y.inverse = x.inverse /\ y.nv = x.nv
    BY <2>1, <2>3, EntryINVALIDEffect
  <2> HIDE DEF y
  <2>5. n \in NvType
    BY <2>1, <2>4, TabFields, AddressParts, InvalidCountType
  <2>6. z = [y EXCEPT !.nv = n]
    OBVIOUS
  <2> HIDE DEF n, z
  <2>7. /\ z \in TabType /\ z.mapping_table = y.mapping_table /\ z.in_nvram = y.in_nvram
        /\ z.inverse = y.inverse /\ z.valid_array = y.valid_array /\ z.data = y.data
    BY <2>4, <2>5, <2>6 DEF TabType
  <2>8. x.valid_array[old] = v
    BY <2>3 DEF v
  <2> HIDE DEF u
  <2>9. /\ u \in TabType /\ u.mapping_table = t.mapping_table /\ u.in_nvram = t.in_nvram
        /\ u.inverse = x.inverse
        /\ u.valid_array = [t.valid_array EXCEPT ![old] = OneLess(v)]
        /\ u.data = [t.data EXCEPT ![old] = IF v = 1 THEN Blank ELSE t.data[old]]
    <3>1. CASE t.in_nvram[lpn] # 1
      BY <2>2, <2>3, <2>4, <2>8, <3>1
    <3>2. CASE t.in_nvram[lpn] = 1
      BY <2>2, <2>3, <2>4, <2>7, <2>8, <3>2
    <3> QED BY <3>1, <3>2
  <2> QED BY <1>3, <2>3, <2>9 DEF u, v, old
<1> QED BY <1>2, <1>3

LEMMA UpdateNewEffect ==
  ASSUME NEW t \in TabType, NEW lpn \in LPN, NEW ppn \in PPN
  PROVE  LET u == UPDATE_NEW_PAGE_MAPPING(t, lpn, ppn)
             v == t.valid_array[ppn] IN
         /\ u \in TabType
         /\ u.mapping_table = [t.mapping_table EXCEPT ![lpn] = ppn]
         /\ u.inverse = [t.inverse EXCEPT ![ppn] = Appended(t, ppn, lpn)]
         /\ u.valid_array = [t.valid_array EXCEPT ![ppn] = OneMore(v)]
         /\ u.in_nvram = t.in_nvram /\ u.nv = t.nv /\ u.data = t.data
<1> DEFINE u == UPDATE_NEW_PAGE_MAPPING(t, lpn, ppn)
           v == t.valid_array[ppn]
           x == INCREASE_INVERSE_MAPPING(t, ppn, lpn)
           m == [x.mapping_table EXCEPT ![lpn] = ppn]
           y == [x EXCEPT !.mapping_table = m]
<1>1. /\ x \in TabType
      /\ x.inverse = [t.inverse EXCEPT ![ppn] = Appended(t, ppn, lpn)]
      /\ x.mapping_table = t.mapping_table /\ x.in_nvram = t.in_nvram
      /\ x.valid_array = t.valid_array /\ x.nv = t.nv /\ x.data = t.data
  BY IncreaseEffect
<1>2. u = EntryVALID(y, ppn)
  BY DEF UPDATE_NEW_PAGE_MAPPING
<1> HIDE DEF x, u, v
<1>3. m \in [LPN -> PPN \cup {NoPpn}]
  BY <1>1, TabFields
<1>4. y = [x EXCEPT !.mapping_table = m]
  OBVIOUS
<1>5. m = [t.mapping_table EXCEPT ![lpn] = ppn]
  BY <1>1
<1> HIDE DEF m, y
<1>6. /\ y \in TabType /\ y.mapping_table = m /\ y.in_nvram = x.in_nvram
      /\ y.inverse = x.inverse /\ y.valid_array = x.valid_array /\ y.nv = x.nv
      /\ y.data = x.data
  BY <1>1, <1>3, <1>4 DEF TabType
<1>7. /\ u \in TabType
      /\ u.valid_array = [y.valid_array EXCEPT ![ppn] = OneMore(y.valid_array[ppn])]
      /\ u.mapping_table = y.mapping_table /\ u.in_nvram = y.in_nvram
      /\ u.inverse = y.inverse /\ u.nv = y.nv /\ u.data = y.data
  BY <1>2, <1>6, EntryVALIDEffect
<1>8. y.valid_array[ppn] = v
  BY <1>1, <1>6 DEF v
<1>9. /\ u \in TabType /\ u.mapping_table = m /\ u.inverse = x.inverse
      /\ u.valid_array = [t.valid_array EXCEPT ![ppn] = OneMore(v)]
      /\ u.in_nvram = t.in_nvram /\ u.nv = t.nv /\ u.data = t.data
  BY <1>1, <1>6, <1>7, <1>8
<1> QED BY <1>1, <1>5, <1>9 DEF u, v

LEMMA UnmapEffect ==
  ASSUME NEW t \in TabType, NEW lpn \in LPN
  PROVE  LET u == UPDATE_OLD_PAGE_MAPPING(t, lpn)
             w == Unmap(t, lpn) IN
         /\ w \in TabType
         /\ w.mapping_table = [t.mapping_table EXCEPT ![lpn] = NoPpn]
         /\ w.in_nvram = t.in_nvram /\ w.inverse = u.inverse
         /\ w.valid_array = u.valid_array /\ w.data = u.data
<1> DEFINE u == UPDATE_OLD_PAGE_MAPPING(t, lpn)
           w == Unmap(t, lpn)
           m == [u.mapping_table EXCEPT ![lpn] = NoPpn]
<1>1. /\ u \in TabType /\ u.mapping_table = t.mapping_table /\ u.in_nvram = t.in_nvram
  BY UpdateOldEffect
<1>2. w = [u EXCEPT !.mapping_table = m]
  BY DEF Unmap
<1>3. m = [t.mapping_table EXCEPT ![lpn] = NoPpn]
  BY <1>1
<1> HIDE DEF u, w
<1>4. m \in [LPN -> PPN \cup {NoPpn}]
  BY <1>1, TabFields
<1> HIDE DEF m
<1>5. /\ w \in TabType /\ w.mapping_table = m /\ w.in_nvram = u.in_nvram
      /\ w.inverse = u.inverse /\ w.valid_array = u.valid_array /\ w.data = u.data
  BY <1>1, <1>2, <1>4 DEF TabType
<1> QED BY <1>1, <1>3, <1>5 DEF u, w

LEMMA ProgramEffect ==
  ASSUME NEW t \in TabType, NEW ppn \in PPN, NEW lpn \in LPN, NEW bytes \in Bytes
  PROVE  LET u == UPDATE_NEW_PAGE_MAPPING(UPDATE_OLD_PAGE_MAPPING(t, lpn), lpn, ppn)
             w == Program(t, ppn, lpn, bytes) IN
         /\ w \in TabType
         /\ w.mapping_table = [t.mapping_table EXCEPT ![lpn] = ppn]
         /\ w.inverse = u.inverse /\ w.valid_array = u.valid_array
         /\ w.data = [u.data EXCEPT ![ppn] = bytes]
<1> DEFINE o == UPDATE_OLD_PAGE_MAPPING(t, lpn)
           u == UPDATE_NEW_PAGE_MAPPING(o, lpn, ppn)
           w == Program(t, ppn, lpn, bytes)
           i == [u.in_nvram EXCEPT ![lpn] = 0]
           d == [u.data EXCEPT ![ppn] = bytes]
<1>1. o \in TabType /\ o.mapping_table = t.mapping_table
  BY UpdateOldEffect
<1>2. w = [u EXCEPT !.in_nvram = i, !.data = d]
  <2>1. w = [u EXCEPT !.in_nvram[lpn] = 0, !.data[ppn] = bytes]
    BY Zenon DEF Program
  <2> HIDE DEF u, w
  <2> QED BY <2>1
<1> HIDE DEF o
<1>3. u \in TabType /\ u.mapping_table = [t.mapping_table EXCEPT ![lpn] = ppn]
  <2>0. o \in TabType
    BY <1>1
  <2>1. /\ u \in TabType
        /\ u.mapping_table = [o.mapping_table EXCEPT ![lpn] = ppn]
        /\ u.inverse = [o.inverse EXCEPT ![ppn] = Appended(o, ppn, lpn)]
        /\ u.valid_array = [o.valid_array EXCEPT ![ppn] = OneMore(o.valid_array[ppn])]
        /\ u.in_nvram = o.in_nvram /\ u.nv = o.nv /\ u.data = o.data
    BY <2>0, UpdateNewEffect, ZenonT(60)
  <2> HIDE DEF u
  <2> QED BY <1>1, <2>1
<1>4. d = [u.data EXCEPT ![ppn] = bytes]
  OBVIOUS
<1> HIDE DEF u, w
<1>5. i \in [LPN -> {-1, 0, 1}] /\ d \in [PPN -> Bytes]
  BY <1>3, TabFields
<1> HIDE DEF i, d
<1>6. /\ w \in TabType /\ w.mapping_table = u.mapping_table /\ w.inverse = u.inverse
      /\ w.valid_array = u.valid_array /\ w.data = d
  BY <1>2, <1>3, <1>5 DEF TabType
<1> QED BY <1>3, <1>4, <1>6 DEF o, u, w

\* The tables between the two halves of Remap: the new reference is taken, the
\* old one not yet dropped.
Referenced(t, ppn, lpn) ==
  [EntryVALID(INCREASE_INVERSE_MAPPING(t, ppn, lpn), ppn)
     EXCEPT !.nv = AddEntry(@, CALC_BLOCK(ppn))]

LEMMA ReferencedEffect ==
  ASSUME NEW t \in TabType, NEW ppn \in PPN, NEW lpn \in LPN
  PROVE  LET b == Referenced(t, ppn, lpn)
             v == t.valid_array[ppn] IN
         /\ b \in TabType
         /\ b.mapping_table = t.mapping_table
         /\ b.inverse = [t.inverse EXCEPT ![ppn] = Appended(t, ppn, lpn)]
         /\ b.valid_array = [t.valid_array EXCEPT ![ppn] = OneMore(v)]
         /\ b.data = t.data
<1> DEFINE b == Referenced(t, ppn, lpn)
           v == t.valid_array[ppn]
           x == INCREASE_INVERSE_MAPPING(t, ppn, lpn)
           a == EntryVALID(x, ppn)
           n == AddEntry(a.nv, CALC_BLOCK(ppn))
<1>1. /\ x \in TabType
      /\ x.inverse = [t.inverse EXCEPT ![ppn] = Appended(t, ppn, lpn)]
      /\ x.mapping_table = t.mapping_table
      /\ x.valid_array = t.valid_array /\ x.data = t.data
  BY IncreaseEffect
<1>2. b = [a EXCEPT !.nv = n]
  BY DEF Referenced
<1> HIDE DEF x, b, v
<1>3. /\ a \in TabType
      /\ a.valid_array = [x.valid_array EXCEPT ![ppn] = OneMore(x.valid_array[ppn])]
      /\ a.mapping_table = x.mapping_table /\ a.inverse = x.inverse /\ a.data = x.data
  BY <1>1, EntryVALIDEffect
<1> HIDE DEF a
<1>4. n \in NvType
  BY <1>3, TabFields, AddressParts, AddEntryType
<1> HIDE DEF n
<1>5. /\ b \in TabType /\ b.mapping_table = a.mapping_table /\ b.inverse = a.inverse
      /\ b.valid_array = a.valid_array /\ b.data = a.data
  BY <1>2, <1>3, <1>4 DEF TabType
<1>6. x.valid_array[ppn] = v
  BY <1>1 DEF v
<1>7. /\ b \in TabType /\ b.mapping_table = t.mapping_table /\ b.inverse = x.inverse
      /\ b.valid_array = [t.valid_array EXCEPT ![ppn] = OneMore(v)]
      /\ b.data = t.data
  BY <1>1, <1>3, <1>5, <1>6
<1> QED BY <1>1, <1>7 DEF b, v

LEMMA RemapEffect ==
  ASSUME NEW t \in TabType, NEW ppn \in PPN, NEW lpn \in LPN
  PROVE  LET c == UPDATE_OLD_PAGE_MAPPING(Referenced(t, ppn, lpn), lpn)
             w == Remap(t, ppn, lpn) IN
         /\ w \in TabType
         /\ w.mapping_table = [t.mapping_table EXCEPT ![lpn] = ppn]
         /\ w.inverse = c.inverse /\ w.valid_array = c.valid_array /\ w.data = c.data
<1> DEFINE b == Referenced(t, ppn, lpn)
           c == UPDATE_OLD_PAGE_MAPPING(b, lpn)
           w == Remap(t, ppn, lpn)
           m == [c.mapping_table EXCEPT ![lpn] = ppn]
           i == [c.in_nvram EXCEPT ![lpn] = 1]
<1>1. w = [c EXCEPT !.mapping_table = m, !.in_nvram = i]
  <2>1. w = [c EXCEPT !.mapping_table[lpn] = ppn, !.in_nvram[lpn] = 1]
    BY Zenon DEF Remap, Referenced
  <2> HIDE DEF c, w
  <2> QED BY <2>1
<1>2. b \in TabType /\ b.mapping_table = t.mapping_table
  BY ReferencedEffect
<1> HIDE DEF b, w
<1>3. c \in TabType /\ c.mapping_table = b.mapping_table
  BY <1>2, UpdateOldEffect, ZenonT(60)
<1> HIDE DEF c
<1>4. m = [t.mapping_table EXCEPT ![lpn] = ppn]
  BY <1>2, <1>3
<1>5. m \in [LPN -> PPN \cup {NoPpn}] /\ i \in [LPN -> {-1, 0, 1}]
  BY <1>3, TabFields
<1> HIDE DEF m, i
<1>6. /\ w \in TabType /\ w.mapping_table = m
      /\ w.inverse = c.inverse /\ w.valid_array = c.valid_array /\ w.data = c.data
  BY <1>1, <1>3, <1>5 DEF TabType
<1> QED BY <1>4, <1>6 DEF b, c, w

-----------------------------------------------------------------------------
(***************************************************************************)
(* The mapping updates keep the mapping table, the inverse lists and the   *)
(* reference counts consistent.                                            *)
(***************************************************************************)
Mapped(t, p) == {l \in LPN : t.mapping_table[l] = p}

\* The list of p holds the logical pages mapped to p, each once.
ListedAt(t, p) == ToSet(t.inverse[p]) = Mapped(t, p) /\ IsInjective(t.inverse[p])

\* The count of p is the length of its list, -1 or 0 when the list is empty.
Counted(t, p) ==
  \/ t.valid_array[p] > 0 /\ t.valid_array[p] = Len(t.inverse[p])
  \/ t.valid_array[p] \in {-1, 0} /\ t.inverse[p] = << >>

Listed(t)     == \A p \in PPN : ListedAt(t, p)
Consistent(t) == \A p \in PPN : ListedAt(t, p) /\ Counted(t, p)

\* Page p is free: not counted and not in use.
Free(t, p) == t.valid_array[p] = 0 /\ t.inverse[p] = << >>

\* Page p has the same list and count in u as in t.
SameAt(t, u, p) ==
  u.inverse[p] = t.inverse[p] /\ u.valid_array[p] = t.valid_array[p]

-----------------------------------------------------------------------------
LEMMA ListFacts ==
  ASSUME NEW t \in TabType, NEW p \in PPN
  PROVE  /\ t.inverse[p] \in Seq(LPN) /\ Len(t.inverse[p]) \in Nat
         /\ t.valid_array[p] \in Int8 /\ t.valid_array[p] \in Int
         /\ t.valid_array[p] <= REFCNT_MAX
         /\ t.inverse[p] = << >> <=> Len(t.inverse[p]) = 0
<1>1. t.inverse[p] \in Seq(LPN) /\ t.valid_array[p] \in Int8
  BY TabFields
<1>2. t.valid_array[p] \in Int /\ t.valid_array[p] <= REFCNT_MAX
  BY <1>1, TablesAssumption DEF Int8
<1> DEFINE s == t.inverse[p]
<1>3. s \in Seq(LPN)
  BY <1>1
<1> HIDE DEF s
<1>4. Len(s) \in Nat /\ (s = << >> <=> Len(s) = 0)
  BY <1>3
<1> QED BY <1>1, <1>2, <1>4 DEF s

\* A list whose count is right and that is not empty is seen as not empty.
LEMMA CountSeen ==
  ASSUME NEW t \in TabType, NEW p \in PPN, NEW l \in ToSet(t.inverse[p]), Counted(t, p)
  PROVE  /\ lpn_cnt(t, p) # 0
         /\ t.valid_array[p] = Len(t.inverse[p]) /\ t.valid_array[p] > 0
<1>1. t.inverse[p] # << >>
  BY EmptyList
<1>2. t.valid_array[p] = Len(t.inverse[p]) /\ t.valid_array[p] > 0
  BY <1>1 DEF Counted
<1> QED BY <1>2, ListFacts, TablesAssumption DEF lpn_cnt, Int8Of

\* Dropping the reference of lpn: its page loses lpn from the list and one
\* from the count; no other page changes.
LEMMA DropReference ==
  ASSUME NEW t \in TabType, NEW lpn \in LPN, NEW old \in PPN,
         old = t.mapping_table[lpn], lpn \in ToSet(t.inverse[old]),
         IsInjective(t.inverse[old]), Counted(t, old)
  PROVE  LET u == UPDATE_OLD_PAGE_MAPPING(t, lpn) IN
         /\ ToSet(u.inverse[old]) = ToSet(t.inverse[old]) \ {lpn}
         /\ IsInjective(u.inverse[old]) /\ Counted(u, old)
         /\ \A p \in PPN \ {old} : SameAt(t, u, p)
<1> DEFINE u == UPDATE_OLD_PAGE_MAPPING(t, lpn)
           s == t.inverse[old]
           v == t.valid_array[old]
           r == RemoveFirst(s, lpn)
<1>1. /\ s \in Seq(LPN) /\ v \in Int /\ Len(s) \in Nat /\ v = Len(s) /\ v > 0
      /\ lpn_cnt(t, old) # 0
  BY ListFacts, CountSeen
<1>2. old # NoPpn
  BY GeometryAssumption DEF PPN, NoPpn
<1>3. /\ u.inverse = [t.inverse EXCEPT ![old] = r]
      /\ u.valid_array = [t.valid_array EXCEPT ![old] = OneLess(v)]
  BY <1>1, <1>2, UpdateOldEffect
<1>4. t.inverse \in [PPN -> Seq(LPN)] /\ t.valid_array \in [PPN -> Int8]
  BY TabFields
<1>5. /\ r \in Seq(LPN) /\ Len(r) = Len(s) - 1 /\ IsInjective(r)
      /\ ToSet(r) = ToSet(s) \ {lpn}
  BY <1>1, ListUnlink
<1> HIDE DEF u, r, v
<1>6. /\ u.inverse[old] = r /\ u.valid_array[old] = OneLess(v)
      /\ \A p \in PPN \ {old} : SameAt(t, u, p)
  BY <1>3, <1>4 DEF SameAt
<1>7. Counted(u, old)
  <2>1. CASE v = 1
    <3>1. Len(r) = 0
      BY <1>1, <1>5, <2>1
    <3>2. r = << >>
      BY <1>5, <3>1
    <3>3. OneLess(v) = -1
      BY <2>1 DEF OneLess
    <3> QED BY <1>6, <3>2, <3>3 DEF Counted
  <2>2. CASE v # 1
    <3>1. OneLess(v) = v - 1
      BY <1>1, <2>2 DEF OneLess
    <3>2. v - 1 > 0 /\ v - 1 = Len(r)
      <4> HIDE DEF s
      <4> QED BY <1>1, <1>5, <2>2
    <3> QED BY <1>6, <3>1, <3>2 DEF Counted
  <2> QED BY <2>1, <2>2
<1> QED BY <1>5, <1>6, <1>7 DEF u

\* Taking one more reference of lpn to a page with room in its count.
LEMMA TakeReference ==
  ASSUME NEW t \in TabType, NEW lpn \in LPN, NEW ppn \in PPN,
         t.valid_array[ppn] = Len(t.inverse[ppn]),
         Len(t.inverse[ppn]) < REFCNT_MAX
  PROVE  /\ Appended(t, ppn, lpn) = Append(t.inverse[ppn], lpn)
         /\ OneMore(t.valid_array[ppn]) = Len(t.inverse[ppn]) + 1
<1> USE TablesAssumption
<1> DEFINE s == t.inverse[ppn]
<1>1. s \in Seq(LPN) /\ Len(s) \in Nat /\ lpn_cnt(t, ppn) = Len(s)
  <2>1. s \in Seq(LPN) /\ Len(s) \in Nat /\ Len(s) < REFCNT_MAX
    BY ListFacts
  <2>2. lpn_cnt(t, ppn) = Int8Of(Len(s))
    BY DEF lpn_cnt
  <2> HIDE DEF s
  <2> QED BY <2>1, <2>2 DEF Int8Of
<1>2. Appended(t, ppn, lpn) = IF Len(s) = 0 THEN <<lpn>> ELSE Append(s, lpn)
  BY <1>1 DEF Appended
<1>3. t.valid_array[ppn] = Len(s) /\ Len(s) < REFCNT_MAX
  OBVIOUS
<1> HIDE DEF s
<1>4. Len(s) = 0 => Append(s, lpn) = <<lpn>>
  BY <1>1
<1>5. OneMore(t.valid_array[ppn]) = Len(s) + 1
  BY <1>1, <1>3 DEF OneMore, Int8Inc
<1> QED BY <1>2, <1>4, <1>5 DEF s

-----------------------------------------------------------------------------
\* A discarded page: the tables stay consistent and free pages stay free.
LEMMA UnmapConsistent ==
  ASSUME NEW t \in TabType, NEW lpn \in LPN, Consistent(t)
  PROVE  LET w == Unmap(t, lpn) IN
         Consistent(w) /\ \A p \in PPN : Free(t, p) => Free(w, p)
<1> DEFINE u   == UPDATE_OLD_PAGE_MAPPING(t, lpn)
           w   == Unmap(t, lpn)
           old == t.mapping_table[lpn]
<1>1. /\ w.mapping_table = [t.mapping_table EXCEPT ![lpn] = NoPpn]
      /\ w.inverse = u.inverse /\ w.valid_array = u.valid_array
  BY UnmapEffect
<1>2. t.mapping_table \in [LPN -> PPN \cup {NoPpn}]
  BY TabFields
<1>3. NoPpn \notin PPN
  BY GeometryAssumption DEF PPN, NoPpn
<1>4. \A p \in PPN : Mapped(w, p) = Mapped(t, p) \ {lpn}
  BY <1>1, <1>2, <1>3 DEF Mapped
<1>5. CASE old = NoPpn
  <2>1. u = t
    BY <1>5, UpdateOldEffect
  <2>2. \A p \in PPN : SameAt(t, w, p)
    BY <1>1, <2>1 DEF SameAt
  <2>3. \A p \in PPN : Mapped(w, p) = Mapped(t, p)
    BY <1>3, <1>4, <1>5 DEF Mapped
  <2> QED BY <2>2, <2>3 DEF Consistent, ListedAt, Counted, Free, SameAt
<1>6. CASE old # NoPpn
  <2>1. old \in PPN
    BY <1>2, <1>6
  <2>2. ListedAt(t, old) /\ Counted(t, old) /\ lpn \in Mapped(t, old)
    BY <2>1 DEF Consistent, Mapped
  <2>3. lpn \in ToSet(t.inverse[old]) /\ IsInjective(t.inverse[old])
    BY <2>2 DEF ListedAt
  <2>4. /\ ToSet(u.inverse[old]) = ToSet(t.inverse[old]) \ {lpn}
        /\ IsInjective(u.inverse[old]) /\ Counted(u, old)
        /\ \A p \in PPN \ {old} : SameAt(t, u, p)
    BY <2>1, <2>2, <2>3, DropReference
  <2>5. ListedAt(w, old) /\ Counted(w, old)
    BY <1>1, <1>4, <2>1, <2>2, <2>4 DEF ListedAt, Counted
  <2>6. ASSUME NEW p \in PPN, p # old PROVE ListedAt(w, p) /\ Counted(w, p)
    <3>1. SameAt(t, w, p)
      BY <1>1, <2>4, <2>6 DEF SameAt
    <3>2. Mapped(w, p) = Mapped(t, p)
      BY <1>4, <2>6 DEF Mapped
    <3> QED BY <3>1, <3>2 DEF Consistent, ListedAt, Counted, SameAt
  <2>7. ASSUME NEW p \in PPN, Free(t, p) PROVE Free(w, p)
    <3>1. p # old
      BY <2>3, <2>7, EmptyList DEF Free
    <3> QED BY <1>1, <2>4, <2>7, <3>1 DEF Free, SameAt
  <2> QED BY <2>5, <2>6, <2>7 DEF Consistent
<1> QED BY <1>5, <1>6

\* An ordinary write to a free page.
LEMMA ProgramConsistent ==
  ASSUME NEW t \in TabType, NEW ppn \in PPN, NEW lpn \in LPN, NEW bytes \in Bytes,
         Consistent(t), Free(t, ppn)
  PROVE  LET w == Program(t, ppn, lpn, bytes) IN
         Consistent(w) /\ \A p \in PPN \ {ppn} : Free(t, p) => Free(w, p)
<1> DEFINE o == UPDATE_OLD_PAGE_MAPPING(t, lpn)
           x == Unmap(t, lpn)
           u == UPDATE_NEW_PAGE_MAPPING(o, lpn, ppn)
           w == Program(t, ppn, lpn, bytes)
<1>1. /\ w \in TabType
      /\ w.mapping_table = [t.mapping_table EXCEPT ![lpn] = ppn]
      /\ w.inverse = u.inverse /\ w.valid_array = u.valid_array
      /\ w.data = [u.data EXCEPT ![ppn] = bytes]
  BY ProgramEffect
<1>2. Consistent(x) /\ \A p \in PPN : Free(t, p) => Free(x, p)
  BY UnmapConsistent
<1>3. /\ x \in TabType /\ x.mapping_table = [t.mapping_table EXCEPT ![lpn] = NoPpn]
      /\ x.inverse = o.inverse /\ x.valid_array = o.valid_array
  BY UnmapEffect
<1>4. o \in TabType
  BY UpdateOldEffect
<1> HIDE DEF o, x
<1>5. /\ u \in TabType
      /\ u.mapping_table = [o.mapping_table EXCEPT ![lpn] = ppn]
      /\ u.inverse = [o.inverse EXCEPT ![ppn] = Appended(o, ppn, lpn)]
      /\ u.valid_array = [o.valid_array EXCEPT ![ppn] = OneMore(o.valid_array[ppn])]
      /\ u.in_nvram = o.in_nvram /\ u.nv = o.nv /\ u.data = o.data
  BY <1>4, UpdateNewEffect, ZenonT(60)
<1> HIDE DEF u, w
<1>6. o.valid_array[ppn] = 0 /\ o.inverse[ppn] = << >>
  BY <1>2, <1>3 DEF Free
<1>7. Appended(o, ppn, lpn) = <<lpn>> /\ OneMore(o.valid_array[ppn]) = 1
  BY <1>6, TablesAssumption DEF Appended, OneMore, Int8Inc, lpn_cnt, Int8Of
<1>8. o.inverse \in [PPN -> Seq(LPN)] /\ o.valid_array \in [PPN -> Int8]
      /\ t.mapping_table \in [LPN -> PPN \cup {NoPpn}]
  BY <1>4, TabFields
<1>9. /\ w.inverse[ppn] = <<lpn>> /\ w.valid_array[ppn] = 1
      /\ \A p \in PPN \ {ppn} : SameAt(x, w, p)
  BY <1>1, <1>3, <1>5, <1>7, <1>8 DEF SameAt
<1>10. NoPpn \notin PPN
  BY GeometryAssumption DEF PPN, NoPpn
<1>11. /\ \A p \in PPN \ {ppn} : Mapped(w, p) = Mapped(x, p)
       /\ Mapped(w, ppn) = Mapped(x, ppn) \cup {lpn}
  BY <1>1, <1>3, <1>8, <1>10 DEF Mapped
<1>12. ListedAt(w, ppn) /\ Counted(w, ppn)
  <2>1. Mapped(x, ppn) = {}
    BY <1>2, <1>3, <1>6, EmptyList DEF Consistent, ListedAt
  <2>2. /\ <<lpn>> \in Seq(LPN) /\ Len(<<lpn>>) = 1 /\ <<lpn>>[1] = lpn
    OBVIOUS
  <2> DEFINE s == <<lpn>>
  <2>3. s \in Seq(LPN) /\ Len(s) = 1 /\ s[1] = lpn
    BY <2>2
  <2>4. w.inverse[ppn] = s
    BY <1>9
  <2> HIDE DEF s
  <2>5. ToSet(s) = {lpn} /\ IsInjective(s)
    <3>1. \A i \in 1 .. Len(s) : i = 1
      BY <2>3
    <3>2. 1 \in 1 .. Len(s)
      BY <2>3
    <3>3. IsInjective(s)
      BY <2>3, <3>1, InjectiveDef
    <3>4. \A y : y \in ToSet(s) <=> y = lpn
      BY <2>3, <3>1, <3>2, InToSet
    <3> QED BY <3>3, <3>4
  <2> QED BY <1>9, <1>11, <2>1, <2>3, <2>4, <2>5 DEF ListedAt, Counted
<1>13. ASSUME NEW p \in PPN, p # ppn PROVE ListedAt(w, p) /\ Counted(w, p)
  BY <1>2, <1>9, <1>11, <1>13 DEF Consistent, ListedAt, Counted, SameAt
<1>14. ASSUME NEW p \in PPN \ {ppn}, Free(t, p) PROVE Free(w, p)
  BY <1>2, <1>9, <1>14 DEF Free, SameAt
<1> QED BY <1>12, <1>13, <1>14 DEF Consistent, w

\* A remapping: lpn becomes one more reference to ppn, also when it is one
\* already.
LEMMA RemapConsistent ==
  ASSUME NEW t \in TabType, NEW ppn \in PPN, NEW lpn \in LPN, Consistent(t),
         t.inverse[ppn] # << >>, Len(t.inverse[ppn]) < REFCNT_MAX
  PROVE  LET w == Remap(t, ppn, lpn) IN
         Consistent(w) /\ \A p \in PPN : Free(t, p) => Free(w, p)
<1> USE TablesAssumption
<1> DEFINE b == Referenced(t, ppn, lpn)
           c == UPDATE_OLD_PAGE_MAPPING(b, lpn)
           w == Remap(t, ppn, lpn)
           s == t.inverse[ppn]
           n == Len(s)
           a == Append(s, lpn)
           old == t.mapping_table[lpn]
<1>1. /\ w \in TabType
      /\ w.mapping_table = [t.mapping_table EXCEPT ![lpn] = ppn]
      /\ w.inverse = c.inverse /\ w.valid_array = c.valid_array /\ w.data = c.data
  BY RemapEffect
<1>2. /\ b \in TabType /\ b.mapping_table = t.mapping_table
      /\ b.inverse = [t.inverse EXCEPT ![ppn] = Appended(t, ppn, lpn)]
      /\ b.valid_array = [t.valid_array EXCEPT ![ppn] = OneMore(t.valid_array[ppn])]
      /\ b.data = t.data
  BY ReferencedEffect
<1> HIDE DEF b, w
<1>3. /\ t.inverse \in [PPN -> Seq(LPN)] /\ t.valid_array \in [PPN -> Int8]
      /\ t.mapping_table \in [LPN -> PPN \cup {NoPpn}] /\ s \in Seq(LPN) /\ n \in Nat
      /\ n # 0 /\ n < REFCNT_MAX
  BY TabFields, ListFacts
<1>4. ListedAt(t, ppn) /\ t.valid_array[ppn] = n
  BY DEF Consistent, Counted
<1>5. Appended(t, ppn, lpn) = a /\ OneMore(t.valid_array[ppn]) = n + 1
  BY <1>3, <1>4, TakeReference
<1>6. /\ b.inverse[ppn] = a /\ b.valid_array[ppn] = n + 1
      /\ \A p \in PPN \ {ppn} : SameAt(t, b, p)
  BY <1>2, <1>3, <1>5 DEF SameAt
<1>7. /\ a \in Seq(LPN) /\ Len(a) = n + 1 /\ ToSet(a) = ToSet(s) \cup {lpn}
      /\ lpn \notin ToSet(s) => IsInjective(a)
  BY <1>3, <1>4, ListAppend DEF ListedAt
<1>8. NoPpn \notin PPN /\ old \in PPN \cup {NoPpn}
  BY <1>3, GeometryAssumption DEF PPN, NoPpn
<1>9. /\ \A p \in PPN \ {ppn} : Mapped(w, p) = Mapped(t, p) \ {lpn}
      /\ Mapped(w, ppn) = Mapped(t, ppn) \cup {lpn}
  BY <1>1, <1>3, <1>8 DEF Mapped
<1>10. ToSet(s) = Mapped(t, ppn) /\ IsInjective(s) /\ (lpn \in ToSet(s) <=> old = ppn)
  BY <1>4 DEF ListedAt, Mapped
<1> HIDE DEF s, n, a
\* It suffices to look at the two pages whose lists change.
<1>11. SUFFICES /\ ToSet(c.inverse[ppn]) = ToSet(s) \cup {lpn}
                /\ IsInjective(c.inverse[ppn]) /\ Counted(c, ppn)
                /\ \A p \in PPN \ {ppn, old} : SameAt(b, c, p)
                /\ old \in PPN \ {ppn} =>
                     /\ ToSet(c.inverse[old]) = ToSet(t.inverse[old]) \ {lpn}
                     /\ IsInjective(c.inverse[old]) /\ Counted(c, old)
  <2> HIDE DEF c
  <2>1. ListedAt(w, ppn) /\ Counted(w, ppn)
    BY <1>1, <1>9, <1>10, <1>11 DEF ListedAt, Counted
  <2>2. ASSUME NEW p \in PPN \ {ppn, old} PROVE ListedAt(w, p) /\ Counted(w, p)
    <3>1. SameAt(t, w, p)
      BY <1>1, <1>6, <1>11, <2>2 DEF SameAt
    <3>2. Mapped(w, p) = Mapped(t, p)
      BY <1>9, <2>2 DEF Mapped
    <3> QED BY <2>2, <3>1, <3>2 DEF Consistent, ListedAt, Counted, SameAt
  <2>3. ASSUME old \in PPN, old # ppn PROVE ListedAt(w, old) /\ Counted(w, old)
    <3> HIDE DEF old
    <3>1. ToSet(t.inverse[old]) = Mapped(t, old)
      BY <2>3 DEF Consistent, ListedAt
    <3>2. Mapped(w, old) = Mapped(t, old) \ {lpn}
      BY <1>9, <2>3
    <3> QED BY <1>1, <1>11, <2>3, <3>1, <3>2 DEF ListedAt, Counted
  <2>4. ASSUME NEW p \in PPN, Free(t, p) PROVE Free(w, p)
    <3>1. p # ppn
      BY <2>4 DEF Free
    <3>2. p # old
      <4>1. ToSet(t.inverse[p]) = {}
        BY <2>4, EmptyList DEF Free
      <4>2. ToSet(t.inverse[p]) = Mapped(t, p)
        BY <2>4 DEF Consistent, ListedAt
      <4> QED BY <4>1, <4>2 DEF Mapped
    <3>3. SameAt(t, w, p)
      BY <1>1, <1>6, <1>11, <2>4, <3>1, <3>2 DEF SameAt
    <3> QED BY <2>4, <3>3 DEF Free, SameAt
  <2> QED BY <2>1, <2>2, <2>3, <2>4 DEF Consistent, w
<1>12. Counted(b, ppn) /\ lpn \in ToSet(b.inverse[ppn])
  BY <1>3, <1>6, <1>7 DEF Counted
<1>13. CASE old = NoPpn
  <2>1. c = b
    BY <1>2, <1>13, UpdateOldEffect
  <2>2. lpn \notin ToSet(s)
    BY <1>8, <1>10, <1>13
  <2> QED BY <1>6, <1>7, <1>8, <1>12, <1>13, <2>1, <2>2 DEF SameAt
<1>14. CASE old = ppn
  <2> DEFINE r == RemoveFirst(a, lpn)
  <2>1. lpn_cnt(b, ppn) # 0
    BY <1>2, <1>12, CountSeen
  <2>2. /\ c.inverse = [b.inverse EXCEPT ![ppn] = RemoveFirst(b.inverse[ppn], lpn)]
        /\ c.valid_array = [b.valid_array EXCEPT ![ppn] = OneLess(b.valid_array[ppn])]
    <3> DEFINE q == b.mapping_table[lpn]
    <3>1. q # NoPpn /\ lpn_cnt(b, q) # 0 =>
            /\ c.inverse = [b.inverse EXCEPT ![q] = RemoveFirst(b.inverse[q], lpn)]
            /\ c.valid_array = [b.valid_array EXCEPT ![q] = OneLess(b.valid_array[q])]
            /\ c.data = [b.data EXCEPT ![q] = IF b.valid_array[q] = 1 THEN Blank ELSE b.data[q]]
      BY <1>2, UpdateOldEffect
    <3>2. q = ppn /\ q # NoPpn
      BY <1>2, <1>8, <1>14
    <3> HIDE DEF q, c
    <3> QED BY <2>1, <3>1, <3>2
  <2> HIDE DEF c
  <2>3. b.inverse \in [PPN -> Seq(LPN)] /\ b.valid_array \in [PPN -> Int8]
    BY <1>2, TabFields
  <2>4. /\ c.inverse[ppn] = r /\ c.valid_array[ppn] = OneLess(n + 1)
        /\ \A p \in PPN \ {ppn} : SameAt(b, c, p)
    BY <1>6, <2>2, <2>3 DEF SameAt
  <2>5. OneLess(n + 1) = n /\ n > 0
    BY <1>3 DEF OneLess
  <2>6. lpn \in ToSet(s)
    BY <1>10, <1>14
  <2>7. /\ Len(r) = Len(s) /\ IsInjective(r) /\ ToSet(r) = ToSet(s)
    BY <1>3, <1>10, <2>6, ListRelink DEF a
  <2>8. Len(s) = n
    BY DEF n
  <2> HIDE DEF r
  <2>9. Counted(c, ppn)
    BY <2>4, <2>5, <2>7, <2>8 DEF Counted
  <2> QED BY <1>14, <2>4, <2>6, <2>7, <2>9
<1>15. CASE old \in PPN \ {ppn}
  <2>1. /\ old = b.mapping_table[lpn] /\ SameAt(t, b, old)
    BY <1>2, <1>6, <1>15
  <2>2. ListedAt(t, old) /\ Counted(t, old) /\ lpn \in Mapped(t, old)
    BY <1>15 DEF Consistent, Mapped
  <2>3. lpn \in ToSet(b.inverse[old]) /\ IsInjective(b.inverse[old]) /\ Counted(b, old)
    BY <2>1, <2>2 DEF SameAt, ListedAt, Counted
  <2> HIDE DEF old
  <2>4. /\ ToSet(c.inverse[old]) = ToSet(b.inverse[old]) \ {lpn}
        /\ IsInjective(c.inverse[old]) /\ Counted(c, old)
        /\ \A p \in PPN \ {old} : SameAt(b, c, p)
    BY <1>2, <1>15, <2>1, <2>3, DropReference
  <2> HIDE DEF c
  <2>5. SameAt(b, c, ppn)
    BY <1>15, <2>4
  <2>6. lpn \notin ToSet(s)
    BY <1>10, <1>15
  <2>7. Counted(c, ppn) /\ c.inverse[ppn] = a
    BY <1>6, <1>12, <2>5 DEF SameAt, Counted
  <2> QED BY <1>7, <2>1, <2>4, <2>6, <2>7 DEF SameAt
<1> QED BY <1>8, <1>13, <1>14, <1>15

-----------------------------------------------------------------------------
\* Garbage collection moves lpn from page old to page new.  The count of the
\* old page is not touched: the page is erased when all are moved.
Moved(t, old, new, lpn) ==
  UPDATE_NEW_PAGE_MAPPING(DECREASE_INVERSE_MAPPING(t, old, lpn), lpn, new)

LEMMA MoveListed ==
  ASSUME NEW t \in TabType, NEW old \in PPN, NEW new \in PPN, NEW lpn \in LPN,
         Listed(t), old # new, lpn \in ToSet(t.inverse[old]),
         t.valid_array[new] = Len(t.inverse[new]), Len(t.inverse[new]) < REFCNT_MAX
  PROVE  LET w == Moved(t, old, new, lpn) IN
         /\ Listed(w) /\ w.valid_array[old] = t.valid_array[old]
         /\ w.valid_array[new] = Len(w.inverse[new]) /\ w.valid_array[new] > 0
         /\ \A p \in PPN \ {old, new} : SameAt(t, w, p)
<1> USE TablesAssumption
<1> DEFINE d == DECREASE_INVERSE_MAPPING(t, old, lpn)
           w == Moved(t, old, new, lpn)
           s == t.inverse[old]
           r == RemoveFirst(s, lpn)
           e == t.inverse[new]
           a == Append(e, lpn)
           n == Len(e)
<1>1. /\ d \in TabType
      /\ d.inverse = [t.inverse EXCEPT ![old] = RemoveFirst(t.inverse[old], lpn)]
      /\ d.mapping_table = t.mapping_table /\ d.in_nvram = t.in_nvram
      /\ d.valid_array = t.valid_array /\ d.stat = t.stat
      /\ d.nv = t.nv /\ d.data = t.data
  BY DecreaseEffect
<1>2. w = UPDATE_NEW_PAGE_MAPPING(d, lpn, new)
  BY DEF Moved
<1> HIDE DEF d, w
<1>3. /\ w \in TabType
      /\ w.mapping_table = [d.mapping_table EXCEPT ![lpn] = new]
      /\ w.inverse = [d.inverse EXCEPT ![new] = Appended(d, new, lpn)]
      /\ w.valid_array = [d.valid_array EXCEPT ![new] = OneMore(d.valid_array[new])]
      /\ w.in_nvram = d.in_nvram /\ w.nv = d.nv /\ w.data = d.data
  <2>0. d \in TabType
    BY <1>1
  <2>1. LET x == UPDATE_NEW_PAGE_MAPPING(d, lpn, new) IN
      /\ x \in TabType
      /\ x.mapping_table = [d.mapping_table EXCEPT ![lpn] = new]
      /\ x.inverse = [d.inverse EXCEPT ![new] = Appended(d, new, lpn)]
      /\ x.valid_array = [d.valid_array EXCEPT ![new] = OneMore(d.valid_array[new])]
      /\ x.in_nvram = d.in_nvram /\ x.nv = d.nv /\ x.data = d.data
    BY <2>0, UpdateNewEffect, ZenonT(60)
  <2> QED BY <1>2, <2>1
<1>4. /\ t.inverse \in [PPN -> Seq(LPN)] /\ t.valid_array \in [PPN -> Int8]
      /\ t.mapping_table \in [LPN -> PPN \cup {NoPpn}]
      /\ s \in Seq(LPN) /\ e \in Seq(LPN) /\ n \in Nat
  BY TabFields, ListFacts
<1>5. d.inverse[new] = e /\ d.inverse[old] = r /\ d.valid_array[new] = n
      /\ \A p \in PPN \ {old} : d.inverse[p] = t.inverse[p]
  BY <1>1, <1>4
<1>6. Appended(d, new, lpn) = a /\ OneMore(d.valid_array[new]) = n + 1
  <2>1. d.valid_array[new] = Len(d.inverse[new]) /\ Len(d.inverse[new]) < REFCNT_MAX
    BY <1>5
  <2>2. /\ Appended(d, new, lpn) = Append(d.inverse[new], lpn)
        /\ OneMore(d.valid_array[new]) = Len(d.inverse[new]) + 1
    BY <1>1, <2>1, TakeReference
  <2> QED BY <1>5, <2>2
<1>7. /\ w.inverse[new] = a /\ w.valid_array[new] = n + 1
      /\ w.inverse[old] = r /\ w.valid_array[old] = t.valid_array[old]
      /\ \A p \in PPN \ {old, new} : SameAt(t, w, p)
  <2>1. d.inverse \in [PPN -> Seq(LPN)] /\ d.valid_array \in [PPN -> Int8]
    BY <1>1, TabFields
  <2>2. w.inverse[new] = a /\ w.valid_array[new] = n + 1
    BY <1>3, <1>6, <2>1
  <2>3. \A p \in PPN \ {new} : w.inverse[p] = d.inverse[p] /\ w.valid_array[p] = d.valid_array[p]
    BY <1>3, <2>1
  <2>4. w.inverse[old] = r /\ w.valid_array[old] = t.valid_array[old]
    BY <1>1, <1>5, <2>3
  <2>5. \A p \in PPN \ {old, new} : SameAt(t, w, p)
    BY <1>1, <1>5, <2>3 DEF SameAt
  <2> QED BY <2>2, <2>4, <2>5
<1>8. /\ ToSet(s) = Mapped(t, old) /\ IsInjective(s)
      /\ ToSet(e) = Mapped(t, new) /\ IsInjective(e)
  BY DEF Listed, ListedAt
<1>9. t.mapping_table[lpn] = old /\ lpn \notin ToSet(e)
  BY <1>8 DEF Mapped
<1>10. IsInjective(r) /\ ToSet(r) = ToSet(s) \ {lpn}
  BY <1>4, <1>8, ListUnlink
<1>11. IsInjective(a) /\ ToSet(a) = ToSet(e) \cup {lpn} /\ Len(a) = n + 1
  BY <1>4, <1>8, <1>9, ListAppend
<1>12. /\ Mapped(w, old) = Mapped(t, old) \ {lpn}
       /\ Mapped(w, new) = Mapped(t, new) \cup {lpn}
       /\ \A p \in PPN \ {old, new} : Mapped(w, p) = Mapped(t, p)
  BY <1>1, <1>3, <1>4, <1>9, SMTT(30) DEF Mapped
<1> HIDE DEF s, r, e, a, n
<1>13. ListedAt(w, old) /\ ListedAt(w, new)
  BY <1>7, <1>8, <1>10, <1>11, <1>12 DEF ListedAt
<1>14. ASSUME NEW p \in PPN \ {old, new} PROVE ListedAt(w, p)
  BY <1>7, <1>12, <1>14 DEF Listed, ListedAt, SameAt
<1>15. w.valid_array[new] = Len(w.inverse[new]) /\ w.valid_array[new] > 0
  BY <1>4, <1>7, <1>11
<1> QED BY <1>7, <1>13, <1>14, <1>15 DEF Listed, w
=============================================================================

-------------------------- MODULE BlockPoolProofs --------------------------
(***************************************************************************)
(* What the page allocator guarantees for every geometry.  PoolInv is      *)
(* inductive for its operations; from it, GET_NEW_PAGE returns a page not  *)
(* handed out since its superblock was erased, or finds no superblock.     *)
(***************************************************************************)
EXTENDS BlockPool, FlashGeometryProofs, ListLemmas

Held == SuperBlock \cup {NoBlock}

LEMMA NoBlockOutside == NoBlock \notin SuperBlock
BY DEF NoBlock, SuperBlock

LEMMA PoolFields ==
  ASSUME NEW pool \in PoolType
  PROVE  /\ pool.active \in SuperBlock \cup {NoBlock}
         /\ pool.curr \in [Flash -> 0 .. PAGE_NB] /\ pool.index \in Flash
         /\ pool.empty \in Seq(SuperBlock) /\ pool.victim \in Seq(SuperBlock)
         /\ pool.total_empty \in Int /\ pool.total_victim \in Int
         /\ pool.sb_plane \in Flash /\ pool.sb_block \in SuperBlock
         /\ Len(pool.empty) \in Nat /\ Len(pool.victim) \in Nat
BY DEF PoolType

\* The pool that INIT_EMPTY_BLOCK_LIST and INIT_VICTIM_BLOCK_LIST set up.
LEMMA InitPoolInv == PoolInv(InitPool, NoBlock)
<1> USE GeometryAssumption
<1> DEFINE e == [i \in 1 .. BLOCK_NB |-> i - 1]
<1>1. e \in Seq(SuperBlock) /\ Len(e) = BLOCK_NB /\ \A i \in 1 .. BLOCK_NB : e[i] = i - 1
  BY DEF SuperBlock
<1> HIDE DEF e
<1>2. IsInjective(e)
  <2>1. \A i, j \in 1 .. Len(e) : e[i] = e[j] => i = j
    BY <1>1
  <2> QED BY <1>1, <2>1, InjectiveDef
<1>3. ToSet(e) = SuperBlock
  <2>1. ASSUME NEW x \in SuperBlock PROVE x \in ToSet(e)
    <3>1. x + 1 \in 1 .. BLOCK_NB /\ (x + 1) - 1 = x
      BY DEF SuperBlock
    <3>2. e[x + 1] = x
      BY <1>1, <3>1
    <3> QED BY <1>1, <3>1, <3>2, InToSet
  <2>2. ToSet(e) \subseteq SuperBlock
    BY <1>1, ToSetType
  <2> QED BY <2>1, <2>2
<1>4. InitPool = [active |-> NoBlock, curr |-> [f \in Flash |-> 0], index |-> 0,
                  empty |-> e, victim |-> << >>,
                  total_empty |-> FLASH_NB * BLOCK_NB, total_victim |-> 0,
                  sb_plane |-> FLASH_NB - 1, sb_block |-> 0]
  BY DEF InitPool, e
<1>5. InitPool \in PoolType
  <2> DEFINE c == [f \in Flash |-> 0]
             m == FLASH_NB * BLOCK_NB
             w == << >>
  <2>1. /\ m \in Int /\ 0 \in Int
        /\ 0 \in Flash /\ FLASH_NB - 1 \in Flash /\ 0 \in SuperBlock
        /\ c \in [Flash -> 0 .. PAGE_NB]
    BY DEF Flash, SuperBlock
  <2>2. w \in Seq(SuperBlock)
    OBVIOUS
  <2>3. InitPool = [active |-> NoBlock, curr |-> c, index |-> 0, empty |-> e, victim |-> w,
                    total_empty |-> m, total_victim |-> 0,
                    sb_plane |-> FLASH_NB - 1, sb_block |-> 0]
    BY <1>4
  <2> HIDE DEF c, m, w
  <2> QED BY <1>1, <2>1, <2>2, <2>3 DEF PoolType
<1>6. Partitioned(InitPool, NoBlock)
  <2> DEFINE w == << >>
  <2>1. /\ InitPool.empty = e /\ InitPool.victim = w /\ InitPool.active = NoBlock
        /\ InitPool.total_victim = FLASH_NB * Len(w)
        /\ InitPool.total_empty = FLASH_NB * Len(e)
    BY <1>1, <1>4
  <2>2. ToSet(w) = {} /\ IsInjective(w) /\ Single(NoBlock) = {}
    BY EmptyList DEF Single
  <2> HIDE DEF w
  <2> QED BY <1>2, <1>3, <2>1, <2>2 DEF Partitioned
<1>7. RoundRobin(InitPool)
  BY <1>4 DEF RoundRobin
<1> QED BY <1>5, <1>6, <1>7 DEF PoolInv

-----------------------------------------------------------------------------
\* The full active superblock becomes a victim.
LEMMA RetireInv ==
  ASSUME NEW pool, NEW held \in Held, PoolInv(pool, held),
         pool.active # NoBlock, pool.index = 0
  PROVE  /\ PoolInv(RetireActive(pool), held)
         /\ Unwritten(RetireActive(pool)) \subseteq Unwritten(pool)
         /\ RetireActive(pool).active = NoBlock
<1> USE GeometryAssumption
<1> DEFINE q == RetireActive(pool)
           v == Append(pool.victim, pool.active)
<1>0. pool \in PoolType /\ Partitioned(pool, held) /\ RoundRobin(pool)
  BY DEF PoolInv
<1>1. /\ pool.active \in SuperBlock
      /\ pool.empty \in Seq(SuperBlock) /\ pool.victim \in Seq(SuperBlock)
      /\ Len(pool.empty) \in Nat /\ Len(pool.victim) \in Nat
  BY <1>0, PoolFields
<1>2. pool.active \notin ToSet(pool.victim) /\ IsInjective(pool.victim)
  BY <1>0 DEF Partitioned, Single
<1>3. /\ v \in Seq(SuperBlock) /\ Len(v) = Len(pool.victim) + 1
      /\ ToSet(v) = ToSet(pool.victim) \cup {pool.active} /\ IsInjective(v)
  BY <1>1, <1>2, ListAppend
<1> HIDE DEF v
<1>4. /\ q \in PoolType
      /\ q.active = NoBlock /\ q.index = 0 /\ q.victim = v /\ q.empty = pool.empty
      /\ q.total_empty = pool.total_empty - FLASH_NB
      /\ q.total_victim = pool.total_victim + FLASH_NB
      /\ q.sb_plane = pool.sb_plane
  <2>1. q = [pool EXCEPT !.active = NoBlock, !.index = 0, !.victim = v,
                         !.total_empty = pool.total_empty - FLASH_NB,
                         !.total_victim = pool.total_victim + FLASH_NB]
    BY <1>0 DEF RetireActive, PoolType, v
  <2>2. /\ pool.total_empty - FLASH_NB \in Int /\ pool.total_victim + FLASH_NB \in Int
        /\ 0 \in Flash
    BY <1>0, PoolFields DEF Flash
  <2> HIDE DEF q
  <2> QED BY <1>0, <1>3, <2>1, <2>2 DEF PoolType
<1> HIDE DEF q
<1>5. q.total_victim = FLASH_NB * Len(v)
  <2>1. pool.total_victim = FLASH_NB * Len(pool.victim)
    BY <1>0 DEF Partitioned
  <2> QED BY <1>1, <1>3, <1>4, <2>1
<1>6. q.total_empty = FLASH_NB * Len(pool.empty)
  <2>1. pool.total_empty = FLASH_NB * (Len(pool.empty) + 1)
    BY <1>0 DEF Partitioned
  <2> QED BY <1>1, <1>4, <2>1
<1>7. Partitioned(q, held)
  <2>1. Single(pool.active) = {pool.active} /\ Single(q.active) = {}
    BY <1>4 DEF Single
  <2> QED BY <1>0, <1>3, <1>4, <1>5, <1>6, <2>1 DEF Partitioned
<1>8. RoundRobin(q)
  BY <1>0, <1>4 DEF RoundRobin
<1>9. Unwritten(q) \subseteq Unwritten(pool)
  <2>1. ASSUME NEW p \in PPN PROVE CALC_BLOCK(p) # NoBlock
    BY AddressParts, NoBlockOutside
  <2> QED BY <1>4, <2>1 DEF Unwritten
<1> QED BY <1>4, <1>7, <1>8, <1>9 DEF PoolInv, q

\* The page taken from a superblock that becomes active.
LEMMA ActivateInv ==
  ASSUME NEW pool, NEW held \in Held, PoolInv(pool, held),
         pool.active = NoBlock, pool.empty # << >>
  PROVE  LET q == ActivateNext(pool)
             n == TakePage(q, 0)
             x == MakePpn(0, q.active, q.curr[0])
         IN  /\ InOrder(q, 0) /\ PoolInv(n, held)
             /\ x \in Unwritten(pool)
             /\ Unwritten(n) \subseteq Unwritten(pool) \ {x}
<1> USE GeometryAssumption
<1> DEFINE q == ActivateNext(pool)
           n == TakePage(q, 0)
           x == MakePpn(0, q.active, q.curr[0])
           t == Tail(pool.empty)
           h == Head(pool.empty)
<1>0. pool \in PoolType /\ Partitioned(pool, held) /\ RoundRobin(pool)
  BY DEF PoolInv
<1>1. /\ pool.empty \in Seq(SuperBlock) /\ pool.victim \in Seq(SuperBlock)
      /\ Len(pool.empty) \in Nat /\ Len(pool.victim) \in Nat
      /\ pool.index = 0 /\ pool.sb_plane = FLASH_NB - 1 /\ IsInjective(pool.empty)
  BY <1>0, PoolFields DEF RoundRobin, Partitioned
<1>2. /\ t \in Seq(SuperBlock) /\ h \in SuperBlock /\ Len(t) = Len(pool.empty) - 1
      /\ ToSet(pool.empty) = ToSet(t) \cup {h}
      /\ IsInjective(t) /\ h \notin ToSet(t)
  BY <1>1, ListTail
<1> HIDE DEF t, h
<1>3. q = [pool EXCEPT !.active = h, !.empty = t,
                       !.curr = [f \in Flash |-> 0], !.index = 1]
  BY DEF ActivateNext, t, h
<1>4. 0 \in Flash /\ 1 \in Flash /\ 1 \in 0 .. PAGE_NB /\ 0 \in 0 .. PAGE_NB /\ 0 \in PageOf
  BY DEF Flash, PageOf
<1>5. /\ q \in PoolType
      /\ q.active = h /\ q.empty = t /\ q.index = 1 /\ q.victim = pool.victim
      /\ q.curr = [f \in Flash |-> 0] /\ q.sb_plane = FLASH_NB - 1
      /\ q.total_empty = pool.total_empty /\ q.total_victim = pool.total_victim
  <2> DEFINE c == [f \in Flash |-> 0]
  <2>1. c \in [Flash -> 0 .. PAGE_NB]
    BY <1>4
  <2>2. q = [pool EXCEPT !.active = h, !.empty = t, !.curr = c, !.index = 1]
    BY <1>3
  <2>3. SUFFICES /\ q \in PoolType /\ q.curr = c
                 /\ q.active = h /\ q.empty = t /\ q.index = 1 /\ q.victim = pool.victim
                 /\ q.sb_plane = pool.sb_plane
                 /\ q.total_empty = pool.total_empty /\ q.total_victim = pool.total_victim
    BY <1>1
  <2> HIDE DEF c, q
  <2> QED BY <1>0, <1>2, <1>4, <2>1, <2>2 DEF PoolType
<1> HIDE DEF q
<1>6. InOrder(q, 0)
  BY <1>5 DEF InOrder
<1>7. /\ n \in PoolType
      /\ n.active = h /\ n.empty = t /\ n.index = 1 /\ n.victim = pool.victim
      /\ n.curr = [f \in Flash |-> IF f = 0 THEN 1 ELSE 0]
      /\ n.sb_plane = 0 /\ n.sb_block = h
      /\ n.total_empty = pool.total_empty /\ n.total_victim = pool.total_victim
  <2>1. n = [q EXCEPT !.curr = [f \in Flash |-> IF f = 0 THEN 1 ELSE 0],
                      !.sb_plane = 0, !.sb_block = h]
    <3>1. [q.curr EXCEPT ![0] = q.curr[0] + 1] = [f \in Flash |-> IF f = 0 THEN 1 ELSE 0]
      BY <1>4, <1>5
    <3> QED BY <1>5, <3>1 DEF TakePage
  <2>2. [f \in Flash |-> IF f = 0 THEN 1 ELSE 0] \in [Flash -> 0 .. PAGE_NB]
    BY <1>4
  <2> QED BY <1>2, <1>4, <1>5, <2>1, <2>2 DEF PoolType
<1>8. x = MakePpn(0, h, 0)
  BY <1>4, <1>5
<1> HIDE DEF n, x
<1>9. h # NoBlock
  BY <1>2, NoBlockOutside
<1>10. Partitioned(n, held)
  <2>1. Single(pool.active) = {} /\ Single(n.active) = {h}
    BY <1>7, <1>9 DEF Single
  <2>2. n.total_empty = FLASH_NB * (Len(t) + 1)
    BY <1>0, <1>1, <1>2, <1>7 DEF Partitioned
  <2>3. h \notin ToSet(pool.victim) /\ h \notin Single(held)
    BY <1>0, <1>2 DEF Partitioned
  <2> QED BY <1>0, <1>1, <1>2, <1>7, <1>9, <2>1, <2>2, <2>3 DEF Partitioned
<1>11. RoundRobin(n)
  BY <1>4, <1>7, <1>9 DEF RoundRobin, Flash
<1>12. x \in PPN /\ CALC_BLOCK(x) = h /\ CALC_FLASH(x) = 0 /\ CALC_PAGE(x) = 0
  BY <1>2, <1>4, <1>8, AddressRoundTrip
<1>13. x \in Unwritten(pool)
  BY <1>2, <1>12 DEF Unwritten
<1>14. ASSUME NEW p \in Unwritten(n) PROVE p \in Unwritten(pool) /\ p # x
  <2>1. p \in PPN /\ CALC_FLASH(p) \in Flash
    BY <1>14, AddressParts DEF Unwritten
  <2>2. CASE CALC_BLOCK(p) \in ToSet(t)
    BY <1>2, <1>12, <2>1, <2>2 DEF Unwritten
  <2>3. CASE CALC_BLOCK(p) = h /\ n.curr[CALC_FLASH(p)] <= CALC_PAGE(p)
    <3>1. p \in Unwritten(pool)
      BY <1>2, <2>1, <2>3 DEF Unwritten
    <3>2. p # x
      BY <1>4, <1>7, <1>12, <2>3
    <3> QED BY <3>1, <3>2
  <2> QED BY <1>7, <1>14, <2>2, <2>3 DEF Unwritten
<1> QED BY <1>6, <1>7, <1>10, <1>11, <1>13, <1>14 DEF PoolInv, q, n, x
-----------------------------------------------------------------------------
\* The turn is at a flash whose active block has room, unless all are full.
LEMMA TurnHasRoom ==
  ASSUME NEW pool, pool \in PoolType, RoundRobin(pool), pool.active # NoBlock
  PROVE  /\ Roomy(pool) = {} => pool.index = 0
         /\ Roomy(pool) # {} =>
              /\ pool.curr[pool.index] \in PageOf
              /\ (CHOOSE g \in Roomy(pool) : \A h \in Roomy(pool) : g <= h) = pool.index
<1> USE GeometryAssumption
<1>1. /\ pool.index \in Flash /\ pool.curr \in [Flash -> 0 .. PAGE_NB] /\ 0 \in Flash
      /\ pool.index \in pool.index .. FLASH_NB - 1
      /\ pool.index .. FLASH_NB - 1 \subseteq Flash
  BY PoolFields DEF Flash
<1>2. pool.index # 0 => pool.index \in Roomy(pool)
  <2>1. SUFFICES ASSUME pool.index # 0 PROVE pool.curr[pool.index] < PAGE_NB
    BY <1>1 DEF Roomy
  <2>2. pool.curr[pool.index] = pool.curr[0] - 1
    BY <1>1, <2>1 DEF RoundRobin, Flash
  <2>3. pool.curr[0] \in 0 .. PAGE_NB
    BY <1>1
  <2> QED BY <2>2, <2>3
<1>3. ASSUME Roomy(pool) # {} PROVE pool.index \in Roomy(pool)
  <2>1. PICK f \in Roomy(pool) : TRUE
    BY <1>3
  <2>2. CASE pool.index = 0
    <3>1. f \in Flash /\ pool.curr[f] < PAGE_NB
      BY <1>1, <2>1 DEF Roomy
    <3>2. pool.curr[f] = pool.curr[0]
      BY <2>2, <3>1 DEF RoundRobin
    <3> QED BY <1>1, <2>2, <3>1, <3>2 DEF Roomy
  <2> QED BY <1>2, <2>2
<1>4. ASSUME Roomy(pool) # {}
      PROVE  (CHOOSE g \in Roomy(pool) : \A h \in Roomy(pool) : g <= h) = pool.index
  <2>1. pool.index \in Roomy(pool) /\ \A h \in Roomy(pool) : pool.index <= h
    BY <1>1, <1>3, <1>4 DEF Roomy, Flash
  <2>2. \A g \in Roomy(pool) : g \in Int /\ (g <= pool.index => g = pool.index)
    BY <1>1 DEF Roomy, Flash
  <2> QED BY <2>1, <2>2
<1>5. ASSUME Roomy(pool) # {} PROVE pool.curr[pool.index] \in PageOf
  <2>1. pool.curr[pool.index] < PAGE_NB /\ pool.curr[pool.index] \in 0 .. PAGE_NB
    BY <1>1, <1>3, <1>5 DEF Roomy
  <2> QED BY <2>1 DEF PageOf
<1> QED BY <1>2, <1>4, <1>5

\* The page taken from the active superblock, at the flash whose turn it is.
LEMMA CurrentInv ==
  ASSUME NEW pool, NEW held \in Held, PoolInv(pool, held),
         pool.active # NoBlock, pool.curr[pool.index] \in PageOf
  PROVE  LET q == [pool EXCEPT !.index = NextIndex(pool.index)]
             n == TakePage(q, pool.index)
             x == MakePpn(pool.index, q.active, q.curr[pool.index])
         IN  /\ InOrder(q, pool.index) /\ PoolInv(n, held)
             /\ x \in Unwritten(pool)
             /\ Unwritten(n) \subseteq Unwritten(pool) \ {x}
<1> USE GeometryAssumption
<1> DEFINE q == [pool EXCEPT !.index = NextIndex(pool.index)]
           i == pool.index
           n == TakePage(q, i)
           x == MakePpn(i, q.active, q.curr[i])
           c == [pool.curr EXCEPT ![i] = pool.curr[i] + 1]
           b == IF i = 0 THEN pool.active ELSE pool.sb_block
<1>0. pool \in PoolType /\ Partitioned(pool, held) /\ RoundRobin(pool)
  BY DEF PoolInv
<1>1. /\ pool.active \in SuperBlock /\ i \in Flash /\ pool.curr \in [Flash -> 0 .. PAGE_NB]
      /\ pool.sb_block \in SuperBlock /\ pool.empty \in Seq(SuperBlock)
      /\ pool.curr[i] \in PageOf /\ 0 \in Flash
  BY <1>0, PoolFields DEF Flash
<1>2. NextIndex(i) \in Flash
  BY <1>1 DEF NextIndex, Flash
<1>3. /\ q \in PoolType
      /\ q.active = pool.active /\ q.curr = pool.curr /\ q.index = NextIndex(i)
      /\ q.sb_plane = pool.sb_plane /\ q.sb_block = pool.sb_block
      /\ q = [pool EXCEPT !.index = NextIndex(i)]
  BY <1>0, <1>2 DEF PoolType
<1>4. InOrder(q, i)
  BY <1>0, <1>1, <1>3 DEF InOrder, RoundRobin
<1>5. c \in [Flash -> 0 .. PAGE_NB] /\ b \in SuperBlock
  <2>1. pool.curr[i] + 1 \in 0 .. PAGE_NB
    BY <1>1 DEF PageOf
  <2> QED BY <1>1, <2>1
<1>6. n = [q EXCEPT !.curr = c, !.sb_plane = i, !.sb_block = b]
  BY <1>3 DEF TakePage
<1>7. \A f \in Flash : c[f] = IF f = i THEN pool.curr[i] + 1 ELSE pool.curr[f]
  BY <1>1
<1>8. b = IF i = 0 THEN pool.active ELSE pool.sb_block
  OBVIOUS
<1>9. x = MakePpn(i, pool.active, pool.curr[i])
  BY <1>3
<1>10. q.empty = pool.empty /\ q.victim = pool.victim
       /\ q.total_empty = pool.total_empty /\ q.total_victim = pool.total_victim
  BY <1>0, <1>3 DEF PoolType
<1> HIDE DEF q, c, b, x
<1>11. /\ n \in PoolType /\ n.active = pool.active /\ n.curr = c
       /\ n.index = NextIndex(i) /\ n.sb_plane = i /\ n.sb_block = b
       /\ n.empty = q.empty /\ n.victim = q.victim
       /\ n.total_empty = q.total_empty /\ n.total_victim = q.total_victim
  <2> HIDE DEF n, i
  <2> QED BY <1>1, <1>3, <1>5, <1>6 DEF PoolType
<1> HIDE DEF n
<1>12. Partitioned(n, held)
  BY <1>0, <1>10, <1>11 DEF Partitioned
<1>13. RoundRobin(n)
  <2>1. n.sb_plane = IF n.index = 0 THEN FLASH_NB - 1 ELSE n.index - 1
    BY <1>1, <1>11 DEF NextIndex, Flash
  <2>2. n.index # 0 => n.sb_block = n.active
    BY <1>0, <1>8, <1>11 DEF RoundRobin
  <2>3. ASSUME NEW f \in Flash
        PROVE  c[f] = IF n.index # 0 /\ f >= n.index THEN c[0] - 1 ELSE c[0]
    <3>1. /\ pool.curr[f] \in Int /\ pool.curr[0] \in Int /\ pool.curr[i] \in Int
          /\ f \in 0 .. FLASH_NB - 1 /\ i \in 0 .. FLASH_NB - 1
      BY <1>1, SMTT(30) DEF Flash
    <3>2. pool.curr[f] = IF i # 0 /\ f >= i THEN pool.curr[0] - 1 ELSE pool.curr[0]
      BY <1>0, <1>1 DEF RoundRobin
    <3>3. pool.curr[i] = IF i # 0 /\ i >= i THEN pool.curr[0] - 1 ELSE pool.curr[0]
      BY <1>0, <1>1 DEF RoundRobin
    <3>4. /\ c[f] = IF f = i THEN pool.curr[i] + 1 ELSE pool.curr[f]
          /\ c[0] = IF 0 = i THEN pool.curr[i] + 1 ELSE pool.curr[0]
      BY <1>1, <1>7
    <3> HIDE DEF i
    <3> QED BY <1>11, <3>1, <3>2, <3>3, <3>4 DEF NextIndex
  <2>4. n.active # NoBlock
    BY <1>11
  <2> QED BY <1>11, <2>1, <2>2, <2>3, <2>4 DEF RoundRobin
<1>14. x \in PPN /\ CALC_BLOCK(x) = pool.active /\ CALC_FLASH(x) = i
       /\ CALC_PAGE(x) = pool.curr[i]
  BY <1>1, <1>9, AddressRoundTrip
<1>15. x \in Unwritten(pool)
  BY <1>1, <1>14 DEF Unwritten, PageOf
<1>16. ASSUME NEW p \in Unwritten(n) PROVE p \in Unwritten(pool) /\ p # x
  <2>1. p \in PPN /\ CALC_FLASH(p) \in Flash /\ CALC_PAGE(p) \in PageOf
    BY <1>16, AddressParts DEF Unwritten
  <2>2. CASE CALC_BLOCK(p) \in ToSet(pool.empty)
    <3>1. pool.active \notin ToSet(pool.empty)
      BY <1>0 DEF Partitioned, Single
    <3> QED BY <1>14, <2>1, <2>2, <3>1 DEF Unwritten
  <2>3. CASE pool.active = CALC_BLOCK(p) /\ c[CALC_FLASH(p)] <= CALC_PAGE(p)
    <3>1. pool.curr[CALC_FLASH(p)] \in 0 .. PAGE_NB /\ pool.curr[i] \in 0 .. PAGE_NB
      BY <1>1, <2>1
    <3>2. pool.curr[CALC_FLASH(p)] <= CALC_PAGE(p)
      BY <1>7, <2>1, <2>3, <3>1 DEF PageOf
    <3>3. p # x
      BY <1>1, <1>7, <1>14, <2>3, <3>1
    <3> QED BY <2>1, <2>3, <3>2, <3>3 DEF Unwritten
  <2> QED BY <1>10, <1>11, <1>16, <2>2, <2>3 DEF Unwritten
<1> QED BY <1>4, <1>11, <1>12, <1>13, <1>15, <1>16 DEF PoolInv, q, n, x

-----------------------------------------------------------------------------
\* GET_NEW_PAGE never fails its order check and never loops.  The page it
\* returns was not handed out since its superblock was last erased, and is not
\* handed out again before the next erase; it finds none only when no
\* superblock is left.
THEOREM NewPageSound ==
  ASSUME NEW pool, NEW held \in Held, PoolInv(pool, held)
  PROVE  LET g == GET_NEW_PAGE(pool) IN
         /\ g.ret \in {"success", "fault"}
         /\ PoolInv(g.pool, held)
         /\ g.ret = "success" => /\ g.ppn \in Unwritten(pool)
                                 /\ Unwritten(g.pool) \subseteq Unwritten(pool) \ {g.ppn}
         /\ g.ret = "fault" => Unwritten(g.pool) \subseteq Unwritten(pool)
<1> USE GeometryAssumption
<1> DEFINE g == GET_NEW_PAGE(pool)
           p == IF pool.active # NoBlock /\ Roomy(pool) = {}
                  THEN RetireActive(pool) ELSE pool
<1>0. pool \in PoolType /\ Partitioned(pool, held) /\ RoundRobin(pool)
  BY DEF PoolInv
<1>1. CASE pool.active # NoBlock /\ Roomy(pool) # {}
  <2> DEFINE i == pool.index
             q == [pool EXCEPT !.index = NextIndex(i)]
  <2>1. pool.total_empty # 0
    BY <1>0, <1>1, PoolFields DEF Partitioned
  <2>2. /\ pool.curr[i] \in PageOf
        /\ (CHOOSE f \in Roomy(pool) : \A h \in Roomy(pool) : f <= h) = i
    BY <1>0, <1>1, TurnHasRoom
  <2>3. GET_EMPTY_BLOCK(pool) = [ret |-> "block", flash |-> i, pool |-> q]
    BY <1>1, <2>1, <2>2 DEF GET_EMPTY_BLOCK
  <2>4. /\ InOrder(q, i) /\ PoolInv(TakePage(q, i), held)
        /\ MakePpn(i, q.active, q.curr[i]) \in Unwritten(pool)
        /\ Unwritten(TakePage(q, i)) \subseteq Unwritten(pool) \ {MakePpn(i, q.active, q.curr[i])}
    BY <1>1, <2>2, CurrentInv
  <2> HIDE DEF q, i
  <2>5. g = [ret |-> "success", ppn |-> MakePpn(i, q.active, q.curr[i]),
             pool |-> TakePage(q, i)]
    BY <2>3, <2>4 DEF GET_NEW_PAGE
  <2> QED BY <2>4, <2>5
<1>2. CASE ~(pool.active # NoBlock /\ Roomy(pool) # {})
  <2>1. PoolInv(p, held) /\ Unwritten(p) \subseteq Unwritten(pool) /\ p.active = NoBlock
    <3>1. CASE pool.active = NoBlock
      BY <3>1
    <3>2. CASE pool.active # NoBlock
      <4>1. pool.index = 0
        BY <1>0, <1>2, <3>2, TurnHasRoom
      <4>2. p = RetireActive(pool)
        BY <1>2, <3>2
      <4> QED BY <3>2, <4>1, <4>2, RetireInv
    <3> QED BY <3>1, <3>2
  <2>2. p.index = 0 /\ p.total_empty = FLASH_NB * Len(p.empty) /\ p \in PoolType
    BY <2>1 DEF PoolInv, RoundRobin, Partitioned
  <2>3. GET_EMPTY_BLOCK(pool) =
          IF p.total_empty = 0 THEN [ret |-> "null", flash |-> 0, pool |-> p]
          ELSE IF p.index = 0 /\ p.empty # << >>
            THEN [ret |-> "block", flash |-> 0, pool |-> ActivateNext(p)]
          ELSE [ret |-> "spin", flash |-> 0, pool |-> p]
    BY <2>1 DEF GET_EMPTY_BLOCK
  <2> HIDE DEF p
  <2>4. CASE p.total_empty = 0
    <3>1. g = [ret |-> "fault", ppn |-> NoPpn, pool |-> p]
      BY <2>3, <2>4 DEF GET_NEW_PAGE
    <3> QED BY <2>1, <3>1
  <2>5. CASE p.total_empty # 0
    <3> DEFINE q == ActivateNext(p)
    <3>1. p.empty # << >>
      <4>1. p.empty = << >> => Len(p.empty) = 0
        OBVIOUS
      <4> QED BY <2>2, <2>5, <4>1
    <3>2. /\ InOrder(q, 0) /\ PoolInv(TakePage(q, 0), held)
          /\ MakePpn(0, q.active, q.curr[0]) \in Unwritten(p)
          /\ Unwritten(TakePage(q, 0)) \subseteq Unwritten(p) \ {MakePpn(0, q.active, q.curr[0])}
      BY <2>1, <3>1, ActivateInv
    <3> HIDE DEF q
    <3>3. GET_EMPTY_BLOCK(pool) = [ret |-> "block", flash |-> 0, pool |-> q]
      BY <2>2, <2>3, <2>5, <3>1 DEF q
    <3>4. g = [ret |-> "success", ppn |-> MakePpn(0, q.active, q.curr[0]),
               pool |-> TakePage(q, 0)]
      BY <3>2, <3>3 DEF GET_NEW_PAGE
    <3> QED BY <2>1, <3>2, <3>4
  <2> QED BY <2>4, <2>5
<1> QED BY <1>1, <1>2

\* The victim leaves its list for the collection.
LEMMA EjectInv ==
  ASSUME NEW pool, PoolInv(pool, NoBlock), NEW i \in 1 .. Len(pool.victim)
  PROVE  /\ pool.victim[i] \in SuperBlock
         /\ PoolInv(EjectVictim(pool, i), pool.victim[i])
         /\ Unwritten(EjectVictim(pool, i)) = Unwritten(pool)
<1> USE GeometryAssumption
<1> DEFINE v == pool.victim
           r == SubSeq(v, 1, i - 1) \o SubSeq(v, i + 1, Len(v))
           q == EjectVictim(pool, i)
           b == v[i]
<1>0. pool \in PoolType /\ Partitioned(pool, NoBlock) /\ RoundRobin(pool)
  BY DEF PoolInv
<1>1. /\ v \in Seq(SuperBlock) /\ Len(v) \in Nat /\ b \in SuperBlock /\ IsInjective(v)
      /\ b \in ToSet(v)
  BY <1>0, PoolFields, InToSet DEF Partitioned
<1>2. /\ r \in Seq(SuperBlock) /\ Len(r) = Len(v) - 1
      /\ IsInjective(r) /\ ToSet(r) = ToSet(v) \ {b}
  BY <1>1, ListRemove, ZenonT(60)
<1>3. q = [pool EXCEPT !.victim = r, !.total_victim = pool.total_victim - FLASH_NB]
  BY DEF EjectVictim
<1>4. pool.total_victim - FLASH_NB \in Int
  BY <1>0, PoolFields
<1> HIDE DEF r, q
<1>5. /\ q \in PoolType /\ q.victim = r /\ q.total_victim = pool.total_victim - FLASH_NB
      /\ q.active = pool.active /\ q.empty = pool.empty /\ q.curr = pool.curr
      /\ q.index = pool.index /\ q.total_empty = pool.total_empty
      /\ q.sb_plane = pool.sb_plane /\ q.sb_block = pool.sb_block
  BY <1>0, <1>2, <1>3, <1>4 DEF PoolType
<1>6. q.total_victim = FLASH_NB * Len(r)
  <2>1. pool.total_victim = FLASH_NB * Len(v)
    BY <1>0 DEF Partitioned
  <2> QED BY <1>1, <1>2, <1>5, <2>1
<1>7. Single(b) = {b} /\ Single(NoBlock) = {}
  BY <1>1, NoBlockOutside DEF Single
<1>8. Partitioned(q, b)
  BY <1>0, <1>1, <1>2, <1>5, <1>6, <1>7, ZenonT(60) DEF Partitioned
<1>9. RoundRobin(q)
  BY <1>0, <1>5 DEF RoundRobin
<1>10. Unwritten(q) = Unwritten(pool)
  BY <1>5 DEF Unwritten
<1> QED BY <1>1, <1>5, <1>8, <1>9, <1>10 DEF PoolInv, q

\* The erased superblock goes to the end of the empty list.
LEMMA InsertInv ==
  ASSUME NEW pool, NEW b \in SuperBlock, PoolInv(pool, b)
  PROVE  /\ PoolInv(InsertEmpty(pool, b), NoBlock)
         /\ Unwritten(InsertEmpty(pool, b)) \subseteq Unwritten(pool) \cup PagesOf(b)
<1> USE GeometryAssumption
<1> DEFINE e == Append(pool.empty, b)
           q == InsertEmpty(pool, b)
<1>0. pool \in PoolType /\ Partitioned(pool, b) /\ RoundRobin(pool)
  BY DEF PoolInv
<1>1. Single(b) = {b} /\ Single(NoBlock) = {}
  BY NoBlockOutside DEF Single
<1>2. /\ pool.empty \in Seq(SuperBlock) /\ Len(pool.empty) \in Nat /\ IsInjective(pool.empty)
      /\ b \notin ToSet(pool.empty)
  BY <1>0, <1>1, PoolFields DEF Partitioned
<1>3. /\ e \in Seq(SuperBlock) /\ Len(e) = Len(pool.empty) + 1
      /\ ToSet(e) = ToSet(pool.empty) \cup {b} /\ IsInjective(e)
  BY <1>2, ListAppend
<1>4. q = [pool EXCEPT !.empty = e, !.total_empty = pool.total_empty + FLASH_NB]
  BY DEF InsertEmpty
<1>5. pool.total_empty + FLASH_NB \in Int
  BY <1>0, PoolFields
<1> HIDE DEF e, q
<1>6. /\ q \in PoolType /\ q.empty = e /\ q.total_empty = pool.total_empty + FLASH_NB
      /\ q.active = pool.active /\ q.victim = pool.victim /\ q.curr = pool.curr
      /\ q.index = pool.index /\ q.total_victim = pool.total_victim
      /\ q.sb_plane = pool.sb_plane /\ q.sb_block = pool.sb_block
  BY <1>0, <1>3, <1>4, <1>5 DEF PoolType
<1>7. q.total_empty =
        FLASH_NB * (IF q.active = NoBlock THEN Len(q.empty) ELSE Len(q.empty) + 1)
  <2>1. pool.total_empty = FLASH_NB *
          (IF pool.active = NoBlock THEN Len(pool.empty) ELSE Len(pool.empty) + 1)
    BY <1>0 DEF Partitioned
  <2> QED BY <1>2, <1>3, <1>6, <2>1
<1>8. Partitioned(q, NoBlock)
  BY <1>0, <1>1, <1>2, <1>3, <1>6, <1>7 DEF Partitioned
<1>9. RoundRobin(q)
  BY <1>0, <1>6 DEF RoundRobin
<1>10. Unwritten(q) \subseteq Unwritten(pool) \cup PagesOf(b)
  BY <1>3, <1>6 DEF Unwritten, PagesOf
<1> QED BY <1>6, <1>8, <1>9, <1>10 DEF PoolInv, q
=============================================================================

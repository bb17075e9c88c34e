------------------------ MODULE FlashGeometryProofs ------------------------
(***************************************************************************)
(* Facts about the physical address space, for every geometry: an address  *)
(* composed by GET_NEW_PAGE lies on the device and is decomposed into the  *)
(* flash, block and page it was composed from.                             *)
(***************************************************************************)
EXTENDS FlashGeometry, TLAPS

\* Quotient and remainder of a number given by its quotient and remainder.
LEMMA DivMod ==
  ASSUME NEW d \in Nat, d >= 1, NEW q \in Int, NEW r \in 0 .. d - 1
  PROVE  (q * d + r) \div d = q /\ (q * d + r) % d = r
OBVIOUS

\* Every number has a quotient and a remainder.
LEMMA DivModBack ==
  ASSUME NEW d \in Nat, d >= 1, NEW n \in Nat
  PROVE  /\ n \div d \in Nat /\ n % d \in 0 .. d - 1
         /\ n = (n \div d) * d + (n % d)
OBVIOUS

\* Positions in m rows of d.
LEMMA RowBound ==
  ASSUME NEW m \in Nat, NEW d \in Nat, NEW q \in 0 .. m - 1, NEW r \in 0 .. d - 1
  PROVE  q * d + r \in 0 .. m * d - 1
OBVIOUS

\* The row of a position in m rows of d.
LEMMA RowOf ==
  ASSUME NEW m \in Nat, NEW d \in Nat, d >= 1, NEW n \in 0 .. m * d - 1
  PROVE  n \div d \in 0 .. m - 1
<1>0. n \in Nat /\ n < m * d
  OBVIOUS
<1>1. n \div d \in Nat /\ n % d \in 0 .. d - 1 /\ n = (n \div d) * d + (n % d)
  BY <1>0, DivModBack
<1>2. SUFFICES ASSUME n \div d >= m PROVE FALSE
  BY <1>1
<1>3. (n \div d) * d >= m * d
  BY <1>1, <1>2
<1> QED BY <1>0, <1>1, <1>3

\* The address GET_NEW_PAGE composes is on the device, and CALC_FLASH,
\* CALC_BLOCK and CALC_PAGE take it apart again.
THEOREM AddressRoundTrip ==
  ASSUME NEW f \in Flash, NEW b \in SuperBlock, NEW n \in PageOf
  PROVE  /\ MakePpn(f, b, n) \in PPN
         /\ CALC_FLASH(MakePpn(f, b, n)) = f
         /\ CALC_BLOCK(MakePpn(f, b, n)) = b
         /\ CALC_PAGE(MakePpn(f, b, n)) = n
<1> DEFINE r == f * BLOCK_NB + b
<1> USE GeometryAssumption
<1>1. /\ f \in 0 .. FLASH_NB - 1 /\ b \in 0 .. BLOCK_NB - 1 /\ n \in 0 .. PAGE_NB - 1
  BY DEF Flash, SuperBlock, PageOf
<1>2. r \in 0 .. FLASH_NB * BLOCK_NB - 1
  BY <1>1, RowBound
<1>3. r \div BLOCK_NB = f /\ r % BLOCK_NB = b
  <2>1. f \in Int /\ BLOCK_NB \in Nat /\ BLOCK_NB >= 1
    BY <1>1
  <2> QED BY <1>1, <2>1, DivMod
<1>4. FLASH_NB * BLOCK_NB \in Nat
  OBVIOUS
<1> HIDE DEF r
<1>5. r * PAGE_NB + n \in 0 .. (FLASH_NB * BLOCK_NB) * PAGE_NB - 1
  BY <1>1, <1>2, <1>4, RowBound
<1>6. (r * PAGE_NB + n) \div PAGE_NB = r /\ (r * PAGE_NB + n) % PAGE_NB = n
  <2>1. r \in Int /\ PAGE_NB \in Nat /\ PAGE_NB >= 1
    BY <1>2, <1>4
  <2> QED BY <1>1, <2>1, DivMod
<1>7. MakePpn(f, b, n) = r * PAGE_NB + n
  BY DEF MakePpn, r
<1>8. MakePpn(f, b, n) # NoPpn
  BY <1>5, <1>7, <1>4 DEF NoPpn
<1> QED BY <1>3, <1>5, <1>6, <1>7, <1>8 DEF PPN, CALC_FLASH, CALC_BLOCK, CALC_PAGE

\* Every page of the device has a flash, a block and a page number, and is the
\* address composed from them.
THEOREM AddressParts ==
  ASSUME NEW p \in PPN
  PROVE  /\ CALC_FLASH(p) \in Flash /\ CALC_BLOCK(p) \in SuperBlock
         /\ CALC_PAGE(p) \in PageOf
         /\ p = MakePpn(CALC_FLASH(p), CALC_BLOCK(p), CALC_PAGE(p))
<1> DEFINE r == p \div PAGE_NB
<1> USE GeometryAssumption
<1>1. FLASH_NB * BLOCK_NB \in Nat /\ p \in 0 .. (FLASH_NB * BLOCK_NB) * PAGE_NB - 1
  BY DEF PPN
<1>2. r \in 0 .. FLASH_NB * BLOCK_NB - 1
  <2> DEFINE m == FLASH_NB * BLOCK_NB
  <2>1. m \in Nat /\ p \in 0 .. m * PAGE_NB - 1 /\ PAGE_NB \in Nat /\ PAGE_NB >= 1
    BY <1>1
  <2> HIDE DEF m
  <2>2. p \div PAGE_NB \in 0 .. m - 1
    BY <2>1, RowOf
  <2> QED BY <2>2 DEF m
<1>3. p \in Nat
  BY <1>1
<1>4. p % PAGE_NB \in 0 .. PAGE_NB - 1 /\ p = r * PAGE_NB + (p % PAGE_NB)
  BY <1>3, DivModBack
<1>5. p # NoPpn
  BY <1>3 DEF NoPpn
<1>6. CALC_FLASH(p) = r \div BLOCK_NB /\ CALC_BLOCK(p) = r % BLOCK_NB
      /\ CALC_PAGE(p) = p % PAGE_NB
  BY <1>5 DEF CALC_FLASH, CALC_BLOCK, CALC_PAGE
<1> HIDE DEF r
<1>7. r \div BLOCK_NB \in 0 .. FLASH_NB - 1
  BY <1>2, RowOf
<1>8. r \in Nat
  BY <1>1, <1>2
<1>9. r % BLOCK_NB \in 0 .. BLOCK_NB - 1 /\ r = (r \div BLOCK_NB) * BLOCK_NB + (r % BLOCK_NB)
  BY <1>8, DivModBack
<1> QED BY <1>4, <1>6, <1>7, <1>9 DEF Flash, SuperBlock, PageOf, MakePpn
=============================================================================

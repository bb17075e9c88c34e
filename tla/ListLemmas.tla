----------------------------- MODULE ListLemmas -----------------------------
(***************************************************************************)
(* What the list operations of the FTL do to a list without duplicates:    *)
(* taking the head, appending at the tail, unlinking an entry.             *)
(***************************************************************************)
EXTENDS SequencesExt, SequenceTheorems, WellFoundedInduction, TLAPS

LEMMA InToSet ==
  ASSUME NEW S, NEW s \in Seq(S), NEW x
  PROVE  x \in ToSet(s) <=> \E i \in 1 .. Len(s) : s[i] = x
BY DEF ToSet

LEMMA ToSetType ==
  ASSUME NEW S, NEW s \in Seq(S)
  PROVE  ToSet(s) \subseteq S
BY DEF ToSet

LEMMA InjectiveDef ==
  ASSUME NEW S, NEW s \in Seq(S)
  PROVE  IsInjective(s) <=> \A i, j \in 1 .. Len(s) : s[i] = s[j] => i = j
BY DEF IsInjective

LEMMA EmptyList ==
  ToSet(<< >>) = {} /\ IsInjective(<< >>)
BY DEF ToSet, IsInjective

\* The list without its head.
LEMMA ListTail ==
  ASSUME NEW S, NEW s \in Seq(S), s # << >>
  PROVE  /\ Tail(s) \in Seq(S) /\ Head(s) \in S /\ Len(Tail(s)) = Len(s) - 1
         /\ ToSet(s) = ToSet(Tail(s)) \cup {Head(s)}
         /\ IsInjective(s) => IsInjective(Tail(s)) /\ Head(s) \notin ToSet(Tail(s))
<1> DEFINE t == Tail(s)
           h == Head(s)
<1>1. /\ t \in Seq(S) /\ h \in S /\ Len(t) = Len(s) - 1
      /\ h = s[1] /\ Len(s) \in Nat /\ Len(s) >= 1
      /\ \A i \in 1 .. Len(s) - 1 : t[i] = s[i + 1]
  OBVIOUS
<1> HIDE DEF t, h
<1>2. ASSUME NEW x PROVE x \in ToSet(s) <=> x \in ToSet(t) \cup {h}
  <2>1. x \in ToSet(s) <=> \E i \in 1 .. Len(s) : s[i] = x
    BY InToSet
  <2>2. x \in ToSet(t) <=> \E i \in 1 .. Len(t) : t[i] = x
    BY <1>1, InToSet
  <2>3. ASSUME NEW i \in 1 .. Len(s), s[i] = x, i # 1
        PROVE  \E j \in 1 .. Len(t) : t[j] = x
    <3>1. i - 1 \in 1 .. Len(s) - 1 /\ (i - 1) + 1 = i
      BY <1>1, <2>3
    <3>2. t[i - 1] = x
      BY <1>1, <2>3, <3>1
    <3> QED BY <1>1, <3>1, <3>2
  <2>4. ASSUME NEW j \in 1 .. Len(t), t[j] = x
        PROVE  \E i \in 1 .. Len(s) : s[i] = x
    <3>1. j + 1 \in 1 .. Len(s) /\ s[j + 1] = x
      BY <1>1, <2>4
    <3> QED BY <3>1
  <2>5. 1 \in 1 .. Len(s)
    BY <1>1
  <2> QED BY <1>1, <2>1, <2>2, <2>3, <2>4, <2>5
<1>3. ASSUME IsInjective(s) PROVE IsInjective(t) /\ h \notin ToSet(t)
  <2>1. \A i, j \in 1 .. Len(s) : s[i] = s[j] => i = j
    BY <1>3, InjectiveDef
  <2>2. \A i, j \in 1 .. Len(t) : t[i] = t[j] => i = j
    BY <1>1, <2>1
  <2>3. IsInjective(t)
    BY <1>1, <2>2, InjectiveDef
  <2>4. \A j \in 1 .. Len(t) : t[j] # h
    BY <1>1, <2>1
  <2>5. h \notin ToSet(t)
    BY <1>1, <2>4, InToSet
  <2> QED BY <2>3, <2>5
<1> QED BY <1>1, <1>2, <1>3 DEF t, h

\* The list with one more entry at its tail.
LEMMA ListAppend ==
  ASSUME NEW S, NEW s \in Seq(S), NEW e \in S
  PROVE  /\ Append(s, e) \in Seq(S) /\ Len(Append(s, e)) = Len(s) + 1
         /\ ToSet(Append(s, e)) = ToSet(s) \cup {e}
         /\ IsInjective(s) /\ e \notin ToSet(s) => IsInjective(Append(s, e))
<1> DEFINE t == Append(s, e)
<1>1. /\ t \in Seq(S) /\ Len(t) = Len(s) + 1
      /\ Len(s) \in Nat /\ t[Len(s) + 1] = e
      /\ \A i \in 1 .. Len(s) : t[i] = s[i]
  OBVIOUS
<1> HIDE DEF t
<1>2. ASSUME NEW x PROVE x \in ToSet(t) <=> x \in ToSet(s) \cup {e}
  <2>1. x \in ToSet(s) <=> \E i \in 1 .. Len(s) : s[i] = x
    BY InToSet
  <2>2. x \in ToSet(t) <=> \E i \in 1 .. Len(t) : t[i] = x
    BY <1>1, InToSet
  <2>3. \A i \in 1 .. Len(t) : i \in 1 .. Len(s) \/ i = Len(s) + 1
    BY <1>1
  <2>4. \A i \in 1 .. Len(s) : i \in 1 .. Len(t)
    BY <1>1
  <2>5. Len(s) + 1 \in 1 .. Len(t)
    BY <1>1
  <2> QED BY <1>1, <2>1, <2>2, <2>3, <2>4, <2>5
<1>3. ASSUME IsInjective(s), e \notin ToSet(s) PROVE IsInjective(t)
  <2>1. \A i, j \in 1 .. Len(s) : s[i] = s[j] => i = j
    BY <1>3, InjectiveDef
  <2>2. \A i \in 1 .. Len(s) : s[i] # e
    BY <1>3, InToSet
  <2>3. \A i, j \in 1 .. Len(t) : t[i] = t[j] => i = j
    BY <1>1, <2>1, <2>2
  <2> QED BY <1>1, <2>3, InjectiveDef
<1> QED BY <1>1, <1>2, <1>3 DEF t

\* The list without its entry i.
LEMMA ListRemove ==
  ASSUME NEW S, NEW s \in Seq(S), NEW i \in 1 .. Len(s)
  PROVE  LET r == SubSeq(s, 1, i - 1) \o SubSeq(s, i + 1, Len(s)) IN
         /\ r \in Seq(S) /\ Len(r) = Len(s) - 1
         /\ \A j \in 1 .. Len(r) : r[j] = IF j < i THEN s[j] ELSE s[j + 1]
         /\ IsInjective(s) => IsInjective(r) /\ ToSet(r) = ToSet(s) \ {s[i]}
<1> DEFINE a == SubSeq(s, 1, i - 1)
           b == SubSeq(s, i + 1, Len(s))
           r == a \o b
<1>1. a \in Seq(S) /\ Len(a) = i - 1 /\ \A j \in 1 .. i - 1 : a[j] = s[j]
  OBVIOUS
<1>2. /\ b \in Seq(S) /\ Len(b) = Len(s) - i
      /\ \A j \in 1 .. Len(s) - i : b[j] = s[i + j]
  OBVIOUS
<1> HIDE DEF a, b
<1>3. Len(s) \in Nat /\ i \in Nat /\ i >= 1 /\ i <= Len(s)
  OBVIOUS
<1>4. /\ r \in Seq(S) /\ Len(r) = Len(a) + Len(b)
      /\ \A j \in 1 .. Len(a) : r[j] = a[j]
      /\ \A j \in Len(a) + 1 .. Len(a) + Len(b) : r[j] = b[j - Len(a)]
  <2>1. a \in Seq(S) /\ b \in Seq(S) /\ Len(a) \in Nat /\ Len(b) \in Nat
    BY <1>1, <1>2
  <2>2. /\ r \in Seq(S) /\ Len(r) = Len(a) + Len(b)
        /\ \A j \in 1 .. Len(a) + Len(b) :
             r[j] = IF j <= Len(a) THEN a[j] ELSE b[j - Len(a)]
    BY <2>1, ConcatProperties
  <2> HIDE DEF r
  <2> QED BY <2>1, <2>2
<1> HIDE DEF r
<1>4a. Len(r) = Len(s) - 1
  BY <1>1, <1>2, <1>3, <1>4
<1>5. ASSUME NEW j \in 1 .. Len(s) - 1
      PROVE  r[j] = IF j < i THEN s[j] ELSE s[j + 1]
  <2>1. CASE j < i
    BY <1>1, <1>3, <1>4, <2>1
  <2>2. CASE ~(j < i)
    <3>1. j - Len(a) \in 1 .. Len(s) - i /\ j \in Len(a) + 1 .. Len(a) + Len(b)
      BY <1>1, <1>2, <1>3, <2>2
    <3>2. i + (j - Len(a)) = j + 1
      BY <1>1, <1>3
    <3> QED BY <1>2, <1>4, <2>2, <3>1, <3>2
  <2> QED BY <2>1, <2>2
<1>6. ASSUME IsInjective(s) PROVE IsInjective(r) /\ ToSet(r) = ToSet(s) \ {s[i]}
  <2>1. \A j, k \in 1 .. Len(s) : s[j] = s[k] => j = k
    BY <1>6, InjectiveDef
  <2>2. \A j, k \in 1 .. Len(s) - 1 : r[j] = r[k] => j = k
    BY <1>3, <1>5, <2>1
  <2>3. IsInjective(r)
    BY <1>4, <1>4a, <2>2, InjectiveDef
  <2>4. ASSUME NEW x \in ToSet(r) PROVE x \in ToSet(s) \ {s[i]}
    <3>1. PICK j \in 1 .. Len(s) - 1 : r[j] = x
      BY <1>4, <1>4a, <2>4, InToSet
    <3>2. PICK k \in 1 .. Len(s) : s[k] = x /\ k # i
      BY <1>3, <1>5, <3>1
    <3>3. x # s[i]
      BY <2>1, <3>2
    <3> QED BY <3>2, <3>3, InToSet
  <2>5. ASSUME NEW x \in ToSet(s), x # s[i] PROVE x \in ToSet(r)
    <3>1. PICK k \in 1 .. Len(s) : s[k] = x
      BY <2>5, InToSet
    <3>2. k # i
      BY <2>5, <3>1
    <3>3. CASE k < i
      <4>1. k \in 1 .. Len(s) - 1 /\ r[k] = x
        BY <1>3, <1>5, <3>1, <3>3
      <4> QED BY <1>4, <1>4a, <4>1, InToSet
    <3>4. CASE k > i
      <4>1. k - 1 \in 1 .. Len(s) - 1 /\ ~(k - 1 < i) /\ (k - 1) + 1 = k
        BY <1>3, <3>4
      <4>2. r[k - 1] = x
        BY <1>5, <3>1, <4>1
      <4> QED BY <1>4, <1>4a, <4>1, <4>2, InToSet
    <3> QED BY <1>3, <3>2, <3>3, <3>4
  <2> QED BY <2>3, <2>4, <2>5
<1>7. r = SubSeq(s, 1, i - 1) \o SubSeq(s, i + 1, Len(s))
  BY DEF r, a, b
<1> QED BY <1>4, <1>4a, <1>5, <1>6, <1>7

\* A set of numbers has a smallest one.
LEMMA SmallestExists ==
  ASSUME NEW T, T \subseteq Nat, T # {}
  PROVE  \E m \in T : \A n \in T : m <= n
<1>1. \E m \in T : \A n \in T : ~(<<n, m>> \in OpToRel(<, Nat))
  BY WFMin, NatLessThanWellFounded
<1>2. PICK m \in T : \A n \in T : ~(<<n, m>> \in OpToRel(<, Nat))
  BY <1>1
<1>3. \A n \in T : m \in Nat /\ n \in Nat /\ ~(n < m)
  BY <1>2 DEF OpToRel
<1>4. \A n \in T : m <= n
  BY <1>3
<1> QED BY <1>4

\* RemoveFirst unlinks the first entry that holds e.
LEMMA FirstEntry ==
  ASSUME NEW S, NEW s \in Seq(S), NEW e \in ToSet(s)
  PROVE  \E i \in 1 .. Len(s) :
           /\ s[i] = e /\ \A j \in 1 .. Len(s) : s[j] = e => i <= j
           /\ RemoveFirst(s, e) = SubSeq(s, 1, i - 1) \o SubSeq(s, i + 1, Len(s))
<1> DEFINE I == {i \in 1 .. Len(s) : s[i] = e}
           m == Min(I)
<1>1. I # {} /\ I \subseteq Nat
  BY InToSet
<1>2. m \in I /\ \A n \in I : m <= n
  <2>1. \E x \in I : \A y \in I : x <= y
    BY <1>1, SmallestExists
  <2> QED BY <2>1 DEF Min
<1>3. SelectInSeq(s, LAMBDA v : v = e) = m
  BY <1>1 DEF SelectInSeq
<1>4. RemoveFirst(s, e) = RemoveAt(s, m)
  BY <1>1, <1>3 DEF RemoveFirst
<1> QED BY <1>2, <1>4 DEF RemoveAt

\* Unlinking an entry of a list without duplicates.
LEMMA ListUnlink ==
  ASSUME NEW S, NEW s \in Seq(S), NEW e \in ToSet(s), IsInjective(s)
  PROVE  /\ RemoveFirst(s, e) \in Seq(S) /\ Len(RemoveFirst(s, e)) = Len(s) - 1
         /\ IsInjective(RemoveFirst(s, e))
         /\ ToSet(RemoveFirst(s, e)) = ToSet(s) \ {e}
<1>1. PICK i \in 1 .. Len(s) :
        /\ s[i] = e
        /\ RemoveFirst(s, e) = SubSeq(s, 1, i - 1) \o SubSeq(s, i + 1, Len(s))
  BY FirstEntry
<1> DEFINE r == SubSeq(s, 1, i - 1) \o SubSeq(s, i + 1, Len(s))
<1>2. /\ r \in Seq(S) /\ Len(r) = Len(s) - 1
      /\ IsInjective(r) /\ ToSet(r) = ToSet(s) \ {s[i]}
  BY ListRemove, ZenonT(60)
<1> HIDE DEF r
<1>3. RemoveFirst(s, e) = r /\ s[i] = e
  BY <1>1 DEF r
<1> QED BY <1>2, <1>3

\* Unlinking the earlier one of two entries with the same value: the entry
\* appended last stays.
LEMMA ListRelink ==
  ASSUME NEW S, NEW s \in Seq(S), NEW e \in ToSet(s), IsInjective(s)
  PROVE  /\ RemoveFirst(Append(s, e), e) \in Seq(S)
         /\ Len(RemoveFirst(Append(s, e), e)) = Len(s)
         /\ IsInjective(RemoveFirst(Append(s, e), e))
         /\ ToSet(RemoveFirst(Append(s, e), e)) = ToSet(s)
<1> DEFINE t == Append(s, e)
           n == Len(s)
<1>1. e \in S
  BY ToSetType
<1>2. /\ t \in Seq(S) /\ n \in Nat /\ Len(t) = n + 1 /\ t[n + 1] = e
      /\ \A j \in 1 .. n : t[j] = s[j]
  BY <1>1
<1> HIDE DEF t
<1>3. e \in ToSet(t)
  <2>1. n + 1 \in 1 .. Len(t)
    BY <1>2
  <2> QED BY <1>2, <2>1, InToSet
<1>4. PICK i \in 1 .. Len(t) :
        /\ t[i] = e /\ \A j \in 1 .. Len(t) : t[j] = e => i <= j
        /\ RemoveFirst(t, e) = SubSeq(t, 1, i - 1) \o SubSeq(t, i + 1, Len(t))
  BY <1>2, <1>3, FirstEntry
<1> DEFINE r == SubSeq(t, 1, i - 1) \o SubSeq(t, i + 1, Len(t))
<1>5. /\ r \in Seq(S) /\ Len(r) = Len(t) - 1
      /\ \A j \in 1 .. Len(r) : r[j] = IF j < i THEN t[j] ELSE t[j + 1]
  BY <1>2, ListRemove
<1> HIDE DEF r
<1>6. Len(r) = n
  BY <1>2, <1>5
<1>7. PICK k \in 1 .. n : s[k] = e
  BY InToSet
<1>8. i \in 1 .. n /\ s[i] = e
  BY <1>2, <1>4, <1>7
<1>9. \A j, m \in 1 .. n : s[j] = s[m] => j = m
  BY InjectiveDef
<1>10. /\ r[n] = e
       /\ \A j \in 1 .. n - 1 : r[j] = IF j < i THEN s[j] ELSE s[j + 1]
  BY <1>2, <1>5, <1>6, <1>8
<1>11. IsInjective(r)
  <2>1. \A j \in 1 .. n - 1 : r[j] # e
    BY <1>2, <1>8, <1>9, <1>10
  <2>2. \A j, m \in 1 .. n - 1 : r[j] = r[m] => j = m
    BY <1>2, <1>8, <1>9, <1>10
  <2>3. \A j, m \in 1 .. Len(r) : r[j] = r[m] => j = m
    BY <1>2, <1>6, <1>10, <2>1, <2>2
  <2> QED BY <1>5, <2>3, InjectiveDef
<1>12. ASSUME NEW x \in ToSet(r) PROVE x \in ToSet(s)
  <2>1. PICK j \in 1 .. n : r[j] = x
    BY <1>5, <1>6, <1>12, InToSet
  <2>2. \E m \in 1 .. n : s[m] = x
    BY <1>2, <1>8, <1>10, <2>1
  <2> QED BY <2>2, InToSet
<1>13. ASSUME NEW x \in ToSet(s) PROVE x \in ToSet(r)
  <2>1. PICK m \in 1 .. n : s[m] = x
    BY <1>13, InToSet
  <2>2. \E j \in 1 .. n : r[j] = x
    <3>1. CASE m = i
      BY <1>2, <1>8, <1>10, <2>1, <3>1
    <3>2. CASE m < i
      BY <1>2, <1>8, <1>10, <2>1, <3>2
    <3>3. CASE m > i
      <4>1. m - 1 \in 1 .. n - 1 /\ ~(m - 1 < i) /\ (m - 1) + 1 = m /\ m - 1 \in 1 .. n
        BY <1>2, <1>8, <3>3
      <4>2. r[m - 1] = x
        BY <1>10, <2>1, <4>1
      <4> QED BY <4>1, <4>2
    <3> QED BY <1>2, <1>8, <3>1, <3>2, <3>3
  <2> QED BY <1>5, <1>6, <2>2, InToSet
<1>14. RemoveFirst(Append(s, e), e) = r
  BY <1>4 DEF r, t
<1> QED BY <1>5, <1>6, <1>11, <1>12, <1>13, <1>14
=============================================================================

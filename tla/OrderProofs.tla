---------------------------- MODULE OrderProofs ----------------------------
EXTENDS CardOrder, ListOrder, FiniteSetTheorems, WellFoundedInduction, TLAPS

-----------------------------------------------------------------------------
(* The order of keys.                                                       *)

\* A set of naturals has a least element.
LEMMA LeastNumber ==
  ASSUME NEW I \in SUBSET Nat, I # {}
  PROVE  \E i \in I : \A j \in I : i <= j
<1> DEFINE Below == {ss \in Nat \X Nat : ss[1] < ss[2]}
<1>0. IsWellFoundedOn(Below, Nat)
  BY NatLessThanWellFounded DEF OpToRel
<1>1. PICK i \in I : \A j \in I : <<j, i>> \notin Below
  <2> HIDE DEF Below
  <2>1. I \subseteq Nat /\ I # {}
    OBVIOUS
  <2> QED
    BY ONLY <1>0, <2>1, WFMin
<1>2. ASSUME NEW j \in I PROVE i <= j
  <2>1. \A m, n \in Nat : <<m, n>> \in Below <=> m < n
    OBVIOUS
  <2> HIDE DEF Below
  <2>2. i \in Nat /\ j \in Nat /\ <<j, i>> \notin Below
    BY <1>1
  <2> QED
    BY ONLY <2>1, <2>2
<1> QED
  BY <1>2

LEMMA MinIsLeast ==
  ASSUME NEW I \in SUBSET Nat, I # {}
  PROVE  Min(I) \in I /\ \A j \in I : Min(I) <= j
BY LeastNumber DEF Min

LEMMA Irreflexive == ASSUME NEW k \in Seq(Letter) PROVE ~(k \prec k)
BY OrderIndexConstants DEF \prec, Letter

LEMMA Transitive ==
  ASSUME NEW k \in Seq(Letter), NEW l \in Seq(Letter), NEW m \in Seq(Letter), k \prec l, l \prec m
  PROVE  k \prec m
<1>1. PICK i \in 1..Len(l) : /\ i <= Len(k) + 1
                             /\ \A j \in 1..(i - 1) : k[j] = l[j]
                             /\ i <= Len(k) => k[i] < l[i]
  BY DEF \prec
<1>2. PICK h \in 1..Len(m) : /\ h <= Len(l) + 1
                             /\ \A j \in 1..(h - 1) : l[j] = m[j]
                             /\ h <= Len(l) => l[h] < m[h]
  BY DEF \prec
<1>3. \A j \in 1..Len(k) : k[j] \in Int
  BY OrderIndexConstants DEF Letter
<1>4. \A j \in 1..Len(l) : l[j] \in Int
  BY OrderIndexConstants DEF Letter
<1>5. \A j \in 1..Len(m) : m[j] \in Int
  BY OrderIndexConstants DEF Letter
<1>6. Len(k) \in Nat /\ Len(l) \in Nat /\ Len(m) \in Nat
  OBVIOUS
<1>7. CASE i < h
  BY ONLY <1>1, <1>2, <1>3, <1>4, <1>5, <1>6, <1>7 DEF \prec
<1>8. CASE ~(i < h)
  <2>1. h \in 1..Len(m) /\ h <= Len(k) + 1 /\ h <= Len(l)
    BY ONLY <1>1, <1>2, <1>6, <1>8
  <2>2. \A j \in 1..(h - 1) : k[j] = m[j]
    BY ONLY <1>1, <1>2, <1>6, <1>8
  <2>3. h <= Len(k) => k[h] < m[h]
    <3>1. CASE i = h
      BY ONLY <1>1, <1>2, <1>3, <1>4, <1>5, <1>6, <2>1, <3>1
    <3>2. CASE h < i
      BY ONLY <1>1, <1>2, <1>6, <2>1, <3>2
    <3> QED
      BY ONLY <1>1, <1>2, <1>6, <1>8, <3>1, <3>2
  <2> QED
    BY ONLY <2>1, <2>2, <2>3 DEF \prec
<1> QED
  BY <1>7, <1>8

LEMMA Total ==
  ASSUME NEW k \in Seq(Letter), NEW l \in Seq(Letter), k # l
  PROVE  k \prec l \/ l \prec k
<1> DEFINE Differ == {i \in 1..(Len(k) + 1) : i <= Len(l) + 1 /\ ~(i <= Len(k) /\ i <= Len(l) /\ k[i] = l[i])}
<1>0. Len(k) \in Nat /\ Len(l) \in Nat
  OBVIOUS
<1>1. Differ # {}
  <2>1. CASE Len(k) =< Len(l)
    BY <1>0, <2>1, Len(k) + 1 \in Differ
  <2>2. CASE ~(Len(k) =< Len(l))
    BY <1>0, <2>2, Len(l) + 1 \in Differ
  <2> QED
    BY <2>1, <2>2
<1>2. PICK i \in Differ : \A j \in Differ : i <= j
  <2>1. Differ \in SUBSET Nat
    BY <1>0
  <2> HIDE DEF Differ
  <2> QED
    BY <1>1, <2>1, LeastNumber
<1>3. i \in 1..(Len(k) + 1) /\ i <= Len(l) + 1 /\ ~(i <= Len(k) /\ i <= Len(l) /\ k[i] = l[i])
  OBVIOUS
<1>4. ASSUME NEW j \in 1..(i - 1) PROVE k[j] = l[j]
  <2>1. j \notin Differ
    BY ONLY <1>0, <1>2, <1>3, <1>4
  <2> QED
    BY ONLY <1>0, <1>3, <1>4, <2>1
<1>5. CASE i <= Len(k) /\ i <= Len(l)
  <2>1. k[i] \in Int /\ l[i] \in Int
    BY <1>0, <1>3, <1>5, OrderIndexConstants DEF Letter
  <2> QED
    BY ONLY <1>0, <1>3, <1>4, <1>5, <2>1 DEF \prec
<1>6. CASE ~(i <= Len(k)) /\ i <= Len(l)
  BY ONLY <1>0, <1>3, <1>4, <1>6 DEF \prec
<1>7. CASE i <= Len(k) /\ ~(i <= Len(l))
  BY ONLY <1>0, <1>3, <1>4, <1>7 DEF \prec
<1>8. ~(~(i <= Len(k)) /\ ~(i <= Len(l)))
  <2>1. SUFFICES ASSUME ~(i <= Len(k)), ~(i <= Len(l)) PROVE FALSE
    OBVIOUS
  <2>2. Len(k) = Len(l) /\ i = Len(k) + 1
    BY ONLY <1>0, <1>3, <2>1
  <2>3. \A j \in 1..Len(k) : k[j] = l[j]
    BY ONLY <1>0, <1>4, <2>2
  <2> QED
    BY <2>2, <2>3
<1> QED
  BY <1>5, <1>6, <1>7, <1>8

\* A relation without cycles leaves an element of a finite set with none before it.
LEMMA FiniteHasMinimal ==
  ASSUME NEW S, IsFiniteSet(S), S # {}, NEW R,
         \A x \in S : <<x, x>> \notin R,
         \A x, y, z \in S : <<x, y>> \in R /\ <<y, z>> \in R => <<x, z>> \in R
  PROVE  \E x \in S : \A y \in S : <<y, x>> \notin R
<1> DEFINE Before(x) == {y \in S : <<y, x>> \in R}
           T == {Before(x) : x \in S}
<1>1. T \subseteq FiniteSubsetsOf(S) /\ T # {}
  <2>1. \A x \in S : Before(x) \in SUBSET S
    OBVIOUS
  <2>2. \A U \in SUBSET S : IsFiniteSet(U)
    BY FS_Subset
  <2>3. \A x \in S : Before(x) \in FiniteSubsetsOf(S)
    <3> HIDE DEF Before
    <3> QED
      BY ONLY <2>1, <2>2 DEF FiniteSubsetsOf
  <2>4. T # {}
    <3>1. PICK x \in S : TRUE
      OBVIOUS
    <3>2. Before(x) \in T
      OBVIOUS
    <3> QED
      BY ONLY <3>2
  <2> HIDE DEF Before
  <2> QED
    BY ONLY <2>3, <2>4
<1>2. PICK U \in T : \A V \in T : <<V, U>> \notin StrictSubsetOrdering(S)
  <2> HIDE DEF T
  <2> QED
    BY <1>1, FS_StrictSubsetOrderingWellFounded, WFMin
<1>3. PICK x \in S : U = Before(x)
  OBVIOUS
<1>4. ASSUME NEW y \in S, <<y, x>> \in R PROVE FALSE
  <2>1. Before(y) \subseteq Before(x) /\ y \in Before(x) /\ y \notin Before(y)
    BY <1>4
  <2>2. Before(y) \in T /\ Before(y) \in SUBSET S /\ Before(x) \in SUBSET S
    OBVIOUS
  <2> HIDE DEF Before
  <2>3. <<Before(y), Before(x)>> \in StrictSubsetOrdering(S)
    BY <2>1, <2>2, <1>1, <1>3 DEF StrictSubsetOrdering, FiniteSubsetsOf
  <2> QED
    BY <1>2, <1>3, <2>2, <2>3
<1> QED
  BY <1>4

\* Of finitely many rows one has a lowest key and one a highest.
LEMMA LowestRow ==
  ASSUME NEW S, IsFiniteSet(S), S # {}, NEW key, \A c \in S : key[c] \in Seq(Letter)
  PROVE  \E c \in S : \A d \in S : ~(key[d] \prec key[c])
<1> DEFINE R == {cd \in S \X S : key[cd[1]] \prec key[cd[2]]}
<1>1. \A c, d \in S : <<c, d>> \in R <=> key[c] \prec key[d]
  OBVIOUS
<1> HIDE DEF R
<1>2. \A c \in S : <<c, c>> \notin R
  BY <1>1, Irreflexive
<1>3. \A c, d, e \in S : <<c, d>> \in R /\ <<d, e>> \in R => <<c, e>> \in R
  BY <1>1, Transitive
<1>4. \E c \in S : \A d \in S : <<d, c>> \notin R
  BY ONLY <1>2, <1>3, FiniteHasMinimal, IsFiniteSet(S), S # {}
<1> QED
  BY <1>1, <1>4

LEMMA HighestRow ==
  ASSUME NEW S, IsFiniteSet(S), S # {}, NEW key, \A c \in S : key[c] \in Seq(Letter)
  PROVE  \E c \in S : \A d \in S : ~(key[c] \prec key[d])
<1> DEFINE R == {cd \in S \X S : key[cd[2]] \prec key[cd[1]]}
<1>1. \A c, d \in S : <<c, d>> \in R <=> key[d] \prec key[c]
  OBVIOUS
<1> HIDE DEF R
<1>2. \A c \in S : <<c, c>> \notin R
  BY <1>1, Irreflexive
<1>3. \A c, d, e \in S : <<c, d>> \in R /\ <<d, e>> \in R => <<c, e>> \in R
  BY <1>1, Transitive
<1>4. \E c \in S : \A d \in S : <<d, c>> \notin R
  BY ONLY <1>2, <1>3, FiniteHasMinimal, IsFiniteSet(S), S # {}
<1> QED
  BY <1>1, <1>4

-----------------------------------------------------------------------------
(* What the generators return.                                              *)

LEMMA MidIsLetter == MID \in Letter /\ MID \in Nat /\ MID < Letters
BY OrderIndexConstants DEF MID, Letter

LEMMA InitialIsKey == generateInitialIndex \in Key
BY MidIsLetter DEF generateInitialIndex, Key

LEMMA AfterIsAfter ==
  ASSUME NEW k \in Key
  PROVE  generateIndexAfter(k) \in Key /\ k \prec generateIndexAfter(k)
<1> DEFINE l == Append(k, MID)
<1>1. k \in Seq(Letter) /\ l \in Seq(Letter) /\ Len(k) \in Nat /\ Len(l) = Len(k) + 1
      /\ \A j \in 1..Len(k) : k[j] = l[j]
  BY MidIsLetter DEF Key
<1>2. l # <<>>
  BY ONLY <1>1
<1> HIDE DEF l
<1>3. k \prec l
  <2>1. Len(k) + 1 \in 1..Len(l)
    BY ONLY <1>1
  <2> QED
    BY ONLY <1>1, <2>1 DEF \prec
<1> QED
  BY <1>1, <1>2, <1>3 DEF generateIndexAfter, l, Key

\* The further rows of one insert come one after the other, and after whatever the
\* first comes after.
LEMMA RowsComeInTurn ==
  ASSUME NEW k \in Key, NEW i \in Nat \ {0}
  PROVE  /\ keyAfter(k, i) \in Key
         /\ \A l \in Key : l \prec k => l \prec keyAfter(k, i)
         /\ \A j \in Nat \ {0} : i < j => keyAfter(k, i) \prec keyAfter(k, j)
<1> DEFINE tail(j) == [d \in 1..(j - 1) |-> MID]
           ka(j) == k \o tail(j)
<1>1. ASSUME NEW j \in Nat \ {0}
      PROVE  /\ ka(j) \in Seq(Letter) /\ Len(ka(j)) = Len(k) + j - 1
             /\ \A h \in 1..Len(k) : ka(j)[h] = k[h]
             /\ \A h \in (Len(k) + 1)..(Len(k) + j - 1) : ka(j)[h] = MID
  <2>1. tail(j) \in Seq(Letter) /\ Len(tail(j)) = j - 1 /\ \A d \in 1..(j - 1) : tail(j)[d] = MID
    BY MidIsLetter
  <2>2. k \in Seq(Letter) /\ Len(k) \in Nat
    BY DEF Key
  <2> HIDE DEF tail
  <2> QED
    BY <2>1, <2>2
<1>2. k \in Seq(Letter) /\ Len(k) \in Nat /\ Len(k) # 0
  BY DEF Key
<1> HIDE DEF ka
<1>3. PICK a : a = ka(i)
  OBVIOUS
<1>4. /\ a \in Seq(Letter) /\ Len(a) = Len(k) + i - 1
      /\ \A h \in 1..Len(k) : a[h] = k[h]
      /\ \A h \in (Len(k) + 1)..Len(a) : a[h] = MID
  BY <1>1, <1>3
<1>5. a \in Key /\ i \in Nat \ {0}
  BY ONLY <1>2, <1>4, i \in Nat \ {0} DEF Key
<1>6. ASSUME NEW l \in Key, l \prec k PROVE l \prec a
  <2>1. PICK h \in 1..Len(k) : /\ h <= Len(l) + 1 /\ \A j \in 1..(h - 1) : l[j] = k[j]
                               /\ h <= Len(l) => l[h] < k[h]
    BY <1>6 DEF \prec
  <2>2. h \in 1..Len(a) /\ \A j \in 1..h : a[j] = k[j]
    BY ONLY <1>2, <1>4, <1>5, <2>1
  <2> QED
    BY ONLY <1>2, <2>1, <2>2 DEF \prec
<1>7. ASSUME NEW j \in Nat \ {0}, i < j PROVE a \prec ka(j)
  <2>1. PICK b : b = ka(j)
    OBVIOUS
  <2>2. /\ b \in Seq(Letter) /\ Len(b) = Len(k) + j - 1
        /\ \A h \in 1..Len(k) : b[h] = k[h]
        /\ \A h \in (Len(k) + 1)..Len(b) : b[h] = MID
    BY <1>1, <2>1
  <2>3. Len(a) + 1 \in 1..Len(b) /\ Len(a) \in Nat
    BY ONLY <1>2, <1>4, <1>5, <1>7, <2>2, j \in Nat \ {0}
  <2>4. ASSUME NEW h \in 1..Len(a) PROVE a[h] = b[h]
    <3>1. CASE h \in 1..Len(k)
      BY ONLY <1>4, <2>2, <3>1
    <3>2. CASE h \notin 1..Len(k)
      <4>1. h \in (Len(k) + 1)..Len(a) /\ h \in (Len(k) + 1)..Len(b)
        BY ONLY <1>2, <2>3, <3>2, h \in 1..Len(a), Len(b) \in Nat
      <4> QED
        BY ONLY <1>4, <2>2, <4>1
    <3> QED
      BY ONLY <3>1, <3>2
  <2> QED
    BY ONLY <2>1, <2>3, <2>4 DEF \prec
<1> QED
  BY <1>3, <1>5, <1>6, <1>7 DEF ka, keyAfter

\* The letters of a respace go up, unless there are more rows than letters: then
\* all are 'a', and each index is longer than the one before.
LEMMA BeforeIsBefore ==
  ASSUME NEW k \in Key, generateIndexBefore(k) # NoKey
  PROVE  generateIndexBefore(k) \in Key /\ generateIndexBefore(k) \prec k
<1> DEFINE lowerable == {h \in 1..Len(k) : k[h] > 0}
<1>1. k \in Seq(Letter) /\ Len(k) \in Nat
  BY DEF Key
<1>2. lowerable # {} /\ generateIndexBefore(k) = Append(SubSeq(k, 1, Min(lowerable) - 1), k[Min(lowerable)] \div 2)
  BY DEF generateIndexBefore
<1>3. PICK i : i = Min(lowerable)
  OBVIOUS
<1>4. i \in 1..Len(k) /\ k[i] > 0
  <2>1. lowerable \in SUBSET Nat
    OBVIOUS
  <2>2. Min(lowerable) \in lowerable
    BY ONLY <1>2, <2>1, MinIsLeast
  <2> QED
    BY <1>3, <2>2
<1>5. PICK x : x = k[i] \div 2
  OBVIOUS
<1>6. x \in Letter /\ x < k[i]
  BY ONLY <1>1, <1>4, <1>5, OrderIndexConstants DEF Letter
<1>7. PICK p : p = SubSeq(k, 1, i - 1)
  OBVIOUS
<1>8. p \in Seq(Letter) /\ Len(p) = i - 1 /\ \A j \in 1..(i - 1) : p[j] = k[j]
  BY ONLY <1>1, <1>4, <1>7
<1>9. PICK l : l = Append(p, x)
  OBVIOUS
<1>10. l \in Seq(Letter) /\ Len(l) = i /\ l[i] = x /\ \A j \in 1..(i - 1) : l[j] = k[j]
  BY ONLY <1>4, <1>6, <1>8, <1>9
<1>11. l \in Key
  BY ONLY <1>4, <1>10 DEF Key
<1>12. l \prec k
  BY ONLY <1>4, <1>6, <1>10 DEF \prec
<1> QED
  BY ONLY <1>2, <1>3, <1>5, <1>7, <1>9, <1>11, <1>12

\* With a letter to spare the middle is in between.
LEMMA GapIsBetween ==
  ASSUME NEW k \in Key, NEW l \in Key, Gap(k, l)
  PROVE  LET b == generateIndexBetween(k, l) IN b \in Key /\ k \prec b /\ b \prec l
<1>1. k \in Seq(Letter) /\ Len(k) \in Nat /\ l \in Seq(Letter) /\ Len(l) \in Nat
  BY DEF Key
<1>2. PICK i \in 1..Len(l) : i =< Len(k) /\ (\A j \in 1..(i - 1) : k[j] = l[j]) /\ l[i] - k[i] > 1
  BY DEF Gap
<1> DEFINE m      == Min({Len(k), Len(l)})
           rising == {h \in 1..m : l[h] > k[h]}
<1>3. m \in Nat /\ m =< Len(k) /\ m =< Len(l) /\ i =< m
  <2>1. {Len(k), Len(l)} \in SUBSET Nat /\ {Len(k), Len(l)} # {}
    BY ONLY <1>1
  <2>2. m \in {Len(k), Len(l)} /\ \A j \in {Len(k), Len(l)} : m =< j
    BY ONLY <2>1, MinIsLeast
  <2> QED
    BY ONLY <1>1, <1>2, <2>2
<1> HIDE DEF m
<1>4. \A h \in 1..m : k[h] \in Int /\ l[h] \in Int
  BY ONLY <1>1, <1>3, OrderIndexConstants, SMTT(30) DEF Letter
<1>5. i \in rising /\ rising \in SUBSET Nat
  BY ONLY <1>1, <1>2, <1>3, <1>4, i \in 1..Len(l)
<1>6. Min(rising) = i
  <2>1. Min(rising) \in rising /\ \A j \in rising : Min(rising) =< j
    BY ONLY <1>5, MinIsLeast
  <2>2. Min(rising) =< i /\ Min(rising) \in 1..m /\ l[Min(rising)] > k[Min(rising)]
    BY <1>5, <2>1
  <2>3. PICK h : h = Min(rising)
    OBVIOUS
  <2> QED
    BY ONLY <1>2, <1>3, <1>4, <2>2, <2>3, i \in 1..Len(l)
<1>7. generateIndexBetween(k, l) = Append(SubSeq(k, 1, i - 1), (k[i] + l[i]) \div 2)
  <2>1. rising # {} /\ l[i] - k[i] > 1
    BY <1>2, <1>5
  <2> QED
    BY <1>6, <2>1 DEF generateIndexBetween, m
<1>8. PICK x : x = (k[i] + l[i]) \div 2
  OBVIOUS
<1>9. x \in Letter /\ k[i] < x /\ x < l[i]
  <2>1. PICK a, b : a = k[i] /\ b = l[i]
    OBVIOUS
  <2>2. a \in Letter /\ b \in Letter /\ b - a > 1
    BY ONLY <1>1, <1>2, <2>1, i \in 1..Len(l)
  <2>3. x = (a + b) \div 2
    BY ONLY <1>8, <2>1
  <2>4. x \in Letter /\ a < x /\ x < b
    BY ONLY <2>2, <2>3, OrderIndexConstants DEF Letter
  <2> QED
    BY ONLY <2>1, <2>4
<1>10. PICK p : p = SubSeq(k, 1, i - 1)
  OBVIOUS
<1>11. p \in Seq(Letter) /\ Len(p) = i - 1 /\ \A j \in 1..(i - 1) : p[j] = k[j]
  BY ONLY <1>1, <1>2, <1>10, i \in 1..Len(l)
<1>12. PICK b : b = Append(p, x)
  OBVIOUS
<1>13. b \in Seq(Letter) /\ Len(b) = i /\ b[i] = x /\ \A j \in 1..(i - 1) : b[j] = k[j]
  BY ONLY <1>1, <1>9, <1>11, <1>12, i \in 1..Len(l)
<1>14. b \in Key
  BY ONLY <1>1, <1>13, i \in 1..Len(l) DEF Key
<1>15. k \prec b
  BY ONLY <1>1, <1>2, <1>9, <1>13, i \in 1..Len(l) DEF \prec
<1>16. b \prec l
  BY ONLY <1>1, <1>2, <1>9, <1>13, i \in 1..Len(l) DEF \prec
<1> QED
  BY ONLY <1>7, <1>8, <1>10, <1>12, <1>14, <1>15, <1>16

LEMMA BetweenIsKey ==
  ASSUME NEW k \in Key, NEW l \in Key
  PROVE  generateIndexBetween(k, l) \in Key
<1>1. k \in Seq(Letter) /\ Len(k) \in Nat /\ l \in Seq(Letter) /\ Len(l) \in Nat
  BY DEF Key
<1> DEFINE m      == Min({Len(k), Len(l)})
           rising == {h \in 1..m : l[h] > k[h]}
<1>2. m \in Nat /\ m =< Len(k) /\ m =< Len(l)
  <2>1. {Len(k), Len(l)} \in SUBSET Nat /\ {Len(k), Len(l)} # {}
    BY ONLY <1>1
  <2>2. m \in {Len(k), Len(l)} /\ \A j \in {Len(k), Len(l)} : m =< j
    BY ONLY <2>1, MinIsLeast
  <2> QED
    BY ONLY <1>1, <2>2
<1>3. CASE rising = {}
  <2>1. generateIndexBetween(k, l) = Append(k, MID)
    BY <1>3 DEF generateIndexBetween
  <2>2. Append(k, MID) \in Key
    BY ONLY <1>1, MidIsLetter DEF Key
  <2> QED
    BY ONLY <2>1, <2>2
<1>4. CASE rising # {}
  <2> HIDE DEF m
  <2>1. rising \in SUBSET Nat
    OBVIOUS
  <2>2. PICK i : i = Min(rising)
    OBVIOUS
  <2>3. i \in 1..m
    <3>1. Min(rising) \in rising
      BY ONLY <1>4, <2>1, MinIsLeast
    <3> QED
      BY <2>2, <3>1
  <2>4. \/ generateIndexBetween(k, l) = Append(SubSeq(k, 1, i - 1), (k[i] + l[i]) \div 2)
        \/ generateIndexBetween(k, l) = Append(SubSeq(k, 1, i), MID)
    BY <1>4, <2>2 DEF generateIndexBetween, m
  <2>5. (k[i] + l[i]) \div 2 \in Letter
    <3>1. k[i] \in Letter /\ l[i] \in Letter
      BY ONLY <1>1, <1>2, <2>3
    <3> QED
      BY ONLY <3>1, OrderIndexConstants DEF Letter
  <2>6. \A h \in 0..m : SubSeq(k, 1, h) \in Seq(Letter)
    BY ONLY <1>1, <1>2
  <2>7. i - 1 \in 0..m /\ i \in 0..m
    BY ONLY <1>2, <2>3
  <2>8. \A s \in Seq(Letter), x \in Letter : Append(s, x) \in Key
    BY DEF Key
  <2> QED
    BY ONLY <2>4, <2>5, <2>6, <2>7, <2>8, MidIsLetter
<1> QED
  BY <1>3, <1>4

LEMMA SlotIsKey ==
  ASSUME NoKey \notin Key, NEW p \in Key \cup {NoKey}, NEW n \in Key \cup {NoKey}
  PROVE  indexForSlot(p, n) \in Key \cup {NoKey}
<1>1. CASE p # NoKey /\ n # NoKey
  BY <1>1, BetweenIsKey DEF indexForSlot
<1>2. CASE p # NoKey /\ n = NoKey
  BY <1>2, AfterIsAfter DEF indexForSlot
<1>3. CASE p = NoKey /\ n # NoKey
  BY <1>3, BeforeIsBefore DEF indexForSlot
<1>4. CASE p = NoKey /\ n = NoKey
  BY <1>4, InitialIsKey DEF indexForSlot
<1> QED
  BY <1>1, <1>2, <1>3, <1>4

\* At an end of a list, or with a letter to spare, a card lands in its slot.
LEMMA RoomySlot ==
  ASSUME NoKey \notin Key, NEW p \in Key \cup {NoKey}, NEW n \in Key \cup {NoKey},
         indexForSlot(p, n) # NoKey, p # NoKey /\ n # NoKey => Gap(p, n)
  PROVE  /\ p # NoKey => p \prec indexForSlot(p, n)
         /\ n # NoKey => indexForSlot(p, n) \prec n
<1>1. CASE p # NoKey /\ n # NoKey
  BY <1>1, GapIsBetween DEF indexForSlot
<1>2. CASE p # NoKey /\ n = NoKey
  BY <1>2, AfterIsAfter DEF indexForSlot
<1>3. CASE p = NoKey /\ n # NoKey
  <2>1. indexForSlot(p, n) = generateIndexBefore(n)
    BY <1>3 DEF indexForSlot
  <2> QED
    BY <1>3, <2>1, BeforeIsBefore
<1> QED
  BY <1>1, <1>2, <1>3

LEMMA SpacedLetters ==
  ASSUME NEW n \in Nat
  PROVE  LET step    == Letters \div (n + 1)
             char(i) == Min({step * i, Letters - 1})
         IN  \/ step = 0 /\ \A i \in 1..n : char(i) = 0
             \/ \A i \in 1..n : char(i) = step * i /\ step \in Nat \ {0} /\ step * i \in 0..(Letters - 1)
<1> DEFINE step == Letters \div (n + 1)
           char(i) == Min({step * i, Letters - 1})
<1>1. step \in Nat /\ step * (n + 1) =< Letters
  BY OrderIndexConstants
<1> HIDE DEF step
<1>2. CASE step = 0
  <2>1. ASSUME NEW i \in 1..n PROVE char(i) = 0
    <3>1. step * i = 0 /\ Letters - 1 \in Nat
      BY <1>2, OrderIndexConstants
    <3>2. {step * i, Letters - 1} \in SUBSET Nat /\ {step * i, Letters - 1} # {}
      BY ONLY <3>1
    <3>3. char(i) \in {step * i, Letters - 1} /\ \A j \in {step * i, Letters - 1} : char(i) <= j
      BY ONLY <3>2, MinIsLeast
    <3> QED
      BY ONLY <3>1, <3>3
  <2> QED
    BY <1>2, <2>1 DEF step
<1>3. CASE step # 0
  <2>1. ASSUME NEW i \in 1..n PROVE char(i) = step * i /\ step \in Nat \ {0} /\ step * i \in 0..(Letters - 1)
    <3>1. step * i \in Nat /\ step * i =< Letters - 1 /\ Letters - 1 \in Nat
      <4>1. step * i + step =< step * (n + 1)
        <5>1. step * (n + 1) = step * (i + 1) + step * (n - i) /\ n - i \in Nat /\ i \in Nat
          BY <1>1
        <5>2. step * (n - i) \in Nat
          BY ONLY <1>1, <5>1
        <5> QED
          BY ONLY <1>1, <5>1, <5>2
      <4>2. step * i \in Nat
        BY <1>1
      <4> QED
        BY ONLY <1>1, <1>3, <4>1, <4>2, OrderIndexConstants
    <3>2. {step * i, Letters - 1} \in SUBSET Nat /\ {step * i, Letters - 1} # {}
      BY ONLY <3>1
    <3>3. char(i) \in {step * i, Letters - 1} /\ \A j \in {step * i, Letters - 1} : char(i) <= j
      BY ONLY <3>2, MinIsLeast
    <3> QED
      BY ONLY <1>1, <1>3, <3>1, <3>3
  <2> QED
    BY <2>1 DEF step
<1> QED
  BY <1>2, <1>3

LEMMA SpacedAscend ==
  ASSUME NEW n \in Nat
  PROVE  /\ \A i \in 1..n : generateNIndices(n)[i] \in Key
         /\ \A i, j \in 1..n : i < j => generateNIndices(n)[i] \prec generateNIndices(n)[j]
<1> DEFINE step == Letters \div (n + 1)
           char(i) == Min({step * i, Letters - 1})
           dups(i) == Cardinality({j \in 1..(i - 1) : char(j) = char(i)})
           ix(i) == <<char(i)>> \o [d \in 1..dups(i) |-> MID]
<1>1. \A i \in 1..n : generateNIndices(n)[i] = ix(i)
  BY DEF generateNIndices
<1>2. \/ step = 0 /\ \A i \in 1..n : char(i) = 0
      \/ \A i \in 1..n : char(i) = step * i /\ step \in Nat \ {0} /\ step * i \in 0..(Letters - 1)
  BY SpacedLetters
<1> HIDE DEF step, char
<1>3. ASSUME NEW i \in 1..n
      PROVE  /\ char(i) \in 0..(Letters - 1)
             /\ dups(i) \in Nat
             /\ (\A j \in 1..n : char(j) = 0) => dups(i) = i - 1
  <2>1. char(i) \in 0..(Letters - 1)
    BY <1>2, OrderIndexConstants
  <2>2. dups(i) \in Nat
    <3>1. IsFiniteSet(1..(i - 1))
      BY FS_Interval
    <3>2. {j \in 1..(i - 1) : char(j) = char(i)} \in SUBSET (1..(i - 1))
      OBVIOUS
    <3> QED
      BY ONLY <3>1, <3>2, FS_Subset, FS_CardinalityType
  <2>3. ASSUME \A j \in 1..n : char(j) = 0 PROVE dups(i) = i - 1
    <3>1. {j \in 1..(i - 1) : char(j) = char(i)} = 1..(i - 1)
      BY <2>3
    <3>2. Cardinality(1..(i - 1)) = i - 1
      BY FS_Interval
    <3> QED
      BY ONLY <3>1, <3>2
  <2> QED
    BY <2>1, <2>2, <2>3
<1> HIDE DEF dups
<1>4. ASSUME NEW i \in 1..n
      PROVE  /\ ix(i) \in Seq(Letter) /\ Len(ix(i)) = dups(i) + 1 /\ ix(i)[1] = char(i)
             /\ \A h \in 2..(dups(i) + 1) : ix(i)[h] = MID
  <2>1. PICK t : t = [d \in 1..dups(i) |-> MID]
    OBVIOUS
  <2>2. t \in Seq(Letter) /\ Len(t) = dups(i) /\ \A d \in 1..dups(i) : t[d] = MID
    BY ONLY <1>3, <2>1, MidIsLetter, i \in 1..n, SMTT(30)
  <2>3. char(i) \in Letter
    BY <1>3, OrderIndexConstants DEF Letter
  <2> QED
    BY ONLY <1>3, <2>1, <2>2, <2>3, i \in 1..n
<1> HIDE DEF ix
<1>5. ASSUME NEW i \in 1..n PROVE ix(i) \in Key
  <2>1. PICK a : a = ix(i)
    OBVIOUS
  <2>2. a \in Seq(Letter) /\ Len(a) = dups(i) + 1 /\ dups(i) \in Nat
    BY <1>3, <1>4, <2>1
  <2> QED
    BY ONLY <2>1, <2>2 DEF Key
<1>6. ASSUME NEW i \in 1..n, NEW j \in 1..n, i < j PROVE ix(i) \prec ix(j)
  <2>1. PICK a, b : a = ix(i) /\ b = ix(j)
    OBVIOUS
  <2>2. /\ a \in Seq(Letter) /\ Len(a) = dups(i) + 1 /\ dups(i) \in Nat /\ a[1] = char(i)
        /\ b \in Seq(Letter) /\ Len(b) = dups(j) + 1 /\ dups(j) \in Nat /\ b[1] = char(j)
        /\ \A h \in 2..(dups(i) + 1) : a[h] = MID
        /\ \A h \in 2..(dups(j) + 1) : b[h] = MID
    BY <1>3, <1>4, <2>1
  <2>3. CASE step = 0 /\ \A h \in 1..n : char(h) = 0
    <3>1. dups(i) = i - 1 /\ dups(j) = j - 1 /\ char(i) = 0 /\ char(j) = 0
      BY <1>3, <2>3
    <3>2. Len(a) = i /\ Len(b) = j /\ i \in Nat \ {0} /\ j \in Nat
      BY ONLY <2>2, <3>1, i \in 1..n, j \in 1..n
    <3>3. \A h \in 1..i : a[h] = b[h]
      BY ONLY <1>6, <2>2, <3>1, <3>2
    <3>4. i + 1 \in 1..Len(b) /\ i + 1 =< Len(a) + 1 /\ ~(i + 1 =< Len(a))
          /\ \A h \in 1..((i + 1) - 1) : a[h] = b[h]
      BY ONLY <1>6, <3>2, <3>3
    <3> QED
      BY ONLY <2>1, <3>4 DEF \prec
  <2>4. CASE \A h \in 1..n : char(h) = step * h /\ step \in Nat \ {0} /\ step * h \in 0..(Letters - 1)
    <3>1. a[1] < b[1]
      <4>1. a[1] = step * i /\ b[1] = step * j /\ step \in Nat \ {0}
        BY <2>2, <2>4
      <4>2. step * j = step * i + step * (j - i) /\ j - i \in Nat \ {0} /\ i \in Nat
        BY ONLY <1>6, <4>1, i \in 1..n, j \in 1..n
      <4>3. step * (j - i) \in Nat \ {0} /\ step * i \in Nat
        BY ONLY <4>1, <4>2
      <4> QED
        BY ONLY <4>1, <4>2, <4>3
    <3> QED
      BY ONLY <2>1, <2>2, <3>1 DEF \prec
  <2> QED
    BY <1>2, <2>3, <2>4
<1> QED
  BY <1>1, <1>5, <1>6

-----------------------------------------------------------------------------
(* Lists.                                                                   *)

ColumnWork == [pc: {"idle", "tail", "insert", "reorder"}, n: Nat, key: Key \cup {NoKey},
               sent: Seq(Column), todo: SUBSET Column, alone: BOOLEAN]

\* A call, by itself.
ColumnCallOK(q) ==
  /\ q.pc = "insert" => q.key \in Key
  /\ q.pc # "reorder" => q.todo = {}
  /\ \A c \in q.todo : \E i \in DOMAIN q.sent : q.sent[i] = c
  /\ \A i, j \in DOMAIN q.sent : q.sent[i] = q.sent[j] => i = j
  /\ \A i \in DOMAIN q.sent : columns[q.sent[i]] # NoColumn

ColumnShape ==
  /\ columns \in [Column -> Key \cup {NoColumn, DroppedColumn}]
  /\ colCalls \in [ColumnCall -> ColumnWork]
  /\ colServed \in 0..MaxColumnCalls /\ colFails \in 0..MaxColumnFails
  /\ made \in Seq(Column) /\ tangled \in BOOLEAN
  /\ \A i \in DOMAIN made : columns[made[i]] # NoColumn
  /\ \A k \in ColumnCall : ColumnCallOK(colCalls[k])

\* While nothing is tangled one call runs, and whatever it appends will be last.
\* What of a reorder has landed is as it was sent.
ColumnCallFresh(k) ==
  LET q == colCalls[k]
  IN  /\ q.pc # "idle" /\ ~tangled => q.alone
      /\ q.pc # "idle" /\ q.alone => \A j \in ColumnCall : j # k => colCalls[j].pc = "idle"
      /\ q.pc = "insert" /\ q.alone => \A c \in Columns : columns[c] \prec q.key
      /\ q.pc = "reorder" /\ q.alone =>
           \A i \in DOMAIN q.sent : q.sent[i] \notin q.todo /\ exists(q.sent[i]) =>
             columns[q.sent[i]] = generateNIndices(Len(q.sent))[i]

ColumnsInv == ColumnShape /\ ColumnsAsMade /\ \A k \in ColumnCall : ColumnCallFresh(k)

-----------------------------------------------------------------------------

LEMMA NoColCallOK == NoColCall \in ColumnWork /\ ColumnCallOK(NoColCall) /\ NoColCall.pc = "idle"
<1>1. <<>> \in Seq(Column) /\ DOMAIN <<>> = {}
  OBVIOUS
<1> QED
  BY <1>1 DEF NoColCall, ColumnWork, ColumnCallOK

LEMMA ColumnsStart == ColumnsInit => ColumnsInv
<1> SUFFICES ASSUME ColumnsInit PROVE ColumnsInv
  OBVIOUS
<1>1. /\ columns = [c \in Column |-> NoColumn] /\ colCalls = [k \in ColumnCall |-> NoColCall]
      /\ colServed = 0 /\ colFails = 0 /\ made = <<>> /\ tangled = FALSE
  BY DEF ColumnsInit
<1>2. \A k \in ColumnCall : colCalls[k] = NoColCall
  BY ONLY <1>1
<1>3. ColumnShape
  <2>1. columns \in [Column -> Key \cup {NoColumn, DroppedColumn}] /\ colCalls \in [ColumnCall -> ColumnWork]
    BY ONLY <1>1, NoColCallOK
  <2>2. /\ colServed \in 0..MaxColumnCalls /\ colFails \in 0..MaxColumnFails
        /\ made \in Seq(Column) /\ DOMAIN made = {} /\ tangled \in BOOLEAN
    <3>1. <<>> \in Seq(Column) /\ DOMAIN <<>> = {}
      OBVIOUS
    <3>2. made \in Seq(Column) /\ DOMAIN made = {}
      BY ONLY <1>1, <3>1
    <3>3. colServed = 0 /\ colFails = 0 /\ tangled = FALSE
      BY ONLY <1>1
    <3>4. MaxColumnCalls \in Nat /\ MaxColumnFails \in Nat
      BY ColumnConstants
    <3>5. colServed \in 0..MaxColumnCalls
      BY ONLY <3>3, <3>4
    <3>6. colFails \in 0..MaxColumnFails
      BY ONLY <3>3, <3>4
    <3>7. tangled \in BOOLEAN
      BY ONLY <3>3
    <3> QED
      BY ONLY <3>2, <3>5, <3>6, <3>7
  <2> QED
    BY ONLY <1>2, <2>1, <2>2, NoColCallOK DEF ColumnShape
<1>4. Columns = {}
  BY ONLY <1>1 DEF Columns, exists
<1>5. ColumnsAsMade
  BY ONLY <1>1, <1>4 DEF ColumnsAsMade
<1>6. \A k \in ColumnCall : ColumnCallFresh(k)
  BY ONLY <1>2, NoColCallOK DEF ColumnCallFresh
<1> QED
  BY <1>3, <1>5, <1>6 DEF ColumnsInv

\* A call arrives: if another is under way, neither of them is alone.
LEMMA ColStartKeeps ==
  ASSUME ColumnsInv, NEW k \in ColumnCall, NEW q \in ColumnWork, ColStart(k, q),
         q.pc \in {"tail", "reorder"}, ColumnCallOK(q), \A i \in DOMAIN q.sent : q.sent[i] \in q.todo
  PROVE  ColumnsInv'
<1> DEFINE met == {j \in ColumnCall : colCalls[j].pc # "idle"}
<1>1. PICK lone \in BOOLEAN : lone = (met = {})
  OBVIOUS
<1>2. /\ colCalls[k].pc = "idle" /\ colServed < MaxColumnCalls /\ colServed' = colServed + 1
      /\ colCalls' = [j \in ColumnCall |-> IF j = k THEN [q EXCEPT !.alone = lone]
                                            ELSE [colCalls[j] EXCEPT !.alone = lone]]
      /\ tangled' = (tangled \/ ~lone)
      /\ columns' = columns /\ colFails' = colFails /\ made' = made
  BY <1>1 DEF ColStart
<1>3. lone <=> \A j \in ColumnCall : colCalls[j].pc = "idle"
  BY <1>1
<1>4. ColumnShape /\ ColumnsAsMade /\ \A j \in ColumnCall : ColumnCallFresh(j)
  BY DEF ColumnsInv
<1>5. colCalls \in [ColumnCall -> ColumnWork] /\ \A j \in ColumnCall : ColumnCallOK(colCalls[j])
  BY ONLY <1>4 DEF ColumnShape
<1>6. ASSUME NEW j \in ColumnCall
      PROVE  /\ colCalls'[j] \in ColumnWork /\ colCalls'[j].alone = lone
             /\ colCalls'[j].pc = IF j = k THEN q.pc ELSE colCalls[j].pc
             /\ colCalls'[j].key = IF j = k THEN q.key ELSE colCalls[j].key
             /\ colCalls'[j].sent = IF j = k THEN q.sent ELSE colCalls[j].sent
             /\ colCalls'[j].todo = IF j = k THEN q.todo ELSE colCalls[j].todo
  BY ONLY <1>1, <1>2, <1>5, q \in ColumnWork, j \in ColumnCall DEF ColumnWork
<1>7. ASSUME NEW j \in ColumnCall PROVE ColumnCallOK(colCalls[j])'
  <2>1. ColumnCallOK(colCalls[j]) /\ ColumnCallOK(q)
    BY <1>5
  <2>2. PICK y, x : y = colCalls'[j] /\ x = IF j = k THEN q ELSE colCalls[j]
    OBVIOUS
  <2>3. y.pc = x.pc /\ y.key = x.key /\ y.sent = x.sent /\ y.todo = x.todo
    BY <1>6, <2>2
  <2>4. ColumnCallOK(x)
    BY ONLY <2>1, <2>2
  <2>5. ColumnCallOK(y)'
    BY ONLY <1>2, <2>3, <2>4 DEF ColumnCallOK
  <2> QED
    BY ONLY <2>2, <2>5 DEF ColumnCallOK
<1>8. ColumnShape'
  <2>1. colCalls' \in [ColumnCall -> ColumnWork]
    BY ONLY <1>2, <1>6
  <2>2. colServed' \in 0..MaxColumnCalls /\ tangled' \in BOOLEAN
    BY ONLY <1>2, <1>4, ColumnConstants DEF ColumnShape
  <2> QED
    BY ONLY <1>2, <1>4, <1>7, <2>1, <2>2 DEF ColumnShape
<1>9. ASSUME NEW j \in ColumnCall PROVE ColumnCallFresh(j)'
  <2>1. CASE ~lone
    BY ONLY <1>2, <1>6, <2>1, j \in ColumnCall DEF ColumnCallFresh
  <2>2. CASE lone /\ j # k
    BY ONLY <1>3, <1>6, <2>2, j \in ColumnCall DEF ColumnCallFresh
  <2>3. CASE lone /\ j = k
    BY ONLY <1>3, <1>6, <2>3, q.pc \in {"tail", "reorder"}, \A i \in DOMAIN q.sent : q.sent[i] \in q.todo,
       j \in ColumnCall DEF ColumnCallFresh
  <2> QED
    BY <2>1, <2>2, <2>3
<1>10. ColumnsAsMade'
  <2>1. SUFFICES ASSUME ~tangled' PROVE ColumnsAsMade'
    BY DEF ColumnsAsMade
  <2>2. ~tangled /\ \A j \in ColumnCall : colCalls[j].pc # "reorder"
    BY ONLY <1>2, <1>3, <2>1
  <2>3. Columns' = Columns /\ \A c : exists(c)' <=> exists(c)
    BY ONLY <1>2 DEF Columns, exists
  <2> QED
    BY ONLY <1>2, <1>4, <2>2, <2>3 DEF ColumnsAsMade
<1> QED
  BY <1>8, <1>9, <1>10 DEF ColumnsInv

LEMMA StartColumnKeeps == ASSUME ColumnsInv, NEW k \in ColumnCall, StartColumn(k) PROVE ColumnsInv'
<1>1. PICK n \in 1..MaxAtOnce : ColStart(k, [NoColCall EXCEPT !.pc = "tail", !.n = n])
  BY DEF StartColumn
<1>2. PICK q : q = [NoColCall EXCEPT !.pc = "tail", !.n = n]
  OBVIOUS
<1>3. /\ q \in ColumnWork /\ q.pc = "tail" /\ q.todo = {} /\ q.sent = <<>>
  <2>1. n \in Nat
    BY ColumnConstants
  <2> QED
    BY ONLY <1>2, <2>1, NoColCallOK DEF ColumnWork, NoColCall
<1>4. ColumnCallOK(q) /\ \A i \in DOMAIN q.sent : q.sent[i] \in q.todo
  BY ONLY <1>3 DEF ColumnCallOK
<1> QED
  BY ONLY ColumnsInv, k \in ColumnCall, <1>1, <1>2, <1>3, <1>4, ColStartKeeps

\* The sequences of a set's elements are as long as the set, and miss none.
LEMMA SequencesOfSet ==
  ASSUME NEW S, IsFiniteSet(S), NEW s \in SetToSeqs(S)
  PROVE  /\ s \in Seq(S) /\ \A c \in S : \E i \in DOMAIN s : s[i] = c
         /\ \A i, j \in DOMAIN s : s[i] = s[j] => i = j
<1>1. Cardinality(S) \in Nat
  BY FS_CardinalityType
<1>2. PICK n \in Nat : n = Cardinality(S)
  BY <1>1
<1>3. s \in [1..n -> S] /\ \A i, j \in 1..n : i # j => s[i] # s[j]
  BY <1>2 DEF SetToSeqs
<1>4. s \in Injection(1..n, S)
  BY ONLY <1>3 DEF Injection, IsInjective
<1>5. IsFiniteSet(1..n) /\ Cardinality(1..n) = n
  BY <1>2, FS_Interval
<1>6. s \in Surjection(1..n, S)
  BY ONLY <1>2, <1>4, <1>5, IsFiniteSet(S), FS_Injection
<1>7. \A c \in S : \E i \in 1..n : s[i] = c
  BY <1>6 DEF Surjection
<1> QED
  BY <1>3, <1>7

LEMMA StartReorderKeeps == ASSUME ColumnsInv, NEW k \in ColumnCall, StartReorder(k) PROVE ColumnsInv'
<1>1. PICK S \in SUBSET {c \in Column : columns[c] # NoColumn} : \E s \in SetToSeqs(S) :
        /\ Len(s) > 1
        /\ ColStart(k, [NoColCall EXCEPT !.pc = "reorder", !.sent = s, !.todo = S])
  BY DEF StartReorder
<1>2. PICK s \in SetToSeqs(S) : ColStart(k, [NoColCall EXCEPT !.pc = "reorder", !.sent = s, !.todo = S])
  BY <1>1
<1>3. PICK q : q = [NoColCall EXCEPT !.pc = "reorder", !.sent = s, !.todo = S]
  OBVIOUS
<1>4. S \subseteq Column /\ IsFiniteSet(S) /\ \A c \in S : columns[c] # NoColumn
  <2>1. S \in SUBSET Column
    OBVIOUS
  <2> QED
    BY <2>1, ColumnConstants, FS_Subset
<1>5. /\ s \in Seq(S) /\ \A c \in S : \E i \in DOMAIN s : s[i] = c
      /\ \A i, j \in DOMAIN s : s[i] = s[j] => i = j
  BY <1>4, SequencesOfSet
<1>6. s \in Seq(Column) /\ \A i \in DOMAIN s : s[i] \in S
  BY ONLY <1>4, <1>5
<1>7. q \in ColumnWork /\ q.pc = "reorder" /\ q.todo = S /\ q.sent = s
  BY ONLY <1>3, <1>4, <1>6, NoColCallOK DEF ColumnWork, NoColCall
<1>8. ColumnCallOK(q) /\ \A i \in DOMAIN q.sent : q.sent[i] \in q.todo
  BY ONLY <1>4, <1>5, <1>6, <1>7 DEF ColumnCallOK
<1> QED
  BY ONLY ColumnsInv, k \in ColumnCall, <1>2, <1>3, <1>7, <1>8, ColStartKeeps

\* A call is over, and left the columns alone.
LEMMA CallOver ==
  ASSUME ColumnsInv, NEW k \in ColumnCall, colCalls' = [colCalls EXCEPT ![k] = NoColCall],
         columns' = columns, made' = made, colServed' = colServed, colFails' \in 0..MaxColumnFails,
         tangled' = (tangled \/ colCalls[k].pc = "reorder")
  PROVE  ColumnsInv'
<1>1. ColumnShape /\ ColumnsAsMade /\ \A j \in ColumnCall : ColumnCallFresh(j)
  BY DEF ColumnsInv
<1>2. colCalls \in [ColumnCall -> ColumnWork]
  BY ONLY <1>1 DEF ColumnShape
<1>3. \A j \in ColumnCall : colCalls'[j] = IF j = k THEN NoColCall ELSE colCalls[j]
  BY <1>2
<1>4. /\ columns' = columns /\ made' = made /\ colServed' = colServed /\ colFails' \in 0..MaxColumnFails
      /\ tangled' = (tangled \/ colCalls[k].pc = "reorder")
      /\ colCalls' \in [ColumnCall -> ColumnWork]
  BY <1>2, NoColCallOK
<1>5. ColumnShape'
  <2>1. ASSUME NEW j \in ColumnCall PROVE ColumnCallOK(colCalls[j])'
    <3>1. PICK y : y = colCalls'[j]
      OBVIOUS
    <3>2. ColumnCallOK(y)
      BY <1>1, <1>3, <3>1, NoColCallOK DEF ColumnShape
    <3>3. ColumnCallOK(y)'
      BY ONLY <1>4, <3>2 DEF ColumnCallOK
    <3> QED
      BY ONLY <3>1, <3>3 DEF ColumnCallOK
  <2>2. tangled' \in BOOLEAN
    BY ONLY <1>1, <1>4 DEF ColumnShape
  <2> QED
    BY ONLY <1>1, <1>4, <2>1, <2>2 DEF ColumnShape
<1>6. Columns' = Columns /\ \A c : exists(c)' <=> exists(c)
  BY ONLY <1>4 DEF Columns, exists
<1>7. ColumnsAsMade'
  <2>1. SUFFICES ASSUME ~tangled', \A j \in ColumnCall : colCalls'[j].pc # "reorder" PROVE ColumnsAsMade'
    BY DEF ColumnsAsMade
  <2>2. ~tangled /\ \A j \in ColumnCall : colCalls[j].pc # "reorder"
    BY ONLY <1>3, <1>4, <2>1
  <2> QED
    BY ONLY <1>1, <1>4, <1>6, <2>2 DEF ColumnsAsMade
<1>8. ASSUME NEW j \in ColumnCall PROVE ColumnCallFresh(j)'
  <2>1. CASE j = k
    BY ONLY <1>3, <2>1, NoColCallOK, j \in ColumnCall DEF ColumnCallFresh
  <2>2. CASE j # k
    <3>1. colCalls'[j] = colCalls[j] /\ ColumnCallFresh(j)
      BY <1>1, <1>3, <2>2
    <3>2. \A i \in ColumnCall : colCalls[i].pc = "idle" => colCalls'[i].pc = "idle"
      BY ONLY <1>3, NoColCallOK
    <3> QED
      BY ONLY <1>4, <1>6, <3>1, <3>2 DEF ColumnCallFresh
  <2> QED
    BY <2>1, <2>2
<1> QED
  BY <1>5, <1>7, <1>8 DEF ColumnsInv

LEMMA ColumnFailsKeeps == ASSUME ColumnsInv, NEW k \in ColumnCall, ColumnFails(k) PROVE ColumnsInv'
<1>1. /\ colCalls' = [colCalls EXCEPT ![k] = NoColCall]
      /\ columns' = columns /\ made' = made /\ colServed' = colServed
      /\ tangled' = (tangled \/ colCalls[k].pc = "reorder")
      /\ colFails < MaxColumnFails /\ colFails' = colFails + 1
  BY DEF ColumnFails
<1>2. colFails' \in 0..MaxColumnFails
  BY <1>1, ColumnConstants DEF ColumnsInv, ColumnShape
<1> QED
  BY ONLY ColumnsInv, k \in ColumnCall, <1>1, <1>2, CallOver

\* The index read is after every column there is.
LEMMA ReadLastColumnKeeps == ASSUME ColumnsInv, NEW k \in ColumnCall, ReadLastColumn(k) PROVE ColumnsInv'
<1> DEFINE last == CHOOSE c \in Columns : \A d \in Columns : ~(columns[c] \prec columns[d])
<1> HIDE DEF last
<1>1. PICK key : key = IF Columns = {} THEN generateInitialIndex ELSE generateIndexAfter(columns[last])
  OBVIOUS
<1>2. /\ colCalls[k].pc = "tail"
      /\ colCalls' = [colCalls EXCEPT ![k].pc = "insert", ![k].key = key]
      /\ columns' = columns /\ made' = made /\ colServed' = colServed /\ colFails' = colFails
      /\ tangled' = tangled
  BY <1>1 DEF ReadLastColumn, last
<1>3. ColumnShape /\ ColumnsAsMade /\ \A j \in ColumnCall : ColumnCallFresh(j)
  BY DEF ColumnsInv
<1>4. colCalls \in [ColumnCall -> ColumnWork] /\ columns \in [Column -> Key \cup {NoColumn, DroppedColumn}]
  BY ONLY <1>3 DEF ColumnShape
<1>5. IsFiniteSet(Columns) /\ Columns \subseteq Column /\ \A c \in Columns : columns[c] \in Key
  <2>1. Columns \in SUBSET Column
    BY DEF Columns
  <2>2. \A c \in Columns : columns[c] \in Key
    BY ONLY <1>4 DEF Columns, exists
  <2> QED
    BY <2>1, <2>2, ColumnConstants, FS_Subset
<1>6. key \in Key /\ \A c \in Columns : columns[c] \prec key
  <2>1. CASE Columns = {}
    BY <1>1, <2>1, InitialIsKey
  <2>2. CASE Columns # {}
    <3>1. \A c \in Columns : columns[c] \in Seq(Letter)
      BY ONLY <1>5 DEF Key
    <3>2. \E c \in Columns : \A d \in Columns : ~(columns[c] \prec columns[d])
      BY ONLY <1>5, <2>2, <3>1, HighestRow
    <3>3. last \in Columns /\ \A d \in Columns : ~(columns[last] \prec columns[d])
      BY ONLY <3>2 DEF last
    <3>4. key = generateIndexAfter(columns[last]) /\ columns[last] \in Key
      BY ONLY <1>1, <1>5, <2>2, <3>3
    <3>5. key \in Key /\ columns[last] \prec key
      BY ONLY <3>4, AfterIsAfter
    <3>6. ASSUME NEW c \in Columns PROVE columns[c] \prec key
      <4>1. PICK x, y : x = columns[c] /\ y = columns[last]
        OBVIOUS
      <4>2. x \in Seq(Letter) /\ y \in Seq(Letter) /\ key \in Seq(Letter) /\ ~(y \prec x) /\ y \prec key
        BY <3>1, <3>3, <3>5, <4>1 DEF Key
      <4>3. x \prec y \/ x = y
        BY ONLY <4>2, Total
      <4>4. x \prec key
        BY ONLY <4>2, <4>3, Transitive
      <4> QED
        BY <4>1, <4>4
    <3> QED
      BY <3>5, <3>6
  <2> QED
    BY <2>1, <2>2
<1>7. /\ \A j \in ColumnCall : j # k => colCalls'[j] = colCalls[j]
      /\ colCalls'[k] = [colCalls[k] EXCEPT !.pc = "insert", !.key = key]
  BY ONLY <1>2, <1>4
<1>8. PICK q : q = [colCalls[k] EXCEPT !.pc = "insert", !.key = key]
  OBVIOUS
<1>9. /\ q \in ColumnWork /\ q.pc = "insert" /\ q.key = key /\ q.sent = colCalls[k].sent
      /\ q.todo = colCalls[k].todo /\ q.alone = colCalls[k].alone
  BY ONLY <1>4, <1>6, <1>8, k \in ColumnCall DEF ColumnWork
<1>10. Columns' = Columns /\ \A c : exists(c)' <=> exists(c)
  BY ONLY <1>2 DEF Columns, exists
<1>11. ColumnShape'
  <2>1. ASSUME NEW j \in ColumnCall PROVE ColumnCallOK(colCalls[j])'
    <3>1. PICK y : y = colCalls'[j]
      OBVIOUS
    <3>2. ColumnCallOK(colCalls[j])
      BY <1>3 DEF ColumnShape
    <3>3. ColumnCallOK(y)
      <4>1. CASE j = k
        <5>1. y = q /\ ColumnCallOK(colCalls[k]) /\ colCalls[k].pc # "reorder"
          BY ONLY <1>2, <1>7, <1>8, <3>1, <3>2, <4>1
        <5> QED
          BY ONLY <1>6, <1>9, <5>1 DEF ColumnCallOK
      <4>2. CASE j # k
        BY ONLY <1>7, <3>1, <3>2, <4>2, j \in ColumnCall
      <4> QED
        BY ONLY <4>1, <4>2
    <3>4. ColumnCallOK(y)'
      BY ONLY <1>2, <3>3 DEF ColumnCallOK
    <3> QED
      BY ONLY <3>1, <3>4 DEF ColumnCallOK
  <2>2. colCalls' \in [ColumnCall -> ColumnWork]
    BY ONLY <1>2, <1>4, <1>7, <1>8, <1>9
  <2> QED
    BY ONLY <1>2, <1>3, <2>1, <2>2 DEF ColumnShape
<1>12. ColumnsAsMade'
  <2>1. SUFFICES ASSUME ~tangled', \A j \in ColumnCall : colCalls'[j].pc # "reorder" PROVE ColumnsAsMade'
    BY DEF ColumnsAsMade
  <2>2. ~tangled /\ \A j \in ColumnCall : colCalls[j].pc # "reorder"
    BY ONLY <1>2, <1>7, <2>1
  <2> QED
    BY ONLY <1>2, <1>3, <1>10, <2>2 DEF ColumnsAsMade
<1>13. ASSUME NEW j \in ColumnCall PROVE ColumnCallFresh(j)'
  <2>1. ColumnCallFresh(j)
    BY <1>3
  <2>2. \A i \in ColumnCall : i # k => colCalls'[i] = colCalls[i]
    BY <1>7
  <2>3. CASE j = k
    <3>1. colCalls'[j] = q
      BY ONLY <1>7, <1>8, <2>3
    <3>2. q.alone => \A i \in ColumnCall : i # k => colCalls[i].pc = "idle"
      BY ONLY <1>2, <1>9, <2>1, <2>3 DEF ColumnCallFresh
    <3>3. ~tangled' => q.alone
      BY ONLY <1>2, <1>9, <2>1, <2>3 DEF ColumnCallFresh
    <3> QED
      BY ONLY <1>2, <1>6, <1>9, <1>10, <2>2, <2>3, <3>1, <3>2, <3>3 DEF ColumnCallFresh
  <2>4. CASE j # k /\ ~(colCalls[j].pc # "idle" /\ colCalls[j].alone)
    BY ONLY <1>2, <2>1, <2>2, <2>4, j \in ColumnCall DEF ColumnCallFresh
  <2>5. ~(j # k /\ colCalls[j].pc # "idle" /\ colCalls[j].alone)
    BY ONLY <1>2, <2>1, k \in ColumnCall DEF ColumnCallFresh
  <2> QED
    BY <2>3, <2>4, <2>5
<1> QED
  BY <1>11, <1>12, <1>13 DEF ColumnsInv

LEMMA SetToSeqOnce ==
  ASSUME NEW S, IsFiniteSet(S)
  PROVE  SetToSeq(S) \in Seq(S) /\ \A i, j \in DOMAIN SetToSeq(S) : SetToSeq(S)[i] = SetToSeq(S)[j] => i = j
<1>1. PICK n \in Nat : n = Cardinality(S)
  BY FS_CardinalityType
<1>2. \E f \in [1..n -> S] : IsInjective(f)
  <2>1. ExistsBijection(1..n, S)
    BY <1>1, FS_CardinalityType
  <2> QED
    BY ONLY <2>1 DEF ExistsBijection, Bijection, Injection, IsInjective
<1>3. SetToSeq(S) \in [1..n -> S] /\ IsInjective(SetToSeq(S))
  BY ONLY <1>1, <1>2 DEF SetToSeq
<1>4. PICK f : f = SetToSeq(S)
  OBVIOUS
<1>5. f \in [1..n -> S] /\ \A i, j \in DOMAIN f : f[i] = f[j] => i = j
  BY ONLY <1>3, <1>4 DEF IsInjective
<1>6. f \in Seq(S)
  BY ONLY <1>5, n \in Nat
<1> QED
  BY ONLY <1>4, <1>5, <1>6

\* The new columns come last, in the order they were given.
LEMMA InsertColumnKeeps == ASSUME ColumnsInv, NEW k \in ColumnCall, InsertColumn(k) PROVE ColumnsInv'
<1> DEFINE F    == {c \in Column : columns[c] = NoColumn}
           free == SetToSeq(F)
<1>1. PICK q : q = colCalls[k]
  OBVIOUS
<1>2. ColumnShape /\ ColumnsAsMade /\ \A j \in ColumnCall : ColumnCallFresh(j)
  BY DEF ColumnsInv
<1>3. /\ columns \in [Column -> Key \cup {NoColumn, DroppedColumn}] /\ colCalls \in [ColumnCall -> ColumnWork]
      /\ made \in Seq(Column) /\ \A i \in DOMAIN made : columns[made[i]] # NoColumn
  BY ONLY <1>2 DEF ColumnShape
<1>4. q.pc = "insert" /\ q.n \in Nat /\ q.key \in Key
  <2>1. ColumnCallOK(q) /\ q \in ColumnWork /\ q.pc = "insert"
    BY <1>1, <1>2 DEF ColumnShape, InsertColumn
  <2> QED
    BY ONLY <2>1 DEF ColumnCallOK, ColumnWork
<1>5. free \in Seq(F) /\ \A i, j \in DOMAIN free : free[i] = free[j] => i = j
  <2>1. F \in SUBSET Column
    OBVIOUS
  <2>2. IsFiniteSet(F)
    BY <2>1, ColumnConstants, FS_Subset
  <2> QED
    BY <2>2, SetToSeqOnce
<1>6. PICK new : new = SubSeq(free, 1, q.n)
  OBVIOUS
<1>7. /\ q.n =< Len(free)
      /\ columns' = [c \in Column |-> IF c \in Range(new) THEN keyAfter(q.key, CHOOSE i \in 1..q.n : new[i] = c)
                                      ELSE columns[c]]
      /\ made' = made \o new
      /\ colCalls' = [colCalls EXCEPT ![k] = NoColCall]
      /\ colServed' = colServed /\ colFails' = colFails /\ tangled' = tangled
  BY <1>1, <1>6 DEF InsertColumn
<1> HIDE DEF F, free
<1>8. /\ new \in Seq(F) /\ Len(new) = q.n /\ \A i \in 1..q.n : new[i] \in F
      /\ \A i, j \in 1..q.n : new[i] = new[j] => i = j
  <2>1. Len(free) \in Nat /\ 1..q.n \subseteq 1..Len(free)
    BY ONLY <1>4, <1>5, <1>7
  <2>2. new \in Seq(F) /\ Len(new) = q.n /\ \A i \in 1..q.n : new[i] = free[i]
    BY ONLY <1>4, <1>5, <1>6, <1>7
  <2> QED
    BY ONLY <1>4, <1>5, <2>1, <2>2
<1>9. \A i \in 1..q.n : new[i] \in Column /\ columns[new[i]] = NoColumn
  BY <1>8 DEF F
<1>10. /\ \A i \in 1..q.n : columns'[new[i]] = keyAfter(q.key, i)
       /\ \A c \in Column : (\A i \in 1..q.n : new[i] # c) => columns'[c] = columns[c]
  <2>1. \A c : c \in Range(new) <=> \E i \in 1..q.n : new[i] = c
    BY ONLY <1>4, <1>8 DEF Range
  <2>2. ASSUME NEW i \in 1..q.n PROVE columns'[new[i]] = keyAfter(q.key, i)
    <3>1. (CHOOSE h \in 1..q.n : new[h] = new[i]) = i
      BY ONLY <1>8, i \in 1..q.n
    <3>2. new[i] \in Column /\ new[i] \in Range(new)
      BY ONLY <1>9, <2>1, i \in 1..q.n
    <3> QED
      BY ONLY <1>7, <3>1, <3>2
  <2>3. \A c \in Column : (\A i \in 1..q.n : new[i] # c) => columns'[c] = columns[c]
    BY ONLY <1>7, <2>1
  <2> QED
    BY ONLY <2>2, <2>3
<1>11. PICK m \in Nat : m = Len(made) /\ DOMAIN made = 1..m
  BY <1>3
<1>12. /\ made' \in Seq(Column) /\ DOMAIN made' = 1..(m + q.n)
       /\ \A i \in 1..m : made'[i] = made[i] /\ made[i] \in Column /\ columns[made[i]] # NoColumn
       /\ \A i \in 1..q.n : made'[m + i] = new[i]
  <2>1. new \in Seq(Column)
    BY ONLY <1>4, <1>8, <1>9
  <2>2. PICK s : s = made \o new
    OBVIOUS
  <2>3. /\ s \in Seq(Column) /\ DOMAIN s = 1..(m + q.n)
        /\ \A i \in 1..m : s[i] = made[i] /\ made[i] \in Column
        /\ \A i \in 1..q.n : s[m + i] = new[i]
    BY ONLY <1>3, <1>4, <1>8, <1>11, <2>1, <2>2
  <2>4. made' = s
    BY ONLY <1>7, <2>2
  <2> QED
    BY ONLY <1>3, <1>11, <2>3, <2>4
<1>13. \A i \in 1..q.n : keyAfter(q.key, i) \in Key
  BY ONLY <1>4, RowsComeInTurn
<1>14. \A c \in Column : /\ columns'[c] \in Key \cup {NoColumn, DroppedColumn}
                         /\ columns[c] # NoColumn => columns'[c] = columns[c]
  <2> SUFFICES ASSUME NEW c \in Column
               PROVE  /\ columns'[c] \in Key \cup {NoColumn, DroppedColumn}
                      /\ columns[c] # NoColumn => columns'[c] = columns[c]
    OBVIOUS
  <2>1. CASE \E i \in 1..q.n : new[i] = c
    BY ONLY <1>9, <1>10, <1>13, <2>1
  <2>2. CASE \A i \in 1..q.n : new[i] # c
    BY ONLY <1>3, <1>10, <2>2, c \in Column
  <2> QED
    BY ONLY <2>1, <2>2
<1>15. \A i \in 1..q.n : columns'[new[i]] \in Key /\ columns'[new[i]] # NoColumn
  BY ONLY <1>10, <1>13, ColumnConstants
<1>16. \A j \in ColumnCall : colCalls'[j] = IF j = k THEN NoColCall ELSE colCalls[j]
  BY ONLY <1>3, <1>7
<1>17. ColumnShape'
  <2>1. ASSUME NEW j \in ColumnCall PROVE ColumnCallOK(colCalls[j])'
    <3>1. PICK y : y = colCalls'[j]
      OBVIOUS
    <3>2. ColumnCallOK(y) /\ y \in ColumnWork
      BY <1>2, <1>16, <3>1, NoColCallOK DEF ColumnShape
    <3>3. y.sent \in Seq(Column)
      BY ONLY <3>2 DEF ColumnWork
    <3>4. ColumnCallOK(y)'
      BY ONLY <1>14, <3>2, <3>3 DEF ColumnCallOK
    <3> QED
      BY ONLY <3>1, <3>4 DEF ColumnCallOK
  <2>2. colCalls' \in [ColumnCall -> ColumnWork]
    BY ONLY <1>3, <1>7, NoColCallOK
  <2>3. columns' \in [Column -> Key \cup {NoColumn, DroppedColumn}]
    <3>1. columns' = [c \in Column |-> columns'[c]]
      BY ONLY <1>7
    <3> QED
      BY ONLY <1>14, <3>1
  <2>4. \A i \in DOMAIN made' : columns'[made'[i]] # NoColumn
    <3> SUFFICES ASSUME NEW i \in 1..(m + q.n) PROVE columns'[made'[i]] # NoColumn
      BY <1>12
    <3>1. CASE i \in 1..m
      BY ONLY <1>12, <1>14, <3>1
    <3>2. CASE i \notin 1..m
      <4>1. i - m \in 1..q.n /\ i = m + (i - m)
        BY ONLY <1>4, <3>2, m \in Nat, i \in 1..(m + q.n)
      <4>2. made'[i] = new[i - m]
        BY ONLY <1>12, <4>1
      <4> QED
        BY ONLY <1>15, <4>1, <4>2
    <3> QED
      BY ONLY <3>1, <3>2
  <2> QED
    BY ONLY <1>2, <1>7, <1>12, <2>1, <2>2, <2>3, <2>4 DEF ColumnShape
<1>18. \A c \in Column : exists(c)' <=> exists(c) \/ \E i \in 1..q.n : new[i] = c
  <2> SUFFICES ASSUME NEW c \in Column
               PROVE  exists(c)' <=> exists(c) \/ \E i \in 1..q.n : new[i] = c
    OBVIOUS
  <2>1. CASE \E i \in 1..q.n : new[i] = c
    <3>1. columns'[c] \in Key
      BY ONLY <1>15, <2>1
    <3>2. columns'[c] \notin {NoColumn, DroppedColumn}
      BY ONLY <3>1, ColumnConstants
    <3> QED
      BY ONLY <2>1, <3>2 DEF exists
  <2>2. CASE \A i \in 1..q.n : new[i] # c
    BY ONLY <1>10, <2>2, c \in Column DEF exists
  <2> QED
    BY ONLY <2>1, <2>2
<1>19. ColumnsAsMade'
  <2> SUFFICES ASSUME ~tangled', \A j \in ColumnCall : colCalls'[j].pc # "reorder"
               PROVE  (/\ Columns \subseteq Range(made)
                       /\ \A i, j \in DOMAIN made : i < j /\ exists(made[i]) /\ exists(made[j]) =>
                            columns[made[i]] \prec columns[made[j]])'
    BY DEF ColumnsAsMade
  <2>1. ~tangled /\ \A j \in ColumnCall : colCalls[j].pc # "reorder"
    BY <1>1, <1>4, <1>7, <1>16
  <2>2. \A c \in Columns : columns[c] \in Key /\ columns[c] \prec q.key
    <3>1. \A c \in Columns : columns[c] \prec q.key
      BY <1>1, <1>2, <1>4, <2>1 DEF ColumnCallFresh
    <3> QED
      BY ONLY <1>3, <3>1 DEF Columns, exists
  <2>3. /\ Columns \subseteq Range(made)
        /\ \A i, j \in DOMAIN made :
             i < j /\ exists(made[i]) /\ exists(made[j]) => columns[made[i]] \prec columns[made[j]]
    BY ONLY <1>2, <2>1 DEF ColumnsAsMade
  <2>4. \A c : c \in Columns' => c \in Range(made')
    <3> SUFFICES ASSUME NEW c \in Column, exists(c)' PROVE c \in Range(made')
      BY DEF Columns
    <3>1. CASE exists(c)
      <4>1. PICK i \in 1..m : made[i] = c
        BY <1>11, <2>3, <3>1 DEF Range, Columns
      <4>2. i \in 1..(m + q.n) /\ made'[i] = c
        BY ONLY <1>4, <1>12, <4>1, m \in Nat, i \in 1..m
      <4> QED
        BY ONLY <1>12, <4>2 DEF Range
    <3>2. CASE \E i \in 1..q.n : new[i] = c
      <4>1. PICK i \in 1..q.n : new[i] = c
        BY <3>2
      <4>2. m + i \in 1..(m + q.n) /\ made'[m + i] = c
        BY ONLY <1>4, <1>12, <4>1, m \in Nat, i \in 1..q.n
      <4> QED
        BY ONLY <1>12, <4>2 DEF Range
    <3> QED
      BY <1>18, <3>1, <3>2
  <2>5. ASSUME NEW i \in 1..(m + q.n), NEW j \in 1..(m + q.n), i < j, exists(made[i])', exists(made[j])'
        PROVE  columns'[made'[i]] \prec columns'[made'[j]]
    <3>1. CASE j \in 1..m
      <4>1. i \in 1..m /\ j \in 1..m
        BY ONLY <2>5, <3>1, i \in 1..(m + q.n)
      <4>2. PICK c, d : c = made[i] /\ d = made[j]
        OBVIOUS
      <4>3. /\ c \in Column /\ d \in Column /\ made'[i] = c /\ made'[j] = d
            /\ columns'[c] = columns[c] /\ columns'[d] = columns[d]
        BY ONLY <1>12, <1>14, <4>1, <4>2
      <4>4. exists(c) /\ exists(d)
        BY ONLY <2>5, <4>3 DEF exists
      <4>5. columns[c] \prec columns[d]
        BY ONLY <1>11, <2>3, <2>5, <4>1, <4>2, <4>4
      <4> QED
        BY ONLY <4>3, <4>5
    <3>2. CASE j \notin 1..m /\ i \in 1..m
      <4>1. j - m \in 1..q.n /\ j = m + (j - m)
        BY ONLY <1>4, <3>2, m \in Nat, j \in 1..(m + q.n)
      <4>2. PICK h \in 1..q.n : h = j - m
        BY ONLY <4>1
      <4>3. columns'[made'[j]] = keyAfter(q.key, h)
        BY ONLY <1>10, <1>12, <4>1, <4>2
      <4>4. PICK c : c = made[i]
        OBVIOUS
      <4>5. c \in Column /\ made'[i] = c /\ columns'[c] = columns[c]
        BY ONLY <1>12, <1>14, <3>2, <4>4
      <4>6. c \in Columns
        BY ONLY <2>5, <4>5 DEF exists, Columns
      <4>7. columns[c] \in Key /\ columns[c] \prec q.key /\ h \in Nat \ {0}
        BY ONLY <1>4, <2>2, <4>6, h \in 1..q.n
      <4>8. columns[c] \prec keyAfter(q.key, h)
        BY ONLY <1>4, <4>7, RowsComeInTurn
      <4> QED
        BY ONLY <4>3, <4>5, <4>8
    <3>3. CASE j \notin 1..m /\ i \notin 1..m
      <4>1. /\ j - m \in 1..q.n /\ j = m + (j - m)
            /\ i - m \in 1..q.n /\ i = m + (i - m)
        BY ONLY <1>4, <3>3, m \in Nat, j \in 1..(m + q.n), i \in 1..(m + q.n)
      <4>2. PICK g, h \in 1..q.n : g = i - m /\ h = j - m
        BY ONLY <4>1
      <4>3. columns'[made'[j]] = keyAfter(q.key, h) /\ columns'[made'[i]] = keyAfter(q.key, g)
        BY ONLY <1>10, <1>12, <4>1, <4>2
      <4>4. g \in Nat \ {0} /\ h \in Nat \ {0} /\ g < h
        BY ONLY <1>4, <2>5, <4>2, g \in 1..q.n, h \in 1..q.n, m \in Nat, j \in 1..(m + q.n), i \in 1..(m + q.n)
      <4>5. keyAfter(q.key, g) \prec keyAfter(q.key, h)
        BY ONLY <1>4, <4>4, RowsComeInTurn
      <4> QED
        BY ONLY <4>3, <4>5
    <3> QED
      BY ONLY <3>1, <3>2, <3>3
  <2> QED
    BY <1>12, <2>4, <2>5
<1>20. ASSUME NEW j \in ColumnCall PROVE ColumnCallFresh(j)'
  <2>1. CASE j = k
    BY ONLY <1>16, <2>1, NoColCallOK, j \in ColumnCall DEF ColumnCallFresh
  <2>2. CASE j # k
    <3>1. colCalls'[j] = colCalls[j] /\ ColumnCallFresh(j) /\ colCalls[k].pc # "idle"
      BY <1>1, <1>2, <1>4, <1>16, <2>2
    <3>2. ~(colCalls[j].pc # "idle" /\ colCalls[j].alone)
      BY ONLY <2>2, <3>1, k \in ColumnCall DEF ColumnCallFresh
    <3> QED
      BY ONLY <1>7, <3>1, <3>2 DEF ColumnCallFresh
  <2> QED
    BY <2>1, <2>2
<1> QED
  BY <1>17, <1>19, <1>20 DEF ColumnsInv

\* What has landed is as it was sent; once all has, the columns are.
LEMMA ReorderKeeps == ASSUME ColumnsInv, NEW k \in ColumnCall, Reorder(k) PROVE ColumnsInv'
<1>1. PICK q : q = colCalls[k]
  OBVIOUS
<1>2. ColumnShape /\ ColumnsAsMade /\ \A j \in ColumnCall : ColumnCallFresh(j)
  BY DEF ColumnsInv
<1>3. /\ columns \in [Column -> Key \cup {NoColumn, DroppedColumn}] /\ colCalls \in [ColumnCall -> ColumnWork]
      /\ made \in Seq(Column) /\ \A i \in DOMAIN made : columns[made[i]] # NoColumn
  BY ONLY <1>2 DEF ColumnShape
<1>4. PICK c \in q.todo : Landed(k, c, CHOOSE i \in DOMAIN q.sent : q.sent[i] = c)
  BY <1>1 DEF Reorder
<1>5. q \in ColumnWork /\ ColumnCallOK(q) /\ ColumnCallFresh(k)
  BY <1>1, <1>2, <1>3 DEF ColumnShape
<1>6. /\ q.pc = "reorder" /\ q.sent \in Seq(Column) /\ q.todo \subseteq Column /\ c \in q.todo
      /\ \A d \in q.todo : \E i \in DOMAIN q.sent : q.sent[i] = d
      /\ \A i, j \in DOMAIN q.sent : q.sent[i] = q.sent[j] => i = j
      /\ \A i \in DOMAIN q.sent : columns[q.sent[i]] # NoColumn
  BY ONLY <1>5, c \in q.todo DEF ColumnCallOK, ColumnWork
<1>7. PICK n \in Nat : n = Len(q.sent) /\ DOMAIN q.sent = 1..n
  BY ONLY <1>6
<1>8. PICK i \in 1..n : q.sent[i] = c
  BY ONLY <1>6, <1>7
<1>9. (CHOOSE h \in DOMAIN q.sent : q.sent[h] = c) = i
  BY ONLY <1>6, <1>7, <1>8
<1>10. PICK rest : rest = q.todo \ {c}
  OBVIOUS
<1>11. /\ columns' = IF exists(c) THEN [columns EXCEPT ![c] = generateNIndices(n)[i]] ELSE columns
       /\ colCalls' = [colCalls EXCEPT ![k] = IF rest = {} THEN NoColCall ELSE [q EXCEPT !.todo = rest]]
       /\ rest # {} => made' = made /\ tangled' = tangled
       /\ rest = {} => made' = q.sent /\ tangled' = ~(q.alone /\ Columns \subseteq Range(q.sent))
       /\ colServed' = colServed /\ colFails' = colFails
  <2>1. Landed(k, c, i)
    BY ONLY <1>4, <1>9
  <2> QED
    BY ONLY <1>1, <1>7, <1>10, <2>1 DEF Landed
<1>12. /\ \A h \in 1..n : generateNIndices(n)[h] \in Key
       /\ \A g, h \in 1..n : g < h => generateNIndices(n)[g] \prec generateNIndices(n)[h]
  BY ONLY n \in Nat, SpacedAscend
<1>13. c \in Column /\ \A d \in Column : d # c \/ ~exists(c) => columns'[d] = columns[d]
  BY ONLY <1>3, <1>6, <1>11
<1>14. exists(c) => columns'[c] = generateNIndices(n)[i] /\ columns'[c] \in Key
  BY ONLY <1>3, <1>11, <1>12, <1>13, i \in 1..n
<1>15. \A d \in Column : /\ columns'[d] \in Key \cup {NoColumn, DroppedColumn}
                         /\ columns[d] # NoColumn => columns'[d] # NoColumn
                         /\ exists(d)' <=> exists(d)
  <2> SUFFICES ASSUME NEW d \in Column
               PROVE  /\ columns'[d] \in Key \cup {NoColumn, DroppedColumn}
                      /\ columns[d] # NoColumn => columns'[d] # NoColumn
                      /\ exists(d)' <=> exists(d)
    OBVIOUS
  <2>1. CASE d = c /\ exists(c)
    <3>1. columns'[d] \in Key
      BY ONLY <1>14, <2>1
    <3>2. columns'[d] # NoColumn /\ columns'[d] # DroppedColumn
      BY ONLY <3>1, ColumnConstants
    <3> QED
      BY ONLY <2>1, <3>1, <3>2 DEF exists
  <2>2. CASE d # c \/ ~exists(c)
    BY ONLY <1>3, <1>13, <2>2, d \in Column DEF exists
  <2> QED
    BY ONLY <2>1, <2>2
<1>16. PICK r : r = [q EXCEPT !.todo = rest]
  OBVIOUS
<1>17. /\ r \in ColumnWork /\ r.pc = q.pc /\ r.key = q.key /\ r.sent = q.sent /\ r.todo = rest /\ r.alone = q.alone
       /\ rest \subseteq q.todo
  BY ONLY <1>5, <1>6, <1>10, <1>16 DEF ColumnWork
<1>18. /\ \A j \in ColumnCall : j # k => colCalls'[j] = colCalls[j]
       /\ colCalls'[k] = IF rest = {} THEN NoColCall ELSE r
  BY ONLY <1>3, <1>11, <1>16, k \in ColumnCall
<1>19. ColumnShape'
  <2>1. ASSUME NEW j \in ColumnCall PROVE ColumnCallOK(colCalls[j])'
    <3>1. PICK y : y = colCalls'[j]
      OBVIOUS
    <3>2. ColumnCallOK(r)
      BY ONLY <1>6, <1>17 DEF ColumnCallOK
    <3>3. ColumnCallOK(y) /\ y \in ColumnWork
      BY <1>2, <1>17, <1>18, <3>1, <3>2, NoColCallOK DEF ColumnShape
    <3>4. \A h \in DOMAIN y.sent : y.sent[h] \in Column
      <4>1. y.sent \in Seq(Column)
        BY ONLY <3>3 DEF ColumnWork
      <4> QED
        BY ONLY <4>1
    <3>5. \A h \in DOMAIN y.sent : columns'[y.sent[h]] # NoColumn
      <4>1. \A h \in DOMAIN y.sent : columns[y.sent[h]] # NoColumn
        BY ONLY <3>3 DEF ColumnCallOK
      <4> QED
        BY ONLY <1>15, <3>4, <4>1
    <3>6. ColumnCallOK(y)'
      BY ONLY <3>3, <3>5 DEF ColumnCallOK
    <3> QED
      BY ONLY <3>1, <3>6 DEF ColumnCallOK
  <2>2. colCalls' \in [ColumnCall -> ColumnWork]
    BY ONLY <1>3, <1>11, <1>16, <1>17, NoColCallOK
  <2>3. columns' \in [Column -> Key \cup {NoColumn, DroppedColumn}]
    <3>1. columns' = [d \in Column |-> columns'[d]]
      BY ONLY <1>3, <1>11
    <3> QED
      BY ONLY <1>15, <3>1
  <2>4. made' \in Seq(Column) /\ \A h \in DOMAIN made' : columns'[made'[h]] # NoColumn
    <3>1. PICK s : s = made'
      OBVIOUS
    <3>2. s \in Seq(Column) /\ \A h \in DOMAIN s : columns[s[h]] # NoColumn
      BY ONLY <1>3, <1>6, <1>11, <3>1
    <3>3. \A h \in DOMAIN s : s[h] \in Column
      BY ONLY <3>2
    <3> QED
      BY ONLY <1>15, <3>1, <3>2, <3>3
  <2>5. tangled' \in BOOLEAN
    BY ONLY <1>2, <1>11 DEF ColumnShape
  <2> QED
    BY ONLY <1>2, <1>11, <2>1, <2>2, <2>3, <2>4, <2>5 DEF ColumnShape
<1>20. ASSUME q.alone, NEW h \in 1..n, q.sent[h] \notin rest, exists(q.sent[h])'
       PROVE  columns'[q.sent[h]] = generateNIndices(n)[h]
  <2>1. PICK d : d = q.sent[h]
    OBVIOUS
  <2>2. d \in Column /\ exists(d)
    <3>1. d \in Column
      BY ONLY <1>6, <1>7, <2>1, h \in 1..n
    <3>2. columns'[d] \notin {NoColumn, DroppedColumn}
      BY ONLY <1>20, <2>1 DEF exists
    <3> QED
      BY ONLY <1>15, <3>1, <3>2 DEF exists
  <2>3. CASE d = c
    <3>1. h = i
      BY ONLY <1>6, <1>7, <1>8, <2>1, <2>3, h \in 1..n, i \in 1..n
    <3> QED
      BY ONLY <1>14, <2>1, <2>2, <2>3, <3>1
  <2>4. CASE d # c
    <3>1. d \notin q.todo
      BY ONLY <1>10, <1>20, <2>1, <2>4
    <3>2. columns[d] = generateNIndices(n)[h]
      BY ONLY <1>1, <1>5, <1>6, <1>7, <1>20, <2>1, <2>2, <3>1, h \in 1..n DEF ColumnCallFresh
    <3> QED
      BY ONLY <1>13, <2>1, <2>2, <2>4, <3>2
  <2> QED
    BY <2>3, <2>4
<1>21. q.alone => \A j \in ColumnCall : j # k => colCalls[j].pc = "idle"
  BY ONLY <1>1, <1>5, <1>6 DEF ColumnCallFresh
<1>22. ASSUME NEW j \in ColumnCall PROVE ColumnCallFresh(j)'
  <2>1. CASE j = k /\ rest = {}
    BY ONLY <1>18, <2>1, NoColCallOK DEF ColumnCallFresh
  <2>2. CASE j = k /\ rest # {}
    <3>1. colCalls'[j] = r
      BY ONLY <1>18, <2>2
    <3>2. ~tangled' => q.alone
      BY ONLY <1>1, <1>5, <1>6, <1>11, <2>2 DEF ColumnCallFresh
    <3>3. q.alone => \A h \in ColumnCall : h # j => colCalls'[h].pc = "idle"
      BY ONLY <1>18, <1>21, <2>2
    <3>4. q.alone => \A h \in DOMAIN r.sent : r.sent[h] \notin r.todo /\ exists(r.sent[h])' =>
            columns'[r.sent[h]] = generateNIndices(Len(r.sent))[h]
      BY ONLY <1>7, <1>17, <1>20
    <3>5. r.pc = "reorder"
      BY ONLY <1>6, <1>17
    <3>6. q.alone => \A h \in DOMAIN r.sent : r.sent[h] \notin r.todo /\ columns'[r.sent[h]] \notin {NoColumn, DroppedColumn} =>
            columns'[r.sent[h]] = generateNIndices(Len(r.sent))[h]
      BY ONLY <3>4 DEF exists
    <3> QED
      BY ONLY <1>17, <3>1, <3>2, <3>3, <3>5, <3>6 DEF ColumnCallFresh, exists
  <2>3. CASE j # k
    <3>1. colCalls'[j] = colCalls[j] /\ ColumnCallFresh(j) /\ colCalls[k].pc # "idle"
      BY <1>1, <1>2, <1>6, <1>18, <2>3
    <3>2. ~(colCalls[j].pc # "idle" /\ colCalls[j].alone)
      BY ONLY <2>3, <3>1, k \in ColumnCall DEF ColumnCallFresh
    <3>3. colCalls[j].pc # "idle" /\ ~tangled' => FALSE
      <4>1. colCalls[j].pc # "idle" /\ ~tangled => FALSE
        BY ONLY <3>1, <3>2 DEF ColumnCallFresh
      <4>2. colCalls[j].pc # "idle" => ~q.alone
        BY ONLY <1>21, <2>3, j \in ColumnCall
      <4>3. tangled' = tangled \/ tangled' = ~(q.alone /\ Columns \subseteq Range(q.sent))
        BY ONLY <1>11
      <4> QED
        BY ONLY <4>1, <4>2, <4>3
    <3> QED
      BY ONLY <3>1, <3>2, <3>3 DEF ColumnCallFresh
  <2> QED
    BY ONLY <2>1, <2>2, <2>3
<1>23. ColumnsAsMade'
  <2> SUFFICES ASSUME ~tangled', \A j \in ColumnCall : colCalls'[j].pc # "reorder"
               PROVE  (/\ Columns \subseteq Range(made)
                       /\ \A g, h \in DOMAIN made : g < h /\ exists(made[g]) /\ exists(made[h]) =>
                            columns[made[g]] \prec columns[made[h]])'
    BY DEF ColumnsAsMade
  <2>1. rest = {} /\ made' = q.sent /\ q.alone /\ Columns \subseteq Range(q.sent)
    <3>1. colCalls'[k].pc # "reorder" /\ ~tangled'
      OBVIOUS
    <3>2. rest = {}
      BY ONLY <1>6, <1>17, <1>18, <3>1
    <3> QED
      BY ONLY <1>11, <3>1, <3>2
  <2>2. Columns' = Columns
    BY ONLY <1>15 DEF Columns
  <2>3. (Columns \subseteq Range(made))'
    BY ONLY <2>1, <2>2 DEF Range
  <2>4. ASSUME NEW g \in 1..n, NEW h \in 1..n, g < h, exists(q.sent[g])', exists(q.sent[h])'
        PROVE  columns'[q.sent[g]] \prec columns'[q.sent[h]]
    <3>1. /\ columns'[q.sent[g]] = generateNIndices(n)[g]
          /\ columns'[q.sent[h]] = generateNIndices(n)[h]
      BY <1>20, <2>1, <2>4
    <3> QED
      BY ONLY <1>12, <2>4, <3>1, g \in 1..n, h \in 1..n
  <2>5. \A g, h \in DOMAIN q.sent : g < h /\ columns'[q.sent[g]] \notin {NoColumn, DroppedColumn}
                                          /\ columns'[q.sent[h]] \notin {NoColumn, DroppedColumn} =>
                            columns'[q.sent[g]] \prec columns'[q.sent[h]]
    BY ONLY <1>7, <2>4 DEF exists
  <2> QED
    BY ONLY <2>1, <2>3, <2>5 DEF exists
<1> QED
  BY <1>19, <1>22, <1>23 DEF ColumnsInv

LEMMA ReorderFailsKeeps == ASSUME ColumnsInv, NEW k \in ColumnCall, ReorderFails(k) PROVE ColumnsInv'
<1>1. PICK q : q = colCalls[k]
  OBVIOUS
<1>2. ColumnShape /\ ColumnsAsMade /\ \A j \in ColumnCall : ColumnCallFresh(j)
  BY DEF ColumnsInv
<1>3. colCalls \in [ColumnCall -> ColumnWork]
  BY ONLY <1>2 DEF ColumnShape
<1>4. PICK c \in q.todo : LET rest == q.todo \ {c}
                          IN  colCalls' = [colCalls EXCEPT ![k] = IF rest = {} THEN NoColCall
                                             ELSE [@ EXCEPT !.todo = rest, !.alone = FALSE]]
  BY <1>1 DEF ReorderFails
<1>5. /\ colFails < MaxColumnFails /\ colFails' = colFails + 1 /\ tangled' = TRUE
      /\ columns' = columns /\ colServed' = colServed /\ made' = made
  BY DEF ReorderFails
<1>6. q \in ColumnWork /\ ColumnCallOK(q) /\ q.pc = "reorder"
  <2>1. q \in ColumnWork /\ ColumnCallOK(q)
    BY <1>1, <1>2, <1>3 DEF ColumnShape
  <2> QED
    BY ONLY <2>1, c \in q.todo DEF ColumnCallOK
<1>7. PICK rest : rest = q.todo \ {c}
  OBVIOUS
<1>8. PICK r : r = [q EXCEPT !.todo = rest, !.alone = FALSE]
  OBVIOUS
<1>9. /\ r \in ColumnWork /\ r.pc = q.pc /\ r.key = q.key /\ r.sent = q.sent /\ r.todo = rest /\ ~r.alone
      /\ rest \subseteq q.todo
  BY ONLY <1>6, <1>7, <1>8 DEF ColumnWork
<1>10. /\ \A j \in ColumnCall : j # k => colCalls'[j] = colCalls[j]
       /\ colCalls'[k] = IF rest = {} THEN NoColCall ELSE r
       /\ colCalls' \in [ColumnCall -> ColumnWork]
  <2>1. colCalls' = [colCalls EXCEPT ![k] = IF rest = {} THEN NoColCall ELSE r]
    BY ONLY <1>1, <1>4, <1>7, <1>8
  <2> QED
    BY ONLY <1>3, <1>9, <2>1, NoColCallOK, k \in ColumnCall
<1>11. ColumnShape'
  <2>1. ASSUME NEW j \in ColumnCall PROVE ColumnCallOK(colCalls[j])'
    <3>1. PICK y : y = colCalls'[j]
      OBVIOUS
    <3>2. ColumnCallOK(r)
      BY ONLY <1>6, <1>9 DEF ColumnCallOK
    <3>3. ColumnCallOK(y)
      BY <1>2, <1>10, <3>1, <3>2, NoColCallOK DEF ColumnShape
    <3>4. ColumnCallOK(y)'
      BY ONLY <1>5, <3>3 DEF ColumnCallOK
    <3> QED
      BY ONLY <3>1, <3>4 DEF ColumnCallOK
  <2>2. colFails' \in 0..MaxColumnFails
    BY <1>2, <1>5, ColumnConstants DEF ColumnShape
  <2>3. tangled' \in BOOLEAN
    BY ONLY <1>5
  <2> QED
    BY ONLY <1>2, <1>5, <1>10, <2>1, <2>2, <2>3 DEF ColumnShape
<1>12. ASSUME NEW j \in ColumnCall PROVE ColumnCallFresh(j)'
  <2>1. CASE j = k
    BY ONLY <1>5, <1>9, <1>10, <2>1, NoColCallOK DEF ColumnCallFresh
  <2>2. CASE j # k
    <3>1. colCalls'[j] = colCalls[j] /\ ColumnCallFresh(j) /\ colCalls[k].pc # "idle"
      BY <1>1, <1>2, <1>6, <1>10, <2>2
    <3>2. ~(colCalls[j].pc # "idle" /\ colCalls[j].alone)
      BY ONLY <2>2, <3>1, k \in ColumnCall DEF ColumnCallFresh
    <3> QED
      BY ONLY <1>5, <3>1, <3>2 DEF ColumnCallFresh
  <2> QED
    BY <2>1, <2>2
<1>13. ColumnsAsMade'
  BY ONLY <1>5 DEF ColumnsAsMade
<1> QED
  BY <1>11, <1>12, <1>13 DEF ColumnsInv

LEMMA DropColumnKeeps == ASSUME ColumnsInv, NEW c \in Column, DropColumn(c) PROVE ColumnsInv'
<1>1. /\ exists(c) /\ columns' = [columns EXCEPT ![c] = DroppedColumn]
      /\ colCalls' = colCalls /\ colServed' = colServed /\ colFails' = colFails /\ made' = made
      /\ tangled' = tangled
  BY DEF DropColumn
<1>2. ColumnShape /\ ColumnsAsMade /\ \A j \in ColumnCall : ColumnCallFresh(j)
  BY DEF ColumnsInv
<1>3. /\ columns \in [Column -> Key \cup {NoColumn, DroppedColumn}] /\ colCalls \in [ColumnCall -> ColumnWork]
      /\ made \in Seq(Column) /\ \A i \in DOMAIN made : columns[made[i]] # NoColumn
      /\ \A j \in ColumnCall : ColumnCallOK(colCalls[j])
  BY ONLY <1>2 DEF ColumnShape
<1>4. \A d \in Column : /\ columns[d] # NoColumn => columns'[d] # NoColumn
                        /\ exists(d)' => exists(d) /\ columns'[d] = columns[d]
  BY ONLY <1>1, <1>3, ColumnConstants DEF exists
<1>5. \A i \in DOMAIN made : made[i] \in Column
  BY ONLY <1>3
<1>6. ASSUME NEW j \in ColumnCall PROVE ColumnCallOK(colCalls[j])' /\ ColumnCallFresh(j)'
  <2>1. PICK q : q = colCalls[j]
    OBVIOUS
  <2>2. q \in ColumnWork /\ ColumnCallOK(q) /\ ColumnCallFresh(j) /\ colCalls'[j] = q
    BY <1>1, <1>2, <1>3, <2>1
  <2>3. \A i \in DOMAIN q.sent : q.sent[i] \in Column
    <3>1. q.sent \in Seq(Column)
      BY ONLY <2>2 DEF ColumnWork
    <3> QED
      BY ONLY <3>1
  <2>4. ColumnCallOK(q)'
    BY ONLY <1>4, <2>2, <2>3 DEF ColumnCallOK
  <2>5. \A d \in Columns' : d \in Columns /\ columns'[d] = columns[d]
    BY ONLY <1>4 DEF Columns
  <2>6. q.pc = "insert" /\ q.alone => \A d \in Columns' : columns'[d] \prec q.key
    BY ONLY <2>1, <2>2, <2>5 DEF ColumnCallFresh
  <2>7. q.pc = "reorder" /\ q.alone =>
           \A i \in DOMAIN q.sent : q.sent[i] \notin q.todo /\ columns'[q.sent[i]] \notin {NoColumn, DroppedColumn} =>
             columns'[q.sent[i]] = generateNIndices(Len(q.sent))[i]
    BY ONLY <1>4, <2>1, <2>2, <2>3 DEF ColumnCallFresh, exists
  <2>8. ColumnCallFresh(j)'
    BY ONLY <1>1, <2>1, <2>2, <2>6, <2>7 DEF ColumnCallFresh, exists
  <2> QED
    BY ONLY <2>2, <2>4, <2>8 DEF ColumnCallOK
<1>7. ColumnShape'
  <2>1. columns' \in [Column -> Key \cup {NoColumn, DroppedColumn}]
    BY ONLY <1>1, <1>3
  <2>2. \A i \in DOMAIN made : columns'[made[i]] # NoColumn
    BY ONLY <1>3, <1>4, <1>5
  <2> QED
    BY ONLY <1>1, <1>2, <1>6, <2>1, <2>2 DEF ColumnShape
<1>8. ColumnsAsMade'
  <2> SUFFICES ASSUME ~tangled, \A j \in ColumnCall : colCalls[j].pc # "reorder"
               PROVE  (/\ Columns \subseteq Range(made)
                       /\ \A g, h \in DOMAIN made : g < h /\ exists(made[g]) /\ exists(made[h]) =>
                            columns[made[g]] \prec columns[made[h]])'
    BY <1>1 DEF ColumnsAsMade
  <2>1. /\ \A d : d \in Columns => d \in Range(made)
        /\ \A g, h \in DOMAIN made : g < h /\ exists(made[g]) /\ exists(made[h]) =>
             columns[made[g]] \prec columns[made[h]]
    BY <1>2 DEF ColumnsAsMade
  <2>2. \A d : d \in Columns' => d \in Range(made)'
    BY ONLY <1>1, <1>4, <2>1 DEF Columns, Range
  <2>3. \A g, h \in DOMAIN made : g < h /\ columns'[made[g]] \notin {NoColumn, DroppedColumn}
                                        /\ columns'[made[h]] \notin {NoColumn, DroppedColumn} =>
             columns'[made[g]] \prec columns'[made[h]]
    BY ONLY <1>4, <1>5, <2>1 DEF exists
  <2> QED
    BY ONLY <1>1, <2>2, <2>3 DEF exists
<1> QED
  BY <1>6, <1>7, <1>8 DEF ColumnsInv

LEMMA ColumnsStay == ASSUME ColumnsInv, UNCHANGED colVars PROVE ColumnsInv'
<1>1. /\ columns' = columns /\ colCalls' = colCalls /\ colServed' = colServed /\ colFails' = colFails
      /\ made' = made /\ tangled' = tangled
  BY DEF colVars
<1>2. ColumnsAsMade'
  BY ONLY ColumnsInv, <1>1 DEF ColumnsInv, ColumnsAsMade, Columns, exists
<1>3. \A k \in ColumnCall : ColumnCallFresh(k)'
  BY ONLY ColumnsInv, <1>1 DEF ColumnsInv, ColumnCallFresh, Columns, exists
<1>4. ColumnShape'
  BY ONLY ColumnsInv, <1>1 DEF ColumnsInv, ColumnShape, ColumnCallOK
<1> QED
  BY <1>2, <1>3, <1>4 DEF ColumnsInv

LEMMA ColumnsInvKept == ColumnsInv /\ [ColumnsNext]_colVars => ColumnsInv'
BY ColumnsStay, StartColumnKeeps, StartReorderKeeps, ReadLastColumnKeeps, InsertColumnKeeps, ReorderKeeps,
   ColumnFailsKeeps, ReorderFailsKeeps, DropColumnKeeps DEF ColumnsNext

\* The invariant: while no calls overlapped and none failed half-way, the one call
\* under way holds an index past every column's, or has put in place what landed
\* so far of the order it was sent (list.service.ts, list.repo.ts).
THEOREM ColumnsInvHolds == ColumnsSpec => []ColumnsInv
<1>1. ColumnsInit => ColumnsInv
  BY ColumnsStart
<1> QED
  BY <1>1, ColumnsInvKept, PTL DEF ColumnsSpec

\* For any columns, calls and key space, one letter that repeats included: unless
\* calls overlapped, failed half-way or came from a client that missed a column,
\* the lists stand in the order the users made (reorderLists, listRepo.create).
THEOREM ColumnsAsMadeHolds == ColumnsSpec => []ColumnsAsMade
<1>1. ColumnsInv => ColumnsAsMade
  BY DEF ColumnsInv
<1> QED
  BY <1>1, ColumnsInvHolds, PTL

-----------------------------------------------------------------------------
(* Cards.                                                                   *)

RequestType(q) ==
  q \in [pc: {"idle", "find", "head", "respace", "tail", "write"}, n: Nat, card: Card \cup {None},
         list: List \cup {None}, place: {"top", "bottom", "at"}, touches: SUBSET List,
         key: Key \cup {NoKey}, todo: {q.todo}, before: Seq(Card), failed: BOOLEAN,
         prev: Card \cup {None}, next: Card \cup {None}, prevKey: Key \cup {NoKey}, nextKey: Key \cup {NoKey}]

\* A request, by itself.
RequestBody(q) ==
  /\ \A c \in DOMAIN q.todo : c \in Card /\ q.todo[c] \in Key
  /\ q.pc = "respace" => \A c \in DOMAIN q.todo : \E i \in DOMAIN q.before : q.before[i] = c
  /\ q.failed => q.pc = "respace"
  /\ q.pc # "idle" /\ q.n = 0 => q.card \in Card
  /\ q.pc \in {"respace", "write"} \/ q.place = "at" => q.key \in Key
  /\ q.pc \in {"head", "respace"} => q.place = "top"
  /\ q.pc = "tail" => q.place = "bottom"
  /\ q.n > 1 => q.place = "bottom"
  /\ q.place = "at" => q.n = 0
  /\ q.pc \notin {"respace", "write"} \/ q.place # "top" => q.before = <<>>
  /\ \A i, j \in DOMAIN q.before : q.before[i] = q.before[j] => i = j
  /\ q.prev = None <=> q.prevKey = NoKey
  /\ q.next = None <=> q.nextKey = NoKey
  /\ q.prev # None \/ q.next # None => q.place = "at" /\ q.key = indexForSlot(q.prevKey, q.nextKey)

CardRequestOK(q) == RequestBody(q) /\ (q.pc # "idle" => q.list \in q.touches)

\* The index a request is about to write is past the end of its list, or of no
\* other card in it, and what it respaced stands as it found it.
Ready(q) ==
  q.list \notin muddled /\ (q.pc = "write" \/ (q.pc = "find" /\ q.place = "at")) =>
    /\ q.place = "top" => \A d \in CardsIn(q.list) : q.key \prec keyOf(d)
    /\ q.place = "bottom" => \A d \in CardsIn(q.list) : keyOf(d) \prec q.key
    /\ q.place = "at" => \A d \in CardsIn(q.list) : d = q.card \/ keyOf(d) # q.key
    /\ \A i, j \in DOMAIN q.before :
         /\ q.before[i] \in CardsIn(q.list)
         /\ i < j => keyOf(q.before[i]) \prec keyOf(q.before[j])

\* A respace under way gives every card of its list the index of its place.
Spacing(q) ==
  q.list \notin muddled /\ q.pc = "respace" =>
    LET ix == generateNIndices(Len(q.before) + 1)
    IN  /\ ~q.failed /\ q.key = ix[1]
        /\ \A c : c \in CardsIn(q.list) <=> \E i \in DOMAIN q.before : q.before[i] = c
        /\ \A i \in DOMAIN q.before : ix[i + 1] = IF q.before[i] \in DOMAIN q.todo THEN q.todo[q.before[i]]
                                                  ELSE keyOf(q.before[i])

\* Two requests under way meet in muddled lists only.
KeptApart == \A r, s \in Request : r # s /\ active(r) /\ active(s) => req[r].touches \cap req[s].touches \subseteq muddled

CardsShape ==
  /\ cards \in [Card -> Placed \cup {None, Gone}]
  /\ started \in 0..MaxRequests /\ failures \in 0..MaxFailures
  /\ muddled \subseteq List
  /\ DOMAIN req = Request /\ req = [r \in Request |-> req[r]]
  /\ \A r \in Request : RequestType(req[r]) /\ CardRequestOK(req[r])

CardsInv == CardsShape /\ KeptApart /\ IndicesDistinct /\ \A r \in Request : Ready(req[r]) /\ Spacing(req[r])

DistinctIn(l) == \A c, d \in CardsIn(l) : keyOf(c) = keyOf(d) => c = d

Undisturbed(l) == \A c : /\ c \in CardsIn(l)' <=> c \in CardsIn(l)
                         /\ c \in CardsIn(l) => cards'[c] = cards[c]

-----------------------------------------------------------------------------

LEMMA CardFacts ==
  ASSUME CardsShape, NEW l
  PROVE  /\ \A c : c \in CardsIn(l) <=> c \in Card /\ isCard(c) /\ cards[c].list = l
         /\ \A c \in Card : isCard(c) => cards[c] \in Placed /\ cards[c].list \in List /\ keyOf(c) \in Key
         /\ \A c \in CardsIn(l) : keyOf(c) \in Key /\ keyOf(c) \in Seq(Letter)
<1>1. \A c \in Card : isCard(c) => cards[c] \in Placed
  BY DEF CardsShape, isCard
<1>2. \A c \in Card : isCard(c) => cards[c].list \in List /\ keyOf(c) \in Key
  BY ONLY <1>1 DEF Placed, keyOf
<1>3. \A c : c \in CardsIn(l) <=> c \in Card /\ isCard(c) /\ cards[c].list = l
  BY DEF CardsIn
<1>4. Key \subseteq Seq(Letter)
  BY DEF Key
<1> QED
  BY ONLY <1>1, <1>2, <1>3, <1>4

LEMMA CardsInList ==
  ASSUME NEW l
  PROVE  CardsIn(l) \subseteq Card /\ IsFiniteSet(CardsIn(l))
<1>1. CardsIn(l) \in SUBSET Card
  BY DEF CardsIn
<1> QED
  BY <1>1, CardOrderConstants, FS_Subset

\* Nothing that was read of a list is stale while the list is left alone.
LEMMA ReadStays ==
  ASSUME NEW q, Ready(q), Spacing(q), q.list \notin muddled' => q.list \notin muddled /\ Undisturbed(q.list)
  PROVE  Ready(q)' /\ Spacing(q)'
<1>1. CASE q.list \in muddled'
  BY <1>1 DEF Ready, Spacing
<1>2. CASE q.list \notin muddled'
  <2>1. q.list \notin muddled /\ q.list \notin muddled' /\ Undisturbed(q.list)
    BY <1>2
  <2>2. PICK l : l = q.list
    OBVIOUS
  <2>3. \A c : c \in CardsIn(l)' <=> c \in CardsIn(l)
    BY ONLY <2>1, <2>2 DEF Undisturbed
  <2>4. \A c \in CardsIn(l) : keyOf(c)' = keyOf(c)
    BY ONLY <2>1, <2>2 DEF Undisturbed, keyOf
  <2>5. Ready(q)'
    BY ONLY Ready(q), <2>1, <2>2, <2>3, <2>4 DEF Ready
  <2>6. Spacing(q)'
    <3> SUFFICES ASSUME q.pc = "respace" PROVE Spacing(q)'
      BY DEF Spacing
    <3>1. PICK ix : ix = generateNIndices(Len(q.before) + 1)
      OBVIOUS
    <3>2. /\ ~q.failed /\ q.key = ix[1]
          /\ \A c : c \in CardsIn(l) <=> \E i \in DOMAIN q.before : q.before[i] = c
          /\ \A i \in DOMAIN q.before : ix[i + 1] = IF q.before[i] \in DOMAIN q.todo THEN q.todo[q.before[i]]
                                                  ELSE keyOf(q.before[i])
      BY ONLY Spacing(q), q.pc = "respace", <2>1, <2>2, <3>1 DEF Spacing
    <3>3. /\ \A c : c \in CardsIn(l)' <=> \E i \in DOMAIN q.before : q.before[i] = c
          /\ \A i \in DOMAIN q.before : ix[i + 1] = IF q.before[i] \in DOMAIN q.todo THEN q.todo[q.before[i]]
                                                  ELSE keyOf(q.before[i])'
      BY ONLY <2>3, <2>4, <3>2
    <3> QED
      BY ONLY <2>2, <3>1, <3>2, <3>3 DEF Spacing
  <2> QED
    BY <2>5, <2>6
<1> QED
  BY <1>1, <1>2

\* One request takes a step: what is left to show of it.
LEMMA CardStepKeeps ==
  ASSUME CardsInv, NEW r \in Request, NEW y, req' = [req EXCEPT ![r] = y],
         RequestType(y), CardRequestOK(y), Ready(y)', Spacing(y)',
         cards' \in [Card -> Placed \cup {None, Gone}], started' \in 0..MaxRequests, failures' \in 0..MaxFailures,
         muddled \subseteq muddled', muddled' \subseteq List,
         \A s \in Request : s # r /\ active(s) => /\ y.pc # "idle" => y.touches \cap req[s].touches \subseteq muddled'
                                                  /\ req[s].list \notin muddled' => Undisturbed(req[s].list),
         \A l \in List : \/ l \in muddled'
                         \/ DistinctIn(l)'
                         \/ y.pc = "respace" /\ y.list = l
                         \/ \E s \in Request : s # r /\ req[s].pc = "respace" /\ req[s].list = l
  PROVE  CardsInv'
<1>1. CardsShape /\ KeptApart /\ \A s \in Request : Ready(req[s]) /\ Spacing(req[s])
  BY DEF CardsInv
<1>2. DOMAIN req = Request /\ \A s \in Request : RequestType(req[s]) /\ CardRequestOK(req[s])
  BY ONLY <1>1 DEF CardsShape
<1>3. /\ \A s \in Request : s # r => req'[s] = req[s]
      /\ req'[r] = y /\ DOMAIN req' = Request
  BY <1>2
<1>4. CardsShape'
  <2>1. req' = [s \in Request |-> req'[s]]
    BY <1>2
  <2>2. \A s \in Request : RequestType(req'[s]) /\ CardRequestOK(req'[s])
    BY <1>2, <1>3
  <2> QED
    BY <1>3, <2>1, <2>2 DEF CardsShape, RequestType, CardRequestOK, RequestBody
<1>5. KeptApart'
  <2> SUFFICES ASSUME NEW s \in Request, NEW t \in Request, s # t, req'[s].pc # "idle", req'[t].pc # "idle"
               PROVE  req'[s].touches \cap req'[t].touches \subseteq muddled'
    BY DEF KeptApart, active
  <2>1. \A u \in Request : u # r /\ req[u].pc # "idle" /\ y.pc # "idle" => y.touches \cap req[u].touches \subseteq muddled'
    BY DEF active
  <2>2. s # r /\ t # r => req[s].touches \cap req[t].touches \subseteq muddled
    BY <1>1, <1>3 DEF KeptApart, active
  <2>3. CASE s = r
    BY ONLY <1>3, <2>1, <2>3, s # t, req'[s].pc # "idle", req'[t].pc # "idle", t \in Request
  <2>4. CASE t = r
    BY ONLY <1>3, <2>1, <2>4, s # t, req'[s].pc # "idle", req'[t].pc # "idle", s \in Request
  <2>5. CASE s # r /\ t # r
    <3>1. muddled \subseteq muddled'
      OBVIOUS
    <3> QED
      BY ONLY <1>3, <2>2, <2>5, <3>1, s \in Request, t \in Request
  <2> QED
    BY ONLY <2>3, <2>4, <2>5
<1>6. ASSUME NEW s \in Request PROVE Ready(req[s])' /\ Spacing(req[s])'
  <2>1. CASE s = r
    BY <1>3, <2>1 DEF Ready, Spacing
  <2>2. CASE s # r
    <3>1. PICK q : q = req[s]
      OBVIOUS
    <3>2. req'[s] = q
      BY <1>3, <2>2, <3>1
    <3>3. Ready(q) /\ Spacing(q)
      BY <1>1, <3>1
    <3>4. CASE q.pc = "idle"
      BY ONLY <3>2, <3>4 DEF Ready, Spacing
    <3>5. CASE q.pc # "idle"
      <4>1. q.list \notin muddled' => q.list \notin muddled /\ Undisturbed(q.list)
        BY <2>2, <3>1, <3>5 DEF active
      <4>2. Ready(q)' /\ Spacing(q)'
        BY ONLY <3>3, <4>1, ReadStays
      <4> QED
        BY ONLY <3>2, <4>2 DEF Ready, Spacing
    <3> QED
      BY ONLY <3>4, <3>5
  <2> QED
    BY ONLY <2>1, <2>2
<1>7. IndicesDistinct'
  <2> SUFFICES ASSUME NEW l \in List, l \notin muddled', \A s \in Request : req'[s].pc = "respace" => req'[s].list # l
               PROVE  DistinctIn(l)'
    BY DEF IndicesDistinct, DistinctIn, at
  <2>1. ~(y.pc = "respace" /\ y.list = l)
    BY <1>3
  <2>2. ~(\E s \in Request : s # r /\ req[s].pc = "respace" /\ req[s].list = l)
    BY <1>3
  <2> QED
    BY <2>1, <2>2
<1> QED
  BY <1>4, <1>5, <1>6, <1>7 DEF CardsInv

\* A step that leaves the cards where they are.
LEMMA QuietStepKeeps ==
  ASSUME CardsInv, NEW r \in Request, NEW y, req' = [req EXCEPT ![r] = y],
         RequestType(y), CardRequestOK(y), Ready(y)', Spacing(y)',
         cards' = cards, started' \in 0..MaxRequests, failures' \in 0..MaxFailures,
         muddled \subseteq muddled', muddled' \subseteq List,
         \A s \in Request : s # r /\ active(s) /\ y.pc # "idle" => y.touches \cap req[s].touches \subseteq muddled',
         at(r, "respace") /\ req[r].list \notin muddled' => y.pc = "respace" /\ y.list = req[r].list
  PROVE  CardsInv'
<1>1. \A l : Undisturbed(l)
  BY DEF Undisturbed, CardsIn, isCard
<1>2. cards' \in [Card -> Placed \cup {None, Gone}]
  BY DEF CardsInv, CardsShape
<1>3. ASSUME NEW l \in List, l \notin muddled', ~(y.pc = "respace" /\ y.list = l),
             ~(\E s \in Request : s # r /\ req[s].pc = "respace" /\ req[s].list = l)
      PROVE  DistinctIn(l)'
  <2>1. \A s \in Request : at(s, "respace") => req[s].list # l
    BY <1>3 DEF at
  <2>2. DistinctIn(l)
    BY <1>3, <2>1 DEF CardsInv, IndicesDistinct, DistinctIn
  <2> QED
    BY <2>2 DEF DistinctIn, CardsIn, isCard, keyOf
<1>4. \A l \in List : \/ l \in muddled'
                      \/ DistinctIn(l)'
                      \/ y.pc = "respace" /\ y.list = l
                      \/ \E s \in Request : s # r /\ req[s].pc = "respace" /\ req[s].list = l
  BY ONLY <1>3
<1>5. \A s \in Request : s # r /\ active(s) => /\ y.pc # "idle" => y.touches \cap req[s].touches \subseteq muddled'
                                               /\ req[s].list \notin muddled' => Undisturbed(req[s].list)
  BY <1>1
<1> QED
  BY ONLY CardsInv, r \in Request, req' = [req EXCEPT ![r] = y],
         RequestType(y), CardRequestOK(y), Ready(y)', Spacing(y)', <1>2,
         started' \in 0..MaxRequests, failures' \in 0..MaxFailures,
         muddled \subseteq muddled', muddled' \subseteq List, <1>4, <1>5, CardStepKeeps

LEMMA IdleOK ==
  /\ RequestType(Idle) /\ CardRequestOK(Idle) /\ Ready(Idle) /\ Spacing(Idle) /\ Ready(Idle)' /\ Spacing(Idle)'
  /\ Idle.pc = "idle" /\ Idle.touches = {} /\ Idle.before = <<>>
<1>1. <<>> \in Seq(Card) /\ DOMAIN <<>> = {}
  OBVIOUS
<1>2. PICK q : q = Idle
  OBVIOUS
<1>3. /\ q.pc = "idle" /\ q.n = 0 /\ q.card = None /\ q.list = None /\ q.place = "bottom" /\ q.touches = {}
      /\ q.key = NoKey /\ q.todo = <<>> /\ q.before = <<>> /\ q.failed = FALSE
      /\ q.prev = None /\ q.next = None /\ q.prevKey = NoKey /\ q.nextKey = NoKey
  BY ONLY <1>2 DEF Idle
<1>4. RequestType(q)
  BY ONLY <1>1, <1>2, <1>3 DEF RequestType, Idle
<1>5. RequestBody(q)
  BY ONLY <1>1, <1>3 DEF RequestBody
<1>6. CardRequestOK(q)
  BY ONLY <1>3, <1>5 DEF CardRequestOK
<1>7. Ready(q) /\ Spacing(q) /\ Ready(q)' /\ Spacing(q)'
  BY ONLY <1>3 DEF Ready, Spacing
<1> QED
  BY ONLY <1>2, <1>3, <1>4, <1>6, <1>7

LEMMA OverlapFacts ==
  ASSUME CardsShape, NEW L \in SUBSET List
  PROVE  /\ OverlapOf(L) \subseteq List
         /\ \A s \in Request : active(s) /\ req[s].touches \cap L # {} =>
              L \subseteq OverlapOf(L) /\ req[s].touches \subseteq OverlapOf(L)
<1>1. \A s \in Request : req[s].touches \subseteq List
  BY DEF CardsShape, RequestType
<1> QED
  BY <1>1 DEF OverlapOf

\* A request arrives, and muddles what it shares with those under way.
LEMMA CardStartKeeps ==
  ASSUME CardsInv, NEW r \in Request, NEW call, NEW tight \in BOOLEAN, Start(r, call, tight),
         RequestType(call), RequestBody(call), call.pc \in {"find", "head", "tail"}, call.list \in List,
         call.place = "at" /\ ~tight => \A d \in CardsIn(call.list) : d = call.card \/ keyOf(d) # call.key
  PROVE  CardsInv'
<1> DEFINE lists == {call.list} \cup (IF call.card \in Card /\ isCard(call.card)
                                      THEN {cards[call.card].list} ELSE {})
<1>1. PICK L : L = lists
  OBVIOUS
<1>2. CardsShape
  BY DEF CardsInv
<1>3. L \in SUBSET List /\ call.list \in L
  BY <1>1, <1>2, CardFacts
<1>4. PICK y : y = [call EXCEPT !.touches = L]
  OBVIOUS
<1>5. /\ ~active(r) /\ started < MaxRequests /\ started' = started + 1
      /\ req' = [req EXCEPT ![r] = y]
      /\ muddled' = muddled \cup (OverlapOf(L) \cup (IF tight THEN {call.list} ELSE {}))
      /\ cards' = cards /\ failures' = failures
  BY <1>1, <1>4 DEF Start, Muddle
<1>6. /\ y.pc = call.pc /\ y.n = call.n /\ y.card = call.card /\ y.list = call.list /\ y.place = call.place
      /\ y.touches = L /\ y.failed = call.failed /\ y.key = call.key /\ y.todo = call.todo /\ y.before = call.before
      /\ y.prev = call.prev /\ y.next = call.next /\ y.prevKey = call.prevKey /\ y.nextKey = call.nextKey
      /\ RequestType(y)
  BY ONLY RequestType(call), <1>3, <1>4 DEF RequestType
<1>7. CardRequestOK(y)
  BY ONLY RequestBody(call), <1>3, <1>6 DEF CardRequestOK, RequestBody
<1>8. y.pc \in {"find", "head", "tail"} /\ y.before = <<>>
  BY ONLY RequestBody(call), call.pc \in {"find", "head", "tail"}, <1>6 DEF RequestBody
<1>9. Ready(y)'
  <2> SUFFICES ASSUME y.list \notin muddled', y.pc = "find", y.place = "at" PROVE Ready(y)'
    BY <1>8 DEF Ready
  <2>1. ~tight
    BY <1>5, <1>6
  <2>2. \A d \in CardsIn(y.list) : d = y.card \/ keyOf(d) # y.key
    BY <1>6, <2>1
  <2>3. \A d \in CardsIn(y.list)' : d = y.card \/ keyOf(d)' # y.key
    BY ONLY <1>5, <2>2 DEF CardsIn, isCard, keyOf
  <2>4. y.place = "at" /\ DOMAIN y.before = {}
    BY <1>8
  <2> QED
    BY ONLY <2>3, <2>4 DEF Ready
<1>10. Spacing(y)'
  BY ONLY <1>8 DEF Spacing
<1>11. /\ started' \in 0..MaxRequests /\ failures' \in 0..MaxFailures
  BY <1>2, <1>5, CardOrderConstants DEF CardsShape
<1>12. muddled \subseteq muddled' /\ muddled' \subseteq List
  <2>1. muddled \subseteq List /\ OverlapOf(L) \subseteq List
    BY <1>2, <1>3, OverlapFacts DEF CardsShape
  <2> QED
    BY ONLY <1>5, <2>1, call.list \in List
<1>13. \A s \in Request : s # r /\ active(s) /\ y.pc # "idle" => y.touches \cap req[s].touches \subseteq muddled'
  <2>1. ASSUME NEW s \in Request, active(s) PROVE L \cap req[s].touches \subseteq OverlapOf(L)
    BY <1>2, <1>3, <2>1, OverlapFacts
  <2> QED
    BY ONLY <1>5, <1>6, <2>1
<1>14. at(r, "respace") /\ req[r].list \notin muddled' => y.pc = "respace" /\ y.list = req[r].list
  BY <1>5 DEF active, at
<1> QED
  BY ONLY CardsInv, r \in Request, <1>5, <1>6, <1>7, <1>9, <1>10, <1>11, <1>12, <1>13, <1>14, QuietStepKeeps

LEMMA StartCreateKeeps == ASSUME CardsInv, NEW r \in Request, StartCreate(r) PROVE CardsInv'
<1>1. PICK l \in List, place \in {"top", "bottom"}, n \in 1..BulkSize :
        /\ n > 1 => place = "bottom"
        /\ Start(r, [Idle EXCEPT !.pc = IF place = "top" THEN "head" ELSE "tail",
                                 !.n = n, !.list = l, !.place = place], FALSE)
  BY DEF StartCreate
<1>2. PICK q : q = [Idle EXCEPT !.pc = IF place = "top" THEN "head" ELSE "tail",
                                !.n = n, !.list = l, !.place = place]
  OBVIOUS
<1>3. n \in Nat
  BY CardOrderConstants
<1>4. /\ q.pc = (IF place = "top" THEN "head" ELSE "tail") /\ q.n = n /\ q.list = l /\ q.place = place
      /\ q.key = NoKey /\ q.todo = <<>> /\ q.before = <<>> /\ q.failed = FALSE
      /\ q.prev = None /\ q.next = None /\ q.prevKey = NoKey /\ q.nextKey = NoKey
  BY ONLY <1>2 DEF Idle
<1>5. RequestType(q)
  <2>1. <<>> \in Seq(Card)
    OBVIOUS
  <2> QED
    BY ONLY <1>2, <1>3, <2>1, l \in List, place \in {"top", "bottom"} DEF RequestType, Idle
<1>6. RequestBody(q)
  <2>1. DOMAIN <<>> = {}
    OBVIOUS
  <2> QED
    BY ONLY <1>1, <1>4, <2>1, n \in 1..BulkSize, place \in {"top", "bottom"} DEF RequestBody
<1>7. /\ q.pc \in {"find", "head", "tail"} /\ q.list \in List
      /\ q.place = "at" /\ ~FALSE => \A d \in CardsIn(q.list) : d = q.card \/ keyOf(d) # q.key
  BY ONLY <1>4, l \in List, place \in {"top", "bottom"}
<1>8. Start(r, q, FALSE)
  BY <1>1, <1>2
<1> QED
  BY ONLY CardsInv, r \in Request, <1>5, <1>6, <1>7, <1>8, CardStartKeeps

LEMMA StartMoveKeeps == ASSUME CardsInv, NEW r \in Request, StartMove(r) PROVE CardsInv'
<1>1. PICK c \in Card, l \in List, place \in {"top", "bottom"} :
        Start(r, [Idle EXCEPT !.pc = "find", !.card = c, !.list = l, !.place = place], FALSE)
  BY DEF StartMove
<1>2. PICK q : q = [Idle EXCEPT !.pc = "find", !.card = c, !.list = l, !.place = place]
  OBVIOUS
<1>3. /\ q.pc = "find" /\ q.n = 0 /\ q.card = c /\ q.list = l /\ q.place = place
      /\ q.key = NoKey /\ q.todo = <<>> /\ q.before = <<>> /\ q.failed = FALSE
      /\ q.prev = None /\ q.next = None /\ q.prevKey = NoKey /\ q.nextKey = NoKey
  BY ONLY <1>2 DEF Idle
<1>4. RequestType(q)
  <2>1. <<>> \in Seq(Card)
    OBVIOUS
  <2> QED
    BY ONLY <1>2, <2>1, c \in Card, l \in List, place \in {"top", "bottom"} DEF RequestType, Idle
<1>5. RequestBody(q)
  <2>1. DOMAIN <<>> = {}
    OBVIOUS
  <2> QED
    BY ONLY <1>3, <2>1, c \in Card, place \in {"top", "bottom"} DEF RequestBody
<1>6. /\ q.pc \in {"find", "head", "tail"} /\ q.list \in List
      /\ q.place = "at" /\ ~FALSE => \A d \in CardsIn(q.list) : d = q.card \/ keyOf(d) # q.key
  BY ONLY <1>3, l \in List, place \in {"top", "bottom"}
<1>7. Start(r, q, FALSE)
  BY <1>1, <1>2
<1> QED
  BY ONLY CardsInv, r \in Request, <1>4, <1>5, <1>6, <1>7, CardStartKeeps

LEMMA StartForeignKeeps == ASSUME CardsInv, NEW r \in Request, StartForeign(r) PROVE CardsInv'
<1>1. PICK c \in Card, l \in List, k \in Key :
        Start(r, [Idle EXCEPT !.pc = "find", !.card = c, !.list = l, !.place = "at", !.key = k], TRUE)
  BY CardOrderConstants DEF StartForeign
<1>2. PICK q : q = [Idle EXCEPT !.pc = "find", !.card = c, !.list = l, !.place = "at", !.key = k]
  OBVIOUS
<1>3. /\ q.pc = "find" /\ q.n = 0 /\ q.card = c /\ q.list = l /\ q.place = "at"
      /\ q.key = k /\ q.todo = <<>> /\ q.before = <<>> /\ q.failed = FALSE
      /\ q.prev = None /\ q.next = None /\ q.prevKey = NoKey /\ q.nextKey = NoKey
  BY ONLY <1>2 DEF Idle
<1>4. RequestType(q)
  <2>1. <<>> \in Seq(Card)
    OBVIOUS
  <2> QED
    BY ONLY <1>2, <2>1, c \in Card, l \in List, k \in Key DEF RequestType, Idle
<1>5. RequestBody(q)
  <2>1. DOMAIN <<>> = {}
    OBVIOUS
  <2> QED
    BY ONLY <1>3, <2>1, c \in Card, k \in Key DEF RequestBody
<1>6. /\ q.pc \in {"find", "head", "tail"} /\ q.list \in List
      /\ q.place = "at" /\ ~TRUE => \A d \in CardsIn(q.list) : d = q.card \/ keyOf(d) # q.key
  BY ONLY <1>3, l \in List
<1>7. Start(r, q, TRUE)
  BY <1>1, <1>2
<1> QED
  BY ONLY CardsInv, r \in Request, <1>4, <1>5, <1>6, <1>7, CardStartKeeps

\* An index between the neighbours of a slot is no other card's.
LEMMA SlotIsFree ==
  ASSUME CardsShape, NEW c \in Card, NEW l \in List, NEW s \in Slots(l, c), NEW k \in Key,
         s.prev # None => keyOf(s.prev) \prec k, s.next # None => k \prec keyOf(s.next),
         NEW d \in CardsIn(l), d # c
  PROVE  keyOf(d) # k
<1>1. SUFFICES ASSUME keyOf(d) = k PROVE FALSE
  OBVIOUS
<1> DEFINE rest == CardsIn(l) \ {c}
<1>2. /\ \A e \in CardsIn(l) : keyOf(e) \in Seq(Letter)
      /\ d \in rest /\ k \in Seq(Letter)
  BY CardFacts DEF Key
<1>3. CASE s.prev = None /\ s.next = None
  BY <1>2, <1>3 DEF Slots
<1>4. CASE s.prev = None /\ s.next # None
  BY <1>1, <1>2, <1>4 DEF Slots
<1>5. CASE s.prev # None /\ s.next = None
  BY <1>1, <1>2, <1>5 DEF Slots
<1>6. CASE s.prev # None /\ s.next # None
  <2>1. Between(s.prev, s.next, l, c) = {}
    BY <1>6 DEF Slots
  <2>2. keyOf(s.prev) \prec keyOf(d) /\ keyOf(d) \prec keyOf(s.next)
    BY <1>1, <1>6
  <2>3. d \in {s.prev, s.next}
    BY <2>1, <2>2 DEF Between
  <2>4. ~(keyOf(d) \prec keyOf(d))
    BY <1>2, Irreflexive
  <2> QED
    BY ONLY <2>2, <2>3, <2>4
<1> QED
  BY <1>3, <1>4, <1>5, <1>6

LEMMA StartDropKeeps == ASSUME CardsInv, NEW r \in Request, StartDrop(r) PROVE CardsInv'
<1>0. PICK c \in {d \in Card : isCard(d)}, l \in List : \E s \in Slots(l, c) :
        LET prevKey == IF s.prev = None THEN NoKey ELSE keyOf(s.prev)
            nextKey == IF s.next = None THEN NoKey ELSE keyOf(s.next)
            key     == indexForSlot(prevKey, nextKey)
            call    == [Idle EXCEPT !.pc = "find", !.card = c, !.list = l]
        IN  IF key = NoKey
            THEN Start(r, [call EXCEPT !.place = "top"], FALSE)
            ELSE Start(r, [call EXCEPT !.place = "at", !.key = key, !.prev = s.prev,
                             !.next = s.next, !.prevKey = prevKey, !.nextKey = nextKey],
                       \/ prevKey # NoKey /\ ~(prevKey \prec key)
                       \/ nextKey # NoKey /\ ~(key \prec nextKey))
  BY DEF StartDrop
<1>1. PICK s \in Slots(l, c) :
        LET prevKey == IF s.prev = None THEN NoKey ELSE keyOf(s.prev)
            nextKey == IF s.next = None THEN NoKey ELSE keyOf(s.next)
            key     == indexForSlot(prevKey, nextKey)
            call    == [Idle EXCEPT !.pc = "find", !.card = c, !.list = l]
        IN  IF key = NoKey
            THEN Start(r, [call EXCEPT !.place = "top"], FALSE)
            ELSE Start(r, [call EXCEPT !.place = "at", !.key = key, !.prev = s.prev,
                             !.next = s.next, !.prevKey = prevKey, !.nextKey = nextKey],
                       \/ prevKey # NoKey /\ ~(prevKey \prec key)
                       \/ nextKey # NoKey /\ ~(key \prec nextKey))
  BY <1>0
<1>2. PICK p, n, k : /\ p = (IF s.prev = None THEN NoKey ELSE keyOf(s.prev))
                     /\ n = (IF s.next = None THEN NoKey ELSE keyOf(s.next))
                     /\ k = indexForSlot(p, n)
  OBVIOUS
<1>3. CardsShape /\ c \in Card /\ NoKey \notin Key /\ None \notin Card
  BY CardOrderConstants DEF CardsInv
<1>4. /\ s.prev \in Card \cup {None} /\ s.next \in Card \cup {None}
      /\ p \in Key \cup {NoKey} /\ n \in Key \cup {NoKey}
      /\ s.prev = None <=> p = NoKey
      /\ s.next = None <=> n = NoKey
  <2>1. s.prev \in CardsIn(l) \cup {None} /\ s.next \in CardsIn(l) \cup {None}
    BY DEF Slots
  <2>2. \A d \in CardsIn(l) : d \in Card /\ keyOf(d) \in Key
    BY <1>3, CardFacts
  <2> QED
    BY ONLY <1>2, <1>3, <2>1, <2>2
<1>5. k \in Key \cup {NoKey}
  BY ONLY <1>2, <1>3, <1>4, SlotIsKey
<1>6. <<>> \in Seq(Card) /\ DOMAIN <<>> = {}
  OBVIOUS
<1>7. CASE k = NoKey
  <2>1. PICK q : q = [[Idle EXCEPT !.pc = "find", !.card = c, !.list = l] EXCEPT !.place = "top"]
    OBVIOUS
  <2>2. /\ q.pc = "find" /\ q.n = 0 /\ q.card = c /\ q.list = l /\ q.place = "top"
        /\ q.key = NoKey /\ q.todo = <<>> /\ q.before = <<>> /\ q.failed = FALSE
        /\ q.prev = None /\ q.next = None /\ q.prevKey = NoKey /\ q.nextKey = NoKey
    BY ONLY <2>1 DEF Idle
  <2>3. RequestType(q)
    BY ONLY <1>3, <1>6, <2>1, l \in List DEF RequestType, Idle
  <2>4. RequestBody(q)
    BY ONLY <1>3, <1>6, <2>2 DEF RequestBody
  <2>5. /\ q.pc \in {"find", "head", "tail"} /\ q.list \in List
        /\ q.place = "at" /\ ~FALSE => \A d \in CardsIn(q.list) : d = q.card \/ keyOf(d) # q.key
    BY ONLY <2>2, l \in List
  <2>6. Start(r, q, FALSE)
    BY <1>1, <1>2, <1>7, <2>1
  <2> QED
    BY ONLY CardsInv, r \in Request, <2>3, <2>4, <2>5, <2>6, CardStartKeeps
<1>8. CASE k # NoKey
  <2>1. PICK q : q = [[Idle EXCEPT !.pc = "find", !.card = c, !.list = l] EXCEPT !.place = "at", !.key = k,
                        !.prev = s.prev, !.next = s.next, !.prevKey = p, !.nextKey = n]
    OBVIOUS
  <2>2. PICK tight \in BOOLEAN : tight = (\/ p # NoKey /\ ~(p \prec k)
                                          \/ n # NoKey /\ ~(k \prec n))
    OBVIOUS
  <2>3. /\ q.pc = "find" /\ q.n = 0 /\ q.card = c /\ q.list = l /\ q.place = "at"
        /\ q.key = k /\ q.todo = <<>> /\ q.before = <<>> /\ q.failed = FALSE
        /\ q.prev = s.prev /\ q.next = s.next /\ q.prevKey = p /\ q.nextKey = n
    BY ONLY <2>1 DEF Idle
  <2>4. RequestType(q)
    BY ONLY <1>3, <1>4, <1>5, <1>6, <2>1, l \in List, ZenonT(60) DEF RequestType, Idle
  <2>5. RequestBody(q)
    BY ONLY <1>2, <1>3, <1>4, <1>5, <1>6, <1>8, <2>3 DEF RequestBody
  <2>6. /\ q.pc \in {"find", "head", "tail"} /\ q.list \in List
    BY ONLY <2>3, l \in List
  <2>7. ASSUME ~tight, NEW d \in CardsIn(l), d # c PROVE keyOf(d) # k
    <3>1. s.prev # None => keyOf(s.prev) \prec k
      BY ONLY <1>2, <1>4, <2>2, <2>7
    <3>2. s.next # None => k \prec keyOf(s.next)
      BY ONLY <1>2, <1>4, <2>2, <2>7
    <3>3. k \in Key
      BY <1>5, <1>8
    <3> QED
      BY ONLY <1>3, <2>7, <3>1, <3>2, <3>3, s \in Slots(l, c), l \in List, d \in CardsIn(l), SlotIsFree
  <2>8. q.place = "at" /\ ~tight => \A d \in CardsIn(q.list) : d = q.card \/ keyOf(d) # q.key
    BY ONLY <2>3, <2>7
  <2>9. Start(r, q, tight)
    BY <1>1, <1>2, <1>8, <2>1, <2>2
  <2> QED
    BY ONLY CardsInv, r \in Request, tight \in BOOLEAN, <2>4, <2>5, <2>6, <2>8, <2>9, CardStartKeeps
<1> QED
  BY <1>7, <1>8

LEMMA RequestFacts ==
  ASSUME CardsInv, NEW r \in Request
  PROVE  /\ RequestType(req[r]) /\ CardRequestOK(req[r]) /\ RequestBody(req[r]) /\ Ready(req[r]) /\ Spacing(req[r])
         /\ active(r) => req[r].list \in req[r].touches /\ req[r].list \in List /\ req[r].touches \subseteq List
<1>1. PICK q : q = req[r]
  OBVIOUS
<1>2. RequestType(q) /\ CardRequestOK(q) /\ Ready(q) /\ Spacing(q)
  BY <1>1 DEF CardsInv, CardsShape
<1>3. RequestBody(q) /\ (q.pc # "idle" => q.list \in q.touches) /\ q.touches \subseteq List
  BY ONLY <1>2 DEF CardRequestOK, RequestType
<1> QED
  BY ONLY <1>1, <1>2, <1>3 DEF active

\* A request that goes on, or ends, and leaves the cards alone.
LEMMA GoesOnKeeps ==
  ASSUME CardsInv, NEW r \in Request, active(r), NEW y, req' = [req EXCEPT ![r] = y],
         RequestType(y), CardRequestOK(y), Ready(y)', Spacing(y)',
         y.pc = "idle" \/ y.touches = req[r].touches,
         cards' = cards, started' = started, failures' \in 0..MaxFailures,
         muddled \subseteq muddled', muddled' \subseteq List,
         at(r, "respace") => req[r].list \in muddled'
  PROVE  CardsInv'
<1>1. \A s \in Request : s # r /\ active(s) /\ y.pc # "idle" => y.touches \cap req[s].touches \subseteq muddled'
  BY DEF CardsInv, KeptApart
<1>2. started' \in 0..MaxRequests
  BY DEF CardsInv, CardsShape
<1>3. at(r, "respace") /\ req[r].list \notin muddled' => y.pc = "respace" /\ y.list = req[r].list
  OBVIOUS
<1> QED
  BY ONLY CardsInv, r \in Request, req' = [req EXCEPT ![r] = y],
         RequestType(y), CardRequestOK(y), Ready(y)', Spacing(y)', cards' = cards, failures' \in 0..MaxFailures,
         muddled \subseteq muddled', muddled' \subseteq List, <1>1, <1>2, <1>3, QuietStepKeeps

LEMMA FindKeeps == ASSUME CardsInv, NEW r \in Request, Find(r) PROVE CardsInv'
<1>1. PICK q : q = req[r]
  OBVIOUS
<1>2. /\ q.pc = "find" /\ active(r) /\ ~at(r, "respace")
      /\ cards' = cards /\ started' = started /\ failures' = failures /\ muddled' = muddled
  BY <1>1 DEF Find, at, active
<1>3. RequestType(q) /\ CardRequestOK(q) /\ RequestBody(q) /\ Ready(q)
  BY <1>1, RequestFacts
<1>4. failures' \in 0..MaxFailures /\ muddled \subseteq muddled' /\ muddled' \subseteq List
  BY <1>2 DEF CardsInv, CardsShape
<1>5. CASE ~isCard(q.card)
  <2>1. req' = [req EXCEPT ![r] = Idle]
    BY <1>1, <1>5 DEF Find, Return
  <2> QED
    BY ONLY CardsInv, r \in Request, <1>2, <1>4, <2>1, IdleOK, GoesOnKeeps
<1>6. CASE isCard(q.card)
  <2>1. PICK pc : pc = CASE q.place = "top"    -> "head"
                         [] q.place = "bottom" -> "tail"
                         [] OTHER              -> "write"
    OBVIOUS
  <2>2. PICK y : y = [q EXCEPT !.pc = pc]
    OBVIOUS
  <2>3. req' = [req EXCEPT ![r] = y]
    BY <1>1, <1>6, <2>1, <2>2 DEF Find, Goto
  <2>4. q.place \in {"top", "bottom", "at"}
    BY <1>3 DEF RequestType
  <2>5. /\ RequestType(y) /\ y.pc = pc /\ y.n = q.n /\ y.card = q.card /\ y.list = q.list /\ y.place = q.place
        /\ y.touches = q.touches /\ y.key = q.key /\ y.todo = q.todo /\ y.before = q.before /\ y.failed = q.failed
        /\ y.prev = q.prev /\ y.next = q.next /\ y.prevKey = q.prevKey /\ y.nextKey = q.nextKey
    BY ONLY <1>3, <2>1, <2>2, <2>4 DEF RequestType
  <2>6. CardRequestOK(y) /\ y.before = <<>>
    BY ONLY <1>2, <1>3, <2>1, <2>4, <2>5 DEF CardRequestOK, RequestBody
  <2>7. Ready(y)'
    <3>1. y.pc # "find"
      BY ONLY <2>1, <2>4, <2>5
    <3>2. y.list \in muddled' => Ready(y)'
      BY DEF Ready
    <3>3. y.pc # "write" => Ready(y)'
      BY ONLY <3>1 DEF Ready
    <3>4. CASE y.list \notin muddled' /\ y.pc = "write"
      <4>1. y.place = "at"
        BY ONLY <2>1, <2>4, <2>5, <3>4
      <4>2. \A d \in CardsIn(y.list) : d = y.card \/ keyOf(d) # y.key
        BY ONLY <1>2, <1>3, <2>5, <3>4, <4>1 DEF Ready
      <4>3. \A d \in CardsIn(y.list)' : d = y.card \/ keyOf(d)' # y.key
        BY ONLY <1>2, <4>2 DEF CardsIn, isCard, keyOf
      <4>4. DOMAIN y.before = {}
        BY <2>6
      <4> QED
        BY ONLY <4>1, <4>3, <4>4 DEF Ready
    <3> QED
      BY <3>2, <3>3, <3>4
  <2>8. Spacing(y)'
    BY ONLY <2>1, <2>4, <2>5 DEF Spacing
  <2>9. y.touches = req[r].touches
    BY <1>1, <2>5
  <2> QED
    BY ONLY CardsInv, r \in Request, <1>2, <1>4, <2>3, <2>5, <2>6, <2>7, <2>8, <2>9, GoesOnKeeps
<1> QED
  BY <1>5, <1>6

\* The index for an end of the list is past every card's.
LEMMA ResolvedKeeps ==
  ASSUME CardsInv, NEW r \in Request, NEW k \in Key, at(r, "head") \/ at(r, "tail"), Resolved(r, k),
         UNCHANGED <<cards, started, failures, muddled>>,
         at(r, "head") => \A d \in CardsIn(req[r].list) : k \prec keyOf(d),
         at(r, "tail") => \A d \in CardsIn(req[r].list) : keyOf(d) \prec k
  PROVE  CardsInv'
<1>1. PICK q : q = req[r]
  OBVIOUS
<1>2. /\ active(r) /\ ~at(r, "respace") /\ q.pc \in {"head", "tail"}
      /\ cards' = cards /\ started' = started /\ failures' = failures /\ muddled' = muddled
  BY <1>1 DEF at, active
<1>3. RequestType(q) /\ CardRequestOK(q) /\ RequestBody(q)
  BY <1>1, RequestFacts
<1>4. failures' \in 0..MaxFailures /\ muddled \subseteq muddled' /\ muddled' \subseteq List
  BY <1>2 DEF CardsInv, CardsShape
<1>5. PICK y : y = [q EXCEPT !.pc = "write", !.key = k]
  OBVIOUS
<1>6. req' = [req EXCEPT ![r] = y]
  BY <1>1, <1>5 DEF Resolved
<1>7. /\ RequestType(y) /\ y.pc = "write" /\ y.n = q.n /\ y.card = q.card /\ y.list = q.list /\ y.place = q.place
      /\ y.touches = q.touches /\ y.key = k /\ y.todo = q.todo /\ y.before = q.before /\ y.failed = q.failed
      /\ y.prev = q.prev /\ y.next = q.next /\ y.prevKey = q.prevKey /\ y.nextKey = q.nextKey
  BY ONLY <1>3, <1>5, k \in Key DEF RequestType
<1>8. /\ CardRequestOK(y) /\ y.before = <<>>
      /\ y.place = "top" <=> q.pc = "head"
      /\ y.place = "bottom" <=> q.pc = "tail"
      /\ y.place # "at"
  BY ONLY <1>2, <1>3, <1>7, k \in Key DEF CardRequestOK, RequestBody
<1>9. Ready(y)'
  <2>1. /\ y.place = "top" => \A d \in CardsIn(y.list) : k \prec keyOf(d)
        /\ y.place = "bottom" => \A d \in CardsIn(y.list) : keyOf(d) \prec k
    BY <1>1, <1>7, <1>8 DEF at
  <2>2. /\ y.place = "top" => \A d \in CardsIn(y.list)' : y.key \prec keyOf(d)'
        /\ y.place = "bottom" => \A d \in CardsIn(y.list)' : keyOf(d)' \prec y.key
    BY ONLY <1>2, <1>7, <2>1 DEF CardsIn, isCard, keyOf
  <2>3. DOMAIN y.before = {}
    BY <1>8
  <2> QED
    BY ONLY <1>8, <2>2, <2>3 DEF Ready
<1>10. Spacing(y)'
  BY ONLY <1>7 DEF Spacing
<1>11. y.touches = req[r].touches
  BY <1>1, <1>7
<1> QED
  BY ONLY CardsInv, r \in Request, <1>2, <1>4, <1>6, <1>7, <1>8, <1>9, <1>10, <1>11, GoesOnKeeps

LEMMA ReadTailKeeps == ASSUME CardsInv, NEW r \in Request, ReadTail(r) PROVE CardsInv'
<1>1. PICK l : l = req[r].list
  OBVIOUS
<1>2. at(r, "tail") /\ ~at(r, "head") /\ UNCHANGED <<cards, started, failures, muddled>>
  BY DEF ReadTail, at
<1>3. \A d \in CardsIn(l) : keyOf(d) \in Key /\ keyOf(d) \in Seq(Letter)
  BY CardFacts DEF CardsInv
<1>4. CASE CardsIn(l) = {}
  <2>1. Resolved(r, generateInitialIndex)
    BY <1>1, <1>4 DEF ReadTail
  <2>2. \A d \in CardsIn(req[r].list) : keyOf(d) \prec generateInitialIndex
    BY <1>1, <1>4
  <2> QED
    BY ONLY CardsInv, r \in Request, <1>2, <2>1, <2>2, InitialIsKey, ResolvedKeeps
<1>5. CASE CardsIn(l) # {}
  <2>1. PICK c \in CardsIn(l) : /\ \A d \in CardsIn(l) : ~(keyOf(c) \prec keyOf(d))
                                /\ Resolved(r, generateIndexAfter(keyOf(c)))
    BY <1>1, <1>5 DEF ReadTail
  <2>2. PICK k, x : k = generateIndexAfter(keyOf(c)) /\ x = keyOf(c)
    OBVIOUS
  <2>3. x \in Key /\ x \in Seq(Letter)
    BY <1>3, <2>2
  <2>4. k \in Key /\ x \prec k
    BY ONLY <2>2, <2>3, AfterIsAfter
  <2>5. ASSUME NEW d \in CardsIn(l) PROVE keyOf(d) \prec k
    <3>1. PICK z : z = keyOf(d)
      OBVIOUS
    <3>2. z \in Seq(Letter) /\ ~(x \prec z) /\ k \in Seq(Letter)
      BY <1>3, <2>1, <2>2, <2>4, <3>1 DEF Key
    <3>3. z \prec x \/ z = x
      BY ONLY <2>3, <3>2, Total
    <3>4. z \prec k
      BY ONLY <2>3, <2>4, <3>2, <3>3, Transitive
    <3> QED
      BY <3>1, <3>4
  <2>6. \A d \in CardsIn(req[r].list) : keyOf(d) \prec k
    BY <1>1, <2>5
  <2>7. Resolved(r, k)
    BY <2>1, <2>2
  <2> QED
    BY ONLY CardsInv, r \in Request, <1>2, <2>4, <2>6, <2>7, ResolvedKeeps
<1> QED
  BY <1>4, <1>5

\* The lowest card's index, lowered, is below every card's.
LEMMA HeadKeyIsBelow ==
  ASSUME CardsShape, NEW l \in List, CardsIn(l) # {}, HeadKey(l) # NoKey
  PROVE  HeadKey(l) \in Key /\ \A d \in CardsIn(l) : HeadKey(l) \prec keyOf(d)
<1> DEFINE head == CHOOSE c \in CardsIn(l) : \A d \in CardsIn(l) : ~(keyOf(d) \prec keyOf(c))
<1> HIDE DEF head
<1>1. \A d \in CardsIn(l) : keyOf(d) \in Key /\ keyOf(d) \in Seq(Letter)
  BY CardFacts
<1>2. \E c \in CardsIn(l) : \A d \in CardsIn(l) : ~(keyOf(d) \prec keyOf(c))
  <2>1. PICK key : key = [c \in CardsIn(l) |-> keyOf(c)]
    OBVIOUS
  <2>2. \A c \in CardsIn(l) : key[c] = keyOf(c) /\ key[c] \in Seq(Letter)
    BY <1>1, <2>1
  <2>3. IsFiniteSet(CardsIn(l))
    BY CardsInList
  <2>4. \E c \in CardsIn(l) : \A d \in CardsIn(l) : ~(key[d] \prec key[c])
    BY ONLY <2>2, <2>3, CardsIn(l) # {}, LowestRow
  <2> QED
    BY ONLY <2>2, <2>4
<1>3. head \in CardsIn(l) /\ \A d \in CardsIn(l) : ~(keyOf(d) \prec keyOf(head))
  BY ONLY <1>2 DEF head
<1>4. PICK x, k : x = keyOf(head) /\ k = generateIndexBefore(x)
  OBVIOUS
<1>5. HeadKey(l) = k
  BY <1>4 DEF HeadKey, head
<1>6. x \in Key /\ x \in Seq(Letter) /\ k # NoKey
  BY <1>1, <1>3, <1>4, <1>5
<1>7. k \in Key /\ k \prec x
  BY ONLY <1>4, <1>6, BeforeIsBefore
<1>8. ASSUME NEW d \in CardsIn(l) PROVE k \prec keyOf(d)
  <2>1. PICK z : z = keyOf(d)
    OBVIOUS
  <2>2. z \in Seq(Letter) /\ ~(z \prec x) /\ k \in Seq(Letter)
    BY <1>1, <1>3, <1>4, <1>7, <2>1 DEF Key
  <2>3. x \prec z \/ z = x
    BY ONLY <1>6, <2>2, Total
  <2>4. k \prec z
    BY ONLY <1>6, <1>7, <2>2, <2>3, Transitive
  <2> QED
    BY <2>1, <2>4
<1> QED
  BY <1>5, <1>7, <1>8

LEMMA ReadHeadKeeps == ASSUME CardsInv, NEW r \in Request, ReadHead(r) PROVE CardsInv'
<1>1. PICK l : l = req[r].list
  OBVIOUS
<1>2. at(r, "head") /\ ~at(r, "tail") /\ active(r) /\ UNCHANGED <<cards, started, failures, muddled>>
  BY DEF ReadHead, at, active
<1>3. l \in List /\ CardsShape
  BY <1>1, <1>2, RequestFacts DEF CardsInv
<1>4. CASE CardsIn(l) = {}
  <2>1. Resolved(r, generateInitialIndex)
    BY <1>1, <1>4 DEF ReadHead
  <2>2. \A d \in CardsIn(req[r].list) : generateInitialIndex \prec keyOf(d)
    BY <1>1, <1>4
  <2> QED
    BY ONLY CardsInv, r \in Request, <1>2, <2>1, <2>2, InitialIsKey, ResolvedKeeps
<1>5. CASE CardsIn(l) # {} /\ HeadKey(l) # NoKey
  <2>1. PICK k : k = HeadKey(l)
    OBVIOUS
  <2>2. Resolved(r, k)
    BY <1>1, <1>5, <2>1 DEF ReadHead
  <2>3. k \in Key /\ \A d \in CardsIn(req[r].list) : k \prec keyOf(d)
    BY ONLY <1>1, <1>3, <1>5, <2>1, HeadKeyIsBelow
  <2> QED
    BY ONLY CardsInv, r \in Request, <1>2, <2>2, <2>3, ResolvedKeeps
<1>6. CASE CardsIn(l) # {} /\ HeadKey(l) = NoKey
  <2>1. PICK s \in Ordered(l) : Respaced(r, s, 1)
    BY <1>1, <1>6 DEF ReadHead
  <2>2. /\ CardsIn(l) \subseteq Card /\ s \in Seq(CardsIn(l)) /\ \A c \in CardsIn(l) : \E i \in DOMAIN s : s[i] = c
        /\ \A i, j \in DOMAIN s : s[i] = s[j] => i = j
    <3>1. s \in SetToSeqs(CardsIn(l))
      BY DEF Ordered
    <3> QED
      BY <3>1, CardsInList, SequencesOfSet
  <2>3. PICK n \in Nat : n = Len(s) /\ DOMAIN s = 1..n
    BY <2>2
  <2>4. s \in Seq(Card) /\ \A i \in 1..n : s[i] \in CardsIn(l)
    BY ONLY <2>2, <2>3
  <2>5. PICK ix : ix = generateNIndices(n + 1)
    OBVIOUS
  <2>6. \A i \in 1..(n + 1) : ix[i] \in Key
    BY ONLY <2>5, n \in Nat, SpacedAscend
  <2>7. 1 \in 1..(n + 1) /\ \A i \in 1..n : 1 + i \in 1..(n + 1) /\ i + 1 = 1 + i
    BY ONLY n \in Nat
  <2>8. PICK todo : todo = [c \in CardsIn(l) |-> ix[1 + CHOOSE i \in 1..n : s[i] = c]]
    OBVIOUS
  <2>9. /\ DOMAIN todo = CardsIn(l)
        /\ \A i \in 1..n : todo[s[i]] = ix[1 + i]
    <3>1. ASSUME NEW i \in 1..n PROVE todo[s[i]] = ix[1 + i]
      <4>1. (CHOOSE h \in 1..n : s[h] = s[i]) = i
        BY ONLY <2>2, <2>3, i \in 1..n
      <4>2. s[i] \in CardsIn(l)
        BY ONLY <2>4, i \in 1..n
      <4> QED
        BY ONLY <2>8, <4>1, <4>2
    <3> QED
      BY ONLY <2>8, <3>1
  <2>10. \A c \in DOMAIN todo : c \in Card /\ todo[c] \in Key /\ \E i \in DOMAIN s : s[i] = c
    BY ONLY <2>2, <2>3, <2>6, <2>7, <2>9
  <2>11. PICK q, y : q = req[r] /\ y = [q EXCEPT !.pc = "respace", !.key = ix[1], !.before = s, !.todo = todo]
    OBVIOUS
  <2>12. req' = [req EXCEPT ![r] = y]
    BY <1>1, <2>1, <2>3, <2>5, <2>8, <2>11 DEF Respaced
  <2>13. RequestType(q) /\ CardRequestOK(q) /\ RequestBody(q) /\ q.pc = "head"
    BY <1>2, <2>11, RequestFacts DEF at
  <2>14. ix[1] \in Key
    BY <2>6, <2>7
  <2>15. /\ RequestType(y) /\ y.pc = "respace" /\ y.n = q.n /\ y.card = q.card /\ y.list = q.list
         /\ y.place = q.place /\ y.touches = q.touches /\ y.key = ix[1] /\ y.todo = todo /\ y.before = s
         /\ y.failed = q.failed
         /\ y.prev = q.prev /\ y.next = q.next /\ y.prevKey = q.prevKey /\ y.nextKey = q.nextKey
    BY ONLY <2>4, <2>11, <2>13, <2>14 DEF RequestType
  <2>16. CardRequestOK(y) /\ ~q.failed
    BY ONLY <2>2, <2>10, <2>13, <2>14, <2>15 DEF CardRequestOK, RequestBody
  <2>17. Ready(y)'
    BY ONLY <2>15 DEF Ready
  <2>18. Spacing(y)'
    <3>1. y.list = l
      BY <1>1, <2>11, <2>15
    <3>2. CardsIn(l)' = CardsIn(l)
      BY <1>2 DEF CardsIn, isCard
    <3>3. \A c : c \in CardsIn(l)' <=> \E i \in DOMAIN s : s[i] = c
      BY ONLY <2>2, <2>3, <2>4, <3>2
    <3>4. \A i \in DOMAIN s : s[i] \in DOMAIN todo /\ ix[i + 1] = todo[s[i]]
      BY ONLY <2>3, <2>4, <2>7, <2>9
    <3> QED
      BY ONLY <2>3, <2>5, <2>15, <2>16, <3>1, <3>3, <3>4 DEF Spacing
  <2>19. muddled' = muddled /\ cards' = cards /\ started' = started /\ failures' = failures
    BY <1>2
  <2>20. /\ started' \in 0..MaxRequests /\ failures' \in 0..MaxFailures
         /\ muddled \subseteq muddled' /\ muddled' \subseteq List
    BY <1>3, <2>19 DEF CardsShape
  <2>21. \A t \in Request : t # r /\ active(t) /\ y.pc # "idle" => y.touches \cap req[t].touches \subseteq muddled'
    BY <1>2, <2>11, <2>15, <2>19 DEF CardsInv, KeptApart
  <2>22. at(r, "respace") /\ req[r].list \notin muddled' => y.pc = "respace" /\ y.list = req[r].list
    BY <1>2 DEF at
  <2> QED
    BY ONLY CardsInv, r \in Request, <2>12, <2>15, <2>16, <2>17, <2>18, <2>19, <2>20, <2>21, <2>22, QuietStepKeeps
<1> QED
  BY <1>4, <1>5, <1>6

\* A request that fails half-way through a respace muddles its list.
LEMMA CardFailKeeps == ASSUME CardsInv, NEW r \in Request, Fail(r) PROVE CardsInv'
<1>1. /\ active(r) /\ failures < MaxFailures /\ failures' = failures + 1 /\ req' = [req EXCEPT ![r] = Idle]
      /\ muddled' = muddled \cup (IF at(r, "respace") THEN req[r].touches ELSE {})
      /\ cards' = cards /\ started' = started
  BY DEF Fail, Return, Muddle
<1>2. req[r].list \in req[r].touches /\ req[r].touches \subseteq List
  BY <1>1, RequestFacts
<1>3. failures' \in 0..MaxFailures
  BY <1>1, CardOrderConstants DEF CardsInv, CardsShape
<1>4. muddled \subseteq muddled' /\ muddled' \subseteq List /\ (at(r, "respace") => req[r].list \in muddled')
  BY <1>1, <1>2 DEF CardsInv, CardsShape
<1> QED
  BY ONLY CardsInv, r \in Request, <1>1, <1>3, <1>4, IdleOK, GoesOnKeeps

LEMMA RespaceFailsKeeps == ASSUME CardsInv, NEW r \in Request, RespaceFails(r) PROVE CardsInv'
<1>1. PICK q : q = req[r]
  OBVIOUS
<1>2. /\ q.pc = "respace" /\ active(r) /\ failures < MaxFailures /\ failures' = failures + 1
      /\ muddled' = muddled \cup q.touches /\ cards' = cards /\ started' = started
  BY <1>1 DEF RespaceFails, Muddle, at, active
<1>3. RequestType(q) /\ CardRequestOK(q) /\ RequestBody(q) /\ q.list \in q.touches /\ q.touches \subseteq List
  BY <1>1, <1>2, RequestFacts
<1>4. PICK c \in DOMAIN q.todo : Settle(r, c, TRUE)
  BY <1>1 DEF RespaceFails
<1>5. PICK rest : rest = [d \in DOMAIN q.todo \ {c} |-> q.todo[d]]
  OBVIOUS
<1>6. failures' \in 0..MaxFailures
  BY <1>2, CardOrderConstants DEF CardsInv, CardsShape
<1>7. muddled \subseteq muddled' /\ muddled' \subseteq List /\ (at(r, "respace") => req[r].list \in muddled')
  BY <1>1, <1>2, <1>3 DEF CardsInv, CardsShape
<1>8. CASE DOMAIN rest = {}
  <2>1. req' = [req EXCEPT ![r] = Idle]
    BY <1>1, <1>4, <1>5, <1>8 DEF Settle
  <2> QED
    BY ONLY CardsInv, r \in Request, <1>2, <1>6, <1>7, <2>1, IdleOK, GoesOnKeeps
<1>9. CASE DOMAIN rest # {}
  <2>1. PICK y : y = [q EXCEPT !.todo = rest, !.failed = TRUE]
    OBVIOUS
  <2>2. req' = [req EXCEPT ![r] = y]
    BY <1>1, <1>4, <1>5, <1>9, <2>1 DEF Settle
  <2>3. /\ RequestType(y) /\ y.pc = q.pc /\ y.n = q.n /\ y.card = q.card /\ y.list = q.list /\ y.place = q.place
        /\ y.touches = q.touches /\ y.key = q.key /\ y.todo = rest /\ y.before = q.before /\ y.failed = TRUE
        /\ y.prev = q.prev /\ y.next = q.next /\ y.prevKey = q.prevKey /\ y.nextKey = q.nextKey
    BY ONLY <1>3, <2>1 DEF RequestType
  <2>4. \A d \in DOMAIN rest : d \in DOMAIN q.todo /\ rest[d] = q.todo[d]
    BY ONLY <1>5
  <2>5. CardRequestOK(y)
    BY ONLY <1>2, <1>3, <2>3, <2>4 DEF CardRequestOK, RequestBody
  <2>6. Ready(y)' /\ Spacing(y)'
    <3>1. y.list \in muddled'
      BY ONLY <1>2, <1>3, <2>3
    <3> QED
      BY ONLY <3>1 DEF Ready, Spacing
  <2>7. y.touches = req[r].touches
    BY <1>1, <2>3
  <2> QED
    BY ONLY CardsInv, r \in Request, <1>2, <1>6, <1>7, <2>2, <2>3, <2>5, <2>6, <2>7, GoesOnKeeps
<1> QED
  BY <1>8, <1>9

\* Only one card changes, and its list a is muddled or of no other request.
LEMMA ListsUndisturbed ==
  ASSUME NEW c, NEW l, \A d \in Card : d # c => cards'[d] = cards[d],
         isCard(c) => cards[c].list # l, isCard(c)' => cards'[c].list # l
  PROVE  Undisturbed(l)
BY DEF Undisturbed, CardsIn, isCard

LEMMA UndisturbedIsDistinct == ASSUME NEW l, Undisturbed(l), DistinctIn(l) PROVE DistinctIn(l)'
BY DEF Undisturbed, DistinctIn, keyOf

\* An UPDATE of a respace lands.  With the last one every card has the index of
\* its place, above the one kept for the new card.
LEMMA RespaceKeeps == ASSUME CardsInv, NEW r \in Request, Respace(r) PROVE CardsInv'
<1>1. PICK q : q = req[r]
  OBVIOUS
<1>2. CardsShape /\ KeptApart /\ IndicesDistinct
  BY DEF CardsInv
<1>3. PICK c \in DOMAIN q.todo :
        /\ cards' = IF isCard(c) THEN [cards EXCEPT ![c].key = q.todo[c]] ELSE cards
        /\ Settle(r, c, q.failed)
        /\ Muddle(Strayed(c, {q.list}))
  BY <1>1 DEF Respace
<1>4. q.pc = "respace" /\ active(r) /\ started' = started /\ failures' = failures
  BY <1>1 DEF Respace, at, active
<1>5. /\ RequestType(q) /\ CardRequestOK(q) /\ RequestBody(q) /\ Spacing(q)
      /\ q.list \in q.touches /\ q.list \in List /\ q.touches \subseteq List
  BY <1>1, <1>4, RequestFacts
<1>6. PICK l : l = q.list
  OBVIOUS
<1>7. c \in Card /\ q.todo[c] \in Key /\ \E i \in DOMAIN q.before : q.before[i] = c
  BY ONLY <1>4, <1>5, c \in DOMAIN q.todo DEF RequestBody
<1>8. PICK rest : rest = [d \in DOMAIN q.todo \ {c} |-> q.todo[d]]
  OBVIOUS
<1>9. PICK y : y = IF DOMAIN rest # {} THEN [q EXCEPT !.todo = rest, !.failed = q.failed]
                   ELSE IF q.failed THEN Idle
                   ELSE [q EXCEPT !.todo = <<>>, !.pc = "write"]
  OBVIOUS
<1>10. req' = [req EXCEPT ![r] = y]
  BY ONLY <1>1, <1>3, <1>8, <1>9 DEF Settle
<1>11. \/ /\ DOMAIN rest # {} /\ RequestType(y) /\ y.pc = "respace" /\ y.n = q.n /\ y.card = q.card
          /\ y.list = q.list /\ y.place = q.place
          /\ y.touches = q.touches /\ y.key = q.key /\ y.todo = rest /\ y.before = q.before /\ y.failed = q.failed
          /\ y.prev = q.prev /\ y.next = q.next /\ y.prevKey = q.prevKey /\ y.nextKey = q.nextKey
       \/ DOMAIN rest = {} /\ q.failed /\ y = Idle
       \/ /\ DOMAIN rest = {} /\ ~q.failed /\ RequestType(y) /\ y.pc = "write" /\ y.n = q.n /\ y.card = q.card
          /\ y.list = q.list /\ y.place = q.place
          /\ y.touches = q.touches /\ y.key = q.key /\ y.todo = <<>> /\ y.before = q.before /\ y.failed = q.failed
          /\ y.prev = q.prev /\ y.next = q.next /\ y.prevKey = q.prevKey /\ y.nextKey = q.nextKey
  <2>1. CASE DOMAIN rest # {}
    <3>1. y = [q EXCEPT !.todo = rest, !.failed = q.failed]
      BY ONLY <1>9, <2>1
    <3> QED
      BY ONLY <1>4, <1>5, <2>1, <3>1 DEF RequestType
  <2>2. CASE DOMAIN rest = {} /\ q.failed
    BY ONLY <1>9, <2>2
  <2>3. CASE DOMAIN rest = {} /\ ~q.failed
    <3>1. y = [q EXCEPT !.todo = <<>>, !.pc = "write"]
      BY ONLY <1>9, <2>3
    <3> QED
      BY ONLY <1>5, <2>3, <3>1 DEF RequestType
  <2> QED
    BY ONLY <2>1, <2>2, <2>3
<1>12. RequestType(y) /\ CardRequestOK(y)
  <2>1. \A d \in DOMAIN rest : d \in DOMAIN q.todo /\ rest[d] = q.todo[d]
    BY ONLY <1>8
  <2>2. DOMAIN <<>> = {}
    OBVIOUS
  <2> QED
    BY ONLY <1>4, <1>5, <1>11, <2>1, <2>2, IdleOK DEF CardRequestOK, RequestBody
<1>13. /\ \A d \in Card : d # c => cards'[d] = cards[d]
       /\ ~isCard(c) => cards' = cards
       /\ isCard(c) => /\ cards[c] \in Placed /\ cards'[c] \in Placed /\ isCard(c)'
                       /\ cards'[c].list = cards[c].list /\ keyOf(c)' = q.todo[c]
       /\ cards' \in [Card -> Placed \cup {None, Gone}]
  <2>1. cards \in [Card -> Placed \cup {None, Gone}]
    BY <1>2 DEF CardsShape
  <2>2. CASE isCard(c)
    <3>1. cards[c] \in Placed
      BY <1>2, <1>7, <2>2, CardFacts
    <3>2. PICK x : x = [cards[c] EXCEPT !.key = q.todo[c]]
      OBVIOUS
    <3>3. x \in Placed /\ x.list = cards[c].list /\ x.key = q.todo[c]
      BY ONLY <1>7, <3>1, <3>2 DEF Placed
    <3>4. cards' = [cards EXCEPT ![c] = x]
      BY ONLY <1>3, <2>2, <3>2
    <3>5. cards'[c] = x /\ \A d \in Card : d # c => cards'[d] = cards[d]
      BY ONLY <1>7, <2>1, <3>4
    <3>6. x # None /\ x # Gone
      BY <3>3, CardOrderConstants
    <3>7. isCard(c)' /\ keyOf(c)' = q.todo[c]
      BY ONLY <3>3, <3>5, <3>6 DEF isCard, keyOf
    <3>8. cards' \in [Card -> Placed \cup {None, Gone}]
      BY ONLY <2>1, <3>3, <3>4
    <3> QED
      BY ONLY <2>2, <3>1, <3>3, <3>5, <3>7, <3>8
  <2>3. CASE ~isCard(c)
    BY ONLY <1>3, <2>1, <2>3
  <2> QED
    BY ONLY <2>2, <2>3
<1>14. /\ muddled \subseteq muddled' /\ muddled' \subseteq List
       /\ isCard(c) /\ cards[c].list # l => cards[c].list \in muddled'
  <2>1. muddled' = muddled \cup (IF isCard(c) THEN {cards[c].list} \ {l} ELSE {}) /\ muddled \subseteq List
    BY <1>2, <1>3, <1>6 DEF Muddle, Strayed, CardsShape
  <2>2. isCard(c) => cards[c].list \in List
    BY <1>2, <1>7, CardFacts
  <2> QED
    BY ONLY <2>1, <2>2
<1>15. \A m : m # l /\ m \notin muddled' => Undisturbed(m)
  <2>1. \A m : m # l /\ m \notin muddled' /\ isCard(c) => cards[c].list # m /\ cards'[c].list # m
    BY ONLY <1>13, <1>14
  <2>2. \A m : m # l /\ m \notin muddled' /\ ~isCard(c) => Undisturbed(m)
    BY ONLY <1>13 DEF Undisturbed, CardsIn, isCard
  <2>3. ASSUME NEW m, m # l, m \notin muddled', isCard(c) PROVE Undisturbed(m)
    BY ONLY <1>13, <2>1, <2>3, ListsUndisturbed
  <2> QED
    BY ONLY <2>2, <2>3
<1>16. ASSUME l \notin muddled'
       PROVE  Ready(y)' /\ Spacing(y)' /\ (y.pc = "write" => DistinctIn(l)') /\ y.pc # "idle"
  <2>1. PICK n \in Nat : n = Len(q.before) /\ DOMAIN q.before = 1..n
    <3>1. q.before \in Seq(Card)
      BY ONLY <1>5 DEF RequestType
    <3> QED
      BY ONLY <3>1
  <2>2. PICK ix, s : ix = generateNIndices(n + 1) /\ s = q.before
    OBVIOUS
  <2>3. /\ \A i \in 1..(n + 1) : ix[i] \in Key
        /\ \A i, j \in 1..(n + 1) : i < j => ix[i] \prec ix[j]
    BY ONLY <2>2, n \in Nat, SpacedAscend
  <2>4. l \notin muddled
    BY ONLY <1>14, <1>16
  <2>5. /\ ~q.failed /\ q.key = ix[1]
        /\ \A d : d \in CardsIn(l) <=> \E i \in 1..n : s[i] = d
        /\ \A i \in 1..n : ix[i + 1] = IF s[i] \in DOMAIN q.todo THEN q.todo[s[i]] ELSE keyOf(s[i])
    BY ONLY <1>4, <1>5, <1>6, <2>1, <2>2, <2>4 DEF Spacing
  <2>6. c \in CardsIn(l) /\ isCard(c) /\ cards[c].list = l
    BY ONLY <1>7, <2>1, <2>2, <2>5 DEF CardsIn
  <2>7. \A d : d \in CardsIn(l)' <=> d \in CardsIn(l)
    <3>1. \A d \in Card : d # c => cards'[d] = cards[d]
      BY ONLY <1>13
    <3>2. c \in CardsIn(l)'
      BY ONLY <1>7, <1>13, <2>6 DEF CardsIn
    <3> QED
      BY ONLY <2>6, <3>1, <3>2 DEF CardsIn, isCard
  <2>8. \A i \in 1..n : s[i] # c => keyOf(s[i])' = keyOf(s[i])
    <3>1. \A i \in 1..n : s[i] \in Card
      BY ONLY <2>5 DEF CardsIn
    <3> QED
      BY ONLY <1>13, <3>1 DEF keyOf
  <2>9. \A i \in 1..n : ix[i + 1] = IF s[i] \in DOMAIN rest THEN rest[s[i]] ELSE keyOf(s[i])'
    <3>1. DOMAIN rest = DOMAIN q.todo \ {c} /\ \A d \in DOMAIN rest : rest[d] = q.todo[d]
      BY ONLY <1>8
    <3>2. keyOf(c)' = q.todo[c] /\ c \in DOMAIN q.todo
      BY <1>13, <2>6
    <3> QED
      BY ONLY <2>5, <2>8, <3>1, <3>2
  <2>10. CASE DOMAIN rest # {}
    <3>1. /\ y.pc = "respace" /\ y.list = l /\ y.key = q.key /\ y.todo = rest /\ y.before = s /\ y.failed = q.failed
      BY ONLY <1>6, <1>11, <2>2, <2>10
    <3>2. Ready(y)'
      BY ONLY <3>1 DEF Ready
    <3>3. \A d : d \in CardsIn(l)' <=> \E i \in 1..n : s[i] = d
      BY ONLY <2>5, <2>7
    <3>4. /\ ix = generateNIndices(Len(y.before) + 1) /\ ~y.failed /\ y.key = ix[1]
          /\ \A d : d \in CardsIn(l)' <=> \E i \in DOMAIN y.before : y.before[i] = d
          /\ \A i \in DOMAIN y.before : ix[i + 1] = IF y.before[i] \in DOMAIN y.todo THEN y.todo[y.before[i]]
                                                    ELSE keyOf(y.before[i])'
      BY ONLY <2>1, <2>2, <2>5, <2>9, <3>1, <3>3, ZenonT(60)
    <3>5. Spacing(y)'
      BY ONLY <3>1, <3>4 DEF Spacing
    <3> QED
      BY ONLY <3>1, <3>2, <3>5
  <2>11. CASE DOMAIN rest = {}
    <3>1. /\ y.pc = "write" /\ y.list = l /\ y.place = q.place /\ y.key = q.key /\ y.before = s
      BY ONLY <1>6, <1>11, <2>2, <2>5, <2>11
    <3>2. q.place = "top"
      BY ONLY <1>4, <1>5 DEF RequestBody
    <3>3. \A i \in 1..n : keyOf(s[i])' = ix[i + 1]
      BY ONLY <2>9, <2>11
    <3>4. \A i \in 1..n : 1 \in 1..(n + 1) /\ i + 1 \in 1..(n + 1) /\ 1 < i + 1
      BY ONLY n \in Nat
    <3>5. \A i, j \in 1..n : /\ i < j => i + 1 < j + 1
                             /\ i # j => i < j \/ j < i
      BY ONLY n \in Nat
    <3>6. \A d \in CardsIn(l)' : y.key \prec keyOf(d)'
      BY ONLY <2>3, <2>5, <2>7, <3>1, <3>3, <3>4
    <3>7. \A i, j \in 1..n : s[i] \in CardsIn(l)' /\ (i < j => keyOf(s[i])' \prec keyOf(s[j])')
      BY ONLY <2>3, <2>5, <2>7, <3>3, <3>4, <3>5
    <3>8. Ready(y)'
      BY ONLY <2>1, <2>2, <3>1, <3>2, <3>6, <3>7 DEF Ready
    <3>9. Spacing(y)'
      BY ONLY <3>1 DEF Spacing
    <3>10. DistinctIn(l)'
      <4>1. ASSUME NEW i \in 1..n, NEW j \in 1..n, keyOf(s[i])' = keyOf(s[j])', i # j PROVE FALSE
        <5>1. PICK a, b : a = ix[i + 1] /\ b = ix[j + 1]
          OBVIOUS
        <5>2. a \in Key /\ b \in Key /\ a = b /\ (a \prec b \/ b \prec a)
          BY ONLY <2>3, <3>3, <3>4, <3>5, <4>1, <5>1, i \in 1..n, j \in 1..n
        <5>3. a \in Seq(Letter)
          BY ONLY <5>2 DEF Key
        <5> QED
          BY ONLY <5>2, <5>3, Irreflexive
      <4>2. \A i, j \in 1..n : keyOf(s[i])' = keyOf(s[j])' => i = j
        BY ONLY <4>1
      <4> QED
        BY ONLY <2>5, <2>7, <4>2 DEF DistinctIn
    <3> QED
      BY ONLY <3>1, <3>8, <3>9, <3>10
  <2> QED
    BY ONLY <2>10, <2>11
<1>17. Ready(y)' /\ Spacing(y)'
  <2>1. CASE l \notin muddled'
    BY <1>16, <2>1
  <2>2. CASE y = Idle
    BY <2>2, IdleOK
  <2>3. CASE l \in muddled' /\ y.list = l
    BY ONLY <2>3 DEF Ready, Spacing
  <2> QED
    BY ONLY <1>6, <1>11, <2>1, <2>2, <2>3
<1>18. \A t \in Request : t # r /\ active(t) => /\ y.pc # "idle" => y.touches \cap req[t].touches \subseteq muddled'
                                                /\ req[t].list \notin muddled' => Undisturbed(req[t].list)
  <2> SUFFICES ASSUME NEW t \in Request, t # r, active(t)
               PROVE  /\ y.pc # "idle" => y.touches \cap req[t].touches \subseteq muddled'
                      /\ req[t].list \notin muddled' => Undisturbed(req[t].list)
    OBVIOUS
  <2>1. q.touches \cap req[t].touches \subseteq muddled
    BY <1>1, <1>2, <1>4 DEF KeptApart
  <2>2. y.pc # "idle" => y.touches = q.touches
    BY ONLY <1>11, IdleOK
  <2>3. req[t].list \in req[t].touches
    BY RequestFacts
  <2>4. req[t].list \notin muddled' => req[t].list # l
    BY ONLY <1>5, <1>6, <1>14, <2>1, <2>3
  <2> QED
    BY ONLY <1>14, <1>15, <2>1, <2>2, <2>4
<1>19. \A m \in List : \/ m \in muddled'
                       \/ DistinctIn(m)'
                       \/ y.pc = "respace" /\ y.list = m
                       \/ \E t \in Request : t # r /\ req[t].pc = "respace" /\ req[t].list = m
  <2> SUFFICES ASSUME NEW m \in List, m \notin muddled', ~(y.pc = "respace" /\ y.list = m),
                      \A t \in Request : t # r /\ req[t].pc = "respace" => req[t].list # m
               PROVE  DistinctIn(m)'
    OBVIOUS
  <2>1. CASE m = l
    <3>1. y.pc = "write"
      BY <1>6, <1>11, <1>16, <2>1, IdleOK
    <3> QED
      BY <1>16, <2>1, <3>1
  <2>2. CASE m # l
    <3>1. Undisturbed(m)
      BY <1>15, <2>2
    <3>2. \A t \in Request : at(t, "respace") => req[t].list # m
      BY <1>1, <1>6, <2>2 DEF at
    <3>3. DistinctIn(m)
      BY <1>2, <1>14, <3>2 DEF IndicesDistinct, DistinctIn
    <3> QED
      BY ONLY <3>1, <3>3, UndisturbedIsDistinct
  <2> QED
    BY <2>1, <2>2
<1>20. started' \in 0..MaxRequests /\ failures' \in 0..MaxFailures
  BY <1>2, <1>4 DEF CardsShape
<1> QED
  BY ONLY CardsInv, r \in Request, <1>10, <1>12, <1>13, <1>14, <1>17, <1>18, <1>19, <1>20, CardStepKeeps

\* What a request that writes and is done with leaves to show.
LEMMA CardWriteKeeps ==
  ASSUME CardsInv, NEW r \in Request, at(r, "write"), req' = [req EXCEPT ![r] = Idle],
         cards' \in [Card -> Placed \cup {None, Gone}], started' = started, failures' = failures,
         muddled \subseteq muddled', muddled' \subseteq List,
         \A t \in Request : t # r /\ active(t) /\ req[t].list \notin muddled' => Undisturbed(req[t].list),
         \A m \in List : m \notin muddled' /\ DistinctIn(m) => DistinctIn(m)'
  PROVE  CardsInv'
<1>1. \A t \in Request : t # r /\ active(t) =>
        /\ Idle.pc # "idle" => Idle.touches \cap req[t].touches \subseteq muddled'
        /\ req[t].list \notin muddled' => Undisturbed(req[t].list)
  BY IdleOK
<1>2. \A m \in List : \/ m \in muddled'
                      \/ DistinctIn(m)'
                      \/ Idle.pc = "respace" /\ Idle.list = m
                      \/ \E t \in Request : t # r /\ req[t].pc = "respace" /\ req[t].list = m
  <2> SUFFICES ASSUME NEW m \in List, m \notin muddled',
                      \A t \in Request : t # r /\ req[t].pc = "respace" => req[t].list # m
               PROVE  DistinctIn(m)'
    OBVIOUS
  <2>1. \A t \in Request : at(t, "respace") => req[t].list # m
    BY DEF at
  <2>2. DistinctIn(m)
    BY <2>1 DEF CardsInv, IndicesDistinct, DistinctIn
  <2> QED
    BY <2>2
<1>3. started' \in 0..MaxRequests /\ failures' \in 0..MaxFailures
  BY DEF CardsInv, CardsShape
<1> QED
  BY ONLY CardsInv, r \in Request, req' = [req EXCEPT ![r] = Idle], IdleOK,
         cards' \in [Card -> Placed \cup {None, Gone}], muddled \subseteq muddled', muddled' \subseteq List,
         <1>1, <1>2, <1>3, CardStepKeeps

\* New cards are past the end their first index is at, each after the one before.
LEMMA CardInsertKeeps == ASSUME CardsInv, NEW r \in Request, Insert(r) PROVE CardsInv'
<1>1. PICK q : q = req[r]
  OBVIOUS
<1>2. CardsShape /\ KeptApart
  BY DEF CardsInv
<1>3. /\ q.pc = "write" /\ at(r, "write") /\ active(r) /\ q.n > 0 /\ req' = [req EXCEPT ![r] = Idle]
      /\ started' = started /\ failures' = failures /\ muddled' = muddled
  BY <1>1 DEF Insert, Return, at, active
<1>4. /\ RequestType(q) /\ RequestBody(q) /\ Ready(q)
      /\ q.list \in q.touches /\ q.list \in List /\ q.touches \subseteq List
  BY <1>1, <1>3, RequestFacts
<1>5. PICK l, n, k : l = q.list /\ n = q.n /\ k = q.key
  OBVIOUS
<1>6. n \in Nat \ {0} /\ k \in Key /\ q.place \in {"top", "bottom"} /\ (n > 1 => q.place = "bottom")
  BY ONLY <1>3, <1>4, <1>5 DEF RequestType, RequestBody
<1>7. PICK s \in {t \in [1..n -> {c \in Card : cards[c] = None}] : IsInjective(t)} :
        cards' = [c \in Card |->
          IF \E i \in DOMAIN s : s[i] = c
          THEN [list |-> l, key  |-> keyAfter(k, CHOOSE i \in DOMAIN s : s[i] = c)]
          ELSE cards[c]]
  <2> DEFINE Inserted(m, li, key) ==
        \E s \in {t \in [1..m -> {c \in Card : cards[c] = None}] : IsInjective(t)} :
          cards' = [c \in Card |->
            IF \E i \in DOMAIN s : s[i] = c
            THEN [list |-> li, key  |-> keyAfter(key, CHOOSE i \in DOMAIN s : s[i] = c)]
            ELSE cards[c]]
  <2>1. Inserted(req[r].n, req[r].list, req[r].key)
    BY DEF Insert
  <2> HIDE DEF Inserted
  <2>2. Inserted(n, l, k)
    BY ONLY <1>1, <1>5, <2>1
  <2> QED
    BY ONLY <2>2 DEF Inserted
<1>8. /\ DOMAIN s = 1..n /\ \A i \in 1..n : s[i] \in Card /\ cards[s[i]] = None
      /\ \A i, j \in 1..n : s[i] = s[j] => i = j
  BY <1>7 DEF IsInjective
<1>9. \A i \in 1..n : i \in Nat \ {0} /\ keyAfter(k, i) \in Key
  BY ONLY <1>6, RowsComeInTurn
<1>10. /\ \A i \in 1..n : cards'[s[i]] = [list |-> l, key |-> keyAfter(k, i)]
       /\ \A c \in Card : (\A i \in 1..n : s[i] # c) => cards'[c] = cards[c]
  <2>1. ASSUME NEW i \in 1..n PROVE cards'[s[i]] = [list |-> l, key |-> keyAfter(k, i)]
    <3>1. (CHOOSE h \in DOMAIN s : s[h] = s[i]) = i
      BY ONLY <1>8, i \in 1..n
    <3>2. s[i] \in Card /\ \E h \in DOMAIN s : s[h] = s[i]
      BY ONLY <1>8, i \in 1..n
    <3> QED
      BY ONLY <1>7, <3>1, <3>2
  <2> QED
    BY ONLY <1>7, <1>8, <2>1
<1>11. \A i \in 1..n : /\ cards'[s[i]] \in Placed /\ isCard(s[i])' /\ ~isCard(s[i])
                       /\ cards'[s[i]].list = l /\ keyOf(s[i])' = keyAfter(k, i)
  <2> SUFFICES ASSUME NEW i \in 1..n
               PROVE  /\ cards'[s[i]] \in Placed /\ isCard(s[i])' /\ ~isCard(s[i])
                      /\ cards'[s[i]].list = l /\ keyOf(s[i])' = keyAfter(k, i)
    OBVIOUS
  <2>1. PICK x : x = [list |-> l, key |-> keyAfter(k, i)]
    OBVIOUS
  <2>2. x \in Placed /\ x.list = l /\ x.key = keyAfter(k, i)
    BY ONLY <1>4, <1>5, <1>9, <2>1, i \in 1..n DEF Placed
  <2>3. cards'[s[i]] = x
    BY ONLY <1>10, <2>1, i \in 1..n
  <2>4. x # None /\ x # Gone
    BY <2>2, CardOrderConstants
  <2> QED
    BY ONLY <1>8, <2>2, <2>3, <2>4, i \in 1..n DEF isCard, keyOf
<1>12. cards' \in [Card -> Placed \cup {None, Gone}]
  <2>1. cards \in [Card -> Placed \cup {None, Gone}]
    BY <1>2 DEF CardsShape
  <2>2. \A c \in Card : cards'[c] \in Placed \cup {None, Gone}
    BY ONLY <1>10, <1>11, <2>1
  <2>3. cards' = [c \in Card |-> cards'[c]]
    BY ONLY <1>7
  <2> QED
    BY ONLY <2>2, <2>3
<1>13. /\ \A c : c \in CardsIn(l)' <=> c \in CardsIn(l) \/ \E i \in 1..n : s[i] = c
       /\ \A c \in CardsIn(l) : keyOf(c)' = keyOf(c) /\ \A i \in 1..n : s[i] # c
  <2>1. \A c : (\E i \in 1..n : s[i] = c) => c \in Card /\ isCard(c)' /\ cards'[c].list = l /\ ~isCard(c)
    BY ONLY <1>8, <1>11
  <2>2. \A c \in Card : (\A i \in 1..n : s[i] # c) => cards'[c] = cards[c] /\ (isCard(c)' <=> isCard(c)) /\ keyOf(c)' = keyOf(c)
    BY ONLY <1>10 DEF isCard, keyOf
  <2> QED
    BY ONLY <2>1, <2>2 DEF CardsIn
<1>14. \A m : m # l => Undisturbed(m)
  <2>1. \A c : (\E i \in 1..n : s[i] = c) => isCard(c)' /\ cards'[c].list = l /\ ~isCard(c)
    BY ONLY <1>8, <1>11
  <2>2. \A c \in Card : (\A i \in 1..n : s[i] # c) => cards'[c] = cards[c] /\ (isCard(c)' <=> isCard(c))
    BY ONLY <1>10 DEF isCard
  <2> QED
    BY ONLY <2>1, <2>2 DEF CardsIn, Undisturbed
<1>15. ASSUME l \notin muddled', DistinctIn(l) PROVE DistinctIn(l)'
  <2>1. ASSUME NEW c \in CardsIn(l), NEW i \in 1..n PROVE keyOf(c) # keyAfter(k, i)
    <3>1. PICK x, z : x = keyOf(c) /\ z = keyAfter(k, i)
      OBVIOUS
    <3>2. x \in Key /\ x \in Seq(Letter) /\ z \in Seq(Letter) /\ k \in Seq(Letter)
      <4>1. x \in Key /\ z \in Key
        BY <1>2, <1>9, <3>1, CardFacts
      <4> QED
        BY ONLY <1>6, <4>1 DEF Key
    <3>3. CASE q.place = "bottom"
      <4>1. x \prec k
        BY <1>3, <1>4, <1>5, <1>15, <3>1, <3>3 DEF Ready
      <4>2. x \prec z
        BY ONLY <1>6, <1>9, <3>1, <3>2, <4>1, i \in 1..n, RowsComeInTurn
      <4> QED
        BY ONLY <3>1, <3>2, <4>2, Irreflexive
    <3>4. CASE q.place = "top"
      <4>1. k \prec x
        BY <1>3, <1>4, <1>5, <1>15, <3>1, <3>4 DEF Ready
      <4>2. i = 1
        BY ONLY <1>6, <3>4, i \in 1..n
      <4>3. keyAfter(k, 1) = k
        BY ONLY <1>6 DEF keyAfter, Key
      <4>4. z = k
        BY ONLY <3>1, <4>2, <4>3
      <4> QED
        BY ONLY <3>1, <3>2, <4>1, <4>4, Irreflexive
    <3> QED
      BY <1>6, <3>3, <3>4
  <2>2. ASSUME NEW i \in 1..n, NEW j \in 1..n, keyAfter(k, i) = keyAfter(k, j) PROVE i = j
    <3>1. PICK z : z = keyAfter(k, i) /\ z = keyAfter(k, j)
      BY <2>2
    <3>2. z \in Seq(Letter)
      BY <1>9, <3>1 DEF Key
    <3>3. i < j \/ j < i => z \prec z
      BY ONLY <1>6, <1>9, <3>1, i \in 1..n, j \in 1..n, RowsComeInTurn
    <3> QED
      BY ONLY <1>6, <3>2, <3>3, i \in 1..n, j \in 1..n, Irreflexive
  <2>3. \A i \in 1..n : keyOf(s[i])' = keyAfter(k, i)
    BY <1>11
  <2>4. \A c, d \in CardsIn(l) : keyOf(c) = keyOf(d) => c = d
    BY <1>15 DEF DistinctIn
  <2>5. ASSUME NEW c \in CardsIn(l)', NEW d \in CardsIn(l)', keyOf(c)' = keyOf(d)' PROVE c = d
    <3>1. CASE c \in CardsIn(l) /\ d \in CardsIn(l)
      BY ONLY <1>13, <2>4, <2>5, <3>1
    <3>2. CASE c \in CardsIn(l) /\ \E i \in 1..n : s[i] = d
      BY ONLY <1>13, <2>1, <2>3, <2>5, <3>2
    <3>3. CASE d \in CardsIn(l) /\ \E i \in 1..n : s[i] = c
      BY ONLY <1>13, <2>1, <2>3, <2>5, <3>3
    <3>4. CASE (\E i \in 1..n : s[i] = c) /\ \E i \in 1..n : s[i] = d
      BY ONLY <2>2, <2>3, <2>5, <3>4
    <3> QED
      BY ONLY <1>13, <3>1, <3>2, <3>3, <3>4, c \in CardsIn(l)', d \in CardsIn(l)'
  <2>6. \A c, d \in CardsIn(l)' : keyOf(c)' = keyOf(d)' => c = d
    BY ONLY <2>5
  <2> QED
    BY ONLY <2>6 DEF DistinctIn
<1>16. \A m \in List : m \notin muddled' /\ DistinctIn(m) => DistinctIn(m)'
  BY ONLY <1>14, <1>15, UndisturbedIsDistinct
<1>17. \A t \in Request : t # r /\ active(t) /\ req[t].list \notin muddled' => Undisturbed(req[t].list)
  <2> SUFFICES ASSUME NEW t \in Request, t # r, active(t), req[t].list \notin muddled'
               PROVE  Undisturbed(req[t].list)
    OBVIOUS
  <2>1. q.touches \cap req[t].touches \subseteq muddled /\ req[t].list \in req[t].touches
    BY <1>1, <1>2, <1>3, RequestFacts DEF KeptApart
  <2>2. req[t].list # l
    BY <1>3, <1>4, <1>5, <2>1
  <2> QED
    BY ONLY <1>14, <2>2
<1>18. muddled \subseteq muddled' /\ muddled' \subseteq List
  BY <1>2, <1>3 DEF CardsShape
<1> QED
  BY ONLY CardsInv, r \in Request, <1>3, <1>12, <1>16, <1>17, <1>18, CardWriteKeeps

\* A card comes to a list where no other has its index.
LEMMA MoveKeeps == ASSUME CardsInv, NEW r \in Request, Move(r) PROVE CardsInv'
<1>1. PICK q : q = req[r]
  OBVIOUS
<1>2. CardsShape /\ KeptApart
  BY DEF CardsInv
<1>3. PICK l, c, k : l = q.list /\ c = q.card /\ k = q.key
  OBVIOUS
<1>4. /\ q.pc = "write" /\ at(r, "write") /\ active(r) /\ q.n = 0 /\ req' = [req EXCEPT ![r] = Idle]
      /\ cards' = IF isCard(c) THEN [cards EXCEPT ![c] = [list |-> l, key |-> k]] ELSE cards
      /\ started' = started /\ failures' = failures
      /\ muddled' = muddled \cup OverlapOf(Strayed(c, q.touches))
  BY <1>1, <1>3 DEF Move, Return, Muddle, at, active
<1>5. /\ RequestType(q) /\ RequestBody(q) /\ Ready(q)
      /\ q.list \in q.touches /\ q.list \in List /\ q.touches \subseteq List
  BY <1>1, <1>4, RequestFacts
<1>6. c \in Card /\ k \in Key /\ q.place \in {"top", "bottom", "at"} /\ l \in List
  BY ONLY <1>3, <1>4, <1>5 DEF RequestType, RequestBody
<1>7. cards \in [Card -> Placed \cup {None, Gone}]
  BY <1>2 DEF CardsShape
<1>8. Strayed(c, q.touches) \in SUBSET List
  BY <1>2, <1>6, CardFacts DEF Strayed
<1>9. muddled \subseteq muddled' /\ muddled' \subseteq List
  BY <1>2, <1>4, <1>8, OverlapFacts DEF CardsShape
<1>10. CASE ~isCard(c)
  <2>1. cards' = cards
    BY <1>4, <1>10
  <2>2. \A m : Undisturbed(m)
    BY ONLY <2>1 DEF Undisturbed, CardsIn, isCard
  <2>3. \A m \in List : m \notin muddled' /\ DistinctIn(m) => DistinctIn(m)'
    BY ONLY <2>2, UndisturbedIsDistinct
  <2>4. cards' \in [Card -> Placed \cup {None, Gone}]
    BY <1>7, <2>1
  <2>5. \A t \in Request : t # r /\ active(t) /\ req[t].list \notin muddled' => Undisturbed(req[t].list)
    BY <2>2
  <2> QED
    BY ONLY CardsInv, r \in Request, <1>4, <1>9, <2>3, <2>4, <2>5, CardWriteKeeps
<1>11. CASE isCard(c)
  <2>1. PICK x, a : x = [list |-> l, key |-> k] /\ a = cards[c].list
    OBVIOUS
  <2>2. x \in Placed /\ x.list = l /\ x.key = k /\ x # None /\ x # Gone
    <3>1. x \in Placed /\ x.list = l /\ x.key = k
      BY ONLY <1>6, <2>1 DEF Placed
    <3> QED
      BY <3>1, CardOrderConstants
  <2>3. /\ cards' = [cards EXCEPT ![c] = x] /\ cards'[c] = x
        /\ \A d \in Card : d # c => cards'[d] = cards[d]
    BY ONLY <1>4, <1>6, <1>7, <1>11, <2>1
  <2>4. isCard(c)' /\ cards'[c].list = l /\ keyOf(c)' = k
    BY ONLY <2>2, <2>3 DEF isCard, keyOf
  <2>5. cards' \in [Card -> Placed \cup {None, Gone}]
    BY ONLY <1>7, <2>2, <2>3
  <2>6. \A d \in Card : d # c => (isCard(d)' <=> isCard(d)) /\ keyOf(d)' = keyOf(d) /\ cards'[d] = cards[d]
    BY ONLY <2>3 DEF isCard, keyOf
  <2>7. /\ \A m : \A d : d \in CardsIn(m)' => d = c \/ d \in CardsIn(m)
        /\ \A m : m # l => c \notin CardsIn(m)'
        /\ \A m : \A d \in CardsIn(m) : d \in Card
    BY ONLY <2>4, <2>6 DEF CardsIn
  <2>8. ASSUME NEW m \in List, m \notin muddled', DistinctIn(m) PROVE DistinctIn(m)'
    <3>1. \A d, e \in CardsIn(m) : keyOf(d) = keyOf(e) => d = e
      BY <2>8 DEF DistinctIn
    <3>2. ASSUME m = l, NEW d \in CardsIn(m), d # c PROVE keyOf(d) # k
      <4>1. PICK z : z = keyOf(d)
        OBVIOUS
      <4>2. z \in Seq(Letter) /\ l \notin muddled
        BY <1>2, <1>9, <2>8, <3>2, <4>1, CardFacts
      <4>3. (q.place = "top" /\ k \prec z) \/ (q.place = "bottom" /\ z \prec k) \/ z # k
        BY <1>3, <1>4, <1>5, <1>6, <3>2, <4>1, <4>2 DEF Ready
      <4> QED
        BY ONLY <4>1, <4>2, <4>3, Irreflexive
    <3>3. \A d, e \in CardsIn(m)' : keyOf(d)' = keyOf(e)' => d = e
      BY ONLY <2>4, <2>6, <2>7, <3>1, <3>2
    <3> QED
      BY ONLY <3>3 DEF DistinctIn
  <2>9. \A t \in Request : t # r /\ active(t) /\ req[t].list \notin muddled' => Undisturbed(req[t].list)
    <3> SUFFICES ASSUME NEW t \in Request, t # r, active(t), req[t].list \notin muddled'
                 PROVE  Undisturbed(req[t].list)
      OBVIOUS
    <3>1. q.touches \cap req[t].touches \subseteq muddled /\ req[t].list \in req[t].touches
      BY <1>1, <1>2, <1>4, RequestFacts DEF KeptApart
    <3>2. req[t].list # l
      BY <1>3, <1>5, <1>9, <3>1
    <3>3. req[t].list # a
      <4>1. CASE a \in q.touches
        BY ONLY <1>9, <3>1, <4>1, req[t].list \notin muddled'
      <4>2. CASE a \notin q.touches
        <5>1. Strayed(c, q.touches) = {a}
          BY ONLY <1>11, <2>1, <4>2 DEF Strayed
        <5>2. a \in req[t].touches => {a} \subseteq OverlapOf({a})
          BY ONLY <1>2, <1>8, <5>1, t \in Request, active(t), OverlapFacts
        <5> QED
          BY ONLY <1>4, <3>1, <5>1, <5>2, req[t].list \notin muddled'
      <4> QED
        BY <4>1, <4>2
    <3> QED
      BY <2>1, <2>3, <2>4, <3>2, <3>3, ListsUndisturbed
  <2> QED
    BY ONLY CardsInv, r \in Request, <1>4, <1>9, <2>5, <2>8, <2>9, CardWriteKeeps
<1> QED
  BY <1>10, <1>11

LEMMA DeleteKeeps == ASSUME CardsInv, NEW c \in Card, Delete(c) PROVE CardsInv'
<1>1. CardsShape /\ KeptApart /\ IndicesDistinct /\ \A s \in Request : Ready(req[s]) /\ Spacing(req[s])
  BY DEF CardsInv
<1>2. PICK a : a = cards[c].list
  OBVIOUS
<1>3. /\ isCard(c) /\ cards' = [cards EXCEPT ![c] = Gone] /\ muddled' = muddled \cup OverlapOf({a})
      /\ req' = req /\ started' = started /\ failures' = failures
  BY <1>2 DEF Delete, Muddle
<1>4. cards \in [Card -> Placed \cup {None, Gone}] /\ a \in List
  BY <1>1, <1>2, <1>3, CardFacts DEF CardsShape
<1>5. /\ cards' \in [Card -> Placed \cup {None, Gone}] /\ ~isCard(c)'
      /\ \A d \in Card : d # c => cards'[d] = cards[d]
  BY ONLY <1>3, <1>4 DEF isCard
<1>6. {a} \in SUBSET List
  BY <1>4
<1>7. muddled \subseteq muddled' /\ muddled' \subseteq List
  BY <1>1, <1>3, <1>6, OverlapFacts DEF CardsShape
<1>8. CardsShape'
  <2>1. /\ started' \in 0..MaxRequests /\ failures' \in 0..MaxFailures
        /\ DOMAIN req' = Request /\ req' = [s \in Request |-> req'[s]]
    BY ONLY <1>1, <1>3 DEF CardsShape
  <2>2. \A s \in Request : RequestType(req'[s]) /\ CardRequestOK(req'[s])
    BY ONLY <1>1, <1>3 DEF CardsShape
  <2> QED
    BY ONLY <1>5, <1>7, <2>1, <2>2 DEF CardsShape, RequestType, CardRequestOK, RequestBody
<1>9. KeptApart'
  BY ONLY <1>1, <1>3, <1>7 DEF KeptApart, active
<1>10. \A m : m # a => Undisturbed(m)
  <2>1. ASSUME NEW m, m # a PROVE Undisturbed(m)
    BY ONLY <1>2, <1>5, <2>1, ListsUndisturbed
  <2> QED
    BY <2>1
<1>11. ASSUME NEW s \in Request PROVE Ready(req[s])' /\ Spacing(req[s])'
  <2>1. PICK q : q = req[s]
    OBVIOUS
  <2>2. Ready(q) /\ Spacing(q) /\ req'[s] = q
    BY <1>1, <1>3, <2>1
  <2>3. CASE q.pc = "idle"
    BY ONLY <2>2, <2>3 DEF Ready, Spacing
  <2>4. CASE q.pc # "idle"
    <3>1. active(s) /\ q.list \in q.touches
      BY <2>1, <2>4, RequestFacts DEF active
    <3>2. q.list \notin muddled' => q.list # a
      BY <1>1, <1>3, <1>6, <2>1, <3>1, OverlapFacts
    <3>3. q.list \notin muddled' => q.list \notin muddled /\ Undisturbed(q.list)
      BY ONLY <1>7, <1>10, <3>2
    <3>4. Ready(q)' /\ Spacing(q)'
      BY ONLY <2>2, <3>3, ReadStays
    <3> QED
      BY ONLY <2>2, <3>4 DEF Ready, Spacing
  <2> QED
    BY <2>3, <2>4
<1>12. IndicesDistinct'
  <2> SUFFICES ASSUME NEW l \in List, l \notin muddled', \A s \in Request : req'[s].pc = "respace" => req'[s].list # l
               PROVE  DistinctIn(l)'
    BY DEF IndicesDistinct, DistinctIn, at
  <2>1. DistinctIn(l)
    BY <1>1, <1>3, <1>7 DEF IndicesDistinct, DistinctIn, at
  <2>2. \A d \in CardsIn(l)' : d \in CardsIn(l) /\ keyOf(d)' = keyOf(d)
    BY ONLY <1>5 DEF CardsIn, isCard, keyOf
  <2> QED
    BY ONLY <2>1, <2>2 DEF DistinctIn
<1> QED
  BY <1>8, <1>9, <1>11, <1>12 DEF CardsInv

LEMMA CardsStay == ASSUME CardsInv, UNCHANGED vars PROVE CardsInv'
<1>1. cards' = cards /\ req' = req /\ started' = started /\ failures' = failures /\ muddled' = muddled
  BY DEF vars
<1>2. CardsShape' /\ KeptApart'
  BY ONLY CardsInv, <1>1 DEF CardsInv, CardsShape, RequestType, CardRequestOK, RequestBody, KeptApart, active
<1>3. IndicesDistinct'
  BY ONLY CardsInv, <1>1 DEF CardsInv, IndicesDistinct, CardsIn, isCard, keyOf, at
<1>4. \A l : Undisturbed(l)
  BY ONLY <1>1 DEF Undisturbed, CardsIn, isCard
<1>5. ASSUME NEW r \in Request PROVE Ready(req[r])' /\ Spacing(req[r])'
  <2>1. PICK q : q = req[r]
    OBVIOUS
  <2>2. Ready(q) /\ Spacing(q) /\ (q.list \notin muddled' => q.list \notin muddled /\ Undisturbed(q.list))
    BY <1>1, <1>4, <2>1 DEF CardsInv
  <2>3. Ready(q)' /\ Spacing(q)'
    BY ONLY <2>2, ReadStays
  <2> QED
    BY ONLY <1>1, <2>1, <2>3 DEF Ready, Spacing
<1> QED
  BY <1>2, <1>3, <1>5 DEF CardsInv

LEMMA CardsStart == ASSUME Init PROVE CardsInv
<1>1. /\ cards = SeedCards /\ req = [r \in Request |-> Idle] /\ started = 0 /\ failures = 0 /\ muddled = {}
  BY DEF Init
<1>2. \A r \in Request : req[r] = Idle
  BY ONLY <1>1
<1>3. CardsShape
  <2>1. started \in 0..MaxRequests /\ failures \in 0..MaxFailures
    BY <1>1, CardOrderConstants
  <2>2. cards \in [Card -> Placed \cup {None, Gone}]
    BY <1>1, CardOrderConstants
  <2>3. \A r \in Request : RequestType(req[r]) /\ CardRequestOK(req[r])
    BY ONLY <1>2, IdleOK
  <2> QED
    BY ONLY <1>1, <2>1, <2>2, <2>3 DEF CardsShape
<1>4. KeptApart
  BY ONLY <1>2, IdleOK DEF KeptApart, active
<1>5. IndicesDistinct
  <2> SUFFICES ASSUME NEW l \in List, NEW c \in CardsIn(l), NEW d \in CardsIn(l), keyOf(c) = keyOf(d) PROVE c = d
    BY DEF IndicesDistinct
  <2>1. /\ c \in Card /\ d \in Card /\ isCard(c) /\ isCard(d) /\ cards[c] \in Placed /\ cards[d] \in Placed
        /\ cards[c].list = l /\ cards[d].list = l
    BY <1>3, CardFacts
  <2>2. cards[c] = cards[d]
    <3>1. PICK x, y : x = cards[c] /\ y = cards[d]
      OBVIOUS
    <3>2. x \in Placed /\ y \in Placed /\ x.list = y.list /\ x.key = y.key
      BY <2>1, <3>1 DEF keyOf
    <3>3. x = y
      BY ONLY <3>2 DEF Placed
    <3> QED
      BY <3>1, <3>3
  <2> QED
    BY <1>1, <2>1, <2>2, CardOrderConstants DEF isCard
<1>6. \A r \in Request : Ready(req[r]) /\ Spacing(req[r])
  BY ONLY <1>2, IdleOK
<1> QED
  BY <1>3, <1>4, <1>5, <1>6 DEF CardsInv

LEMMA CardsInvKept == CardsInv /\ [Next]_vars => CardsInv'
BY CardsStay, StartCreateKeeps, StartMoveKeeps, StartForeignKeeps, StartDropKeeps, FindKeeps, ReadHeadKeeps,
   RespaceKeeps, RespaceFailsKeeps, CardFailKeeps, ReadTailKeeps, CardInsertKeeps, MoveKeeps, DeleteKeeps DEF Next

\* The invariant: requests that share a list that is not muddled never overlap, so
\* what one read of it still holds when it writes: its index is past the end it was
\* sent to, or in a slot nobody took, and a respace gives each card the index of
\* its place (card.repo.ts, card.service.ts).
THEOREM CardsInvHolds == Spec => []CardsInv
<1>1. Init => CardsInv
  BY CardsStart
<1> QED
  BY <1>1, CardsInvKept, PTL DEF Spec

LEMMA CardsTypeCorrect == CardsInv => TypeOK
<1> SUFFICES ASSUME CardsInv PROVE TypeOK
  OBVIOUS
<1>1. CardsShape
  BY DEF CardsInv
<1>2. ASSUME NEW r \in Request
      PROVE  /\ DOMAIN req[r] = DOMAIN Idle
             /\ req[r].pc \in {"idle", "find", "head", "respace", "tail", "write"}
             /\ req[r].pc # "idle" => req[r].list \in List
             /\ req[r].pc \in {"respace", "write"} => req[r].key \in Key
             /\ \A c \in DOMAIN req[r].todo : c \in Card /\ req[r].todo[c] \in Key
  <2>1. PICK q : q = req[r]
    OBVIOUS
  <2>2. RequestType(q) /\ RequestBody(q) /\ (q.pc # "idle" => q.list \in List)
    BY <2>1, RequestFacts DEF active
  <2>3. DOMAIN q = DOMAIN Idle /\ q.pc \in {"idle", "find", "head", "respace", "tail", "write"}
    BY ONLY <2>2 DEF RequestType, Idle
  <2> QED
    BY ONLY <2>1, <2>2, <2>3 DEF RequestBody
<1> QED
  BY ONLY <1>1, <1>2 DEF CardsShape, TypeOK

\* For any cards, lists, key space and requests: in a list that no overlapping
\* requests muddled no two cards share an index, whatever went on elsewhere
\* (cardRepo.create, update, headIndexFor, tailIndexFor).
THEOREM IndicesDistinctHolds == Spec => []IndicesDistinct
<1>1. CardsInv => IndicesDistinct
  BY DEF CardsInv
<1> QED
  BY <1>1, CardsInvHolds, PTL

\* A respace that is over has left the cards in the order it found them
\* (headIndexFor), whichever order its UPDATEs landed in.
THEOREM RespaceKeepsOrderHolds == Spec => []RespaceKeepsOrder
<1>1. CardsInv => RespaceKeepsOrder
  <2> SUFFICES ASSUME CardsInv, NEW r \in Request, at(r, "write"), req[r].list \notin muddled
               PROVE  \A i, j \in 1..Len(req[r].before) :
                        i < j => keyOf(req[r].before[i]) \prec keyOf(req[r].before[j])
    BY DEF RespaceKeepsOrder
  <2>1. RequestType(req[r]) /\ Ready(req[r]) /\ req[r].pc = "write"
    BY RequestFacts DEF at
  <2>2. req[r].before \in Seq(Card)
    BY ONLY <2>1 DEF RequestType
  <2>3. \A i, j \in DOMAIN req[r].before : i < j => keyOf(req[r].before[i]) \prec keyOf(req[r].before[j])
    BY ONLY <2>1, req[r].list \notin muddled DEF Ready
  <2> QED
    BY ONLY <2>2, <2>3
<1> QED
  BY <1>1, CardsInvHolds, PTL

\* A card dropped at an end of a list, or where two indices leave a letter between
\* them, gets an index between its neighbours' (order-utils.ts, order-index.ts).
THEOREM RoomyDropLandsHolds == Spec => []RoomyDropLands
<1>1. CardsInv => RoomyDropLands
  <2> SUFFICES ASSUME CardsInv, NEW r \in Request, at(r, "write"), req[r].prev # None \/ req[r].next # None,
                      req[r].prev # None /\ req[r].next # None => Gap(req[r].prevKey, req[r].nextKey)
               PROVE  LandsBetween(req[r], req[r].key)
    BY DEF RoomyDropLands
  <2>1. PICK q : q = req[r]
    OBVIOUS
  <2>2. RequestType(q) /\ RequestBody(q) /\ q.pc = "write"
    BY <2>1, RequestFacts DEF at
  <2>3. q.prev # None \/ q.next # None
    BY <2>1
  <2>4. /\ q.prevKey \in Key \cup {NoKey} /\ q.nextKey \in Key \cup {NoKey} /\ q.key \in Key
        /\ q.key = indexForSlot(q.prevKey, q.nextKey)
        /\ q.prev = None <=> q.prevKey = NoKey
        /\ q.next = None <=> q.nextKey = NoKey
    BY ONLY <2>2, <2>3 DEF RequestType, RequestBody
  <2>5. NoKey \notin Key
    BY CardOrderConstants
  <2>6. indexForSlot(q.prevKey, q.nextKey) # NoKey /\ (q.prevKey # NoKey /\ q.nextKey # NoKey => Gap(q.prevKey, q.nextKey))
    BY <2>1, <2>4, <2>5
  <2>7. /\ q.prevKey # NoKey => q.prevKey \prec q.key
        /\ q.nextKey # NoKey => q.key \prec q.nextKey
    BY ONLY <2>4, <2>5, <2>6, RoomySlot
  <2> QED
    BY ONLY <2>1, <2>4, <2>7 DEF LandsBetween
<1> QED
  BY <1>1, CardsInvHolds, PTL

-----------------------------------------------------------------------------

\* A request that writes writes its own index, in its own list.
LEMMA WritesItsIndex ==
  ASSUME CardsInv, NEW r \in Request, Insert(r) \/ Move(r), NEW c \in Card, cards'[c] # cards[c]
  PROVE  /\ cards'[c].list = req[r].list
         /\ \/ cards'[c].key = req[r].key
            \/ \E i \in Nat \ {0} : /\ cards'[c].key = keyAfter(req[r].key, i)
                                    /\ i > 1 => req[r].place = "bottom"
<1>1. PICK q : q = req[r]
  OBVIOUS
<1>2. RequestType(q) /\ RequestBody(q)
  BY <1>1, RequestFacts
<1>3. cards \in [Card -> Placed \cup {None, Gone}]
  BY DEF CardsInv, CardsShape
<1>4. CASE Insert(r)
  <2>1. PICK n : n = q.n
    OBVIOUS
  <2>2. n \in Nat \ {0} /\ (n > 1 => q.place = "bottom")
    BY <1>1, <1>2, <1>4, <2>1 DEF Insert, RequestType, RequestBody
  <2>3. PICK s \in [1..req[r].n -> {d \in Card : cards[d] = None}] :
           cards' = [d \in Card |->
             IF \E i \in DOMAIN s : s[i] = d
             THEN [list |-> req[r].list, key |-> keyAfter(req[r].key, CHOOSE i \in DOMAIN s : s[i] = d)]
             ELSE cards[d]]
    BY <1>4 DEF Insert
  <2>4. \E i \in DOMAIN s : s[i] = c
    BY <2>3
  <2>5. PICK h : h = CHOOSE i \in DOMAIN s : s[i] = c
    OBVIOUS
  <2>6. h \in DOMAIN s
    BY <2>4, <2>5
  <2>7. h \in 1..n
    BY <1>1, <2>1, <2>3, <2>6
  <2>8. cards'[c] = [list |-> req[r].list, key |-> keyAfter(req[r].key, h)]
    BY <2>3, <2>4, <2>5
  <2>9. h \in Nat \ {0} /\ (h > 1 => req[r].place = "bottom")
    BY ONLY <1>1, <2>2, <2>7
  <2>10. cards'[c].list = req[r].list /\ cards'[c].key = keyAfter(req[r].key, h)
    BY ONLY <2>8
  <2> QED
    BY ONLY <2>9, <2>10
<1>5. CASE Move(r)
  <2>1. cards' = [cards EXCEPT ![q.card] = [list |-> req[r].list, key |-> req[r].key]] \/ cards' = cards
    BY <1>1, <1>5 DEF Move
  <2>2. cards'[c] = [list |-> req[r].list, key |-> req[r].key]
    BY <1>3, <2>1
  <2> QED
    BY ONLY <2>2
<1> QED
  BY <1>4, <1>5

LEMMA LandsAtItsEndStep ==
  ASSUME CardsInv, [Next]_vars, NEW r \in Request, req[r].list \notin muddled', at(r, "write"), ~at(r, "write")',
         NEW c \in Card, NEW d \in Card, isCard(c)', isCard(d)', cards'[c] # cards[c], cards'[d] = cards[d],
         cards'[c].list = cards'[d].list
  PROVE  /\ req[r].place = "top" => cards'[c].key \prec cards'[d].key
         /\ req[r].place = "bottom" => cards'[d].key \prec cards'[c].key
<1>1. CardsShape /\ CardsInv'
  BY CardsInvKept DEF CardsInv
<1>2. DOMAIN req = Request
  BY <1>1 DEF CardsShape
<1>3. Insert(r) \/ Move(r)
  <2>1. ~(UNCHANGED vars)
    BY DEF vars
  <2>2. ASSUME NEW e \in Card, Delete(e) PROVE FALSE
    BY <2>2 DEF Delete, at
  <2>3. ASSUME NEW s \in Request, s # r,
               \/ StartCreate(s) \/ StartMove(s) \/ StartForeign(s) \/ StartDrop(s)
               \/ Find(s) \/ ReadHead(s) \/ Respace(s) \/ RespaceFails(s) \/ Fail(s) \/ ReadTail(s)
               \/ Insert(s) \/ Move(s)
        PROVE  FALSE
    <3>1. CASE StartCreate(s) \/ StartMove(s) \/ StartForeign(s) \/ StartDrop(s)
      <4>1. PICK call, tight : Start(s, call, tight)
        BY <3>1, ZenonT(60) DEF StartCreate, StartMove, StartForeign, StartDrop
      <4> QED
        BY <1>2, <2>3, <4>1 DEF Start, at
    <3>2. CASE Find(s) \/ Fail(s) \/ ReadTail(s) \/ Insert(s) \/ Move(s)
      BY <1>2, <2>3, <3>2 DEF Find, Goto, Return, Fail, ReadTail, Resolved, Insert, Move, at
    <3>3. CASE ReadHead(s)
      BY <1>2, <2>3, <3>3 DEF ReadHead, Resolved, Respaced, at
    <3>4. CASE Respace(s) \/ RespaceFails(s)
      <4>1. PICK b, failed : Settle(s, b, failed)
        BY <3>4 DEF Respace, RespaceFails
      <4> QED
        BY <1>2, <2>3, <4>1 DEF Settle, at
    <3> QED
      BY <2>3, <3>1, <3>2, <3>3, <3>4
  <2>4. ~(StartCreate(r) \/ StartMove(r) \/ StartForeign(r) \/ StartDrop(r))
    BY DEF StartCreate, StartMove, StartForeign, StartDrop, Start, active, at
  <2>5. ~(Find(r) \/ ReadHead(r) \/ Respace(r) \/ RespaceFails(r) \/ ReadTail(r))
    BY DEF Find, ReadHead, Respace, RespaceFails, ReadTail, at
  <2>6. ~Fail(r)
    BY DEF Fail
  <2> QED
    BY <2>1, <2>2, <2>3, <2>4, <2>5, <2>6 DEF Next
<1>4. PICK q : q = req[r]
  OBVIOUS
<1>5. RequestType(q) /\ RequestBody(q) /\ Ready(q) /\ q.pc = "write"
  BY <1>4, RequestFacts DEF at
<1>6. /\ cards'[c].list = q.list
      /\ \/ cards'[c].key = q.key
         \/ \E i \in Nat \ {0} : cards'[c].key = keyAfter(q.key, i) /\ (i > 1 => q.place = "bottom")
  BY <1>3, <1>4, WritesItsIndex
<1>7. d \in CardsIn(q.list) /\ cards'[d].key = keyOf(d)
  BY <1>6 DEF CardsIn, isCard, keyOf
<1>8. q.list \notin muddled
  <2>1. muddled \subseteq muddled'
    BY <1>3 DEF Insert, Move, Muddle
  <2> QED
    BY <1>4, <2>1
<1>9. q.key \in Key /\ keyOf(d) \in Key
  BY <1>1, <1>5, <1>7, CardFacts DEF RequestBody
<1>10. CASE q.place = "top"
  <2>1. q.key \prec keyOf(d)
    BY ONLY <1>5, <1>7, <1>8, <1>10 DEF Ready
  <2>2. keyAfter(q.key, 1) = q.key
    BY ONLY <1>9 DEF keyAfter, Key
  <2>3. \A i \in Nat \ {0} : ~(i > 1) => i = 1
    OBVIOUS
  <2>4. cards'[c].key = q.key
    BY ONLY <1>6, <1>10, <2>2, <2>3
  <2> QED
    BY ONLY <1>4, <1>7, <1>10, <2>1, <2>4
<1>11. CASE q.place = "bottom"
  <2>1. keyOf(d) \prec q.key
    BY ONLY <1>5, <1>7, <1>8, <1>11 DEF Ready
  <2>2. \A i \in Nat \ {0} : keyOf(d) \prec keyAfter(q.key, i)
    BY ONLY <1>9, <2>1, RowsComeInTurn
  <2>3. keyOf(d) \prec cards'[c].key
    BY ONLY <1>6, <2>1, <2>2
  <2> QED
    BY ONLY <1>4, <1>7, <1>11, <2>3
<1>12. CASE q.place \notin {"top", "bottom"}
  BY <1>4, <1>12
<1> QED
  BY <1>10, <1>11, <1>12

\* A card put at the top or the bottom of such a list ends up above or below all
\* others there, however little room was left (moveCard, bulkCreateCards).
THEOREM LandsAtItsEndHolds == Spec => LandsAtItsEnd
<1> DEFINE Lands == \A r \in Request :
       req[r].list \notin muddled' /\ at(r, "write") /\ ~at(r, "write")' =>
         \A c, d \in Card :
           /\ isCard(c)' /\ isCard(d)' /\ cards'[c] # cards[c] /\ cards'[d] = cards[d]
           /\ cards'[c].list = cards'[d].list
           => /\ req[r].place = "top" => cards'[c].key \prec cards'[d].key
              /\ req[r].place = "bottom" => cards'[d].key \prec cards'[c].key
<1>1. CardsInv /\ [Next]_vars => [Lands]_vars
  BY LandsAtItsEndStep
<1>2. [][Lands]_vars => LandsAtItsEnd
  BY PTL DEF LandsAtItsEnd
<1> QED
  BY <1>1, <1>2, CardsInvHolds, PTL DEF Spec
=============================================================================

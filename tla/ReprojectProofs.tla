--------------------------- MODULE ReprojectProofs ---------------------------
(***************************************************************************)
(* The safety properties of Reproject, for any catalogue, any drafts and   *)
(* renames, and any number of listings and requests.                       *)
(*                                                                         *)
(* The first half is about the operators of Projections alone: a set in    *)
(* order is the one enumeration that follows it, a stable sort the one     *)
(* that sorts, and the filter of empty headings keeps the headings of the  *)
(* sections with an answer.  They are proved by a first or a last          *)
(* exception, for want of an induction.  The second half follows three     *)
(* invariants through the steps: what rows, requests and the pass are      *)
(* (IInv), what their columns hold (TInv), and what a pass that nothing    *)
(* has disturbed has left behind it (Alone).                               *)
(***************************************************************************)
EXTENDS Reproject, FiniteSetTheorems, FunctionTheorems, WellFoundedInduction, TLAPS

-----------------------------------------------------------------------------
(* Arguments by a first or a last exception: what is not empty and bounded *)
(* has a least and a greatest member.                                      *)
LEMMA Least ==
  ASSUME NEW T \in SUBSET Nat, T # {}
  PROVE  \E m \in T : \A n \in T : m <= n
<1>1. PICK m \in T : \A n \in T : <<n, m>> \notin OpToRel(<, Nat)
  BY WFMin, NatLessThanWellFounded, Zenon
<1>2. \A n \in T : ~(n < m)
  <2> SUFFICES ASSUME NEW n \in T, n < m PROVE FALSE
    OBVIOUS
  <2>1. <<n, m>> \in OpToRel(<, Nat)
    BY DEF OpToRel
  <2> QED BY <1>1, <2>1
<1> QED BY <1>2

LEMMA Greatest ==
  ASSUME NEW b \in Nat, NEW T \in SUBSET (0 .. b), T # {}
  PROVE  \E m \in T : \A n \in T : n <= m
<1> DEFINE D == {d \in Nat : \E t \in T : d = b - t}
<1>1. D \in SUBSET Nat /\ D # {}
  <2>1. PICK t \in T : TRUE
    OBVIOUS
  <2>2. b - t \in D
    BY <2>1
  <2> QED BY <2>2
<1>2. PICK d \in D : \A e \in D : d <= e
  BY <1>1, Least
<1>3. PICK m \in T : d = b - m
  OBVIOUS
<1>4. \A n \in T : n <= m
  <2> SUFFICES ASSUME NEW n \in T PROVE n <= m
    OBVIOUS
  <2>1. b - n \in D
    OBVIOUS
  <2>2. d <= b - n
    BY <1>2, <2>1
  <2> QED BY <1>3, <2>2
<1> QED BY <1>4

-----------------------------------------------------------------------------
(* Arranged. *)
Orders(R, I) ==
  /\ \A i \in I : <<i, i>> \notin R
  /\ \A i, j \in I : i # j => <<i, j>> \in R \/ <<j, i>> \in R
  /\ \A i, j \in I : <<i, j>> \in R => <<j, i>> \notin R
  /\ \A i, j, k \in I : <<i, j>> \in R /\ <<j, k>> \in R => <<i, k>> \in R

(* e lists the members of I, from 1 to n, as R has them.                    *)
Arranges(e, n, I, R) ==
  /\ n \in Nat /\ e \in [1 .. n -> I]
  /\ \A i \in I : \E k \in 1 .. n : e[k] = i
  /\ \A a, b \in 1 .. n : a < b => <<e[a], e[b]>> \in R

(* An enumeration of I that follows R is the one Arranged gives.           *)
LEMMA OnlyArrangement ==
  ASSUME NEW I, NEW R, Orders(R, I), NEW n, NEW e, Arranges(e, n, I, R)
  PROVE  /\ IsFiniteSet(I) /\ Cardinality(I) = n /\ Arranged(I, R) = e
         /\ \A a, b \in 1 .. n : e[a] = e[b] => a = b
         /\ \A a, b \in 1 .. n : <<e[a], e[b]>> \in R => a < b
<1>0. /\ n \in Nat /\ e \in [1 .. n -> I]
      /\ \A i \in I : \E k \in 1 .. n : e[k] = i
      /\ \A a, b \in 1 .. n : a < b => <<e[a], e[b]>> \in R
      /\ \A i, j \in I : <<i, j>> \in R => <<j, i>> \notin R
      /\ \A i \in I : <<i, i>> \notin R
  BY DEF Arranges, Orders
<1>1. \A a, b \in 1 .. n : e[a] = e[b] => a = b
  <2> SUFFICES ASSUME NEW a \in 1 .. n, NEW b \in 1 .. n, e[a] = e[b], a < b PROVE FALSE
    BY <1>0
  <2> QED BY <1>0
<1>2. e \in Bijection(1 .. n, I)
  BY <1>0, <1>1, Fun_IsBij
<1>3. IsFiniteSet(1 .. n) /\ Cardinality(1 .. n) = n
  BY <1>0, FS_Interval
<1>4. IsFiniteSet(I) /\ Cardinality(I) = n
  <2>1. ExistsBijection(1 .. n, I)
    BY <1>2 DEF ExistsBijection
  <2> QED BY <1>3, <2>1, FS_Bijection
<1>5. ASSUME NEW a \in 1 .. n, NEW b \in 1 .. n, <<e[a], e[b]>> \in R
      PROVE  a < b
  <2>1. a # b
    BY <1>0, <1>5
  <2>2. ~(b < a)
    BY <1>0, <1>5
  <2> QED BY <1>0, <2>1, <2>2
<1> DEFINE B(i) == {j \in I : <<j, i>> \in R}
<1>6. ASSUME NEW k \in 1 .. n
      PROVE  Cardinality(B(e[k])) = k - 1
  <2> DEFINE f == [a \in 1 .. k - 1 |-> e[a]]
  <2>0. \A a \in 1 .. k - 1 : a \in 1 .. n /\ a < k
    BY <1>0
  <2>1. f \in [1 .. k - 1 -> B(e[k])]
    BY <1>0, <2>0
  <2>2. \A a, b \in 1 .. k - 1 : f[a] = f[b] => a = b
    BY <1>1, <2>0
  <2>3. ASSUME NEW j \in B(e[k]) PROVE \E a \in 1 .. k - 1 : f[a] = j
    <3>1. PICK a \in 1 .. n : e[a] = j
      BY <1>0
    <3>2. a < k
      BY <1>5, <3>1
    <3> QED BY <1>0, <3>1, <3>2
  <2> HIDE DEF B, f
  <2>4. f \in Bijection(1 .. k - 1, B(e[k]))
    BY <2>1, <2>2, <2>3, Fun_IsBij
  <2>5. ExistsBijection(1 .. k - 1, B(e[k]))
    BY <2>4 DEF ExistsBijection
  <2>6. IsFiniteSet(1 .. k - 1) /\ Cardinality(1 .. k - 1) = k - 1
    BY <1>0, FS_Interval
  <2> QED BY <2>5, <2>6, FS_Bijection
<1> DEFINE At(k) == CHOOSE i \in I : Cardinality(B(i)) = k - 1
<1>7. ASSUME NEW k \in 1 .. n PROVE At(k) = e[k]
  <2> HIDE DEF B
  <2>1. e[k] \in I /\ Cardinality(B(e[k])) = k - 1
    BY <1>0, <1>6
  <2>2. ASSUME NEW i \in I, Cardinality(B(i)) = k - 1
        PROVE  i = e[k]
    <3>1. PICK b \in 1 .. n : e[b] = i
      BY <1>0
    <3>2. b - 1 = k - 1
      BY <1>6, <2>2, <3>1
    <3> QED BY <1>0, <3>1, <3>2
  <2> QED BY <2>1, <2>2
<1>8. Arranged(I, R) = [k \in 1 .. n |-> At(k)]
  BY <1>4 DEF Arranged
<1> HIDE DEF At
<1>9. Arranged(I, R) = [k \in 1 .. n |-> e[k]]
  BY <1>7, <1>8
<1>10. Arranged(I, R) = e
  BY <1>0, <1>9
<1> QED BY <1>1, <1>4, <1>5, <1>10

(* What Arranged gives is such an enumeration.                             *)
LEMMA ArrangedArranges ==
  ASSUME NEW I, IsFiniteSet(I), NEW R, Orders(R, I)
  PROVE  Arranges(Arranged(I, R), Cardinality(I), I, R)
<1> DEFINE n == Cardinality(I)
<1> DEFINE e == Arranged(I, R)
<1> DEFINE B(i) == {j \in I : <<j, i>> \in R}
<1> DEFINE rank == [i \in I |-> Cardinality(B(i)) + 1]
<1> HIDE DEF n
<1>1. n \in Nat
  BY FS_CardinalityType DEF n
<1>2. ASSUME NEW i \in I
      PROVE  IsFiniteSet(B(i)) /\ Cardinality(B(i)) \in 0 .. n - 1
  <2>1. B(i) \subseteq I \ {i}
    BY DEF Orders
  <2>2. IsFiniteSet(I \ {i}) /\ Cardinality(I \ {i}) = n - 1
    BY FS_RemoveElement DEF n
  <2>3. IsFiniteSet(B(i)) /\ Cardinality(B(i)) <= n - 1
    <3> HIDE DEF B
    <3> QED BY <2>1, <2>2, FS_Subset
  <2>4. Cardinality(B(i)) \in Nat
    BY <2>3, FS_CardinalityType
  <2> HIDE DEF B
  <2> QED BY <1>1, <2>3, <2>4
<1>3. ASSUME NEW i \in I, NEW j \in I, <<i, j>> \in R
      PROVE  rank[i] < rank[j]
  <2>1. B(i) \subseteq B(j) /\ i \in B(j) /\ i \notin B(i)
    BY <1>3 DEF Orders
  <2>2. Cardinality(B(i)) <= Cardinality(B(j)) /\ Cardinality(B(i)) # Cardinality(B(j))
    BY <1>2, <2>1, FS_Subset
  <2>3. rank[i] = Cardinality(B(i)) + 1 /\ rank[j] = Cardinality(B(j)) + 1
    OBVIOUS
  <2> HIDE DEF B, rank
  <2> QED BY <1>2, <2>2, <2>3
<1>4. rank \in [I -> 1 .. n]
  <2> HIDE DEF B
  <2> QED BY <1>1, <1>2
<1>5. \A i \in I : rank[i] = Cardinality(B(i)) + 1
  OBVIOUS
<1> HIDE DEF rank
<1>6. ASSUME NEW i \in I, NEW j \in I, rank[i] = rank[j]
      PROVE  i = j
  <2>1. rank[i] \in Nat /\ rank[j] \in Nat
    BY <1>1, <1>4
  <2>2. <<i, j>> \notin R /\ <<j, i>> \notin R
    BY <1>3, <1>6, <2>1
  <2> QED BY <2>2 DEF Orders
<1>7. rank \in Surjection(I, 1 .. n)
  <2>1. rank \in Injection(I, 1 .. n)
    BY <1>4, <1>6, Fun_IsInj
  <2>2. IsFiniteSet(1 .. n) /\ Cardinality(1 .. n) = n
    BY <1>1, FS_Interval
  <2> QED BY <2>1, <2>2, FS_Injection DEF n
<1>8. \A k \in 1 .. n : \E i \in I : rank[i] = k
  BY <1>7, Fun_SurjectionProperties
<1> DEFINE At(k) == CHOOSE i \in I : Cardinality(B(i)) = k - 1
<1>9. ASSUME NEW k \in 1 .. n PROVE At(k) \in I /\ rank[At(k)] = k
  <2>1. PICK i \in I : Cardinality(B(i)) = k - 1
    <3>1. PICK i \in I : rank[i] = k
      BY <1>8
    <3>2. Cardinality(B(i)) \in 0 .. n - 1 /\ Cardinality(B(i)) + 1 = k
      BY <1>2, <1>5, <3>1
    <3> HIDE DEF B
    <3> QED BY <3>2
  <2>2. At(k) \in I /\ Cardinality(B(At(k))) = k - 1
    <3> HIDE DEF B
    <3> QED BY <2>1
  <2> QED BY <1>5, <2>2
<1>10. e = [k \in 1 .. n |-> At(k)]
  BY DEF Arranged, n
<1> HIDE DEF At, e
<1>11. e \in [1 .. n -> I] /\ \A k \in 1 .. n : rank[e[k]] = k
  BY <1>9, <1>10
<1>12. \A i \in I : \E k \in 1 .. n : e[k] = i
  <2> SUFFICES ASSUME NEW i \in I PROVE \E k \in 1 .. n : e[k] = i
    OBVIOUS
  <2>1. rank[i] \in 1 .. n /\ e[rank[i]] = i
    BY <1>4, <1>6, <1>11
  <2> QED BY <2>1
<1>13. ASSUME NEW a \in 1 .. n, NEW b \in 1 .. n, a < b
       PROVE  <<e[a], e[b]>> \in R
  <2>1. e[a] \in I /\ e[b] \in I /\ rank[e[a]] = a /\ rank[e[b]] = b
    BY <1>11
  <2>2. ~(<<e[b], e[a]>> \in R)
    BY <1>3, <1>13, <2>1
  <2>3. e[a] # e[b]
    BY <1>13, <2>1
  <2> QED BY <2>1, <2>2, <2>3 DEF Orders
<1>14. Arranges(e, n, I, R)
  BY <1>1, <1>11, <1>12, <1>13 DEF Arranges
<1> QED BY <1>14 DEF e, n

-----------------------------------------------------------------------------
(* InOrder and Pick: the same for the order of the numbers.                *)
Below(I) == {p \in I \X I : p[1] < p[2]}

LEMMA BelowOrders ==
  ASSUME NEW I \in SUBSET Nat
  PROVE  Orders(Below(I), I) /\ \A i, j \in I : <<i, j>> \in Below(I) <=> i < j
<1>1. \A i, j \in I : <<i, j>> \in Below(I) <=> i < j
  BY DEF Below
<1>0. \A i \in I : i \in Nat
  OBVIOUS
<1>2. \A i \in I : <<i, i>> \notin Below(I)
  BY <1>0, <1>1
<1>3. \A i, j \in I : i # j => <<i, j>> \in Below(I) \/ <<j, i>> \in Below(I)
  BY <1>0, <1>1
<1>4. \A i, j \in I : <<i, j>> \in Below(I) => <<j, i>> \notin Below(I)
  BY <1>0, <1>1
<1>5. \A i, j, k \in I : <<i, j>> \in Below(I) /\ <<j, k>> \in Below(I) => <<i, k>> \in Below(I)
  BY <1>0, <1>1
<1> QED BY <1>1, <1>2, <1>3, <1>4, <1>5 DEF Orders

(* e lists the members of I, from 1 to n, upwards.                         *)
Ascends(e, n, I) ==
  /\ n \in Nat /\ e \in [1 .. n -> I]
  /\ \A i \in I : \E k \in 1 .. n : e[k] = i
  /\ \A a, b \in 1 .. n : a < b => e[a] < e[b]

(* InOrder lists the members upwards, and is the only list that does.      *)
LEMMA InOrderAscends ==
  ASSUME NEW I \in SUBSET Nat, IsFiniteSet(I)
  PROVE  Ascends(InOrder(I), Cardinality(I), I)
<1>1. Arranges(InOrder(I), Cardinality(I), I, Below(I))
  BY BelowOrders, ArrangedArranges DEF InOrder, Below
<1> QED BY <1>1, BelowOrders DEF Arranges, Ascends

LEMMA OnlyInOrder ==
  ASSUME NEW I \in SUBSET Nat, NEW n, NEW e, Ascends(e, n, I)
  PROVE  /\ IsFiniteSet(I) /\ Cardinality(I) = n /\ InOrder(I) = e
         /\ \A a, b \in 1 .. n : e[a] = e[b] => a = b
         /\ \A a, b \in 1 .. n : e[a] < e[b] => a < b
<1>1. Orders(Below(I), I)
  BY BelowOrders
<1>2. Arranges(e, n, I, Below(I))
  BY BelowOrders DEF Ascends, Arranges
<1>3. Arranged(I, Below(I)) = InOrder(I)
  BY DEF InOrder, Below
<1>4. /\ IsFiniteSet(I) /\ Cardinality(I) = n /\ InOrder(I) = e
      /\ \A a, b \in 1 .. n : e[a] = e[b] => a = b
      /\ \A a, b \in 1 .. n : <<e[a], e[b]>> \in Below(I) => a < b
  BY <1>1, <1>2, <1>3, OnlyArrangement
<1>5. \A a, b \in 1 .. n : e[a] < e[b] => a < b
  BY <1>4, BelowOrders DEF Ascends
<1> QED BY <1>4, <1>5

(* 1 .. n is in order as it is, and picking all of a list gives the list.  *)
(* Pick keeps the chosen entries, in the order of the list.                *)
LEMMA PickFollows ==
  ASSUME NEW S, NEW s \in Seq(S), NEW I \in SUBSET DOMAIN s
  PROVE  /\ IsFiniteSet(I) /\ I \in SUBSET Nat
         /\ Ascends(InOrder(I), Cardinality(I), I)
         /\ Pick(s, I) = [k \in 1 .. Cardinality(I) |-> s[InOrder(I)[k]]]
         /\ Pick(s, I) \in Seq(S) /\ Len(Pick(s, I)) = Cardinality(I)
         /\ DOMAIN Pick(s, I) = 1 .. Cardinality(I)
         /\ ToSet(Pick(s, I)) = {s[i] : i \in I}
<1> DEFINE n == Cardinality(I)
<1> DEFINE e == InOrder(I)
<1> DEFINE t == Pick(s, I)
<1>1. Len(s) \in Nat /\ DOMAIN s = 1 .. Len(s) /\ \A i \in DOMAIN s : s[i] \in S
  OBVIOUS
<1>2. IsFiniteSet(I) /\ I \in SUBSET Nat
  <2>1. IsFiniteSet(1 .. Len(s)) /\ I \in SUBSET (1 .. Len(s))
    BY <1>1, FS_Interval
  <2> QED BY <2>1, FS_Subset
<1>3. Ascends(e, n, I)
  BY <1>2, InOrderAscends
<1>4. t = [k \in 1 .. n |-> s[e[k]]]
  BY DEF Pick
<1> HIDE DEF e, t, n
<1>5. n \in Nat /\ e \in [1 .. n -> I] /\ \A i \in I : \E k \in 1 .. n : e[k] = i
  BY <1>3 DEF Ascends
<1>6. t \in [1 .. n -> S]
  BY <1>1, <1>4, <1>5
<1>7. ToSet(t) = {s[e[k]] : k \in 1 .. n}
  BY <1>4 DEF ToSet
<1>8. ToSet(t) = {s[i] : i \in I}
  BY <1>5, <1>7
<1>9. t \in Seq(S) /\ Len(t) = n /\ DOMAIN t = 1 .. n
  BY <1>5, <1>6
<1> QED BY <1>2, <1>3, <1>4, <1>8, <1>9 DEF e, t, n

-----------------------------------------------------------------------------
(* ByOrder. *)

(* Entry i of a list comes before entry j. *)
Sooner(list, i, j) ==
  \/ list[i].order < list[j].order
  \/ list[i].order = list[j].order /\ i < j

SoonerPairs(list) ==
  {p \in (DOMAIN list) \X (DOMAIN list) :
     \/ list[p[1]].order < list[p[2]].order
     \/ list[p[1]].order = list[p[2]].order /\ p[1] < p[2]}

IsOrdered(list) == \A i \in DOMAIN list : list[i].order \in Nat

LEMMA SoonerOrders ==
  ASSUME NEW S, NEW list \in Seq(S), IsOrdered(list)
  PROVE  /\ Orders(SoonerPairs(list), DOMAIN list)
         /\ \A i, j \in DOMAIN list : <<i, j>> \in SoonerPairs(list) <=> Sooner(list, i, j)
<1> DEFINE R == SoonerPairs(list)
<1> DEFINE I == DOMAIN list
<1>1. \A i, j \in I : <<i, j>> \in R <=> Sooner(list, i, j)
  BY DEF Sooner, SoonerPairs
<1>2. \A i \in I : i \in Nat /\ list[i].order \in Nat
  BY DEF IsOrdered
<1> HIDE DEF R, I
<1>3. \A i \in I : <<i, i>> \notin R
  BY <1>1, <1>2 DEF Sooner
<1>4. \A i, j \in I : i # j => <<i, j>> \in R \/ <<j, i>> \in R
  BY <1>1, <1>2 DEF Sooner
<1>5. \A i, j \in I : <<i, j>> \in R => <<j, i>> \notin R
  BY <1>1, <1>2 DEF Sooner
<1>6. \A i, j, k \in I : <<i, j>> \in R /\ <<j, k>> \in R => <<i, k>> \in R
  BY <1>1, <1>2 DEF Sooner
<1>7. Orders(R, I)
  BY <1>3, <1>4, <1>5, <1>6 DEF Orders
<1> QED BY <1>1, <1>7 DEF R, I

(* e lists the entries of a list, from 1 to n, as a stable sort does.      *)
Sorts(e, n, list) ==
  /\ n \in Nat /\ e \in [1 .. n -> DOMAIN list]
  /\ \A i \in DOMAIN list : \E k \in 1 .. n : e[k] = i
  /\ \A a, b \in 1 .. n : a < b => Sooner(list, e[a], e[b])

(* ByOrder sorts, what sorts is ByOrder, and a sorted list stays as it is. *)
LEMMA ByOrderSorts ==
  ASSUME NEW S, NEW list \in Seq(S), IsOrdered(list)
  PROVE  \E e : /\ Sorts(e, Len(list), list)
                /\ ByOrder(list) = [k \in 1 .. Len(list) |-> list[e[k]]]
<1> DEFINE R == SoonerPairs(list)
<1> DEFINE I == DOMAIN list
<1>1. Len(list) \in Nat /\ I = 1 .. Len(list)
  OBVIOUS
<1>2. IsFiniteSet(I) /\ Cardinality(I) = Len(list)
  BY <1>1, FS_Interval
<1>3. Arranges(Arranged(I, R), Len(list), I, R)
  BY <1>2, SoonerOrders, ArrangedArranges
<1>4. Sorts(Arranged(I, R), Len(list), list)
  BY <1>3, SoonerOrders DEF Sorts, Arranges
<1>5. ByOrder(list) = [k \in I |-> list[Arranged(I, R)[k]]]
  BY DEF ByOrder, SoonerPairs
<1> QED BY <1>1, <1>4, <1>5

LEMMA OnlyByOrder ==
  ASSUME NEW S, NEW list \in Seq(S), IsOrdered(list), NEW n, NEW e, Sorts(e, n, list)
  PROVE  /\ Len(list) = n /\ ByOrder(list) = [k \in 1 .. n |-> list[e[k]]]
         /\ \A a, b \in 1 .. n : e[a] = e[b] => a = b
<1> DEFINE R == SoonerPairs(list)
<1> DEFINE I == DOMAIN list
<1>1. Len(list) \in Nat /\ I = 1 .. Len(list)
  OBVIOUS
<1>2. Cardinality(I) = Len(list)
  BY <1>1, FS_Interval
<1>3. Orders(R, I)
  BY SoonerOrders
<1>4. Arranges(e, n, I, R)
  BY SoonerOrders DEF Sorts, Arranges
<1>5. ByOrder(list) = [k \in I |-> list[Arranged(I, R)[k]]]
  BY DEF ByOrder, SoonerPairs
<1> HIDE DEF R, I
<1>6. /\ Cardinality(I) = n /\ Arranged(I, R) = e
      /\ \A a, b \in 1 .. n : e[a] = e[b] => a = b
  BY <1>3, <1>4, OnlyArrangement
<1> QED BY <1>1, <1>2, <1>5, <1>6

LEMMA ByOrderIsList ==
  ASSUME NEW S, NEW list \in Seq(S), IsOrdered(list)
  PROVE  /\ ByOrder(list) \in Seq(S) /\ Len(ByOrder(list)) = Len(list)
         /\ ToSet(ByOrder(list)) = ToSet(list)
<1>1. PICK e : /\ Sorts(e, Len(list), list)
               /\ ByOrder(list) = [k \in 1 .. Len(list) |-> list[e[k]]]
  BY ByOrderSorts
<1>2. /\ DOMAIN list = 1 .. Len(list) /\ Len(list) \in Nat
      /\ \A i \in DOMAIN list : list[i] \in S
  OBVIOUS
<1>3. ByOrder(list) \in [1 .. Len(list) -> S]
  BY <1>1, <1>2 DEF Sorts
<1>4. ToSet(ByOrder(list)) = {list[e[k]] : k \in 1 .. Len(list)}
  BY <1>1 DEF ToSet
<1>5. ToSet(ByOrder(list)) = ToSet(list)
  BY <1>1, <1>2, <1>4 DEF Sorts, ToSet
<1> QED BY <1>2, <1>3, <1>5

LEMMA SortedByOrder ==
  ASSUME NEW S, NEW list \in Seq(S), IsOrdered(list),
         \A a, b \in DOMAIN list : a < b => list[a].order < list[b].order
  PROVE  ByOrder(list) = list
<1> DEFINE n == Len(list)
<1> DEFINE e == [k \in 1 .. n |-> k]
<1>1. n \in Nat /\ DOMAIN list = 1 .. n /\ list = [k \in 1 .. n |-> list[k]]
  OBVIOUS
<1>2. Sorts(e, n, list)
  BY <1>1 DEF Sorts, Sooner
<1>3. \A k \in 1 .. n : e[k] = k
  OBVIOUS
<1> HIDE DEF e
<1>4. ByOrder(list) = [k \in 1 .. n |-> list[e[k]]]
  BY <1>2, OnlyByOrder
<1>5. [k \in 1 .. n |-> list[e[k]]] = [k \in 1 .. n |-> list[k]]
  BY <1>3
<1> QED BY <1>1, <1>4, <1>5

-----------------------------------------------------------------------------
(* FilterEmptyHeaders. *)

(* j comes next after i in kept, and i may head it.                        *)
LeadsTo(list, pairs, i, j, kept) ==
  /\ j \in kept /\ i < j /\ \A k \in kept : i < k => j <= k
  /\ ~list[j].header \/ <<list[i].slug, list[j].slug>> \in pairs

(* Of the entries after m, kept has what it should.                        *)
KeptFrom(list, pairs, m, kept) ==
  \A i \in DOMAIN list : m < i =>
    (i \in kept <=> ~list[i].header \/ \E j \in kept : LeadsTo(list, pairs, i, j, kept))

(* The filter takes one more entry, from the last to the first.            *)
LEMMA OneMoreKept ==
  ASSUME NEW S, NEW list \in Seq(S), NEW pairs, NEW m \in 1 .. Len(list),
         NEW kept \in SUBSET (m + 1 .. Len(list)), KeptFrom(list, pairs, m, kept)
  PROVE  \E more \in SUBSET (m .. Len(list)) : KeptFrom(list, pairs, m - 1, more)
<1> DEFINE Stays == ~list[m].header \/ \E j \in kept : LeadsTo(list, pairs, m, j, kept)
<1> DEFINE more == IF Stays THEN kept \cup {m} ELSE kept
<1>0. Len(list) \in Nat /\ DOMAIN list = 1 .. Len(list) /\ \A k \in kept : k \in Nat /\ m < k
  OBVIOUS
<1>1. more \in SUBSET (m .. Len(list)) /\ kept \subseteq more /\ more \subseteq kept \cup {m}
      /\ (m \in more <=> Stays)
  BY <1>0
<1> HIDE DEF more
<1>2. ASSUME NEW i \in DOMAIN list, m <= i, NEW j
      PROVE  LeadsTo(list, pairs, i, j, more) <=> LeadsTo(list, pairs, i, j, kept)
  <2>1. \A k \in m .. Len(list) : i < k => (k \in more <=> k \in kept)
    BY <1>0, <1>1, <1>2
  <2>2. kept \subseteq m .. Len(list) /\ more \subseteq m .. Len(list)
    BY <1>1
  <2> QED BY <2>1, <2>2 DEF LeadsTo
<1>3. \A i \in DOMAIN list : \A j : LeadsTo(list, pairs, i, j, kept) => j \in kept
  BY DEF LeadsTo
<1>4. \A i \in DOMAIN list : m <= i =>
        ((\E j \in more : LeadsTo(list, pairs, i, j, more))
          <=> \E j \in kept : LeadsTo(list, pairs, i, j, kept))
  BY <1>1, <1>2, <1>3
<1> DEFINE Precedes(i, kk) == \E j \in kk : LeadsTo(list, pairs, i, j, kk)
<1>5. /\ \A i \in DOMAIN list : m <= i => (Precedes(i, more) <=> Precedes(i, kept))
      /\ Stays <=> ~list[m].header \/ Precedes(m, kept)
  BY <1>4
<1>6. \A i \in DOMAIN list : m < i => (i \in kept <=> ~list[i].header \/ Precedes(i, kept))
  BY DEF KeptFrom
<1> HIDE DEF Precedes, Stays
<1>7. \A i \in DOMAIN list : m - 1 < i => (i \in more <=> ~list[i].header \/ Precedes(i, more))
  <2> SUFFICES ASSUME NEW i \in DOMAIN list, m - 1 < i
               PROVE  i \in more <=> ~list[i].header \/ Precedes(i, more)
    OBVIOUS
  <2>1. CASE i = m
    BY <1>0, <1>1, <1>5, <2>1
  <2>2. CASE m < i
    BY <1>0, <1>1, <1>5, <1>6, <2>2
  <2> QED BY <1>0, <2>1, <2>2
<1>8. KeptFrom(list, pairs, m - 1, more)
  BY <1>7 DEF KeptFrom, Precedes
<1> QED BY <1>1, <1>8

(* So a choice that satisfies the filter's equation exists, and is made.   *)
LEMMA FilterKeeps ==
  ASSUME NEW S, NEW list \in Seq(S), NEW pairs
  PROVE  \E kept \in SUBSET DOMAIN list :
           /\ KeptFrom(list, pairs, 0, kept)
           /\ FilterEmptyHeaders(list, pairs) = Pick(list, kept)
<1> DEFINE n == Len(list)
<1> DEFINE T == {m \in 0 .. n : \E kept \in SUBSET (m + 1 .. n) : KeptFrom(list, pairs, m, kept)}
<1>0. n \in Nat /\ DOMAIN list = 1 .. n
  OBVIOUS
<1>1. n \in T
  <2>1. KeptFrom(list, pairs, n, {})
    BY <1>0 DEF KeptFrom
  <2> QED BY <1>0, <2>1
<1>2. PICK m \in T : \A k \in T : m <= k
  <2>1. T \in SUBSET Nat /\ T # {}
    BY <1>1
  <2> HIDE DEF T
  <2> QED BY <2>1, Least
<1>3. m = 0
  <2> SUFFICES ASSUME m # 0 PROVE FALSE
    OBVIOUS
  <2>1. m \in 1 .. n
    BY <1>0
  <2>2. PICK kept \in SUBSET (m + 1 .. n) : KeptFrom(list, pairs, m, kept)
    OBVIOUS
  <2>3. PICK more \in SUBSET (m .. n) : KeptFrom(list, pairs, m - 1, more)
    BY <2>1, <2>2, OneMoreKept
  <2>4. m - 1 \in T
    <3>1. (m - 1) + 1 = m
      BY <2>1
    <3> QED BY <1>0, <2>1, <2>3, <3>1
  <2> QED BY <1>2, <2>1, <2>4
<1>4. PICK kept \in SUBSET DOMAIN list : KeptFrom(list, pairs, 0, kept)
  <2>1. m \in T
    OBVIOUS
  <2>2. PICK kept \in SUBSET (0 + 1 .. n) : KeptFrom(list, pairs, 0, kept)
    BY <1>3, <2>1
  <2>3. 0 + 1 .. n = DOMAIN list
    BY <1>0
  <2> HIDE DEF n, T
  <2> QED BY <2>2, <2>3
<1> DEFINE Following(i, kk) == {j \in kk : i < j /\ \A k \in kk : i < k => j <= k}
<1> DEFINE Heads(i, j) == ~list[j].header \/ <<list[i].slug, list[j].slug>> \in pairs
<1> DEFINE Keeps(kk) == {i \in DOMAIN list :
                           ~list[i].header \/ \E j \in Following(i, kk) : Heads(i, j)}
<1>5. \A kk \in SUBSET DOMAIN list : kk = Keeps(kk) <=> KeptFrom(list, pairs, 0, kk)
  <2> SUFFICES ASSUME NEW kk \in SUBSET DOMAIN list
               PROVE  kk = Keeps(kk) <=> KeptFrom(list, pairs, 0, kk)
    OBVIOUS
  <2>1. \A i : (\E j \in Following(i, kk) : Heads(i, j))
                <=> \E j \in kk : LeadsTo(list, pairs, i, j, kk)
    BY DEF LeadsTo
  <2>2. \A i \in DOMAIN list : 0 < i
    BY <1>0
  <2> HIDE DEF Following, Heads
  <2> QED BY <2>1, <2>2 DEF KeptFrom
<1> DEFINE fields == {i \in DOMAIN list : ~list[i].header}
<1> DEFINE Candidates == {fields \cup some : some \in SUBSET (DOMAIN list \ fields)}
<1> DEFINE chosen == CHOOSE kk \in Candidates : kk = Keeps(kk)
<1>6. FilterEmptyHeaders(list, pairs) = Pick(list, chosen)
  BY DEF FilterEmptyHeaders
<1>7. chosen \in SUBSET DOMAIN list /\ chosen = Keeps(chosen)
  <2>1. PICK kk \in SUBSET DOMAIN list : kk = Keeps(kk)
    BY <1>4, <1>5
  <2>2. fields \subseteq kk
    BY <2>1
  <2>3. kk = fields \cup (kk \ fields) /\ kk \ fields \in SUBSET (DOMAIN list \ fields)
    BY <2>2
  <2>4. kk \in Candidates
    BY <2>3
  <2>5. Candidates \subseteq SUBSET DOMAIN list
    OBVIOUS
  <2> HIDE DEF Keeps, Candidates
  <2> QED BY <2>1, <2>4, <2>5
<1> HIDE DEF chosen, Keeps, Candidates, fields
<1> QED BY <1>5, <1>6, <1>7

-----------------------------------------------------------------------------
(* What is derived anew. *)

(* The features of a category that are shown when answers answers some.    *)
Shown(category, answers, K) ==
  /\ K \in SUBSET DOMAIN category
  /\ \A i \in DOMAIN category : ~category[i].header =>
       (i \in K <=> category[i].slug \in DOMAIN answers)
  /\ \A i \in DOMAIN category : category[i].header =>
       (i \in K <=> \E n \in K : /\ i < n /\ \A k \in K : i < k => n <= k
                                 /\ category[n].header => n = i + 1)

FreshFeatures(category, answers, K) ==
  [k \in 1 .. Cardinality(K) |-> Dao(category, InOrder(K)[k], answers)]

LEMMA DaoFields ==
  ASSUME NEW category, NEW i, NEW answers, NEW dao, dao = Dao(category, i, answers)
  PROVE  /\ dao.slug = category[i].slug /\ dao.header = category[i].header
         /\ dao.public = category[i].public /\ dao.order = i
         /\ dao.title = (category[i].title /\ category[i].public)
         /\ dao.badge = (category[i].badge /\ category[i].public)
         /\ ~category[i].header => dao.answer = answers[category[i].slug]
         /\ category[i].header => dao.answer = NoAnswer
BY DEF Dao

(* The pairs are the headings next to one another: a slug names one.      *)
LEMMA PairsAreNeighbours ==
  ASSUME NEW category, IsCategory(category), NEW i \in DOMAIN category,
         NEW n \in DOMAIN category, category[i].header, category[n].header
  PROVE  <<category[i].slug, category[n].slug>> \in ConsecutiveHeaderPairs(category)
           <=> n = i + 1
<1>1. Len(category) \in Nat /\ DOMAIN category = 1 .. Len(category)
  BY DEF IsCategory
<1>2. ASSUME n = i + 1
      PROVE  <<category[i].slug, category[n].slug>> \in ConsecutiveHeaderPairs(category)
  BY <1>1, <1>2 DEF ConsecutiveHeaderPairs
<1>3. ASSUME <<category[i].slug, category[n].slug>> \in ConsecutiveHeaderPairs(category)
      PROVE  n = i + 1
  <2>1. PICK k \in 1 .. Len(category) - 1 :
          <<category[i].slug, category[n].slug>> = <<category[k].slug, category[k + 1].slug>>
    BY <1>3 DEF ConsecutiveHeaderPairs
  <2>2. category[i].slug = category[k].slug /\ category[n].slug = category[k + 1].slug
    BY <2>1
  <2>3. k \in DOMAIN category /\ k + 1 \in DOMAIN category
    BY <1>1
  <2> QED BY <2>2, <2>3 DEF IsCategory
<1> QED BY <1>2, <1>3

(* An ascending list of a part of an ascending list.                       *)
LEMMA AscendsThrough ==
  ASSUME NEW I, NEW n, NEW e, Ascends(e, n, I),
         NEW J \in SUBSET (1 .. n), NEW m, NEW f, Ascends(f, m, J)
  PROVE  Ascends([k \in 1 .. m |-> e[f[k]]], m, {e[j] : j \in J})
<1> DEFINE g == [k \in 1 .. m |-> e[f[k]]]
<1> DEFINE K == {e[j] : j \in J}
<1>1. /\ m \in Nat /\ f \in [1 .. m -> J]
      /\ \A i \in J : \E k \in 1 .. m : f[k] = i
      /\ \A a, b \in 1 .. m : a < b => f[a] < f[b]
  BY DEF Ascends
<1>2. /\ n \in Nat /\ \A j \in 1 .. n : e[j] \in I
      /\ \A a, b \in 1 .. n : a < b => e[a] < e[b]
  BY DEF Ascends
<1>3. g \in [1 .. m -> K] /\ \A k \in 1 .. m : g[k] = e[f[k]]
  BY <1>1
<1>4. \A i \in K : \E k \in 1 .. m : g[k] = i
  BY <1>1
<1>5. \A a, b \in 1 .. m : a < b => g[a] < g[b]
  BY <1>1, <1>2
<1> QED BY <1>1, <1>3, <1>4, <1>5 DEF Ascends

(* The four columns are derived from the shown features, in the category's *)
(* own order.                                                              *)
LEMMA Fresh ==
  ASSUME NEW category, IsCategory(category), NEW answers
  PROVE  \E K : /\ Shown(category, answers, K)
                /\ BuildProjections(category, answers)
                     = ProjectionsFromList(FreshFeatures(category, answers, K))
<1> DEFINE p == BuildProjections(category, answers)
<1>1. CASE DOMAIN answers = {}
  <2>1. Shown(category, answers, {})
    BY <1>1 DEF Shown
  <2>2. Cardinality({}) = 0
    BY FS_EmptySet
  <2>3. FreshFeatures(category, answers, {}) = <<>>
    BY <2>2 DEF FreshFeatures
  <2>4. p = ProjectionsFromList(<<>>)
    BY <1>1 DEF BuildProjections
  <2> QED BY <2>1, <2>3, <2>4
<1>2. CASE DOMAIN answers # {}
  <2> DEFINE made == {i \in DOMAIN category :
                        category[i].header \/ category[i].slug \in DOMAIN answers}
  <2> DEFINE M == Cardinality(made)
  <2> DEFINE at == InOrder(made)
  <2> DEFINE daos == NormalizeToDao(category, answers)
  <2> DEFINE S == {Dao(category, i, answers) : i \in DOMAIN category}
  <2> DEFINE pairs == ConsecutiveHeaderPairs(category)
  <2>1. Len(category) \in Nat /\ DOMAIN category = 1 .. Len(category)
    BY DEF IsCategory
  <2>2. IsFiniteSet(made) /\ made \in SUBSET Nat
    <3>1. IsFiniteSet(1 .. Len(category)) /\ made \in SUBSET (1 .. Len(category))
      BY <2>1, FS_Interval
    <3> QED BY <3>1, FS_Subset
  <2>3. Ascends(at, M, made)
    BY <2>2, InOrderAscends
  <2>4. /\ M \in Nat /\ at \in [1 .. M -> made]
        /\ \A i \in made : \E k \in 1 .. M : at[k] = i
        /\ \A a, b \in 1 .. M : a < b => at[a] < at[b]
    BY <2>3 DEF Ascends
  <2>5. /\ \A a, b \in 1 .. M : at[a] = at[b] => a = b
        /\ \A a, b \in 1 .. M : at[a] < at[b] => a < b
    BY <2>2, <2>3, OnlyInOrder
  <2>6. daos = [k \in 1 .. M |-> Dao(category, at[k], answers)]
    <3>1. DOMAIN at = 1 .. M
      BY <2>4
    <3>2. daos = [k \in DOMAIN at |-> Dao(category, at[k], answers)]
      BY DEF NormalizeToDao
    <3> QED BY <3>1, <3>2
  <2>7. made \subseteq DOMAIN category
        /\ \A i \in DOMAIN category :
             i \in made <=> category[i].header \/ category[i].slug \in DOMAIN answers
    OBVIOUS
  <2> HIDE DEF made, M, at, daos, pairs
  <2>8. \A k \in 1 .. M : at[k] \in DOMAIN category /\ at[k] \in made /\ at[k] \in Nat
    BY <2>1, <2>4, <2>7
  <2>9. daos \in [1 .. M -> S]
    BY <2>6, <2>8
  <2>10. /\ \A s \in S : s.order \in Nat
    BY <2>1, DaoFields
  <2> HIDE DEF S
  <2>11. daos \in Seq(S) /\ Len(daos) = M /\ DOMAIN daos = 1 .. M
    BY <2>4, <2>9
  <2>12. \A k \in 1 .. M : /\ daos[k].header = category[at[k]].header
                           /\ daos[k].slug = category[at[k]].slug
                           /\ daos[k].order = at[k]
    BY <2>6, DaoFields
  <2>13. ByOrder(daos) = daos
    <3>1. IsOrdered(daos)
      BY <2>9, <2>10, <2>11 DEF IsOrdered
    <3>2. \A a, b \in DOMAIN daos : a < b => daos[a].order < daos[b].order
      BY <2>4, <2>11, <2>12
    <3> QED BY <2>11, <3>1, <3>2, SortedByOrder
  <2>14. PICK kept \in SUBSET DOMAIN daos :
           /\ KeptFrom(daos, pairs, 0, kept)
           /\ FilterEmptyHeaders(daos, pairs) = Pick(daos, kept)
    BY <2>11, FilterKeeps
  <2> DEFINE list == Pick(daos, kept)
  <2>15. FeaturesList(daos, pairs) = list
    BY <2>13, <2>14 DEF FeaturesList
  <2>16. /\ Ascends(InOrder(kept), Cardinality(kept), kept)
         /\ list = [k \in 1 .. Cardinality(kept) |-> daos[InOrder(kept)[k]]]
         /\ ToSet(list) = {daos[i] : i \in kept}
    BY <2>11, PickFollows
  <2> DEFINE K == {at[k] : k \in kept}
  <2> DEFINE f == [k \in 1 .. Cardinality(kept) |-> at[InOrder(kept)[k]]]
  <2>17. Ascends(f, Cardinality(kept), K)
    BY <2>3, <2>11, <2>16, AscendsThrough
  <2>18. Cardinality(K) = Cardinality(kept) /\ InOrder(K) = f
    <3>1. K \in SUBSET Nat
      BY <2>8, <2>11
    <3> HIDE DEF K, f
    <3> QED BY <2>17, <3>1, OnlyInOrder
  <2>19. list = FreshFeatures(category, answers, K)
    <3>1. \A k \in 1 .. Cardinality(kept) : InOrder(kept)[k] \in 1 .. M
      BY <2>11, <2>16 DEF Ascends
    <3>2. \A k \in 1 .. Cardinality(kept) :
            daos[InOrder(kept)[k]] = Dao(category, f[k], answers)
      BY <2>6, <3>1
    <3>3. FreshFeatures(category, answers, K)
            = [k \in 1 .. Cardinality(kept) |-> Dao(category, f[k], answers)]
      BY <2>18 DEF FreshFeatures
    <3> HIDE DEF f, list
    <3> QED BY <2>16, <3>2, <3>3
  <2>20. Shown(category, answers, K)
    <3>1. /\ K \in SUBSET DOMAIN category /\ K \subseteq made
          /\ \A k \in 1 .. M : at[k] \in K <=> k \in kept
      BY <2>5, <2>8, <2>11
    <3>2. ASSUME NEW i \in DOMAIN category, ~category[i].header
          PROVE  i \in K <=> category[i].slug \in DOMAIN answers
      <4>1. i \in K => category[i].slug \in DOMAIN answers
        BY <2>7, <3>1, <3>2
      <4>2. ASSUME category[i].slug \in DOMAIN answers
            PROVE  i \in K
        <5>1. PICK k \in 1 .. M : at[k] = i
          BY <2>4, <2>7, <4>2
        <5>2. k \in kept
          BY <2>11, <2>12, <2>14, <3>2, <5>1 DEF KeptFrom
        <5> QED BY <3>1, <5>1, <5>2
      <4> QED BY <4>1, <4>2
    <3>3. ASSUME NEW i \in DOMAIN category, category[i].header
          PROVE  i \in K <=> \E n \in K : /\ i < n /\ \A k \in K : i < k => n <= k
                                          /\ category[n].header => n = i + 1
      <4>1. PICK a \in 1 .. M : at[a] = i
        BY <2>4, <2>7, <3>3
      <4>2. i \in K <=> \E j \in kept : LeadsTo(daos, pairs, a, j, kept)
        BY <2>11, <2>12, <2>14, <3>1, <3>3, <4>1 DEF KeptFrom
      <4>3. ASSUME NEW j \in kept
            PROVE  LeadsTo(daos, pairs, a, j, kept)
                     <=> /\ i < at[j] /\ \A k \in K : i < k => at[j] <= k
                         /\ category[at[j]].header => at[j] = i + 1
        <5>1. j \in 1 .. M /\ at[j] \in K /\ at[j] \in DOMAIN category
          BY <2>8, <2>11
        <5>2. \A x \in 1 .. M, y \in 1 .. M : x < y <=> at[x] < at[y]
          BY <2>4, <2>5
        <5>3. \A x \in 1 .. M, y \in 1 .. M : x <= y <=> at[x] <= at[y]
          BY <2>8, <5>2
        <5>4. (\A k \in kept : a < k => j <= k) <=> \A k \in K : i < k => at[j] <= k
          <6>1. \A k \in kept : (a < k => j <= k) <=> (i < at[k] => at[j] <= at[k])
            BY <2>11, <4>1, <5>1, <5>2, <5>3
          <6> QED BY <6>1
        <5>5. \/ ~daos[j].header
              \/ <<daos[a].slug, daos[j].slug>> \in pairs
              <=> (category[at[j]].header => at[j] = i + 1)
          <6>1. daos[j].header = category[at[j]].header /\ daos[j].slug = category[at[j]].slug
                /\ daos[a].slug = category[i].slug
            BY <2>12, <4>1, <5>1
          <6>2. category[at[j]].header =>
                  (<<daos[a].slug, daos[j].slug>> \in pairs <=> at[j] = i + 1)
            BY <3>3, <5>1, <6>1, PairsAreNeighbours DEF pairs
          <6> QED BY <6>1, <6>2
        <5>6. a < j <=> i < at[j]
          BY <4>1, <5>1, <5>2
        <5> HIDE DEF K
        <5> QED BY <5>4, <5>5, <5>6 DEF LeadsTo
      <4>4. (\E j \in kept : LeadsTo(daos, pairs, a, j, kept))
              <=> \E j \in kept : /\ i < at[j] /\ \A k \in K : i < k => at[j] <= k
                                  /\ category[at[j]].header => at[j] = i + 1
        <5> HIDE DEF K
        <5> QED BY <4>3
      <4> DEFINE Follows(n) == /\ i < n /\ \A k \in K : i < k => n <= k
                               /\ category[n].header => n = i + 1
      <4>5. i \in K <=> \E j \in kept : Follows(at[j])
        BY <4>2, <4>4
      <4> HIDE DEF Follows
      <4>6. i \in K <=> \E n \in K : Follows(n)
        BY <4>5
      <4> QED BY <4>6 DEF Follows
    <3> HIDE DEF K
    <3> QED BY <3>1, <3>2, <3>3 DEF Shown
  <2>21. FeaturesSearch(daos) = FeaturesSearch(list)
    <3>1. ToSet(daos) = {daos[k] : k \in 1 .. M}
      BY <2>11 DEF ToSet
    <3>2. \A k \in 1 .. M : ~daos[k].header => k \in kept
      BY <2>11, <2>14 DEF KeptFrom
    <3>3. {d \in ToSet(daos) : ~d.header /\ d.public} = {d \in ToSet(list) : ~d.header /\ d.public}
      BY <2>11, <2>16, <3>1, <3>2
    <3> HIDE DEF list
    <3> QED BY <3>3 DEF FeaturesSearch
  <2>22. p = [ProjectionsFromList(list) EXCEPT !.features_search = FeaturesSearch(daos)]
    BY <1>2, <2>15 DEF BuildProjections, daos, pairs
  <2>23. p = ProjectionsFromList(list)
    <3> HIDE DEF list, p
    <3> QED BY <2>21, <2>22 DEF ProjectionsFromList
  <2> QED BY <2>19, <2>20, <2>23
<1> QED BY <1>1, <1>2

-----------------------------------------------------------------------------
(* The headings that lead to something answered, as HeadingsToShow has it. *)
Leads(category, answered, i) ==
  \E m, j \in DOMAIN category :
    /\ i <= m /\ m < j
    /\ \A k \in i .. m : category[k].header
    /\ \A k \in m + 1 .. j : ~category[k].header
    /\ category[j].slug \in answered

(* The filter keeps those, and only those: were it not so, there would be  *)
(* a last heading where the two differ.                                    *)
LEMMA ShownLead ==
  ASSUME NEW category, IsCategory(category), NEW answers, NEW K, Shown(category, answers, K),
         NEW h \in DOMAIN category, category[h].header
  PROVE  h \in K <=> Leads(category, DOMAIN answers, h)
<1> DEFINE N == Len(category)
<1> DEFINE T == {i \in 1 .. N : /\ category[i].header
                                /\ ~(i \in K <=> Leads(category, DOMAIN answers, i))}
<1>0. N \in Nat /\ DOMAIN category = 1 .. N
  BY DEF IsCategory
<1> HIDE DEF N
<1>1. SUFFICES ASSUME T # {} PROVE FALSE
  BY <1>0
<1>2. PICK i \in T : \A k \in T : k <= i
  <2>1. T \in SUBSET (0 .. N)
    BY <1>0
  <2> HIDE DEF T
  <2> QED BY <1>0, <1>1, <2>1, Greatest
<1>3. /\ i \in 1 .. N /\ category[i].header
      /\ ~(i \in K <=> Leads(category, DOMAIN answers, i))
      /\ \A k \in 1 .. N : i < k /\ category[k].header
           => (k \in K <=> Leads(category, DOMAIN answers, k))
  <2>1. \A k \in 1 .. N : i < k /\ category[k].header
           => (k \in K <=> Leads(category, DOMAIN answers, k))
    <3> SUFFICES ASSUME NEW k \in 1 .. N, i < k, category[k].header,
                        ~(k \in K <=> Leads(category, DOMAIN answers, k))
                 PROVE  FALSE
      OBVIOUS
    <3>1. k \in T /\ i \in 1 .. N
      OBVIOUS
    <3>2. k <= i
      BY <1>2, <3>1
    <3> QED BY <3>1, <3>2
  <2> QED BY <2>1
<1> HIDE DEF T
<1>4. /\ K \subseteq 1 .. N
      /\ \A k \in 1 .. N : ~category[k].header => (k \in K <=> category[k].slug \in DOMAIN answers)
  BY <1>0 DEF Shown
<1>5. i \in K <=> \E n \in K : /\ i < n /\ \A k \in K : i < k => n <= k
                               /\ category[n].header => n = i + 1
  BY <1>0, <1>3 DEF Shown
<1>6. ASSUME Leads(category, DOMAIN answers, i) PROVE i \in K
  <2>1. PICK m \in 1 .. N, j \in 1 .. N :
          /\ i <= m /\ m < j
          /\ \A k \in i .. m : category[k].header
          /\ \A k \in m + 1 .. j : ~category[k].header
          /\ category[j].slug \in DOMAIN answers
    BY <1>0, <1>6 DEF Leads
  <2>2. CASE i < m
    <3>1. i + 1 \in 1 .. N /\ i + 1 \in i .. m /\ i + 1 <= m
      BY <1>0, <1>3, <2>1, <2>2
    <3>2. \A k \in i + 1 .. m : category[k].header
      BY <1>3, <2>1
    <3>3. Leads(category, DOMAIN answers, i + 1)
      BY <1>0, <2>1, <3>1, <3>2 DEF Leads
    <3>4. i + 1 \in K
      BY <1>3, <2>1, <3>1, <3>3
    <3>5. i < i + 1 /\ \A k \in K : i < k => i + 1 <= k
      BY <1>0, <1>3, <1>4
    <3> QED BY <1>5, <3>4, <3>5
  <2>3. CASE i = m
    <3> DEFINE A == {k \in i + 1 .. j : category[k].slug \in DOMAIN answers}
    <3>1. j \in A /\ A \in SUBSET Nat
      BY <1>3, <2>1, <2>3
    <3>2. PICK n \in A : \A k \in A : n <= k
      <4> HIDE DEF A
      <4> QED BY <3>1, Least
    <3>3. \A k \in i + 1 .. j : k \in 1 .. N /\ ~category[k].header
      BY <1>0, <1>3, <2>1, <2>3
    <3>4. n \in i + 1 .. j /\ n \in 1 .. N /\ ~category[n].header /\ n \in K
      BY <1>4, <3>3
    <3>5. ASSUME NEW k \in K, i < k PROVE n <= k
      <4> SUFFICES ASSUME k < n PROVE FALSE
        BY <1>0, <1>4, <3>4
      <4>1. k \in i + 1 .. j
        BY <1>3, <1>4, <2>1, <3>4, <3>5
      <4>2. k \in A
        BY <1>4, <3>3, <4>1
      <4> HIDE DEF A
      <4> QED BY <1>4, <3>2, <3>4, <4>2
    <3>6. i < n
      BY <1>3, <2>1, <3>4
    <3> HIDE DEF A
    <3> QED BY <1>5, <3>4, <3>5, <3>6
  <2> QED BY <1>3, <2>1, <2>2, <2>3
<1>7. ASSUME i \in K PROVE Leads(category, DOMAIN answers, i)
  <2>1. PICK n \in K : /\ i < n /\ \A k \in K : i < k => n <= k
                       /\ category[n].header => n = i + 1
    BY <1>5, <1>7
  <2>2. CASE category[n].header
    <3>1. n = i + 1 /\ n \in 1 .. N /\ Leads(category, DOMAIN answers, n)
      BY <1>3, <1>4, <2>1, <2>2
    <3>2. PICK m \in 1 .. N, j \in 1 .. N :
            /\ n <= m /\ m < j
            /\ \A k \in n .. m : category[k].header
            /\ \A k \in m + 1 .. j : ~category[k].header
            /\ category[j].slug \in DOMAIN answers
      BY <1>0, <3>1 DEF Leads
    <3>3. i <= m /\ \A k \in i .. m : category[k].header
      BY <1>3, <3>1, <3>2
    <3> QED BY <1>0, <3>2, <3>3 DEF Leads
  <2>3. CASE ~category[n].header
    <3> DEFINE H == {k \in i .. n - 1 : category[k].header}
    <3>0. n \in 1 .. N /\ i \in i .. n - 1
      BY <1>0, <1>3, <1>4, <2>1
    <3>1. i \in H /\ n \in 1 .. N /\ H \in SUBSET (0 .. N)
      BY <1>0, <1>3, <3>0
    <3>2. PICK m \in H : \A k \in H : k <= m
      <4> HIDE DEF H
      <4> QED BY <1>0, <3>1, Greatest
    <3>3. m \in i .. n - 1 /\ m \in 1 .. N /\ category[m].header /\ m < n
      BY <1>3, <3>1
    <3>4. \A k \in m + 1 .. n : ~category[k].header
      <4> SUFFICES ASSUME NEW k \in m + 1 .. n, category[k].header PROVE FALSE
        OBVIOUS
      <4>1. k # n
        BY <2>3
      <4>2. k \in H
        BY <1>3, <3>1, <3>3, <4>1
      <4>3. k <= m
        BY <3>2, <4>2
      <4> QED BY <3>3, <4>3
    <3>5. category[n].slug \in DOMAIN answers
      BY <1>4, <2>1, <2>3, <3>1
    <3>6. m .. m = {m}
      BY <3>3
    <3>7. Leads(category, DOMAIN answers, m)
      <4>1. m <= m /\ \A k \in m .. m : category[k].header
        BY <3>3, <3>6
      <4> HIDE DEF H
      <4> QED BY <1>0, <3>1, <3>3, <3>4, <3>5, <4>1 DEF Leads
    <3>8. m = i
      <4> SUFFICES ASSUME i < m PROVE FALSE
        BY <1>3, <3>3
      <4>1. m \in K
        BY <1>3, <3>3, <3>7
      <4> HIDE DEF H
      <4> QED BY <2>1, <3>1, <3>3, <4>1
    <3> QED BY <3>7, <3>8
  <2> QED BY <2>2, <2>3
<1> QED BY <1>3, <1>6, <1>7

LEMMA ListOfItsOwn ==
  ASSUME NEW A, NEW s \in Seq(A), NEW B, ToSet(s) \subseteq B
  PROVE  s \in Seq(B)
<1>1. /\ Len(s) \in Nat /\ s = [k \in 1 .. Len(s) |-> s[k]]
      /\ \A k \in 1 .. Len(s) : s[k] \in B
  BY DEF ToSet
<1>2. s \in [1 .. Len(s) -> B]
  BY <1>1
<1> QED BY <1>1, <1>2

(* What the fresh table holds.                                             *)
FreshDaos(category, answers, K) == {Dao(category, i, answers) : i \in K}

LEMMA FreshHolds ==
  ASSUME NEW category, IsCategory(category), NEW answers, NEW K, Shown(category, answers, K)
  PROVE  /\ FreshFeatures(category, answers, K) \in Seq(FreshDaos(category, answers, K))
         /\ ToSet(FreshFeatures(category, answers, K)) = FreshDaos(category, answers, K)
         /\ \A a, b \in DOMAIN FreshFeatures(category, answers, K) :
              FreshFeatures(category, answers, K)[a].slug
                = FreshFeatures(category, answers, K)[b].slug => a = b
<1> DEFINE n == Cardinality(K)
<1> DEFINE e == InOrder(K)
<1> DEFINE list == FreshFeatures(category, answers, K)
<1> HIDE DEF n, e, list
<1> DEFINE S == {Dao(category, i, answers) : i \in K}
<1> DEFINE N == Len(category)
<1>1. N \in Nat /\ DOMAIN category = 1 .. N /\ K \subseteq 1 .. N
  BY DEF IsCategory, Shown
<1> HIDE DEF N, S
<1>2. IsFiniteSet(K) /\ K \in SUBSET Nat
  <2>1. IsFiniteSet(1 .. N)
    BY <1>1, FS_Interval
  <2>2. IsFiniteSet(K)
    BY <1>1, <2>1, FS_Subset
  <2> QED BY <1>1, <2>2
<1>3. Ascends(e, n, K)
  BY <1>2, InOrderAscends DEF e, n
<1>4. \A a, b \in 1 .. n : e[a] = e[b] => a = b
  BY <1>2, <1>3, OnlyInOrder DEF e, n
<1>5. list = [k \in 1 .. n |-> Dao(category, e[k], answers)]
  BY DEF FreshFeatures, e, n, list
<1>6. n \in Nat /\ e \in [1 .. n -> K] /\ \A i \in K : \E k \in 1 .. n : e[k] = i
  BY <1>3 DEF Ascends
<1>7. list \in [1 .. n -> S]
  BY <1>5, <1>6 DEF S
<1>8. list \in Seq(S) /\ DOMAIN list = 1 .. n
  BY <1>6, <1>7
<1>9. ToSet(list) = {Dao(category, e[k], answers) : k \in 1 .. n}
  BY <1>5 DEF ToSet
<1>10. ToSet(list) = {Dao(category, i, answers) : i \in K}
  BY <1>6, <1>9
<1>11. \A k \in 1 .. n : list[k].slug = category[e[k]].slug /\ e[k] \in DOMAIN category
  BY <1>1, <1>5, <1>6, DaoFields
<1>12. \A a, b \in 1 .. n : list[a].slug = list[b].slug => a = b
  BY <1>4, <1>11 DEF IsCategory
<1> QED BY <1>8, <1>10, <1>12 DEF list, S, FreshDaos

LEMMA FreshHeadings ==
  ASSUME NEW category, IsCategory(category), NEW answers, NEW K, Shown(category, answers, K)
  PROVE  Headings(FreshFeatures(category, answers, K))
           = HeadingsToShow(category, DOMAIN answers)
<1> DEFINE T == FreshDaos(category, answers, K)
<1>1. ToSet(FreshFeatures(category, answers, K)) = T
  BY FreshHolds
<1>2. Headings(FreshFeatures(category, answers, K)) = {d.slug : d \in {d \in T : d.header}}
  BY <1>1 DEF Headings
<1>3. @ = {category[i].slug : i \in {i \in K : category[i].header}}
  BY DaoFields DEF FreshDaos
<1>4. Len(category) \in Nat /\ DOMAIN category = 1 .. Len(category) /\ K \subseteq DOMAIN category
  BY DEF IsCategory, Shown
<1>5. \A i \in DOMAIN category : Leads(category, DOMAIN answers, i) => category[i].header
  BY <1>4 DEF Leads
<1>6. {i \in K : category[i].header} = {i \in DOMAIN category : Leads(category, DOMAIN answers, i)}
  BY <1>4, <1>5, ShownLead
<1>7. HeadingsToShow(category, DOMAIN answers)
        = {category[i].slug : i \in {i \in DOMAIN category : Leads(category, DOMAIN answers, i)}}
  BY DEF HeadingsToShow, Leads
<1> QED BY <1>2, <1>3, <1>6, <1>7

LEMMA FreshFields ==
  ASSUME NEW category, IsCategory(category), NEW answers, NEW K, Shown(category, answers, K)
  PROVE  {d.slug : d \in {d \in ToSet(FreshFeatures(category, answers, K)) : ~d.header}}
           = DOMAIN answers \cap {category[i].slug : i \in Fields(category)}
<1> DEFINE T == FreshDaos(category, answers, K)
<1>1. ToSet(FreshFeatures(category, answers, K)) = T
  BY FreshHolds
<1>2. {d.slug : d \in {d \in T : ~d.header}}
        = {category[i].slug : i \in {i \in K : ~category[i].header}}
  BY DaoFields DEF FreshDaos
<1>3. {i \in K : ~category[i].header}
        = {i \in Fields(category) : category[i].slug \in DOMAIN answers}
  BY DEF Shown, Fields
<1>4. {category[i].slug : i \in {i \in Fields(category) : category[i].slug \in DOMAIN answers}}
        = DOMAIN answers \cap {category[i].slug : i \in Fields(category)}
  OBVIOUS
<1> HIDE DEF T
<1> QED BY <1>1, <1>2, <1>3, <1>4

-----------------------------------------------------------------------------
(* Tables: what a listing's attribute column holds. *)

IsTable(list) ==
  /\ list \in Seq(DaoType)
  /\ \A a, b \in DOMAIN list : list[a].slug = list[b].slug => a = b

LEMMA TableOrdered == ASSUME NEW list, IsTable(list) PROVE IsOrdered(list)
<1>1. \A i \in DOMAIN list : list[i] \in DaoType
  BY DEF IsTable
<1>2. \A d \in DaoType : d.order \in Nat
  BY DEF DaoType
<1> QED BY <1>1, <1>2 DEF IsOrdered

(* Picking from, sorting and joining tables gives tables.                  *)
LEMMA PickIsTable ==
  ASSUME NEW list, IsTable(list), NEW I \in SUBSET DOMAIN list
  PROVE  IsTable(Pick(list, I)) /\ ToSet(Pick(list, I)) = {list[i] : i \in I}
<1> DEFINE e == InOrder(I)
<1> DEFINE n == Cardinality(I)
<1> DEFINE t == Pick(list, I)
<1>1. /\ I \in SUBSET Nat /\ Ascends(e, n, I)
      /\ t = [k \in 1 .. n |-> list[e[k]]]
      /\ t \in Seq(DaoType) /\ DOMAIN t = 1 .. n
      /\ ToSet(t) = {list[i] : i \in I}
  BY PickFollows DEF IsTable
<1> HIDE DEF e, n, t
<1>2. \A a, b \in 1 .. n : e[a] = e[b] => a = b
  BY <1>1, OnlyInOrder DEF e, n
<1>3. \A k \in 1 .. n : e[k] \in DOMAIN list
  BY <1>1 DEF Ascends
<1>4. \A a, b \in DOMAIN t : t[a].slug = t[b].slug => a = b
  BY <1>1, <1>2, <1>3 DEF IsTable
<1> QED BY <1>1, <1>4 DEF IsTable, t

LEMMA ByOrderIsTable ==
  ASSUME NEW list, IsTable(list)
  PROVE  IsTable(ByOrder(list)) /\ ToSet(ByOrder(list)) = ToSet(list)
<1> DEFINE t == ByOrder(list)
<1> DEFINE n == Len(list)
<1>0. list \in Seq(DaoType) /\ IsOrdered(list) /\ n \in Nat /\ DOMAIN list = 1 .. n
  BY TableOrdered DEF IsTable
<1>1. t \in Seq(DaoType) /\ Len(t) = n /\ ToSet(t) = ToSet(list)
  BY <1>0, ByOrderIsList
<1>2. PICK e : Sorts(e, n, list) /\ t = [k \in 1 .. n |-> list[e[k]]]
  BY <1>0, ByOrderSorts
<1>3. \A a, b \in 1 .. n : e[a] = e[b] => a = b
  BY <1>0, <1>2, OnlyByOrder
<1> HIDE DEF n, t
<1>4. \A k \in 1 .. n : e[k] \in DOMAIN list
  BY <1>2 DEF Sorts
<1>5. DOMAIN t = 1 .. n
  BY <1>2
<1>6. \A a, b \in DOMAIN t : t[a].slug = t[b].slug => a = b
  BY <1>2, <1>3, <1>4, <1>5 DEF IsTable
<1> QED BY <1>1, <1>6 DEF IsTable, t

LEMMA JoinIsTable ==
  ASSUME NEW s, IsTable(s), NEW t, IsTable(t),
         \A c \in ToSet(s), d \in ToSet(t) : c.slug # d.slug
  PROVE  IsTable(s \o t) /\ ToSet(s \o t) = ToSet(s) \cup ToSet(t)
<1> DEFINE n == Len(s)
<1> DEFINE m == Len(t)
<1> DEFINE u == s \o t
<1>1. /\ s \in Seq(DaoType) /\ t \in Seq(DaoType) /\ u \in Seq(DaoType)
      /\ n \in Nat /\ m \in Nat /\ DOMAIN s = 1 .. n /\ DOMAIN t = 1 .. m
      /\ DOMAIN u = 1 .. n + m
      /\ \A k \in 1 .. n + m : u[k] = IF k <= n THEN s[k] ELSE t[k - n]
  BY DEF IsTable
<1> HIDE DEF n, m, u
<1>2. /\ \A k \in 1 .. n : k \in DOMAIN u /\ u[k] = s[k]
      /\ \A k \in 1 .. m : n + k \in DOMAIN u /\ u[n + k] = t[k]
  BY <1>1
<1>3. \A k \in DOMAIN u : \/ k \in 1 .. n /\ u[k] = s[k]
                          \/ k - n \in 1 .. m /\ u[k] = t[k - n]
  BY <1>1
<1>4. ToSet(u) = ToSet(s) \cup ToSet(t)
  <2>1. ToSet(u) \subseteq ToSet(s) \cup ToSet(t)
    BY <1>1, <1>3 DEF ToSet
  <2>2. \A d \in ToSet(s) : d \in ToSet(u)
    BY <1>1, <1>2 DEF ToSet
  <2>3. \A d \in ToSet(t) : d \in ToSet(u)
    <3> SUFFICES ASSUME NEW k \in 1 .. m PROVE t[k] \in ToSet(u)
      BY <1>1 DEF ToSet
    <3>1. n + k \in DOMAIN u /\ u[n + k] = t[k]
      BY <1>2
    <3> QED BY <3>1 DEF ToSet
  <2> QED BY <2>1, <2>2, <2>3
<1>5. ASSUME NEW a \in DOMAIN u, NEW b \in DOMAIN u, u[a].slug = u[b].slug
      PROVE  a = b
  <2>1. \A i \in 1 .. n, j \in 1 .. m : s[i].slug # t[j].slug
    BY <1>1 DEF ToSet
  <2>2. CASE a \in 1 .. n /\ u[a] = s[a]
    <3>1. b \in 1 .. n /\ u[b] = s[b]
      BY <1>3, <1>5, <2>1, <2>2
    <3> QED BY <1>1, <1>5, <2>2, <3>1 DEF IsTable
  <2>3. CASE a - n \in 1 .. m /\ u[a] = t[a - n]
    <3>1. b - n \in 1 .. m /\ u[b] = t[b - n]
      BY <1>3, <1>5, <2>1, <2>3
    <3>2. a - n = b - n
      BY <1>1, <1>5, <2>3, <3>1 DEF IsTable
    <3> QED BY <1>1, <3>2
  <2> QED BY <1>3, <2>2, <2>3
<1> QED BY <1>1, <1>4, <1>5 DEF IsTable, u

(* The answers a draft may hold.                                           *)
AreAnswers(f) == DOMAIN f \subseteq SlugsInUse /\ \A s \in DOMAIN f : f[s] \in Answers

LEMMA FreshTable ==
  ASSUME NEW rev \in DOMAIN Schemas, NEW category, category = Schemas[rev].features,
         NEW answers, AreAnswers(answers), NEW K, Shown(category, answers, K)
  PROVE  IsTable(FreshFeatures(category, answers, K))
<1> DEFINE list == FreshFeatures(category, answers, K)
<1>1. IsCategory(category)
  BY SchemasAssumption
<1>2. ASSUME NEW i \in K PROVE Dao(category, i, answers) \in DaoType
  <2>1. i \in DOMAIN category /\ i \in Nat
    BY <1>1 DEF Shown, IsCategory
  <2>2. category[i].slug \in SlugsInUse
    <3>1. category[i].slug \in Slugs(Schemas[rev].features)
      BY <2>1 DEF Slugs
    <3> QED BY <3>1 DEF SlugsInUse
  <2>3. /\ category[i].header \in BOOLEAN /\ category[i].public \in BOOLEAN
        /\ category[i].title \in BOOLEAN /\ category[i].badge \in BOOLEAN
    BY <1>1, <2>1 DEF IsCategory
  <2>4. ~category[i].header => answers[category[i].slug] \in Answers
    BY <2>1 DEF Shown, AreAnswers
  <2> QED BY <2>1, <2>2, <2>3, <2>4 DEF Dao, DaoType
<1>3. FreshDaos(category, answers, K) \subseteq DaoType
  BY <1>2 DEF FreshDaos
<1>4. /\ list \in Seq(FreshDaos(category, answers, K))
      /\ ToSet(list) = FreshDaos(category, answers, K)
      /\ \A a, b \in DOMAIN list : list[a].slug = list[b].slug => a = b
  BY <1>1, FreshHolds
<1> HIDE DEF list
<1>5. list \in Seq(DaoType)
  BY <1>3, <1>4, ListOfItsOwn
<1> QED BY <1>4, <1>5 DEF IsTable, list

(* The four columns are one derivation from the table.                     *)
Derived(p) == p = ProjectionsFromList(p.features) /\ IsTable(p.features)

LEMMA DerivedFrom ==
  ASSUME NEW list, IsTable(list)
  PROVE  Derived(ProjectionsFromList(list)) /\ ProjectionsFromList(list).features = list
BY DEF Derived, ProjectionsFromList

LEMMA NothingDerived == Derived(NoProjections) /\ NoProjections.features = <<>>
<1>1. IsTable(<<>>)
  BY DEF IsTable
<1> QED BY <1>1, DerivedFrom DEF NoProjections

LEMMA FreshDerived ==
  ASSUME NEW rev \in DOMAIN Schemas, NEW answers, AreAnswers(answers)
  PROVE  Derived(BuildProjections(Schemas[rev].features, answers))
<1>1. IsCategory(Schemas[rev].features)
  BY SchemasAssumption
<1>2. PICK K : /\ Shown(Schemas[rev].features, answers, K)
               /\ BuildProjections(Schemas[rev].features, answers)
                    = ProjectionsFromList(FreshFeatures(Schemas[rev].features, answers, K))
  BY <1>1, Fresh
<1> QED BY <1>2, FreshTable, DerivedFrom

-----------------------------------------------------------------------------
(* What is derived anew but for some fields. *)

FieldSlugs(category) == {category[i].slug : i \in Fields(category)}

Without(f, X) == [s \in DOMAIN f \ X |-> f[s]]

PreservedAt(list, X) == {i \in DOMAIN list : list[i].slug \in X}

(* p is what a partial derivation makes of the stored table: the fresh     *)
(* entries K, and those of the stored ones whose slug is in X.             *)
Joined(category, f, X, stored, K, p) ==
  LET fresh == FreshFeatures(category, Without(f, X), K)
      preserved == Pick(stored, PreservedAt(stored, X))
  IN /\ Shown(category, Without(f, X), K)
     /\ fresh = BuildProjections(category, Without(f, X)).features
     /\ IsTable(fresh) /\ IsTable(preserved) /\ IsTable(fresh \o preserved)
     /\ ToSet(fresh) = FreshDaos(category, Without(f, X), K)
     /\ ToSet(preserved) = {d \in ToSet(stored) : d.slug \in X}
     /\ ToSet(fresh \o preserved) = ToSet(fresh) \cup ToSet(preserved)
     /\ \A d \in ToSet(fresh) : d.slug \notin X
     /\ p = IF preserved = <<>> THEN ProjectionsFromList(fresh)
            ELSE ProjectionsFromList(ByOrder(fresh \o preserved))

(* No fresh entry has the slug of a field that is passed over.             *)
LEMMA FreshApart ==
  ASSUME NEW category, IsCategory(category), NEW f, NEW X \in SUBSET FieldSlugs(category),
         NEW K, Shown(category, Without(f, X), K), NEW i \in K
  PROVE  category[i].slug \notin X
<1>1. i \in DOMAIN category /\ DOMAIN Without(f, X) = DOMAIN f \ X
  BY DEF Shown, Without
<1>2. CASE category[i].header
  BY <1>1, <1>2 DEF IsCategory, FieldSlugs, Fields
<1>3. CASE ~category[i].header
  BY <1>1, <1>3 DEF Shown
<1> QED BY <1>2, <1>3

LEMMA PreservedTable ==
  ASSUME NEW stored, IsTable(stored), NEW X
  PROVE  /\ IsTable(Pick(stored, PreservedAt(stored, X)))
         /\ ToSet(Pick(stored, PreservedAt(stored, X))) = {d \in ToSet(stored) : d.slug \in X}
<1> DEFINE J == PreservedAt(stored, X)
<1>1. J \in SUBSET DOMAIN stored /\ \A i \in DOMAIN stored : i \in J <=> stored[i].slug \in X
  BY DEF PreservedAt
<1> HIDE DEF J
<1>2. IsTable(Pick(stored, J)) /\ ToSet(Pick(stored, J)) = {stored[i] : i \in J}
  BY <1>1, PickIsTable
<1>3. {stored[i] : i \in J} = {d \in ToSet(stored) : d.slug \in X}
  BY <1>1 DEF ToSet
<1> QED BY <1>2, <1>3 DEF J

(* A partial derivation is such a join, and the result is a derived table. *)
LEMMA Partial ==
  ASSUME NEW rev \in DOMAIN Schemas, NEW category, category = Schemas[rev].features,
         NEW f, AreAnswers(f), NEW X \in SUBSET FieldSlugs(category),
         NEW stored, IsTable(stored)
  PROVE  \E K : Joined(category, f, X, stored, K, BuildProjectionsPartial(category, f, X, stored))
<1> DEFINE p == BuildProjectionsPartial(category, f, X, stored)
<1> DEFINE preserved == Pick(stored, PreservedAt(stored, X))
<1>1. IsCategory(category)
  BY SchemasAssumption
<1>2. PICK K : /\ Shown(category, Without(f, X), K)
               /\ BuildProjections(category, Without(f, X))
                    = ProjectionsFromList(FreshFeatures(category, Without(f, X), K))
  BY <1>1, Fresh
<1> DEFINE fresh == FreshFeatures(category, Without(f, X), K)
<1>3. p = IF preserved = <<>> THEN ProjectionsFromList(fresh)
          ELSE ProjectionsFromList(ByOrder(fresh \o preserved))
  <2>1. p = IF preserved = <<>> THEN BuildProjections(category, Without(f, X))
            ELSE ProjectionsFromList(ByOrder(BuildProjections(category, Without(f, X)).features
                                               \o preserved))
    BY DEF BuildProjectionsPartial, Without, PreservedAt
  <2>2. ProjectionsFromList(fresh).features = fresh
    BY DEF ProjectionsFromList
  <2> QED BY <1>2, <2>1, <2>2
<1>10. fresh = BuildProjections(category, Without(f, X)).features
  BY <1>2 DEF ProjectionsFromList
<1>4. AreAnswers(Without(f, X))
  BY DEF AreAnswers, Without
<1>5. IsTable(fresh) /\ ToSet(fresh) = FreshDaos(category, Without(f, X), K)
  BY <1>1, <1>2, <1>4, FreshTable, FreshHolds
<1>6. IsTable(preserved) /\ ToSet(preserved) = {d \in ToSet(stored) : d.slug \in X}
  BY PreservedTable
<1>7. \A d \in ToSet(fresh) : d.slug \notin X
  <2>1. \A i \in K : Dao(category, i, Without(f, X)).slug \notin X
    BY <1>1, <1>2, FreshApart, DaoFields
  <2> QED BY <1>5, <2>1 DEF FreshDaos
<1> HIDE DEF p, preserved, fresh
<1>8. IsTable(fresh \o preserved) /\ ToSet(fresh \o preserved) = ToSet(fresh) \cup ToSet(preserved)
  BY <1>5, <1>6, <1>7, JoinIsTable
<1>9. Joined(category, f, X, stored, K, p)
  BY <1>2, <1>3, <1>5, <1>6, <1>7, <1>8, <1>10 DEF Joined, fresh, preserved
<1> QED BY <1>9 DEF p

LEMMA JoinedTable ==
  ASSUME NEW category, NEW f, NEW X, NEW stored, IsTable(stored), NEW K, NEW p,
         Joined(category, f, X, stored, K, p)
  PROVE  /\ Derived(p)
         /\ ToSet(p.features) = FreshDaos(category, Without(f, X), K)
                                  \cup {d \in ToSet(stored) : d.slug \in X}
<1> DEFINE fresh == FreshFeatures(category, Without(f, X), K)
<1> DEFINE preserved == Pick(stored, PreservedAt(stored, X))
<1>1. /\ IsTable(fresh) /\ IsTable(preserved) /\ IsTable(fresh \o preserved)
      /\ ToSet(fresh) = FreshDaos(category, Without(f, X), K)
      /\ ToSet(preserved) = {d \in ToSet(stored) : d.slug \in X}
      /\ ToSet(fresh \o preserved) = ToSet(fresh) \cup ToSet(preserved)
      /\ p = IF preserved = <<>> THEN ProjectionsFromList(fresh)
             ELSE ProjectionsFromList(ByOrder(fresh \o preserved))
  BY DEF Joined
<1> HIDE DEF fresh, preserved
<1>2. CASE preserved = <<>>
  <2>1. ToSet(preserved) = {}
    BY <1>2 DEF ToSet
  <2>2. Derived(p) /\ p.features = fresh
    BY <1>1, <1>2, DerivedFrom
  <2> QED BY <1>1, <2>1, <2>2
<1>3. CASE preserved # <<>>
  BY <1>1, <1>3, ByOrderIsTable, DerivedFrom
<1> QED BY <1>2, <1>3

-----------------------------------------------------------------------------
(* Sorting a list whose second part was taken out of a sorted list, at J,  *)
(* gives the sorted list back.                                             *)
LEMMA SortAgain ==
  ASSUME NEW s, IsTable(s), NEW t, IsTable(t), IsTable(s \o t),
         NEW u, u = ByOrder(s \o t), NEW J \in SUBSET DOMAIN u,
         \A k \in DOMAIN u : k \in J <=> u[k] \notin ToSet(s),
         \A d \in ToSet(t) : d \notin ToSet(s),
         IsTable(s \o Pick(u, J))
  PROVE  ByOrder(s \o Pick(u, J)) = u /\ (t # <<>> => Pick(u, J) # <<>>)
<1> DEFINE n == Len(s)
<1> DEFINE m == Len(t)
<1> DEFINE st == s \o t
<1> DEFINE c == Cardinality(J)
<1> DEFINE at == InOrder(J)
<1> DEFINE v == Pick(u, J)
<1> DEFINE sv == s \o v
<1>1. /\ s \in Seq(DaoType) /\ t \in Seq(DaoType) /\ st \in Seq(DaoType)
      /\ n \in Nat /\ m \in Nat /\ DOMAIN s = 1 .. n /\ DOMAIN t = 1 .. m
      /\ Len(st) = n + m /\ DOMAIN st = 1 .. n + m
      /\ \A k \in 1 .. n + m : st[k] = IF k <= n THEN s[k] ELSE t[k - n]
  BY DEF IsTable
<1>2. IsOrdered(st) /\ IsOrdered(sv)
  BY TableOrdered
<1>3. PICK e : Sorts(e, n + m, st) /\ u = [k \in 1 .. n + m |-> st[e[k]]]
  <2> HIDE DEF n, m, st
  <2>1. u = ByOrder(st)
    BY DEF st
  <2>2. PICK e : /\ Sorts(e, Len(st), st)
                 /\ ByOrder(st) = [k \in 1 .. Len(st) |-> st[e[k]]]
    BY <1>1, <1>2, ByOrderSorts
  <2> QED BY <1>1, <2>1, <2>2
<1>4. /\ e \in [1 .. n + m -> 1 .. n + m]
      /\ \A i \in 1 .. n + m : \E k \in 1 .. n + m : e[k] = i
      /\ \A a, b \in 1 .. n + m : a < b => Sooner(st, e[a], e[b])
      /\ DOMAIN u = 1 .. n + m
  BY <1>1, <1>3 DEF Sorts
<1>5. u \in Seq(DaoType)
  BY ByOrderIsTable DEF IsTable
<1>6. /\ Ascends(at, c, J) /\ v = [k \in 1 .. c |-> u[at[k]]]
      /\ v \in Seq(DaoType) /\ Len(v) = c /\ J \in SUBSET Nat
  BY <1>5, PickFollows
<1>7. /\ c \in Nat /\ at \in [1 .. c -> J]
      /\ \A k \in J : \E a \in 1 .. c : at[a] = k
      /\ \A a, b \in 1 .. c : a < b => at[a] < at[b]
      /\ \A a, b \in 1 .. c : at[a] = at[b] => a = b
      /\ \A a, b \in 1 .. c : at[a] < at[b] => a < b
  BY <1>6, OnlyInOrder DEF Ascends
<1>8. /\ sv \in Seq(DaoType) /\ Len(sv) = n + c /\ DOMAIN sv = 1 .. n + c
      /\ \A k \in 1 .. n + c : sv[k] = IF k <= n THEN s[k] ELSE v[k - n]
  BY <1>1, <1>6, <1>7
<1> HIDE DEF n, m, st, c, at, v, sv
<1>9. \A k \in 1 .. n + m : k \in J <=> n < e[k]
  <2>1. ASSUME NEW k \in 1 .. n + m, e[k] <= n PROVE k \notin J
    <3>1. u[k] = s[e[k]] /\ e[k] \in DOMAIN s
      BY <1>1, <1>3, <1>4, <2>1
    <3> QED BY <1>4, <3>1 DEF ToSet
  <2>2. ASSUME NEW k \in 1 .. n + m, n < e[k] PROVE k \in J
    <3>1. u[k] = t[e[k] - n] /\ e[k] - n \in DOMAIN t
      <4>1. e[k] \in 1 .. n + m
        BY <1>4
      <4>2. st[e[k]] = t[e[k] - n] /\ e[k] - n \in 1 .. m
        BY <1>1, <2>2, <4>1
      <4> QED BY <1>1, <1>3, <4>2
    <3> QED BY <1>4, <3>1 DEF ToSet
  <2>3. \A k \in 1 .. n + m : e[k] \in 1 .. n + m
    BY <1>4
  <2> QED BY <1>1, <2>1, <2>2, <2>3
<1> DEFINE place == [k \in J |-> CHOOSE a \in 1 .. c : at[a] = k]
<1>10. \A k \in J : place[k] \in 1 .. c /\ at[place[k]] = k
  BY <1>7
<1> HIDE DEF place
<1> DEFINE g == [k \in 1 .. n + m |-> IF k \in J THEN n + place[k] ELSE e[k]]
<1>11. \A k \in 1 .. n + m : /\ k \in J => g[k] = n + place[k] /\ g[k] \in 1 .. n + c /\ n < g[k]
                             /\ k \notin J => g[k] = e[k] /\ g[k] \in 1 .. n /\ g[k] \in 1 .. n + c
  <2> SUFFICES ASSUME NEW k \in 1 .. n + m
               PROVE  /\ k \in J => g[k] = n + place[k] /\ g[k] \in 1 .. n + c /\ n < g[k]
                      /\ k \notin J => g[k] = e[k] /\ g[k] \in 1 .. n /\ g[k] \in 1 .. n + c
    OBVIOUS
  <2>1. g[k] = IF k \in J THEN n + place[k] ELSE e[k]
    OBVIOUS
  <2>2. e[k] \in 1 .. n + m /\ (k \in J <=> n < e[k])
    BY <1>4, <1>9
  <2> HIDE DEF g
  <2>3. CASE k \in J
    <3>1. place[k] \in 1 .. c
      BY <1>10, <2>3
    <3> QED BY <1>1, <1>7, <2>1, <2>3, <3>1
  <2>4. CASE k \notin J
    BY <1>1, <1>7, <2>1, <2>2, <2>4
  <2> QED BY <2>3, <2>4
<1>12. DOMAIN g = 1 .. n + m
  OBVIOUS
<1>13. g = [k \in 1 .. n + m |-> g[k]]
  OBVIOUS
<1> HIDE DEF g
<1>14. g \in [1 .. n + m -> DOMAIN sv]
  BY <1>8, <1>11, <1>13
<1>15. \A k \in 1 .. n + m : sv[g[k]] = u[k]
  <2> SUFFICES ASSUME NEW k \in 1 .. n + m PROVE sv[g[k]] = u[k]
    OBVIOUS
  <2>1. CASE k \in J
    <3>1. g[k] = n + place[k] /\ g[k] \in 1 .. n + c /\ place[k] \in 1 .. c
      BY <1>10, <1>11, <2>1
    <3>2. ~(g[k] <= n) /\ g[k] - n = place[k]
      BY <1>1, <1>7, <3>1
    <3>3. sv[g[k]] = v[place[k]]
      BY <1>8, <3>1, <3>2
    <3> QED BY <1>6, <1>10, <2>1, <3>1, <3>3
  <2>2. CASE k \notin J
    <3>1. sv[g[k]] = s[e[k]] /\ e[k] \in 1 .. n
      BY <1>1, <1>7, <1>8, <1>11, <2>2
    <3>2. st[e[k]] = s[e[k]]
      BY <1>1, <3>1
    <3> QED BY <1>3, <3>1, <3>2
  <2> QED BY <2>1, <2>2
<1>16. \A i \in DOMAIN sv : \E k \in 1 .. n + m : g[k] = i
  <2> SUFFICES ASSUME NEW i \in 1 .. n + c PROVE \E k \in 1 .. n + m : g[k] = i
    BY <1>8
  <2>1. CASE i <= n
    <3>1. i \in 1 .. n + m
      BY <1>1, <1>7, <2>1
    <3>2. PICK k \in 1 .. n + m : e[k] = i
      BY <1>4, <3>1
    <3>3. k \notin J
      BY <1>1, <1>9, <2>1, <3>2
    <3> QED BY <1>11, <3>2, <3>3
  <2>2. CASE n < i
    <3>1. i - n \in 1 .. c
      BY <1>1, <1>7, <2>2
    <3>2. at[i - n] \in J /\ at[i - n] \in 1 .. n + m
      BY <1>4, <1>7, <3>1
    <3>3. place[at[i - n]] = i - n
      BY <1>7, <1>10, <3>1, <3>2
    <3>4. g[at[i - n]] = i
      BY <1>1, <1>11, <3>1, <3>2, <3>3
    <3> QED BY <3>2, <3>4
  <2> QED BY <1>1, <1>7, <2>1, <2>2
<1>17. \A a, b \in 1 .. n + m : a < b => Sooner(sv, g[a], g[b])
  <2> SUFFICES ASSUME NEW a \in 1 .. n + m, NEW b \in 1 .. n + m, a < b
               PROVE  Sooner(sv, g[a], g[b])
    OBVIOUS
  <2>1. st[e[a]] = u[a] /\ st[e[b]] = u[b] /\ sv[g[a]] = u[a] /\ sv[g[b]] = u[b]
    BY <1>3, <1>15
  <2>2. Sooner(st, e[a], e[b])
    BY <1>4
  <2>3. \/ u[a].order < u[b].order
        \/ u[a].order = u[b].order /\ e[a] < e[b]
    BY <2>1, <2>2 DEF Sooner
  <2>4. CASE u[a].order < u[b].order
    BY <2>1, <2>4 DEF Sooner
  <2>5. CASE u[a].order = u[b].order /\ e[a] < e[b]
    <3>1. g[a] < g[b]
      <4>0. e[a] \in 1 .. n + m /\ e[b] \in 1 .. n + m
        BY <1>4
      <4>1. CASE a \notin J /\ b \notin J
        BY <1>11, <2>5, <4>1
      <4>2. CASE a \notin J /\ b \in J
        BY <1>1, <1>7, <1>10, <1>11, <4>2
      <4>3. CASE a \in J /\ b \in J
        <5>1. place[a] < place[b]
          BY <1>7, <1>10, <4>3
        <5>2. g[a] = n + place[a] /\ g[b] = n + place[b]
          BY <1>11, <4>3
        <5>3. place[a] \in Nat /\ place[b] \in Nat
          BY <1>7, <1>10, <4>3
        <5> QED BY <1>1, <5>1, <5>2, <5>3
      <4>4. CASE a \in J /\ b \notin J
        <5>1. n < e[a] /\ ~(n < e[b])
          BY <1>9, <4>4
        <5> QED BY <1>1, <2>5, <4>0, <5>1
      <4> QED BY <4>1, <4>2, <4>3, <4>4
    <3> QED BY <2>1, <2>5, <3>1 DEF Sooner
  <2> QED BY <2>3, <2>4, <2>5
<1>18. Sorts(g, n + m, sv)
  BY <1>1, <1>14, <1>16, <1>17 DEF Sorts
<1>19. ByOrder(sv) = [k \in 1 .. n + m |-> sv[g[k]]]
  BY <1>2, <1>8, <1>18, OnlyByOrder
<1>20. ByOrder(sv) = u
  <2>1. u = [k \in 1 .. n + m |-> u[k]]
    BY <1>3
  <2> QED BY <1>15, <1>19, <2>1
<1>21. ASSUME t # <<>> PROVE v # <<>>
  <2>1. m # 0
    BY <1>1, <1>21 DEF m
  <2>2. n + 1 \in 1 .. n + m
    BY <1>1, <2>1
  <2>3. PICK k \in 1 .. n + m : e[k] = n + 1
    BY <1>4, <2>2
  <2>4. k \in J
    BY <1>1, <1>9, <2>3
  <2>5. 1 <= c
    BY <1>7, <2>4
  <2> QED BY <1>6, <2>5
<1> QED BY <1>20, <1>21 DEF sv, v

(* Derived again from its own table, a row is left as it is.               *)
LEMMA PartialAgain ==
  ASSUME NEW rev \in DOMAIN Schemas, NEW category, category = Schemas[rev].features,
         NEW f, AreAnswers(f), NEW X \in SUBSET FieldSlugs(category),
         NEW stored, IsTable(stored),
         NEW p, p = BuildProjectionsPartial(category, f, X, stored)
  PROVE  BuildProjectionsPartial(category, f, X, p.features) = p
<1> DEFINE q == BuildProjectionsPartial(category, f, X, p.features)
<1> DEFINE fresh == BuildProjections(category, Without(f, X)).features
<1> DEFINE preserved == Pick(stored, PreservedAt(stored, X))
<1> DEFINE J == PreservedAt(p.features, X)
<1> DEFINE again == Pick(p.features, J)
<1>1. PICK K : Joined(category, f, X, stored, K, p)
  BY Partial
<1>2. Derived(p) /\ IsTable(p.features)
  BY <1>1, JoinedTable DEF Derived
<1>3. PICK L : Joined(category, f, X, p.features, L, q)
  BY <1>2, Partial
<1>4. /\ IsTable(fresh) /\ IsTable(preserved) /\ IsTable(fresh \o preserved)
      /\ ToSet(preserved) = {d \in ToSet(stored) : d.slug \in X}
      /\ ToSet(fresh \o preserved) = ToSet(fresh) \cup ToSet(preserved)
      /\ \A d \in ToSet(fresh) : d.slug \notin X
      /\ p = IF preserved = <<>> THEN ProjectionsFromList(fresh)
             ELSE ProjectionsFromList(ByOrder(fresh \o preserved))
  BY <1>1 DEF Joined
<1>5. /\ IsTable(again) /\ IsTable(fresh \o again)
      /\ ToSet(again) = {d \in ToSet(p.features) : d.slug \in X}
      /\ q = IF again = <<>> THEN ProjectionsFromList(fresh)
             ELSE ProjectionsFromList(ByOrder(fresh \o again))
  BY <1>3 DEF Joined
<1>6. J \in SUBSET DOMAIN p.features
      /\ \A k \in DOMAIN p.features : k \in J <=> p.features[k].slug \in X
  BY DEF PreservedAt
<1> HIDE DEF q, fresh, preserved, J, again
<1>7. CASE preserved = <<>>
  <2>1. p.features = fresh
    BY <1>4, <1>7, DerivedFrom
  <2>2. ToSet(again) = {}
    BY <1>4, <1>5, <2>1
  <2>3. again = <<>>
    <3>1. again \in Seq(DaoType) /\ DOMAIN again = {}
      BY <1>5, <2>2 DEF IsTable, ToSet
    <3> QED BY <3>1
  <2> QED BY <1>4, <1>5, <1>7, <2>3 DEF q
<1>8. CASE preserved # <<>>
  <2>1. p.features = ByOrder(fresh \o preserved) /\ p = ProjectionsFromList(p.features)
    BY <1>2, <1>4, <1>8, ByOrderIsTable, DerivedFrom
  <2>2. ToSet(p.features) = ToSet(fresh) \cup ToSet(preserved)
    BY <1>4, <2>1, ByOrderIsTable
  <2>3. \A k \in DOMAIN p.features : k \in J <=> p.features[k] \notin ToSet(fresh)
    <3>1. \A k \in DOMAIN p.features : p.features[k] \in ToSet(p.features)
      BY DEF ToSet
    <3> QED BY <1>4, <1>6, <2>2, <3>1
  <2>4. \A d \in ToSet(preserved) : d \notin ToSet(fresh)
    BY <1>4
  <2>5. ByOrder(fresh \o again) = p.features /\ again # <<>>
    BY <1>4, <1>5, <1>6, <1>8, <2>1, <2>3, <2>4, SortAgain DEF again
  <2> QED BY <1>5, <2>1, <2>5 DEF q
<1> QED BY <1>7, <1>8

-----------------------------------------------------------------------------
(* A row has the columns it has, and finitely many answers.                *)
IsRow(r) ==
  /\ r = [draft |-> r.draft, projections |-> r.projections, status |-> r.status]
  /\ IsDraft(r.draft)

RowsOK == row = [l \in Listings |-> row[l]] /\ \A l \in Listings : IsRow(row[l])

IndexOK == index = [l \in Listings |-> index[l]]

(* What a request holds was a row; one that comes from the publish         *)
(* endpoint holds what validate_draft accepted under the schema of then,   *)
(* until publish_listing has looked at it again.                           *)
IsHeld(h) ==
  /\ h = [listing |-> h.listing, instance |-> h.instance, door |-> h.door,
          under |-> h.under, step |-> h.step, seen |-> h.seen]
  /\ h.seen = [status |-> h.seen.status, content |-> h.seen.content]
  /\ h.listing \in Listings /\ IsRow(h.instance)
  /\ h.door = "publish" /\ h.step = "loaded" => ValidateDraft(h.instance.draft, h.under)

HeldOK ==
  /\ held = [q \in Requests |-> held[q]]
  /\ \A q \in Requests : held[q] # Nothing => IsHeld(held[q])

LEMMA RenamedSlugs ==
  ASSUME NEW f,
         NEW moved, moved = Renamed(Renames, f),
         NEW after, after = RenameDraft(Renames, f)
  PROVE  /\ moved \subseteq DOMAIN f /\ moved \subseteq DOMAIN Renames
         /\ \A s \in moved : Renames[s] \notin DOMAIN f
         /\ \A s, t \in moved : Renames[s] = Renames[t] => s = t
         /\ DOMAIN after = (DOMAIN f \ moved) \cup {Renames[s] : s \in moved}
         /\ \A s \in DOMAIN f \ moved : after[s] = f[s]
         /\ \A s \in moved : after[Renames[s]] = f[s]
<1>1. /\ moved \subseteq DOMAIN f /\ moved \subseteq DOMAIN Renames
      /\ \A s \in moved : Renames[s] \notin DOMAIN f
  BY DEF Renamed, Collides
<1>2. \A s, t \in moved : Renames[s] = Renames[t] => s = t
  BY <1>1, ReprojectAssumption DEF ValidRenames, IsInjective
<1> DEFINE from(t) == IF t \in DOMAIN f THEN t ELSE CHOOSE s \in moved : Renames[s] = t
<1> DEFINE slugs == (DOMAIN f \ moved) \cup {Renames[s] : s \in moved}
<1>3. after = [t \in slugs |-> f[from(t)]]
  BY DEF RenameDraft
<1>4. \A s \in DOMAIN f \ moved : s \in slugs /\ from(s) = s
  OBVIOUS
<1>5. \A s \in moved : Renames[s] \in slugs /\ from(Renames[s]) = s
  BY <1>1, <1>2
<1> HIDE DEF from, slugs
<1>6. DOMAIN after = slugs
  BY <1>3
<1>7. \A s \in DOMAIN f \ moved : after[s] = f[s]
  BY <1>3, <1>4
<1>8. \A s \in moved : after[Renames[s]] = f[s]
  BY <1>3, <1>5
<1> QED BY <1>1, <1>2, <1>6, <1>7, <1>8 DEF slugs

LEMMA RenameCarries ==
  ASSUME NEW f, IsFiniteSet(DOMAIN f)
  PROVE  /\ Carried(f, RenameDraft(Renames, f))
         /\ IsFiniteSet(DOMAIN RenameDraft(Renames, f))
<1> DEFINE moved == Renamed(Renames, f)
<1> DEFINE after == RenameDraft(Renames, f)
<1> DEFINE S == DOMAIN f
<1> DEFINE T == (S \ moved) \cup {Renames[s] : s \in moved}
<1>0. moved = Renamed(Renames, f) /\ after = RenameDraft(Renames, f)
  OBVIOUS
<1> HIDE DEF moved, after
<1>1. /\ moved \subseteq S /\ moved \subseteq DOMAIN Renames
      /\ \A s \in moved : Renames[s] \notin S
      /\ \A s, t \in moved : Renames[s] = Renames[t] => s = t
      /\ DOMAIN after = T
      /\ \A s \in S \ moved : after[s] = f[s]
      /\ \A s \in moved : after[Renames[s]] = f[s]
  BY <1>0, RenamedSlugs
<1> DEFINE g == [s \in S |-> IF s \in moved THEN Renames[s] ELSE s]
<1>2. g \in Bijection(S, T)
  <2>1. g \in [S -> T]
    BY <1>1
  <2>2. \A s, t \in S : g[s] = g[t] => s = t
    BY <1>1
  <2>3. \A t \in T : \E s \in S : g[s] = t
    BY <1>1
  <2> HIDE DEF g, S, T
  <2> QED BY <2>1, <2>2, <2>3, Fun_IsBij
<1>3. IsFiniteSet(T) /\ Cardinality(T) = Cardinality(S)
  <2>1. ExistsBijection(S, T)
    BY <1>2 DEF ExistsBijection
  <2> HIDE DEF S, T
  <2>2. IsFiniteSet(S)
    BY DEF S
  <2> QED BY <2>1, <2>2, FS_Bijection
<1>4. \A s \in S :
        \/ s \in T /\ after[s] = f[s]
        \/ /\ s \in DOMAIN Renames /\ Renames[s] \notin S
           /\ Renames[s] \in T /\ after[Renames[s]] = f[s]
  BY <1>1
<1> QED BY <1>1, <1>3, <1>4 DEF Carried, after

-----------------------------------------------------------------------------
(* The writes of a row. *)

LEMMA StatusWrite ==
  ASSUME NEW r, IsRow(r), NEW s, NEW w, w = [r EXCEPT !.status = s]
  PROVE  IsRow(w) /\ w.status = s
BY DEF IsRow

LEMMA DraftWrite ==
  ASSUME NEW r, IsRow(r), NEW d, IsDraft(d), NEW w, w = [r EXCEPT !.draft = d]
  PROVE  /\ IsRow(w) /\ w.draft = d
         /\ w.status = r.status /\ w.projections = r.projections
BY DEF IsRow

LEMMA AnswersWrite ==
  ASSUME NEW d, IsDraft(d), NEW f, IsFiniteSet(DOMAIN f), NEW w, w = [d EXCEPT !.features = f]
  PROVE  IsDraft(w) /\ w.features = f
BY DEF IsDraft

LEMMA RowWrite ==
  ASSUME RowsOK, NEW l \in Listings, NEW r, IsRow(r), row' = [row EXCEPT ![l] = r]
  PROVE  /\ RowsOK' /\ row'[l] = r
         /\ \A m \in Listings \ {l} : row'[m] = row[m]
<1>1. /\ row' = [m \in Listings |-> IF m = l THEN r ELSE row[m]]
  BY DEF RowsOK
<1>2. /\ row'[l] = r /\ \A m \in Listings \ {l} : row'[m] = row[m]
  BY <1>1
<1>3. row' = [m \in Listings |-> row'[m]]
  BY <1>1
<1> QED BY <1>2, <1>3 DEF RowsOK

LEMMA IndexWrite ==
  ASSUME IndexOK, NEW l \in Listings, NEW d, index' = [index EXCEPT ![l] = d]
  PROVE  /\ IndexOK' /\ index'[l] = d
         /\ \A m \in Listings \ {l} : index'[m] = index[m]
<1>1. /\ index' = [m \in Listings |-> IF m = l THEN d ELSE index[m]]
  BY DEF IndexOK
<1> QED BY <1>1 DEF IndexOK

(* A save keeps the index in step, unless its detectors read what has      *)
(* moved since.                                                            *)
LEMMA SaveFollows ==
  ASSUME RowsOK, IndexOK, NEW q \in Requests, held[q] # Nothing, IsHeld(held[q]), Save(q)
  PROVE  /\ RowsOK' /\ IndexOK'
         /\ \A m \in Listings : IndexAgrees(m) =>
              IndexAgrees(m)' \/ (held[q].listing = m /\ StaleSave(q))
<1> DEFINE h == held[q]
<1> DEFINE l == h.listing
<1> DEFINE w == Written(h)
<1>0. /\ l \in Listings /\ IsRow(h.instance)
      /\ h.step = IF h.instance.status = "published" THEN "content" ELSE "status"
  BY DEF Save, IsHeld
<1>1. /\ row' = [row EXCEPT ![l] = w]
      /\ Told(h) => index' = [index EXCEPT ![l] = Pulled(w)]
      /\ ~Told(h) => index' = index
  BY DEF Save
<1>2. IsRow(w)
  BY <1>0, StatusWrite DEF Written
<1>3. ~Enters(h) => w = h.instance
  BY DEF Written
<1> HIDE DEF w
<1>4. RowsOK' /\ row'[l] = w /\ \A m \in Listings \ {l} : row'[m] = row[m]
  BY <1>0, <1>1, <1>2, RowWrite
<1>5. CASE Told(h)
  <2>1. /\ IndexOK' /\ index'[l] = Pulled(w)
        /\ \A m \in Listings \ {l} : index'[m] = index[m]
    BY <1>0, <1>1, <1>5, IndexWrite
  <2> QED BY <1>4, <2>1 DEF IndexAgrees
<1>6. CASE ~Told(h)
  <2>1. index' = index /\ IndexOK'
    BY <1>1, <1>6 DEF IndexOK
  <2>2. /\ w = h.instance
        /\ (h.seen.status = "published") <=> (w.status = "published")
        /\ w.status = "published" => Content(w) = h.seen.content
    BY <1>3, <1>6 DEF Told
  <2>3. ~StaleSave(q) => Pulled(w) = Pulled(row[l])
    <3> SUFFICES ASSUME ~StaleSave(q) PROVE Pulled(w) = Pulled(row[l])
      OBVIOUS
    <3>1. h.seen.status = row[l].status
      BY DEF StaleSave
    <3>2. CASE w.status = "published"
      <4>1. h.seen.content.projections = row[l].projections
        BY <1>0, <2>2, <3>2 DEF StaleSave
      <4>2. w.projections = row[l].projections
        BY <2>2, <3>2, <4>1 DEF Content
      <4> QED BY <2>2, <3>1, <3>2, <4>2 DEF Pulled
    <3>3. CASE w.status # "published"
      BY <2>2, <3>1, <3>3 DEF Pulled
    <3> QED BY <3>2, <3>3
  <2> QED BY <1>4, <2>1, <2>3 DEF IndexAgrees
<1> QED BY <1>5, <1>6

(* The columns a move into the window writes: the search column of the     *)
(* instance beside the other three of the row.                             *)
Searched(p, t) == [p EXCEPT !.features_search = FeaturesSearch(t.features)]

LEMMA MovedRow ==
  ASSUME NEW r, IsRow(r), NEW instance, NEW s, NEW w, w = Moved(r, instance, s)
  PROVE  /\ IsRow(w) /\ w.status = s /\ w.draft = r.draft
         /\ s # "published" => w.projections = r.projections
         /\ s = "published" => w.projections = Searched(r.projections, instance.projections)
<1> DEFINE p == Searched(r.projections, instance.projections)
<1>1. CASE s = "published"
  <2>1. w = [r EXCEPT !.status = s, !.projections = p]
    BY <1>1 DEF Moved, Searched
  <2> HIDE DEF p
  <2>2. w = [draft |-> r.draft, projections |-> p, status |-> s]
    BY <2>1 DEF IsRow
  <2>3. IsRow(w) /\ w.status = s /\ w.draft = r.draft /\ w.projections = p
    BY <2>2 DEF IsRow
  <2> QED BY <1>1, <2>3 DEF p
<1>2. CASE s # "published"
  <2>1. w = [r EXCEPT !.status = s]
    BY <1>2 DEF Moved
  <2> QED BY <1>2, <2>1 DEF IsRow
<1> QED BY <1>1, <1>2

(* A transition keeps it in step, unless the row has left the status the   *)
(* request loaded.                                                         *)
LEMMA MoveFollows ==
  ASSUME RowsOK, IndexOK, NEW q \in Requests, held[q] # Nothing, IsHeld(held[q]),
         NEW s \in Statuses, Move(q, s)
  PROVE  /\ RowsOK' /\ IndexOK'
         /\ \A m \in Listings : IndexAgrees(m) =>
              \/ IndexAgrees(m)'
              \/ held[q].listing = m /\ held[q].instance.status # row[m].status
<1> DEFINE h == held[q]
<1> DEFINE l == h.listing
<1> DEFINE w == Moved(row[l], h.instance, s)
<1>1. /\ l \in Listings /\ row' = [row EXCEPT ![l] = w]
      /\ (s = "published") # (h.instance.status = "published")
           => index' = [index EXCEPT ![l] = Pulled(w)]
      /\ (s = "published") = (h.instance.status = "published") => index' = index
      /\ s \in Moves[h.instance.status]
  BY DEF Move, IsHeld
<1>2. IsRow(w) /\ w.status = s
  <2>1. IsRow(row[l]) /\ w = Moved(row[l], h.instance, s)
    BY <1>1 DEF RowsOK
  <2> HIDE DEF w, l, h
  <2> QED BY <2>1, MovedRow
<1> HIDE DEF w
<1>3. RowsOK' /\ row'[l] = w /\ \A m \in Listings \ {l} : row'[m] = row[m]
  BY <1>1, <1>2, RowWrite
<1>4. CASE (s = "published") # (h.instance.status = "published")
  <2>1. /\ IndexOK' /\ index'[l] = Pulled(w)
        /\ \A m \in Listings \ {l} : index'[m] = index[m]
    BY <1>1, <1>4, IndexWrite
  <2> QED BY <1>3, <2>1 DEF IndexAgrees
<1>5. CASE (s = "published") = (h.instance.status = "published")
  <2>1. index' = index /\ IndexOK'
    BY <1>1, <1>5 DEF IndexOK
  <2>2. s # "published" /\ h.instance.status # "published"
    BY <1>1, <1>5 DEF Moves, Statuses
  <2>3. h.instance.status = row[l].status => Pulled(w) = Pulled(row[l])
    BY <1>2, <2>2 DEF Pulled
  <2> QED BY <1>3, <2>1, <2>3 DEF IndexAgrees
<1> QED BY <1>4, <1>5

(* What a rename writes over a row: the answers as they were fetched, with *)
(* their new slugs.                                                        *)
LEMMA RenameWrites ==
  ASSUME RowsOK, IndexOK, NEW l \in Listings, RenameRow(l),
         IsFiniteSet(DOMAIN pass.chunk[l].draft.features)
  PROVE  /\ RowsOK' /\ IndexOK' /\ \A m \in Listings : IndexAgrees(m) => IndexAgrees(m)'
         /\ \/ row' = row
            \/ row'[l].draft.features = RenameDraft(Renames, pass.chunk[l].draft.features)
<1> DEFINE f == RenameDraft(Renames, pass.chunk[l].draft.features)
<1> DEFINE d == [row[l].draft EXCEPT !.features = f]
<1> DEFINE w == [row[l] EXCEPT !.draft = d]
<1>1. (row' = row \/ row' = [row EXCEPT ![l] = w]) /\ index' = index
  BY DEF RenameRow
<1>2. IsFiniteSet(DOMAIN f)
  BY RenameCarries
<1> HIDE DEF f
<1>3. IsDraft(d) /\ d.features = f
  BY <1>2, AnswersWrite DEF RowsOK, IsRow
<1> HIDE DEF d
<1>4. IsRow(w) /\ w.draft = d /\ w.status = row[l].status /\ w.projections = row[l].projections
  BY <1>3, DraftWrite DEF RowsOK
<1> HIDE DEF w
<1>5. CASE row' = row
  BY <1>1, <1>5 DEF RowsOK, IndexOK, IndexAgrees
<1>6. CASE row' = [row EXCEPT ![l] = w]
  <2>1. RowsOK' /\ row'[l] = w /\ \A m \in Listings \ {l} : row'[m] = row[m]
    BY <1>4, <1>6, RowWrite
  <2>2. Pulled(w) = Pulled(row[l])
    BY <1>4 DEF Pulled
  <2> QED BY <1>1, <1>3, <1>4, <2>1, <2>2 DEF IndexAgrees, IndexOK, f
<1> QED BY <1>1, <1>5, <1>6

(* What the pass writes over a row that is still as it has seen it.        *)
LEMMA ProjectFollows ==
  ASSUME RowsOK, IndexOK, NEW l \in Listings, ProjectRow(l)
  PROVE  /\ RowsOK' /\ IndexOK'
         /\ row'[l].projections = Repaired(pass.chunk[l], pass.memo)
         /\ row'[l].draft = row[l].draft /\ row'[l].status = row[l].status
         /\ \A m \in Listings \ {l} : row'[m] = row[m]
         /\ \A m \in Listings : IndexAgrees(m) =>
              \/ IndexAgrees(m)'
              \/ /\ m = l
                 /\ pass.chunk[l].status # row[l].status \/ pass.seen[l] # row[l].projections
<1> DEFINE r == pass.chunk[l]
<1> DEFINE p == Repaired(r, pass.memo)
<1> DEFINE w == [row[l] EXCEPT !.projections = p]
<1>1. /\ row' = [row EXCEPT ![l] = w]
      /\ r.status = "published" /\ p # pass.seen[l]
           => index' = [index EXCEPT ![l] = Pulled(w)]
      /\ ~(r.status = "published" /\ p # pass.seen[l]) => index' = index
  BY DEF ProjectRow
<1>2. IsRow(w) /\ w.projections = p /\ w.status = row[l].status /\ w.draft = row[l].draft
  BY DEF RowsOK, IsRow
<1> HIDE DEF w, p
<1>3. RowsOK' /\ row'[l] = w /\ \A m \in Listings \ {l} : row'[m] = row[m]
  BY <1>1, <1>2, RowWrite
<1>4. CASE r.status = "published" /\ p # pass.seen[l]
  <2>1. /\ IndexOK' /\ index'[l] = Pulled(w)
        /\ \A m \in Listings \ {l} : index'[m] = index[m]
    BY <1>1, <1>4, IndexWrite
  <2> QED BY <1>2, <1>3, <2>1 DEF IndexAgrees, p
<1>5. CASE ~(r.status = "published" /\ p # pass.seen[l])
  <2>1. index' = index /\ IndexOK'
    BY <1>1, <1>5 DEF IndexOK
  <2>2. r.status = row[l].status /\ pass.seen[l] = row[l].projections
          => Pulled(w) = Pulled(row[l])
    BY <1>2, <1>5 DEF Pulled
  <2> QED BY <1>2, <1>3, <2>1, <2>2 DEF IndexAgrees, p
<1> QED BY <1>4, <1>5

-----------------------------------------------------------------------------
(* What the pass holds: rows of the listings it has still to work on.      *)

RowsIn(c) == \A l \in DOMAIN c : l \in Listings /\ IsRow(c[l])

IsPass(p) ==
  /\ p = [stage |-> p.stage, todo |-> p.todo, chunk |-> p.chunk, seen |-> p.seen,
          memo |-> p.memo, touched |-> p.touched, alone |-> p.alone]
  /\ p.todo \subseteq Listings /\ RowsIn(p.chunk)

PassOK == pass # Idle => IsPass(pass)

LEMMA ChunkWrite ==
  ASSUME NEW p, IsPass(p), NEW c, RowsIn(c), NEW w, w = [p EXCEPT !.chunk = c]
  PROVE  IsPass(w)
BY DEF IsPass

LEMMA TodoWrite ==
  ASSUME NEW p, IsPass(p), NEW t \in SUBSET Listings, NEW w, w = [p EXCEPT !.todo = t]
  PROVE  IsPass(w)
BY DEF IsPass

LEMMA NoteWrite ==
  ASSUME NEW p, IsPass(p), NEW x, NEW w,
         \/ w = [p EXCEPT !.memo = x]
         \/ w = [p EXCEPT !.touched = x]
         \/ w = [p EXCEPT !.alone = x]
         \/ w = [p EXCEPT !.seen = x]
  PROVE  IsPass(w)
BY DEF IsPass

LEMMA BeginIsPass == ASSUME NEW stage PROVE IsPass(Begin(stage))
<1>1. DOMAIN NoRows = {}
  BY DEF NoRows
<1> QED BY <1>1 DEF Begin, IsPass, RowsIn

LEMMA DisturbedIsPass == ASSUME PassOK, pass' = Disturbed PROVE PassOK'
<1>1. CASE pass = Idle
  BY <1>1 DEF Disturbed, PassOK
<1>2. CASE pass # Idle
  BY <1>2, NoteWrite DEF Disturbed, PassOK
<1> QED BY <1>1, <1>2

LEMMA RestIsRows == ASSUME RowsIn(pass.chunk), NEW l PROVE RowsIn(Rest(l))
BY DEF RowsIn, Rest

LEMMA FetchIsPass ==
  ASSUME RowsOK, PassOK, NEW c \in SUBSET Listings, Fetch(c) PROVE PassOK'
<1> DEFINE chunk == [l \in {m \in c : InPopulation(row[m])} |-> row[l]]
<1> DEFINE p == [pass EXCEPT !.todo = pass.todo \ c]
<1>1. pass # Idle /\ pass' = [p EXCEPT !.chunk = chunk]
  BY DEF Fetch
<1>2. IsPass(p)
  BY <1>1, TodoWrite DEF PassOK, IsPass
<1> HIDE DEF p
<1>3. RowsIn(chunk)
  BY DEF RowsIn, RowsOK
<1> HIDE DEF chunk
<1> QED BY <1>1, <1>2, <1>3, ChunkWrite DEF PassOK

(* A row examined: left or done, it leaves the chunk; compared and found   *)
(* stale, it stays there until it is written.                              *)
RowTaken(l) == RenameRow(l) \/ SkipRow(l) \/ CompareRow(l) \/ ProjectRow(l)

LEMMA RowTakenIsPass == ASSUME PassOK, NEW l \in Listings, RowTaken(l) PROVE PassOK'
<1> DEFINE p == [pass EXCEPT !.chunk = Rest(l)]
<1>0. pass # Idle
  BY DEF RowTaken, RenameRow, SkipRow, CompareRow, ProjectRow, Running
<1>2. IsPass(pass) /\ IsPass(p)
  BY <1>0, ChunkWrite, RestIsRows DEF PassOK, IsPass
<1>1. RowsIn(Rest(l))
  BY <1>2, RestIsRows DEF IsPass
<1>3. CASE RenameRow(l)
  <2> DEFINE x == pass.touched \/ Renamed(Renames, pass.chunk[l].draft.features) # {}
  <2>1. pass' = [pass EXCEPT !.chunk = Rest(l), !.touched = x]
    BY <1>3 DEF RenameRow
  <2> HIDE DEF x
  <2> QED BY <1>1, <1>2, <2>1 DEF PassOK, IsPass
<1>4. CASE SkipRow(l)
  <2>1. CASE pass' = [pass EXCEPT !.chunk = Rest(l)]
    BY <1>1, <1>2, <2>1 DEF PassOK, IsPass
  <2>2. CASE \E memo \in Resolved :
               pass' = [pass EXCEPT !.chunk = Rest(l),
                         !.memo = IF Unresolved(memo) THEN Failed ELSE memo]
    BY <1>1, <1>2, <2>2 DEF PassOK, IsPass
  <2> QED BY <1>4, <2>1, <2>2, Zenon DEF SkipRow
<1>5. CASE CompareRow(l)
  <2>1. PICK memo : \/ pass' = [pass EXCEPT !.memo = memo, !.chunk = Rest(l)]
                    \/ pass' = [pass EXCEPT !.memo = memo,
                                  !.seen = [m \in {l} |-> row[m].projections]]
    BY <1>5, Zenon DEF CompareRow
  <2> QED BY <1>1, <1>2, <2>1 DEF PassOK, IsPass
<1>6. CASE ProjectRow(l)
  <2>1. pass' = [p EXCEPT !.seen = NoRows]
    BY <1>6 DEF ProjectRow
  <2> HIDE DEF p
  <2> QED BY <1>2, <2>1, NoteWrite DEF PassOK
<1> QED BY <1>3, <1>4, <1>5, <1>6 DEF RowTaken

LEMMA StageIsPass ==
  ASSUME StartReproject \/ StartRename \/ RenameEnds \/ PassEnds
  PROVE  PassOK'
<1>1. CASE StartReproject \/ StartRename
  BY <1>1, BeginIsPass DEF StartReproject, StartRename, PassOK
<1>2. CASE RenameEnds
  <2> DEFINE p == [Begin("project") EXCEPT !.touched = TRUE]
  <2>1. pass' = Idle \/ pass' = [p EXCEPT !.alone = pass.alone]
    BY <1>2 DEF RenameEnds
  <2>2. IsPass(p)
    BY BeginIsPass, NoteWrite
  <2> HIDE DEF p
  <2> QED BY <2>1, <2>2, NoteWrite DEF PassOK
<1>3. CASE PassEnds
  BY <1>3 DEF PassEnds, PassOK
<1> QED BY <1>1, <1>2, <1>3

-----------------------------------------------------------------------------
(* The invariant. *)

IInv == RowsOK /\ IndexOK /\ HeldOK /\ PassOK

LEMMA InitInv == Init => IInv
<1> SUFFICES ASSUME Init PROVE IInv
  OBVIOUS
<1>1. \A d \in Drafts : IsRow([draft |-> d, projections |-> NoProjections, status |-> "draft"])
  BY ReprojectAssumption DEF IsRow
<1>2. RowsOK
  BY <1>1 DEF Init, RowsOK
<1>3. IndexOK
  BY DEF Init, IndexOK
<1>4. HeldOK
  BY DEF Init, HeldOK
<1> QED BY <1>2, <1>3, <1>4 DEF Init, IInv, PassOK

LEMMA HeldWrite ==
  ASSUME HeldOK, NEW q \in Requests, NEW h, held' = [held EXCEPT ![q] = h],
         h # Nothing => IsHeld(h)
  PROVE  HeldOK' /\ held'[q] = h /\ \A p \in Requests \ {q} : held'[p] = held[p]
<1>1. held' = [p \in Requests |-> IF p = q THEN h ELSE held[p]]
  BY DEF HeldOK
<1>2. held' = [p \in Requests |-> held'[p]]
  BY <1>1
<1>3. held'[q] = h /\ \A p \in Requests \ {q} : held'[p] = held[p]
  BY <1>1
<1> QED BY <1>2, <1>3 DEF HeldOK

LEMMA HoldHeld ==
  ASSUME RowsOK, HeldOK, NEW q \in Requests, NEW l \in Listings, NEW door, NEW under,
         Hold(q, l, door, under), door = "publish" => ValidateDraft(row[l].draft, under)
  PROVE  /\ HeldOK'
         /\ \A p \in Requests \ {q} : held'[p] = held[p]
         /\ held'[q].instance = row[l] /\ held'[q].under = under /\ held'[q].step = "loaded"
<1> DEFINE h == [listing |-> l, instance |-> row[l], door |-> door, under |-> under,
                 step |-> "loaded",
                 seen |-> [status |-> row[l].status, content |-> Content(row[l])]]
<1>1. held' = [held EXCEPT ![q] = h]
  BY DEF Hold
<1>2. IsHeld(h) /\ h.instance = row[l] /\ h.under = under /\ h.step = "loaded"
  BY DEF IsHeld, RowsOK
<1> HIDE DEF h
<1>3. HeldOK' /\ held'[q] = h /\ \A p \in Requests \ {q} : held'[p] = held[p]
  BY <1>1, <1>2, HeldWrite
<1> QED BY <1>2, <1>3

(* The ways a request is begun. *)
Begun(q, l) == Load(q, l) \/ Validate(q, l) \/ Restore(q, l) \/ LoadToMove(q, l)

LEMMA BegunHolds ==
  ASSUME NEW q, NEW l, Begun(q, l)
  PROVE  \E door, under : /\ Hold(q, l, door, under) /\ under \in {Unread, cached}
                          /\ door = "publish" => ValidateDraft(row[l].draft, under)
<1>1. CASE Load(q, l) \/ Restore(q, l) \/ LoadToMove(q, l)
  BY <1>1 DEF Load, Restore, LoadToMove
<1>2. CASE Validate(q, l)
  BY <1>2 DEF Validate
<1> QED BY <1>1, <1>2 DEF Begun

LEMMA AnswerHeld ==
  ASSUME HeldOK, NEW q \in Requests, Answer(q)
  PROVE  HeldOK' /\ held'[q] = Nothing /\ \A p \in Requests \ {q} : held'[p] = held[p]
BY HeldWrite DEF Answer

(* A save begun holds the instance it will write; its detectors then read. *)
LEMMA SeenWrite ==
  ASSUME NEW h, IsHeld(h), NEW s, NEW c
  PROVE  /\ LET seen == [h.seen EXCEPT !.status = s]
            IN seen = [status |-> seen.status, content |-> seen.content]
         /\ LET seen == [h.seen EXCEPT !.content = c]
            IN seen = [status |-> seen.status, content |-> seen.content]
<1> DEFINE v == h.seen
<1>1. v = [status |-> v.status, content |-> v.content]
  BY DEF IsHeld
<1> HIDE DEF v
<1>2. /\ [v EXCEPT !.status = s] = [status |-> s, content |-> v.content]
      /\ [v EXCEPT !.content = c] = [status |-> v.status, content |-> c]
  BY <1>1
<1>3. /\ [h.seen EXCEPT !.status = s] = [status |-> s, content |-> v.content]
      /\ [h.seen EXCEPT !.content = c] = [status |-> v.status, content |-> c]
  BY <1>2 DEF v
<1> QED BY <1>3

Stepped(h, instance, step, seen) ==
  [h EXCEPT !.instance = instance, !.step = step, !.seen = seen]

LEMMA StepWrite ==
  ASSUME NEW h, IsHeld(h), NEW instance, IsRow(instance), NEW step, step # "loaded",
         NEW seen, seen = [status |-> seen.status, content |-> seen.content],
         NEW w, w = Stepped(h, instance, step, seen)
  PROVE  IsHeld(w) /\ w.instance = instance /\ w.under = h.under
<1>1. h = [listing |-> h.listing, instance |-> h.instance, door |-> h.door,
           under |-> h.under, step |-> h.step, seen |-> h.seen]
  BY DEF IsHeld
<1>2. /\ w = [listing |-> w.listing, instance |-> w.instance, door |-> w.door,
              under |-> w.under, step |-> w.step, seen |-> w.seen]
      /\ w.listing = h.listing /\ w.under = h.under
      /\ w.instance = instance /\ w.step = step /\ w.seen = seen
  BY <1>1 DEF Stepped
<1> QED BY <1>2 DEF IsHeld

LEMMA BeginSaveHeld ==
  ASSUME HeldOK, NEW q \in Requests, held[q] # Nothing, NEW instance, IsRow(instance),
         BeginSave(q, instance)
  PROVE  /\ HeldOK'
         /\ \A p \in Requests \ {q} : held'[p] = held[p]
         /\ held'[q].instance = instance /\ held'[q].under = held[q].under
<1> DEFINE seen == [held[q].seen EXCEPT !.status = row[held[q].listing].status]
<1> DEFINE h == [held[q] EXCEPT !.instance = instance, !.step = "status", !.seen = seen]
<1>1. held' = [held EXCEPT ![q] = h]
  BY DEF BeginSave
<1>2. IsHeld(held[q])
  BY DEF HeldOK
<1>3. seen = [status |-> seen.status, content |-> seen.content]
  BY <1>2, SeenWrite
<1> HIDE DEF seen
<1>4. h = Stepped(held[q], instance, "status", seen)
  BY DEF Stepped
<1> HIDE DEF h
<1>5. IsHeld(h) /\ h.instance = instance /\ h.under = held[q].under
  BY <1>2, <1>3, <1>4, StepWrite
<1>6. HeldOK' /\ held'[q] = h /\ \A p \in Requests \ {q} : held'[p] = held[p]
  BY <1>1, <1>5, HeldWrite
<1> QED BY <1>5, <1>6

LEMMA ReadContentHeld ==
  ASSUME HeldOK, NEW q \in Requests, ReadContent(q)
  PROVE  /\ HeldOK'
         /\ \A p \in Requests \ {q} : held'[p] = held[p]
         /\ held'[q].instance = held[q].instance /\ held'[q].under = held[q].under
         /\ held[q] # Nothing /\ held[q].step = "status"
<1> DEFINE seen == [held[q].seen EXCEPT !.content = Content(row[held[q].listing])]
<1> DEFINE h == [held[q] EXCEPT !.step = "content", !.seen = seen]
<1>1. held' = [held EXCEPT ![q] = h] /\ held[q] # Nothing /\ held[q].step = "status"
  BY DEF ReadContent
<1>2. IsHeld(held[q]) /\ IsRow(held[q].instance)
  BY <1>1 DEF HeldOK, IsHeld
<1>3. seen = [status |-> seen.status, content |-> seen.content]
  BY <1>2, SeenWrite
<1> HIDE DEF seen
<1>4. h = Stepped(held[q], held[q].instance, "content", seen)
  BY <1>2 DEF IsHeld, Stepped
<1> HIDE DEF h
<1>5. IsHeld(h) /\ h.instance = held[q].instance /\ h.under = held[q].under
  BY <1>2, <1>3, <1>4, StepWrite
<1>6. HeldOK' /\ held'[q] = h /\ \A p \in Requests \ {q} : held'[p] = held[p]
  BY <1>1, <1>5, HeldWrite
<1> QED BY <1>1, <1>5, <1>6

(* What a request makes of the row before it writes it. *)
Edited(r, d) == [r EXCEPT !.draft = d, !.projections = Rebuilt(r.projections)]

LEMMA EditedRow ==
  ASSUME NEW r, IsRow(r), NEW d \in Drafts, NEW w, w = Edited(r, d)
  PROVE  /\ IsRow(w) /\ w.draft = d /\ w.status = r.status
         /\ w.projections = Rebuilt(r.projections)
<1> DEFINE p == Rebuilt(r.projections)
<1>1. w = [r EXCEPT !.draft = d, !.projections = p] /\ IsDraft(d)
  BY ReprojectAssumption DEF Edited
<1> HIDE DEF p
<1>2. w = [draft |-> d, projections |-> p, status |-> r.status]
  BY <1>1 DEF IsRow
<1> QED BY <1>1, <1>2 DEF IsRow, p

LEMMA SaveDraftBegins ==
  ASSUME HeldOK, NEW q \in Requests, NEW d \in Drafts, SaveDraft(q, d)
  PROVE  /\ held[q] # Nothing /\ IsRow(Edited(held[q].instance, d))
         /\ BeginSave(q, Edited(held[q].instance, d))
<1>1. held[q] # Nothing /\ IsRow(held[q].instance)
  BY DEF SaveDraft, Holding, HeldOK, IsHeld
<1>2. BeginSave(q, Edited(held[q].instance, d))
  BY DEF SaveDraft, Edited
<1> QED BY <1>1, <1>2, EditedRow

LEMMA PublishListingBegins ==
  ASSUME HeldOK, NEW q \in Requests, PublishListing(q)
  PROVE  /\ held[q] # Nothing /\ IsRow(Promoted(held[q].instance, cached))
         /\ BeginSave(q, Promoted(held[q].instance, cached))
<1>1. held[q] # Nothing /\ IsRow(held[q].instance)
  BY DEF PublishListing, Holding, HeldOK, IsHeld
<1>2. BeginSave(q, Promoted(held[q].instance, cached))
  BY DEF PublishListing
<1>3. IsRow(Promoted(held[q].instance, cached))
  BY <1>1 DEF IsRow, Promoted
<1> QED BY <1>1, <1>2, <1>3

(* The writes that may leave the index behind. *)
StaleWrite(l) ==
  \/ \E q \in Requests : Save(q) /\ held[q].listing = l /\ StaleSave(q)
  \/ \E q \in Requests, s \in Statuses :
       Move(q, s) /\ held[q].listing = l /\ held[q].instance.status # row[l].status
  \/ /\ ProjectRow(l)
     /\ pass.chunk[l].status # row[l].status \/ pass.seen[l] # row[l].projections

(* Every step keeps the invariant, and the index in step with it, but for  *)
(* those.                                                                  *)
LEMMA StepInv ==
  ASSUME IInv, [Next]_vars
  PROVE  /\ IInv'
         /\ \A m \in Listings : IndexAgrees(m) => IndexAgrees(m)' \/ StaleWrite(m)
<1> DEFINE Goal == /\ IInv'
                   /\ \A m \in Listings : IndexAgrees(m) => IndexAgrees(m)' \/ StaleWrite(m)
<1>0. RowsOK /\ IndexOK /\ HeldOK /\ PassOK
  BY DEF IInv
<1>1. ASSUME UNCHANGED <<row, index>>, HeldOK', PassOK' PROVE Goal
  BY <1>0, <1>1 DEF IInv, RowsOK, IndexOK, IndexAgrees
<1>2. ASSUME NEW q \in Requests, NEW l \in Listings, Begun(q, l) PROVE Goal
  <2>1. PICK door, under : /\ Hold(q, l, door, under)
                           /\ door = "publish" => ValidateDraft(row[l].draft, under)
    BY <1>2, BegunHolds
  <2>2. HeldOK'
    BY <1>0, <2>1, HoldHeld
  <2>3. UNCHANGED <<row, index, pass>>
    BY <2>1 DEF Hold
  <2> QED BY <1>0, <1>1, <2>2, <2>3 DEF PassOK
<1>3. ASSUME NEW q \in Requests, (\E d \in Drafts : SaveDraft(q, d)) \/ PublishListing(q)
      PROVE  Goal
  <2>1. PICK instance :
          held[q] # Nothing /\ IsRow(instance) /\ BeginSave(q, instance)
    BY <1>0, <1>3, SaveDraftBegins, PublishListingBegins
  <2>2. HeldOK'
    BY <1>0, <2>1, BeginSaveHeld
  <2>3. UNCHANGED <<row, index, pass>>
    BY <2>1 DEF BeginSave
  <2> QED BY <1>0, <1>1, <2>2, <2>3 DEF PassOK
<1>4. ASSUME NEW q \in Requests, ReadContent(q) PROVE Goal
  <2>1. HeldOK'
    BY <1>0, <1>4, ReadContentHeld
  <2>2. UNCHANGED <<row, index, pass>>
    BY <1>4 DEF ReadContent
  <2> QED BY <1>0, <1>1, <2>1, <2>2 DEF PassOK
<1>5. ASSUME NEW q \in Requests, RefuseLate(q) PROVE Goal
  <2>1. HeldOK' /\ UNCHANGED <<row, index, pass>>
    BY <1>0, <1>5, AnswerHeld DEF RefuseLate
  <2> QED BY <1>0, <1>1, <2>1 DEF PassOK
<1>6. ASSUME NEW q \in Requests, Save(q) PROVE Goal
  <2>1. held[q] # Nothing /\ IsHeld(held[q]) /\ Answer(q) /\ pass' = Disturbed
    BY <1>0, <1>6 DEF Save, HeldOK
  <2>2. /\ RowsOK' /\ IndexOK'
        /\ \A m \in Listings : IndexAgrees(m) =>
             IndexAgrees(m)' \/ (held[q].listing = m /\ StaleSave(q))
    BY <1>0, <1>6, <2>1, SaveFollows
  <2>3. HeldOK' /\ PassOK'
    BY <1>0, <2>1, AnswerHeld, DisturbedIsPass
  <2> QED BY <1>6, <2>2, <2>3 DEF IInv, StaleWrite
<1>7. ASSUME NEW q \in Requests, NEW s \in Statuses, Move(q, s) PROVE Goal
  <2>1. held[q] # Nothing /\ IsHeld(held[q]) /\ Answer(q) /\ pass' = Disturbed
    BY <1>0, <1>7 DEF Move, Holding, HeldOK
  <2>2. /\ RowsOK' /\ IndexOK'
        /\ \A m \in Listings : IndexAgrees(m) =>
             \/ IndexAgrees(m)'
             \/ held[q].listing = m /\ held[q].instance.status # row[m].status
    BY <1>0, <1>7, <2>1, MoveFollows
  <2>3. HeldOK' /\ PassOK'
    BY <1>0, <2>1, AnswerHeld, DisturbedIsPass
  <2> QED BY <1>7, <2>2, <2>3 DEF IInv, StaleWrite
<1>8. ASSUME CatalogueMoves \/ \E rev : CacheAnswers(rev) PROVE Goal
  <2>1. UNCHANGED <<row, index, held>> /\ (pass' = Disturbed \/ pass' = pass)
    BY <1>8 DEF CatalogueMoves, CacheAnswers
  <2> QED BY <1>0, <1>1, <2>1, DisturbedIsPass DEF HeldOK, PassOK
<1>9. CASE StartReproject \/ StartRename \/ RenameEnds \/ PassEnds
  <2>1. UNCHANGED <<row, index, held>>
    BY <1>9 DEF StartReproject, StartRename, RenameEnds, PassEnds
  <2> QED BY <1>0, <1>1, <1>9, <2>1, StageIsPass DEF HeldOK
<1>10. ASSUME NEW c \in SUBSET Listings, Fetch(c) PROVE Goal
  <2>1. UNCHANGED <<row, index, held>>
    BY <1>10 DEF Fetch
  <2> QED BY <1>0, <1>1, <1>10, <2>1, FetchIsPass DEF HeldOK
<1>11. ASSUME NEW l \in Listings, RenameRow(l) PROVE Goal
  <2>1. IsFiniteSet(DOMAIN pass.chunk[l].draft.features) /\ held' = held
    BY <1>0, <1>11 DEF RenameRow, Running, PassOK, IsPass, RowsIn, IsRow, IsDraft
  <2> QED BY <1>0, <1>11, <2>1, RenameWrites, RowTakenIsPass DEF IInv, HeldOK, RowTaken
<1>12. ASSUME NEW l \in Listings, SkipRow(l) \/ CompareRow(l) PROVE Goal
  <2>1. UNCHANGED <<row, index, held>>
    <3>1. CASE SkipRow(l)
      BY <3>1, Zenon DEF SkipRow
    <3>2. CASE CompareRow(l)
      BY <3>2 DEF CompareRow
    <3> QED BY <1>12, <3>1, <3>2
  <2> QED BY <1>0, <1>1, <1>12, <2>1, RowTakenIsPass DEF HeldOK, RowTaken
<1>13. ASSUME NEW l \in Listings, ProjectRow(l) PROVE Goal
  <2>1. held' = held
    BY <1>13 DEF ProjectRow
  <2> QED BY <1>0, <1>13, <2>1, ProjectFollows, RowTakenIsPass
          DEF IInv, HeldOK, RowTaken, StaleWrite
<1>14. CASE UNCHANGED vars
  BY <1>0, <1>1, <1>14 DEF vars, HeldOK, PassOK
<1> QED
  BY <1>2, <1>3, <1>4, <1>5, <1>6, <1>7, <1>8, <1>9, <1>10, <1>11, <1>12, <1>13, <1>14
     DEF Next, Owner, Pass, Begun

THEOREM Inv == Spec => []IInv
<1>1. Init => IInv
  BY InitInv
<1>2. IInv /\ [Next]_vars => IInv'
  BY StepInv
<1> QED BY <1>1, <1>2, PTL DEF Spec

-----------------------------------------------------------------------------
(* The theorems. *)

OneStaleWrite ==
  \A l \in Listings : IndexAgrees(l) =>
    \/ IndexAgrees(l)'
    \/ \E q \in Requests : Save(q) /\ held[q].listing = l /\ StaleSave(q)
    \/ \E q \in Requests, s \in Statuses :
         Move(q, s) /\ held[q].listing = l /\ held[q].instance.status # row[l].status
    \/ /\ ProjectRow(l)
       /\ pass.chunk[l].status # row[l].status \/ pass.seen[l] # row[l].projections

(* The index is left behind only by a save whose detectors read what has   *)
(* moved since, and by a move or a pass over a row that has: for any       *)
(* catalogue and any number of requests.                                   *)
THEOREM OnlyStaleReads == Spec => OnlyStaleReadsMisleadTheIndex
<1>1. IInv /\ [Next]_vars => [OneStaleWrite]_vars
  BY StepInv DEF OneStaleWrite, StaleWrite
<1> QED BY <1>1, Inv, PTL DEF Spec, OnlyStaleReadsMisleadTheIndex, OneStaleWrite

RefusalsAreExcused ==
  \A q \in Requests : RefuseLate(q) =>
    \/ held[q].door = "restore"
    \/ MissingImage(held[q].instance.draft)
    \/ held[q].under # cached

(* What validate_draft accepts and publish_listing refuses lacks an image, *)
(* or was accepted under another schema.                                   *)
THEOREM LateRefusals == Spec => RefusedLateForAReason
<1>1. IInv => RefusalsAreExcused
  <2> SUFFICES ASSUME IInv, NEW q \in Requests, RefuseLate(q),
                      held[q].door # "restore", held[q].under = cached
               PROVE  MissingImage(held[q].instance.draft)
    BY DEF RefusalsAreExcused
  <2>1. ValidateDraft(held[q].instance.draft, cached)
    BY DEF IInv, HeldOK, IsHeld, RefuseLate, Holding
  <2>2. ~PublishAccepts(held[q].instance.draft, cached)
    BY DEF RefuseLate
  <2> QED BY <2>1, <2>2 DEF ValidateDraft, PublishAccepts
<1>2. RefusalsAreExcused => [RefusalsAreExcused]_vars
  OBVIOUS
<1> QED BY <1>1, <1>2, Inv, PTL DEF RefusedLateForAReason, RefusalsAreExcused

RenamesCarry ==
  \A l \in Listings :
    RenameRow(l) /\ pass.chunk[l].draft = row[l].draft
      => Carried(row[l].draft.features, row[l].draft.features')

(* A rename loses and overwrites no answer of the draft it read, whatever  *)
(* the renames and the answers.                                            *)
THEOREM RenamesLoseNothing == Spec => RenameCarriesEveryAnswer
<1>1. IInv => RenamesCarry
  <2> SUFFICES ASSUME IInv, NEW l \in Listings, RenameRow(l),
                      pass.chunk[l].draft = row[l].draft
               PROVE  Carried(row[l].draft.features, row[l].draft.features')
    BY DEF RenamesCarry
  <2>1. IsFiniteSet(DOMAIN row[l].draft.features) /\ RowsOK /\ IndexOK
    BY DEF IInv, RowsOK, IsRow, IsDraft
  <2>2. CASE row' = row
    BY <2>2 DEF Carried
  <2>3. CASE row'[l].draft.features = RenameDraft(Renames, row[l].draft.features)
    BY <2>1, <2>3, RenameCarries
  <2> QED BY <2>1, <2>2, <2>3, RenameWrites
<1>2. RenamesCarry => [RenamesCarry]_vars
  OBVIOUS
<1> QED BY <1>1, <1>2, Inv, PTL DEF RenameCarriesEveryAnswer, RenamesCarry

(* The two doors disagree on an image, a description, a zero price, and    *)
(* drafts that answer nothing: on no other ground, under any schema.       *)
THEOREM DoorsDisagreeOnlySo == Spec => []DoorsAgree
<1>1. DoorsAgree
  <2> SUFFICES ASSUME NEW l \in Listings
               PROVE  LET d == row[l].draft
                      IN /\ ValidateDraft(d, cached) =>
                              PublishAccepts(d, cached) \/ MissingImage(d)
                         /\ PublishAccepts(d, cached) =>
                              \/ ValidateDraft(d, cached)
                              \/ ~d.description \/ ZeroPriceResult(d)
                              \/ ~HasDraft(row[l])
    BY DEF DoorsAgree
  <2> QED BY DEF ValidateDraft, PublishAccepts, HasDraft
<1> QED BY <1>1, PTL

-----------------------------------------------------------------------------
(* The second invariant: what the rows, the requests and the pass hold is  *)
(* of its type, and the table, the title and the badges of every row are   *)
(* one derivation.                                                         *)

IsCard(p) ==
  /\ p = [features |-> p.features, features_title |-> p.features_title,
          features_badges |-> p.features_badges, features_search |-> p.features_search]
  /\ IsTable(p.features) /\ CardAgrees(p)

GoodRow(r) ==
  r.status \in Statuses /\ AreAnswers(r.draft.features) /\ IsCard(r.projections)

RowsGood == \A l \in Listings : GoodRow(row[l])

RevisionsOK == schema \in DOMAIN Schemas /\ cached \in 1 .. schema

(* A save under way has derived the search column as well.                 *)
GoodHeld(h) ==
  /\ GoodRow(h.instance) /\ h.under \in {Unread} \cup 1 .. schema
  /\ h.step # "loaded" => SearchAgrees(h.instance.projections)

HeldGood == \A q \in Requests : held[q] # Nothing => GoodHeld(held[q])

(* A row the pass is about to write has a source, and can be judged.       *)
PassGood ==
  pass # Idle =>
    /\ DOMAIN pass.chunk \cap pass.todo = {}
    /\ \A l \in DOMAIN pass.chunk : GoodRow(pass.chunk[l])
    /\ pass.memo \in {Unread, Failed} \cup 1 .. schema
    /\ \A l \in DOMAIN pass.seen :
         /\ l \in DOMAIN pass.chunk /\ pass.stage = "project" /\ pass.memo \in Judged
         /\ HasDraft(pass.chunk[l]) /\ pass.chunk[l].draft.category

TInv == RowsGood /\ RevisionsOK /\ HeldGood /\ PassGood

(* The operators of the model on what is good. *)
LEMMA DraftAnswers == ASSUME NEW d \in Drafts PROVE AreAnswers(d.features)
<1>1. DOMAIN d.features \subseteq SlugsInUse
  BY DEF SlugsInUse
<1>2. \A s \in DOMAIN d.features : d.features[s] \in Answers
  BY DEF Answers
<1> QED BY <1>1, <1>2 DEF AreAnswers

LEMMA RenamedAnswers ==
  ASSUME NEW f, AreAnswers(f),
         NEW after, after = RenameDraft(Renames, f)
  PROVE  AreAnswers(after)
<1>0. PICK moved : moved = Renamed(Renames, f)
  OBVIOUS
<1>1. /\ moved \subseteq DOMAIN f /\ moved \subseteq DOMAIN Renames
      /\ DOMAIN after = (DOMAIN f \ moved) \cup {Renames[s] : s \in moved}
      /\ \A s \in DOMAIN f \ moved : after[s] = f[s]
      /\ \A s \in moved : after[Renames[s]] = f[s]
  <2>1. DOMAIN f \subseteq SlugsInUse
    BY DEF AreAnswers
  <2> QED BY <1>0, <2>1, RenamedSlugs
<1>2. \A s \in DOMAIN Renames : Renames[s] \in SlugsInUse
  <2>1. {Renames[s] : s \in DOMAIN Renames} \subseteq SlugsInUse
    BY DEF SlugsInUse
  <2> QED BY <2>1
<1>3. DOMAIN after \subseteq SlugsInUse
  BY <1>1, <1>2 DEF AreAnswers
<1>4. \A s \in DOMAIN after : after[s] \in Answers
  BY <1>1 DEF AreAnswers
<1> QED BY <1>3, <1>4 DEF AreAnswers

(* What is derived is a card, and its search column agrees with it.        *)
LEMMA DerivedAgrees == ASSUME NEW p, Derived(p) PROVE IsCard(p) /\ SearchAgrees(p)
<1> DEFINE t == p.features
<1>1. p = [features |-> t, features_title |-> FeaturesTitle(t),
           features_badges |-> FeaturesBadges(t), features_search |-> FeaturesSearch(t)]
  BY DEF Derived, ProjectionsFromList
<1>2. IsTable(t)
  BY DEF Derived
<1> HIDE DEF t
<1>3. p.features = t
  BY <1>1
<1> QED BY <1>1, <1>2, <1>3 DEF IsCard, CardAgrees, SearchAgrees

(* The search column written alone: from the table beside it, or another.  *)
LEMMA SearchedCard ==
  ASSUME NEW p, IsCard(p), NEW t, NEW w, w = Searched(p, t)
  PROVE  /\ IsCard(w) /\ w.features = p.features
         /\ t.features = p.features => SearchAgrees(w)
<1> DEFINE f == FeaturesSearch(t.features)
<1>1. w = [p EXCEPT !.features_search = f]
  BY DEF Searched
<1> HIDE DEF f
<1>2. /\ p = [features |-> p.features, features_title |-> p.features_title,
              features_badges |-> p.features_badges, features_search |-> p.features_search]
  BY DEF IsCard
<1>3. /\ w = [features |-> w.features, features_title |-> w.features_title,
              features_badges |-> w.features_badges, features_search |-> w.features_search]
      /\ w.features = p.features /\ w.features_title = p.features_title
      /\ w.features_badges = p.features_badges /\ w.features_search = f
  BY <1>1, <1>2
<1>4. IsCard(w)
  BY <1>3 DEF IsCard, CardAgrees
<1> QED BY <1>3, <1>4 DEF SearchAgrees, f

LEMMA RebuiltCard ==
  ASSUME NEW p, IsCard(p)
  PROVE  IsCard(Rebuilt(p)) /\ SearchAgrees(Rebuilt(p))
<1>1. Rebuilt(p) = Searched(p, p)
  BY DEF Rebuilt, Searched
<1> QED BY <1>1, SearchedCard

Rejected(r, rev) == FieldFailures(Schemas[rev].features, r.draft.features)

LEMMA RejectedFields ==
  ASSUME NEW r, NEW rev
  PROVE  /\ Rejected(r, rev) \in SUBSET FieldSlugs(Schemas[rev].features)
         /\ Repaired(r, rev) = BuildProjectionsPartial(Schemas[rev].features, r.draft.features,
                                 Rejected(r, rev), r.projections.features)
BY DEF Rejected, FieldFailures, FieldSlugs, Repaired

(* A repair joins what it derives with the rejected fields it preserves.   *)
LEMMA RepairJoins ==
  ASSUME NEW r, GoodRow(r), NEW rev \in DOMAIN Schemas
  PROVE  /\ IsCategory(Schemas[rev].features)
         /\ Derived(Repaired(r, rev))
         /\ \E K : /\ Shown(Schemas[rev].features, Without(r.draft.features, Rejected(r, rev)), K)
                   /\ ToSet(Repaired(r, rev).features)
                        = FreshDaos(Schemas[rev].features,
                                    Without(r.draft.features, Rejected(r, rev)), K)
                          \cup {d \in ToSet(r.projections.features) : d.slug \in Rejected(r, rev)}
<1> DEFINE category == Schemas[rev].features
<1> DEFINE f == r.draft.features
<1> DEFINE X == Rejected(r, rev)
<1> DEFINE stored == r.projections.features
<1>1. IsCategory(category)
  BY SchemasAssumption
<1>2. AreAnswers(f) /\ IsTable(stored)
  BY DEF GoodRow, IsCard
<1>3. X \in SUBSET FieldSlugs(category)
      /\ Repaired(r, rev) = BuildProjectionsPartial(category, f, X, stored)
  BY RejectedFields
<1>4. PICK K : Joined(category, f, X, stored, K, Repaired(r, rev))
  BY <1>2, <1>3, Partial
<1>5. Shown(category, Without(f, X), K)
  BY <1>4 DEF Joined
<1>6. /\ Derived(Repaired(r, rev))
      /\ ToSet(Repaired(r, rev).features) = FreshDaos(category, Without(f, X), K)
                                             \cup {d \in ToSet(stored) : d.slug \in X}
  BY <1>2, <1>4, JoinedTable
<1> QED BY <1>1, <1>5, <1>6

LEMMA RepairedAgain ==
  ASSUME NEW r, GoodRow(r), NEW rev \in DOMAIN Schemas,
         NEW w, w.draft = r.draft, w.projections = Repaired(r, rev)
  PROVE  Repaired(w, rev) = w.projections
<1> DEFINE category == Schemas[rev].features
<1> DEFINE f == r.draft.features
<1> DEFINE X == Rejected(r, rev)
<1>1. AreAnswers(f) /\ IsTable(r.projections.features)
  BY DEF GoodRow, IsCard
<1>2. X \in SUBSET FieldSlugs(category)
      /\ Repaired(r, rev) = BuildProjectionsPartial(category, f, X, r.projections.features)
  BY RejectedFields
<1>3. Rejected(w, rev) = X
  BY DEF Rejected
<1>4. Repaired(w, rev) = BuildProjectionsPartial(category, f, X, Repaired(r, rev).features)
  BY <1>3, RejectedFields
<1> QED BY <1>1, <1>2, <1>4, PartialAgain

LEMMA GoodRowIsOK == ASSUME NEW r, GoodRow(r) PROVE RowOK(r)
<1>1. r.projections.features \in Seq(DaoType)
  BY DEF GoodRow, IsCard, IsTable
<1>2. ToSet(r.projections.features) \subseteq DaoType
  BY <1>1 DEF ToSet
<1> QED BY <1>2 DEF GoodRow, AreAnswers, RowOK

-----------------------------------------------------------------------------
(* The steps, one by one.                                                  *)
LEMMA RowGoodWrite ==
  ASSUME RowsOK, RowsGood, NEW l \in Listings, NEW w, IsRow(w), GoodRow(w),
         row' = [row EXCEPT ![l] = w]
  PROVE  RowsGood'
<1>1. row'[l] = w /\ \A m \in Listings \ {l} : row'[m] = row[m]
  BY RowWrite
<1> QED BY <1>1 DEF RowsGood

(* What was a revision stays one when the catalogue moves.                 *)
LEMMA SchemaGrows ==
  ASSUME RevisionsOK, schema' = schema \/ schema' = schema + 1
  PROVE  \A n \in 1 .. schema : n \in 1 .. schema'
<1>1. Len(Schemas) \in Nat /\ DOMAIN Schemas = 1 .. Len(Schemas)
  BY SchemasAssumption
<1> QED BY <1>1 DEF RevisionsOK

LEMMA DisturbedGood ==
  ASSUME PassOK, PassGood, RevisionsOK, pass' = Disturbed,
         schema' = schema \/ schema' = schema + 1
  PROVE  PassGood'
<1>1. CASE pass = Idle
  BY <1>1 DEF Disturbed, PassGood
<1>2. CASE pass # Idle
  <2>1. /\ pass'.chunk = pass.chunk /\ pass'.todo = pass.todo /\ pass'.memo = pass.memo
        /\ pass'.seen = pass.seen /\ pass'.stage = pass.stage
    BY <1>2 DEF Disturbed, PassOK, IsPass
  <2>2. \A n \in 1 .. schema : n \in 1 .. schema'
    BY SchemaGrows
  <2> QED BY <1>2, <2>1, <2>2 DEF PassGood
<1> QED BY <1>1, <1>2

LEMMA AnswerGood ==
  ASSUME HeldOK, HeldGood, NEW q \in Requests, Answer(q), schema' = schema PROVE HeldGood'
<1>1. held'[q] = Nothing /\ \A p \in Requests \ {q} : held'[p] = held[p]
  BY AnswerHeld
<1> QED BY <1>1 DEF HeldGood, GoodHeld

LEMMA CachedIsARevision ==
  ASSUME TInv
  PROVE  /\ cached \in DOMAIN Schemas /\ cached \in Nat /\ schema \in Nat /\ cached <= schema
         /\ 1 <= cached
<1>1. Len(Schemas) \in Nat /\ DOMAIN Schemas = 1 .. Len(Schemas)
  BY SchemasAssumption
<1> QED BY <1>1 DEF TInv, RevisionsOK

LEMMA BegunGood ==
  ASSUME IInv, TInv, NEW q \in Requests, NEW l \in Listings, Begun(q, l)
  PROVE  TInv'
<1>1. PICK door, under : /\ Hold(q, l, door, under) /\ under \in {Unread, cached}
                         /\ door = "publish" => ValidateDraft(row[l].draft, under)
  BY BegunHolds
<1>2. UNCHANGED <<row, schema, cached, pass>>
  BY <1>1 DEF Hold
<1>3. /\ \A p \in Requests \ {q} : held'[p] = held[p]
      /\ held'[q].instance = row[l] /\ held'[q].under = under /\ held'[q].step = "loaded"
  BY <1>1, HoldHeld DEF IInv
<1>4. under \in {Unread} \cup 1 .. schema
  BY <1>1 DEF TInv, RevisionsOK
<1>5. GoodRow(row[l])
  BY DEF TInv, RowsGood
<1>6. HeldGood'
  BY <1>2, <1>3, <1>4, <1>5 DEF TInv, HeldGood, GoodHeld
<1> QED BY <1>2, <1>6 DEF TInv, RowsGood, RevisionsOK, PassGood

(* A save begun holds a good instance.                                     *)
LEMMA BeginSaveGood ==
  ASSUME IInv, TInv, NEW q \in Requests, held[q] # Nothing, NEW instance, IsRow(instance),
         GoodRow(instance), SearchAgrees(instance.projections), BeginSave(q, instance)
  PROVE  TInv'
<1>1. UNCHANGED <<row, schema, cached, pass>>
  BY DEF BeginSave
<1>2. /\ \A p \in Requests \ {q} : held'[p] = held[p]
      /\ held'[q].instance = instance /\ held'[q].under = held[q].under
  BY BeginSaveHeld DEF IInv
<1>3. HeldGood'
  BY <1>1, <1>2 DEF TInv, HeldGood, GoodHeld
<1> QED BY <1>1, <1>3 DEF TInv, RowsGood, RevisionsOK, PassGood

LEMMA SaveDraftGood ==
  ASSUME IInv, TInv, NEW q \in Requests, NEW d \in Drafts, SaveDraft(q, d) PROVE TInv'
<1> DEFINE r == held[q].instance
<1> DEFINE w == Edited(r, d)
<1>1. held[q] # Nothing /\ IsRow(w) /\ BeginSave(q, w)
  BY SaveDraftBegins DEF IInv
<1>2. IsRow(r) /\ GoodRow(r)
  BY <1>1 DEF IInv, HeldOK, IsHeld, TInv, HeldGood, GoodHeld
<1>3. w.draft = d /\ w.status = r.status /\ w.projections = Rebuilt(r.projections)
  BY <1>2, EditedRow
<1>4. IsCard(Rebuilt(r.projections)) /\ SearchAgrees(Rebuilt(r.projections))
  BY <1>2, RebuiltCard DEF GoodRow
<1> HIDE DEF w, r
<1>5. GoodRow(w) /\ SearchAgrees(w.projections)
  BY <1>2, <1>3, <1>4, DraftAnswers DEF GoodRow
<1> QED BY <1>1, <1>5, BeginSaveGood

LEMMA PublishListingGood ==
  ASSUME IInv, TInv, NEW q \in Requests, PublishListing(q) PROVE TInv'
<1> DEFINE r == held[q].instance
<1> DEFINE w == Promoted(r, cached)
<1>1. held[q] # Nothing /\ IsRow(w) /\ BeginSave(q, w)
  BY PublishListingBegins DEF IInv
<1>2. GoodRow(r)
  BY <1>1 DEF TInv, HeldGood, GoodHeld
<1>3. /\ w.draft = r.draft /\ w.status = r.status
      /\ w.projections = BuildProjections(Schemas[cached].features, r.draft.features)
  BY DEF Promoted
<1>4. Derived(BuildProjections(Schemas[cached].features, r.draft.features))
  BY <1>2, CachedIsARevision, FreshDerived DEF GoodRow
<1> HIDE DEF w, r
<1>5. GoodRow(w) /\ SearchAgrees(w.projections)
  BY <1>2, <1>3, <1>4, DerivedAgrees DEF GoodRow
<1> QED BY <1>1, <1>5, BeginSaveGood

LEMMA ReadContentGood ==
  ASSUME IInv, TInv, NEW q \in Requests, ReadContent(q) PROVE TInv'
<1>1. UNCHANGED <<row, schema, cached, pass>>
  BY DEF ReadContent
<1>2. /\ \A p \in Requests \ {q} : held'[p] = held[p]
      /\ held'[q].instance = held[q].instance /\ held'[q].under = held[q].under
      /\ held[q] # Nothing /\ held[q].step = "status"
  BY ReadContentHeld DEF IInv
<1>3. HeldGood'
  BY <1>1, <1>2 DEF TInv, HeldGood, GoodHeld
<1> QED BY <1>1, <1>3 DEF TInv, RowsGood, RevisionsOK, PassGood

(* What a save writes. *)
LEMMA SaveWrites ==
  ASSUME IInv, TInv, NEW q \in Requests, Save(q)
  PROVE  /\ held[q].listing \in Listings
         /\ row' = [row EXCEPT ![held[q].listing] = Written(held[q])]
         /\ IsRow(Written(held[q])) /\ GoodRow(Written(held[q]))
         /\ SearchAgrees(Written(held[q]).projections)
<1> DEFINE h == held[q]
<1> DEFINE w == Written(h)
<1>1. /\ h # Nothing /\ h.step # "loaded" /\ row' = [row EXCEPT ![h.listing] = w]
  BY DEF Save
<1>2. h.listing \in Listings /\ IsRow(h.instance)
  BY <1>1 DEF IInv, HeldOK, IsHeld
<1>3. GoodRow(h.instance) /\ SearchAgrees(h.instance.projections)
  BY <1>1 DEF TInv, HeldGood, GoodHeld
<1>4. /\ IsRow(w) /\ w.status \in {h.instance.status, "published"}
      /\ w.draft = h.instance.draft /\ w.projections = h.instance.projections
  <2>1. w = h.instance \/ w = [h.instance EXCEPT !.status = "published"]
    BY DEF Written
  <2> HIDE DEF w, h
  <2>2. CASE w = h.instance
    BY <1>2, <2>2
  <2>3. CASE w = [h.instance EXCEPT !.status = "published"]
    BY <1>2, <2>3 DEF IsRow
  <2> QED BY <2>1, <2>2, <2>3
<1> HIDE DEF w, h
<1>5. GoodRow(w) /\ SearchAgrees(w.projections)
  BY <1>3, <1>4 DEF GoodRow, Statuses
<1> QED BY <1>1, <1>2, <1>4, <1>5 DEF w, h

LEMMA SaveGood == ASSUME IInv, TInv, NEW q \in Requests, Save(q) PROVE TInv'
<1>1. Answer(q) /\ pass' = Disturbed /\ UNCHANGED <<schema, cached>>
  BY DEF Save
<1>2. RowsGood'
  BY SaveWrites, RowGoodWrite DEF IInv, TInv
<1>3. HeldGood' /\ PassGood'
  BY <1>1, AnswerGood, DisturbedGood DEF IInv, TInv
<1> QED BY <1>1, <1>2, <1>3 DEF TInv, RevisionsOK

(* What a move writes: the status, and on the way in the search column.    *)
LEMMA MoveWrites ==
  ASSUME IInv, TInv, NEW q \in Requests, NEW s \in Statuses, Move(q, s)
  PROVE  /\ held[q] # Nothing /\ held[q].listing \in Listings
         /\ \E w : /\ row' = [row EXCEPT ![held[q].listing] = w]
                   /\ IsRow(w) /\ GoodRow(w)
                   /\ w.projections.features = row[held[q].listing].projections.features
                   /\ \/ w.projections = row[held[q].listing].projections
                      \/ held[q].instance.projections.features
                            = row[held[q].listing].projections.features
                         => SearchAgrees(w.projections)
<1> DEFINE h == held[q]
<1> DEFINE r == row[h.listing]
<1> DEFINE w == Moved(r, h.instance, s)
<1>1. h # Nothing /\ row' = [row EXCEPT ![h.listing] = w]
  BY DEF Move, Holding
<1>2. h.listing \in Listings
  BY <1>1 DEF IInv, HeldOK, IsHeld
<1>3. IsRow(r) /\ GoodRow(r)
  BY <1>2 DEF IInv, RowsOK, TInv, RowsGood
<1>4. w = Moved(r, h.instance, s)
  OBVIOUS
<1> HIDE DEF w, r, h
<1>5. /\ IsRow(w) /\ w.status = s /\ w.draft = r.draft
      /\ s # "published" => w.projections = r.projections
      /\ s = "published" => w.projections = Searched(r.projections, h.instance.projections)
  BY <1>3, <1>4, MovedRow
<1>6. CASE s # "published"
  <2>1. GoodRow(w) /\ w.projections = r.projections
    BY <1>3, <1>5, <1>6 DEF GoodRow
  <2> QED BY <1>1, <1>2, <1>5, <2>1 DEF r, h
<1>7. CASE s = "published"
  <2>1. /\ IsCard(w.projections) /\ w.projections.features = r.projections.features
        /\ h.instance.projections.features = r.projections.features
             => SearchAgrees(w.projections)
    BY <1>3, <1>5, <1>7, SearchedCard DEF GoodRow
  <2>2. GoodRow(w)
    BY <1>3, <1>5, <2>1 DEF GoodRow
  <2> QED BY <1>1, <1>2, <1>5, <2>1, <2>2 DEF r, h
<1> QED BY <1>6, <1>7

LEMMA MoveGood ==
  ASSUME IInv, TInv, NEW q \in Requests, NEW s \in Statuses, Move(q, s) PROVE TInv'
<1>1. Answer(q) /\ pass' = Disturbed /\ UNCHANGED <<schema, cached>>
  BY DEF Move
<1>2. RowsGood'
  BY MoveWrites, RowGoodWrite DEF IInv, TInv
<1>3. HeldGood' /\ PassGood'
  BY <1>1, AnswerGood, DisturbedGood DEF IInv, TInv
<1> QED BY <1>1, <1>2, <1>3 DEF TInv, RevisionsOK

LEMMA CatalogueGood ==
  ASSUME IInv, TInv, CatalogueMoves \/ \E rev : CacheAnswers(rev) PROVE TInv'
<1>0. /\ cached \in DOMAIN Schemas /\ cached \in Nat /\ schema \in Nat /\ cached <= schema
      /\ 1 <= cached
  BY CachedIsARevision
<1>1. CASE CatalogueMoves
  <2>1. /\ schema + 1 \in DOMAIN Schemas /\ schema' = schema + 1
        /\ pass' = Disturbed /\ UNCHANGED <<row, cached, held>>
    BY <1>1 DEF CatalogueMoves
  <2>2. RevisionsOK'
    BY <1>0, <2>1 DEF RevisionsOK
  <2>3. PassGood'
    BY <2>1, DisturbedGood DEF IInv, TInv
  <2>4. HeldGood'
    BY <2>1, SchemaGrows DEF TInv, HeldGood, GoodHeld
  <2> QED BY <2>1, <2>2, <2>3, <2>4 DEF TInv, RowsGood
<1>2. CASE \E rev : CacheAnswers(rev)
  <2>1. cached' \in 1 .. schema /\ UNCHANGED <<row, schema, pass, held>>
    BY <1>2 DEF CacheAnswers
  <2> QED BY <2>1 DEF TInv, RowsGood, RevisionsOK, HeldGood, GoodHeld, PassGood
<1> QED BY <1>1, <1>2

LEMMA BeginFields ==
  ASSUME NEW stage
  PROVE  /\ Begin(stage).todo = Listings /\ Begin(stage).memo = Unread
         /\ DOMAIN Begin(stage).chunk = {} /\ DOMAIN Begin(stage).seen = {}
         /\ Begin(stage).stage = stage
         /\ Begin(stage).touched = FALSE /\ Begin(stage).alone = TRUE
BY DEF Begin, NoRows

LEMMA StageGood ==
  ASSUME IInv, TInv, StartReproject \/ StartRename \/ RenameEnds \/ PassEnds PROVE TInv'
<1>0. cached \in Nat /\ schema \in Nat /\ cached <= schema /\ 1 <= cached
  BY CachedIsARevision
<1>1. /\ UNCHANGED <<row, held, schema>> /\ (cached' = cached \/ cached' = schema)
  BY DEF StartReproject, StartRename, RenameEnds, PassEnds
<1>2. RevisionsOK'
  BY <1>0, <1>1 DEF TInv, RevisionsOK
<1>3. HeldGood'
  BY <1>1 DEF TInv, HeldGood, GoodHeld
<1>4. \/ pass' = Idle
      \/ DOMAIN pass'.chunk = {} /\ DOMAIN pass'.seen = {} /\ pass'.memo = Unread
  <2>1. CASE StartReproject \/ StartRename
    BY <2>1, BeginFields DEF StartReproject, StartRename
  <2>2. CASE RenameEnds
    <3> DEFINE p == [Begin("project") EXCEPT !.touched = TRUE, !.alone = pass.alone]
    <3>1. pass' = Idle \/ pass' = p
      BY <2>2 DEF RenameEnds
    <3>2. DOMAIN p.chunk = {} /\ DOMAIN p.seen = {} /\ p.memo = Unread
      BY DEF Begin, NoRows
    <3> QED BY <3>1, <3>2
  <2>3. CASE PassEnds
    BY <2>3 DEF PassEnds
  <2> QED BY <2>1, <2>2, <2>3
<1>5. PassGood'
  BY <1>4 DEF PassGood
<1> QED BY <1>1, <1>2, <1>3, <1>5 DEF TInv, RowsGood

LEMMA FetchedRows ==
  ASSUME IInv, NEW c \in SUBSET Listings, Fetch(c)
  PROVE  /\ pass # Idle /\ pass'.todo = pass.todo \ c
         /\ DOMAIN pass.chunk = {} /\ c \subseteq pass.todo
         /\ DOMAIN pass'.chunk = {m \in c : InPopulation(row[m])}
         /\ \A l \in DOMAIN pass'.chunk : pass'.chunk[l] = row[l]
         /\ pass'.memo = pass.memo /\ pass'.stage = pass.stage /\ pass'.seen = pass.seen
         /\ pass'.touched = pass.touched /\ pass'.alone = pass.alone
<1> DEFINE chunk == [l \in {m \in c : InPopulation(row[m])} |-> row[l]]
<1>1. /\ pass # Idle /\ pass' = [pass EXCEPT !.todo = @ \ c, !.chunk = chunk]
      /\ DOMAIN pass.chunk = {} /\ c \subseteq pass.todo
  BY DEF Fetch
<1>2. DOMAIN chunk = {m \in c : InPopulation(row[m])} /\ \A l \in DOMAIN chunk : chunk[l] = row[l]
  OBVIOUS
<1> HIDE DEF chunk
<1>3. IsPass(pass)
  BY <1>1 DEF IInv, PassOK
<1>4. /\ pass'.todo = pass.todo \ c /\ pass'.chunk = chunk
      /\ pass'.memo = pass.memo /\ pass'.stage = pass.stage /\ pass'.seen = pass.seen
      /\ pass'.touched = pass.touched /\ pass'.alone = pass.alone
  BY <1>1, <1>3 DEF IsPass
<1> QED BY <1>1, <1>2, <1>4

LEMMA FetchGood == ASSUME IInv, TInv, NEW c \in SUBSET Listings, Fetch(c) PROVE TInv'
<1>1. UNCHANGED <<row, schema, cached, held>>
  BY DEF Fetch
<1>2. /\ pass # Idle /\ pass'.todo = pass.todo \ c /\ pass'.memo = pass.memo
      /\ DOMAIN pass.chunk = {} /\ pass'.seen = pass.seen
      /\ DOMAIN pass'.chunk \subseteq c
      /\ \A l \in DOMAIN pass'.chunk : pass'.chunk[l] = row[l]
  BY FetchedRows
<1>3. \A l \in DOMAIN pass'.chunk : l \in Listings /\ GoodRow(pass'.chunk[l])
  BY <1>2 DEF TInv, RowsGood
<1>4. DOMAIN pass'.seen = {}
  BY <1>2 DEF TInv, PassGood
<1>5. PassGood'
  BY <1>1, <1>2, <1>3, <1>4 DEF TInv, PassGood
<1>6. HeldGood'
  BY <1>1 DEF TInv, HeldGood, GoodHeld
<1> QED BY <1>1, <1>5, <1>6 DEF TInv, RowsGood, RevisionsOK

LEMMA RestRows ==
  ASSUME NEW l
  PROVE  /\ DOMAIN Rest(l) = DOMAIN pass.chunk \ {l}
         /\ \A m \in DOMAIN Rest(l) : Rest(l)[m] = pass.chunk[m]
BY DEF Rest

(* A row done leaves the chunk. *)
LEMMA RowDone ==
  ASSUME IInv, TInv, NEW l \in Listings, RenameRow(l) \/ SkipRow(l) \/ ProjectRow(l)
  PROVE  /\ pass # Idle /\ l \in DOMAIN pass.chunk
         /\ pass'.todo = pass.todo /\ pass'.stage = pass.stage /\ pass'.alone = pass.alone
         /\ pass'.chunk = Rest(l) /\ DOMAIN pass'.seen = {}
         /\ ~SkipRow(l) => pass'.memo = pass.memo
         /\ pass'.memo \in {pass.memo, Failed} \cup Resolved
<1>0. pass # Idle
  BY Zenon DEF RenameRow, SkipRow, ProjectRow, Running
<1>1. pass # Idle /\ IsPass(pass)
  BY <1>0 DEF IInv, PassOK
<1>2. CASE RenameRow(l)
  <2> DEFINE x == pass.touched \/ Renamed(Renames, pass.chunk[l].draft.features) # {}
  <2>1. pass' = [pass EXCEPT !.chunk = Rest(l), !.touched = x]
    BY <1>2 DEF RenameRow
  <2> HIDE DEF x
  <2>2. /\ pass'.todo = pass.todo /\ pass'.stage = pass.stage /\ pass'.alone = pass.alone
        /\ pass'.chunk = Rest(l) /\ pass'.memo = pass.memo /\ pass'.seen = pass.seen
    BY <1>1, <2>1 DEF IsPass
  <2>3. l \in DOMAIN pass.chunk /\ pass.stage = "rename"
    BY <1>2 DEF RenameRow, Running
  <2>4. DOMAIN pass.seen = {}
    BY <1>1, <2>3 DEF TInv, PassGood
  <2> QED BY <1>1, <2>2, <2>3, <2>4
<1>3. CASE SkipRow(l)
  <2>1. l \in DOMAIN pass.chunk /\ DOMAIN pass.seen = {}
    BY <1>3, Zenon DEF SkipRow
  <2>2. CASE pass' = [pass EXCEPT !.chunk = Rest(l)]
    <3>1. /\ pass'.todo = pass.todo /\ pass'.stage = pass.stage /\ pass'.alone = pass.alone
          /\ pass'.chunk = Rest(l) /\ pass'.memo = pass.memo /\ pass'.seen = pass.seen
      BY <1>1, <2>2 DEF IsPass
    <3> QED BY <1>1, <1>3, <2>1, <3>1
  <2>3. CASE \E memo \in Resolved :
               pass' = [pass EXCEPT !.chunk = Rest(l),
                         !.memo = IF Unresolved(memo) THEN Failed ELSE memo]
    <3>1. /\ pass'.todo = pass.todo /\ pass'.stage = pass.stage /\ pass'.alone = pass.alone
          /\ pass'.chunk = Rest(l) /\ pass'.seen = pass.seen
          /\ pass'.memo \in {Failed} \cup Resolved
      BY <1>1, <2>3 DEF IsPass
    <3> QED BY <1>1, <1>3, <2>1, <3>1
  <2> QED BY <1>3, <2>2, <2>3, Zenon DEF SkipRow
<1>4. CASE ProjectRow(l)
  <2>1. pass' = [pass EXCEPT !.chunk = Rest(l), !.seen = NoRows] /\ l \in DOMAIN pass.seen
    BY <1>4 DEF ProjectRow
  <2>2. /\ pass'.todo = pass.todo /\ pass'.stage = pass.stage /\ pass'.alone = pass.alone
        /\ pass'.chunk = Rest(l) /\ pass'.memo = pass.memo /\ pass'.seen = NoRows
    BY <1>1, <2>1 DEF IsPass
  <2>3. l \in DOMAIN pass.chunk /\ DOMAIN NoRows = {}
    BY <1>1, <2>1 DEF TInv, PassGood, NoRows
  <2> QED BY <1>1, <2>2, <2>3
<1> QED BY <1>2, <1>3, <1>4

(* A row compared is current, and leaves; or it stays, to be written.      *)
LEMMA RowCompared ==
  ASSUME IInv, NEW l \in Listings, CompareRow(l)
  PROVE  /\ pass # Idle /\ l \in DOMAIN pass.chunk /\ pass.stage = "project"
         /\ HasDraft(pass.chunk[l]) /\ pass.chunk[l].draft.category
         /\ pass'.todo = pass.todo /\ pass'.stage = pass.stage /\ pass'.alone = pass.alone
         /\ pass'.memo \in Resolved \cap Judged
         /\ \/ /\ Repaired(pass.chunk[l], pass'.memo) = pass.chunk[l].projections
               /\ pass'.chunk = Rest(l) /\ DOMAIN pass'.seen = {}
            \/ pass'.chunk = pass.chunk /\ DOMAIN pass'.seen = {l}
<1>1. /\ pass # Idle /\ l \in DOMAIN pass.chunk /\ pass.stage = "project"
      /\ DOMAIN pass.seen = {} /\ HasDraft(pass.chunk[l]) /\ pass.chunk[l].draft.category
  BY Zenon DEF CompareRow, Running
<1> DEFINE seen == [m \in {l} |-> row[m].projections]
<1>2. PICK memo \in Resolved \cap Judged :
        pass' = IF Current(pass.chunk[l], memo)
                THEN [pass EXCEPT !.memo = memo, !.chunk = Rest(l)]
                ELSE [pass EXCEPT !.memo = memo, !.seen = seen]
  BY Zenon DEF CompareRow
<1>3. DOMAIN seen = {l}
  OBVIOUS
<1>4. IsPass(pass)
  BY <1>1 DEF IInv, PassOK
<1> HIDE DEF seen
<1>5. CASE Current(pass.chunk[l], memo)
  <2>1. pass' = [pass EXCEPT !.memo = memo, !.chunk = Rest(l)]
    BY <1>2, <1>5
  <2>2. /\ pass'.todo = pass.todo /\ pass'.stage = pass.stage /\ pass'.alone = pass.alone
        /\ pass'.chunk = Rest(l) /\ pass'.memo = memo /\ pass'.seen = pass.seen
    BY <1>4, <2>1 DEF IsPass
  <2> QED BY <1>1, <1>2, <1>5, <2>2 DEF Current
<1>6. CASE ~Current(pass.chunk[l], memo)
  <2>1. pass' = [pass EXCEPT !.memo = memo, !.seen = seen]
    BY <1>2, <1>6
  <2>2. /\ pass'.todo = pass.todo /\ pass'.stage = pass.stage /\ pass'.alone = pass.alone
        /\ pass'.chunk = pass.chunk /\ pass'.memo = memo /\ pass'.seen = seen
    BY <1>4, <2>1 DEF IsPass
  <2> QED BY <1>1, <1>2, <1>3, <2>2
<1> QED BY <1>5, <1>6

LEMMA MemoGood ==
  ASSUME TInv, pass # Idle, pass'.memo \in {pass.memo, Failed} \cup Resolved, schema' = schema
  PROVE  pass'.memo \in {Unread, Failed} \cup 1 .. schema'
<1>1. pass.memo \in {Unread, Failed} \cup 1 .. schema /\ cached \in 1 .. schema
  BY DEF TInv, PassGood, RevisionsOK
<1> QED BY <1>1 DEF Resolved

LEMMA RowDonePassGood ==
  ASSUME IInv, TInv, NEW l \in Listings, RenameRow(l) \/ SkipRow(l) \/ ProjectRow(l),
         schema' = schema
  PROVE  PassGood'
<1>1. /\ pass # Idle /\ pass'.todo = pass.todo
      /\ pass'.chunk = Rest(l) /\ DOMAIN pass'.seen = {}
      /\ pass'.memo \in {pass.memo, Failed} \cup Resolved
  BY RowDone
<1>2. /\ DOMAIN pass.chunk \cap pass.todo = {}
      /\ \A m \in DOMAIN pass.chunk : GoodRow(pass.chunk[m])
  BY <1>1 DEF TInv, PassGood
<1>3. pass'.memo \in {Unread, Failed} \cup 1 .. schema'
  BY <1>1, MemoGood
<1>4. DOMAIN pass'.chunk = DOMAIN pass.chunk \ {l}
      /\ \A m \in DOMAIN pass'.chunk : GoodRow(pass'.chunk[m])
  <2>1. /\ DOMAIN Rest(l) = DOMAIN pass.chunk \ {l}
        /\ \A m \in DOMAIN Rest(l) : Rest(l)[m] = pass.chunk[m]
    BY RestRows
  <2> QED BY <1>1, <1>2, <2>1
<1> QED BY <1>1, <1>2, <1>3, <1>4 DEF PassGood

LEMMA SkipRowGood == ASSUME IInv, TInv, NEW l \in Listings, SkipRow(l) PROVE TInv'
<1>1. UNCHANGED <<row, schema, cached, held>>
  BY Zenon DEF SkipRow
<1>2. PassGood'
  BY <1>1, RowDonePassGood
<1>3. HeldGood'
  BY <1>1 DEF TInv, HeldGood, GoodHeld
<1> QED BY <1>1, <1>2, <1>3 DEF TInv, RowsGood, RevisionsOK

LEMMA CompareRowGood == ASSUME IInv, TInv, NEW l \in Listings, CompareRow(l) PROVE TInv'
<1>1. UNCHANGED <<row, schema, cached, held>>
  BY Zenon DEF CompareRow
<1>2. /\ pass # Idle /\ l \in DOMAIN pass.chunk /\ pass.stage = "project"
      /\ HasDraft(pass.chunk[l]) /\ pass.chunk[l].draft.category
      /\ pass'.todo = pass.todo /\ pass'.stage = pass.stage
      /\ pass'.memo \in Resolved \cap Judged
      /\ \/ pass'.chunk = Rest(l) /\ DOMAIN pass'.seen = {}
         \/ pass'.chunk = pass.chunk /\ DOMAIN pass'.seen = {l}
  BY RowCompared
<1>3. /\ DOMAIN pass.chunk \cap pass.todo = {}
      /\ \A m \in DOMAIN pass.chunk : GoodRow(pass.chunk[m])
  BY <1>2 DEF TInv, PassGood
<1>4. pass'.memo \in {Unread, Failed} \cup 1 .. schema'
  BY <1>1, <1>2, MemoGood
<1>5. PassGood'
  <2>1. CASE pass'.chunk = Rest(l) /\ DOMAIN pass'.seen = {}
    <3>1. DOMAIN pass'.chunk = DOMAIN pass.chunk \ {l}
          /\ \A m \in DOMAIN pass'.chunk : GoodRow(pass'.chunk[m])
      BY <1>3, <2>1, RestRows
    <3> QED BY <1>2, <1>3, <1>4, <2>1, <3>1 DEF PassGood
  <2>2. CASE pass'.chunk = pass.chunk /\ DOMAIN pass'.seen = {l}
    BY <1>2, <1>3, <1>4, <2>2 DEF PassGood
  <2> QED BY <1>2, <2>1, <2>2
<1>6. HeldGood'
  BY <1>1 DEF TInv, HeldGood, GoodHeld
<1> QED BY <1>1, <1>5, <1>6 DEF TInv, RowsGood, RevisionsOK

LEMMA RenameRowGood ==
  ASSUME IInv, TInv, NEW l \in Listings, RenameRow(l) PROVE TInv'
<1> DEFINE f == RenameDraft(Renames, pass.chunk[l].draft.features)
<1> DEFINE d == [row[l].draft EXCEPT !.features = f]
<1> DEFINE w == [row[l] EXCEPT !.draft = d]
<1>1. (row' = row \/ row' = [row EXCEPT ![l] = w]) /\ UNCHANGED <<schema, cached, held>>
      /\ pass # Idle /\ l \in DOMAIN pass.chunk
  BY DEF RenameRow, Running
<1>2. GoodRow(pass.chunk[l]) /\ GoodRow(row[l]) /\ IsRow(row[l])
      /\ IsFiniteSet(DOMAIN pass.chunk[l].draft.features)
  BY <1>1 DEF IInv, TInv, PassGood, RowsGood, RowsOK, PassOK, IsPass, RowsIn, IsRow, IsDraft
<1>3. IsFiniteSet(DOMAIN f) /\ AreAnswers(f)
  BY <1>2, RenameCarries, RenamedAnswers DEF GoodRow
<1> HIDE DEF f
<1>4. IsDraft(d) /\ d.features = f
  BY <1>2, <1>3, AnswersWrite DEF IsRow
<1> HIDE DEF d
<1>5. IsRow(w) /\ w.draft = d /\ w.status = row[l].status /\ w.projections = row[l].projections
  BY <1>2, <1>4, DraftWrite
<1>6. GoodRow(w)
  BY <1>2, <1>3, <1>4, <1>5 DEF GoodRow
<1> HIDE DEF w
<1>7. RowsGood'
  <2>1. CASE row' = row
    BY <2>1 DEF TInv, RowsGood
  <2>2. CASE row' = [row EXCEPT ![l] = w]
    BY <1>5, <1>6, <2>2, RowGoodWrite DEF IInv, TInv
  <2> QED BY <1>1, <2>1, <2>2
<1>8. PassGood'
  BY <1>1, RowDonePassGood
<1>9. HeldGood'
  BY <1>1 DEF TInv, HeldGood, GoodHeld
<1> QED BY <1>1, <1>7, <1>8, <1>9 DEF TInv, RevisionsOK

(* What the pass writes is one derivation, the search column included.     *)
LEMMA ProjectWrites ==
  ASSUME IInv, TInv, NEW l \in Listings, ProjectRow(l)
  PROVE  /\ GoodRow(row'[l]) /\ SearchAgrees(row'[l].projections)
         /\ \A m \in Listings \ {l} : row'[m] = row[m]
<1>1. /\ row'[l].projections = Repaired(pass.chunk[l], pass.memo)
      /\ row'[l].draft = row[l].draft /\ row'[l].status = row[l].status
      /\ \A m \in Listings \ {l} : row'[m] = row[m]
  BY ProjectFollows DEF IInv
<1>2. pass # Idle /\ l \in DOMAIN pass.seen
  BY DEF ProjectRow, Running
<1>3. GoodRow(pass.chunk[l]) /\ pass.memo \in DOMAIN Schemas
  BY <1>2 DEF TInv, PassGood, Judged
<1>4. Derived(Repaired(pass.chunk[l], pass.memo))
  BY <1>3, RepairJoins
<1>5. IsCard(row'[l].projections) /\ SearchAgrees(row'[l].projections)
  BY <1>1, <1>4, DerivedAgrees
<1> QED BY <1>1, <1>5 DEF TInv, RowsGood, GoodRow

LEMMA ProjectRowGood ==
  ASSUME IInv, TInv, NEW l \in Listings, ProjectRow(l) PROVE TInv'
<1>1. UNCHANGED <<schema, cached, held>>
  BY DEF ProjectRow
<1>2. RowsGood'
  BY ProjectWrites DEF TInv, RowsGood
<1>3. PassGood'
  BY <1>1, RowDonePassGood
<1>4. HeldGood'
  BY <1>1 DEF TInv, HeldGood, GoodHeld
<1> QED BY <1>1, <1>2, <1>3, <1>4 DEF TInv, RevisionsOK

LEMMA StepGood == ASSUME IInv, TInv, [Next]_vars PROVE TInv'
<1>1. ASSUME NEW q \in Requests, NEW l \in Listings, Begun(q, l) PROVE TInv'
  BY <1>1, BegunGood
<1>2. ASSUME NEW q \in Requests, RefuseLate(q) PROVE TInv'
  <2>1. Answer(q) /\ UNCHANGED <<row, schema, cached, pass>>
    BY <1>2 DEF RefuseLate
  <2>2. HeldGood'
    BY <2>1, AnswerGood DEF IInv, TInv
  <2> QED BY <2>1, <2>2 DEF TInv, RowsGood, RevisionsOK, PassGood
<1>3. ASSUME NEW q \in Requests
      PROVE  (PublishListing(q) => TInv') /\ (ReadContent(q) => TInv') /\ (Save(q) => TInv')
  BY PublishListingGood, ReadContentGood, SaveGood
<1>4. CASE UNCHANGED vars
  BY <1>4 DEF vars, TInv, RowsGood, RevisionsOK, HeldGood, GoodHeld, PassGood
<1>5. ASSUME NEW l \in Listings
      PROVE  (RenameRow(l) => TInv') /\ (SkipRow(l) => TInv')
             /\ (CompareRow(l) => TInv') /\ (ProjectRow(l) => TInv')
  BY RenameRowGood, SkipRowGood, CompareRowGood, ProjectRowGood
<1>6. CASE Owner
  <2>1. CASE \E q \in Requests, l \in Listings : Begun(q, l)
    BY <1>1, <2>1
  <2>2. CASE \E q \in Requests, d \in Drafts : SaveDraft(q, d)
    BY <2>2, SaveDraftGood
  <2>3. CASE \E q \in Requests : PublishListing(q) \/ RefuseLate(q) \/ ReadContent(q) \/ Save(q)
    BY <1>2, <1>3, <2>3
  <2>4. CASE \E q \in Requests, s \in Statuses : Move(q, s)
    BY <2>4, MoveGood
  <2> QED BY <1>6, <2>1, <2>2, <2>3, <2>4 DEF Owner, Begun
<1>7. CASE Pass
  BY <1>5, <1>7, StageGood, FetchGood DEF Pass
<1> QED BY <1>4, <1>6, <1>7, CatalogueGood DEF Next

LEMMA InitGood == Init => TInv
<1> SUFFICES ASSUME Init PROVE TInv
  OBVIOUS
<1>1. ASSUME NEW d \in Drafts
      PROVE  GoodRow([draft |-> d, projections |-> NoProjections, status |-> "draft"])
  BY DraftAnswers, NothingDerived, DerivedAgrees DEF GoodRow, Statuses
<1>2. \A l \in Listings : row[l] \in
        {[draft |-> d, projections |-> NoProjections, status |-> "draft"] : d \in Drafts}
  BY DEF Init
<1>3. RowsGood
  BY <1>1, <1>2 DEF RowsGood
<1>4. RevisionsOK
  <2>1. Len(Schemas) \in Nat /\ DOMAIN Schemas = 1 .. Len(Schemas) /\ Len(Schemas) # 0
    BY SchemasAssumption
  <2> QED BY <2>1 DEF Init, RevisionsOK
<1>5. HeldGood
  BY DEF Init, HeldGood
<1> QED BY <1>3, <1>4, <1>5 DEF Init, TInv, PassGood

(* What rows, requests and the pass hold is good in every reachable state. *)
THEOREM Good == Spec => []TInv
<1>1. Init => TInv
  BY InitGood
<1>2. IInv /\ TInv /\ [Next]_vars => TInv'
  BY StepGood
<1> QED BY <1>1, <1>2, Inv, PTL DEF Spec

-----------------------------------------------------------------------------
(* What the pass does, alone. *)

(* The row has been worked on under the memo.                              *)
Served(r, memo) ==
  HasDraft(r) /\ r.draft.category =>
    /\ memo # Unread
    /\ memo \in Judged => r.projections = Repaired(r, memo)

(* A pass nothing has disturbed works on the rows as they are; and what it *)
(* has done stays done.                                                    *)
Alone ==
  pass # Idle /\ pass.alone =>
    /\ \A l \in DOMAIN pass.chunk : pass.chunk[l] = row[l]
    /\ pass.stage = "project" =>
         \A l \in Listings : l \notin pass.todo /\ l \notin DOMAIN pass.chunk
           => Served(row[l], pass.memo)

LEMMA DisturbedAlone == ASSUME PassOK, pass' = Disturbed PROVE Alone'
<1>1. CASE pass = Idle
  BY <1>1 DEF Disturbed, Alone
<1>2. CASE pass # Idle
  <2>1. pass'.alone = FALSE
    BY <1>2 DEF Disturbed, PassOK, IsPass
  <2> QED BY <2>1 DEF Alone
<1> QED BY <1>1, <1>2

LEMMA StageAlone ==
  ASSUME StartReproject \/ StartRename \/ RenameEnds \/ PassEnds
  PROVE  Alone'
<1>1. CASE StartReproject \/ StartRename
  <2>1. PICK stage : pass' = Begin(stage)
    BY <1>1 DEF StartReproject, StartRename
  <2> QED BY <2>1, BeginFields DEF Alone
<1>2. CASE RenameEnds
  <2> DEFINE p == [Begin("project") EXCEPT !.touched = TRUE, !.alone = pass.alone]
  <2>1. pass' = Idle \/ pass' = p
    BY <1>2 DEF RenameEnds
  <2>2. DOMAIN p.chunk = {} /\ p.todo = Listings
    BY DEF Begin, NoRows
  <2> HIDE DEF p
  <2> QED BY <2>1, <2>2 DEF Alone
<1>3. CASE PassEnds
  BY <1>3 DEF PassEnds, Alone
<1> QED BY <1>1, <1>2, <1>3

LEMMA FetchAlone ==
  ASSUME IInv, Alone, NEW c \in SUBSET Listings, Fetch(c) PROVE Alone'
<1>1. UNCHANGED row
  BY DEF Fetch
<1>2. /\ pass # Idle /\ pass'.todo = pass.todo \ c
      /\ DOMAIN pass.chunk = {} /\ c \subseteq pass.todo
      /\ DOMAIN pass'.chunk = {m \in c : InPopulation(row[m])}
      /\ \A l \in DOMAIN pass'.chunk : pass'.chunk[l] = row[l]
      /\ pass'.memo = pass.memo /\ pass'.stage = pass.stage
      /\ pass'.touched = pass.touched /\ pass'.alone = pass.alone
  BY FetchedRows
<1>3. ASSUME pass.alone, pass.stage = "project", NEW l \in Listings,
             l \notin pass'.todo, l \notin DOMAIN pass'.chunk
      PROVE  Served(row[l], pass.memo)
  <2>1. CASE l \in c
    <3>1. ~InPopulation(row[l])
      BY <1>2, <1>3, <2>1
    <3> QED BY <3>1 DEF InPopulation, Served
  <2>2. CASE l \notin c
    BY <1>2, <1>3, <2>2 DEF Alone
  <2> QED BY <2>1, <2>2
<1> QED BY <1>1, <1>2, <1>3 DEF Alone

LEMMA RestAlone ==
  ASSUME NEW l, pass'.chunk = Rest(l)
  PROVE  /\ DOMAIN pass'.chunk = DOMAIN pass.chunk \ {l}
         /\ \A m \in DOMAIN pass'.chunk : pass'.chunk[m] = pass.chunk[m]
<1>1. /\ DOMAIN Rest(l) = DOMAIN pass.chunk \ {l}
      /\ \A m \in DOMAIN Rest(l) : Rest(l)[m] = pass.chunk[m]
  BY RestRows
<1> QED BY <1>1

LEMMA RenameRowAlone ==
  ASSUME IInv, TInv, Alone, NEW l \in Listings, RenameRow(l) PROVE Alone'
<1>1. /\ pass.stage = "rename"
      /\ \A m \in Listings \ {l} : row'[m] = row[m]
  <2>1. \E w : row' = row \/ row' = [row EXCEPT ![l] = w]
    BY DEF RenameRow
  <2> QED BY <2>1 DEF RenameRow, Running, IInv, RowsOK
<1>2. /\ pass # Idle /\ pass'.stage = pass.stage /\ pass'.alone = pass.alone
      /\ pass'.chunk = Rest(l)
  BY RowDone
<1>3. DOMAIN pass.chunk \subseteq Listings
  BY <1>2 DEF IInv, PassOK, IsPass, RowsIn
<1> QED BY <1>1, <1>2, <1>3, RestAlone DEF Alone

(* The memo is read once: a row served under it stays served.              *)
LEMMA MemoStays ==
  ASSUME NEW r, Served(r, pass.memo), NEW memo,
         memo \in {pass.memo} \cup Resolved \/ memo = Failed
  PROVE  Served(r, memo)
<1>1. CASE pass.memo = Unread
  BY <1>1 DEF Served
<1>2. CASE pass.memo # Unread
  BY <1>2, ReprojectAssumption DEF Resolved, Served, Judged
<1> QED BY <1>1, <1>2

LEMMA JudgedResolved ==
  ASSUME NEW memo \in Judged
  PROVE  ~Unresolved(memo) /\ memo # Unread /\ memo # Failed /\ memo \in DOMAIN Schemas
BY ReprojectAssumption DEF Judged, Unresolved

(* A row that leaves the chunk served leaves the pass as it should be.     *)
LEMMA LeavesAlone ==
  ASSUME Alone, PassOK, NEW l \in Listings, pass # Idle,
         pass'.todo = pass.todo, pass'.stage = pass.stage, pass'.alone = pass.alone,
         pass'.chunk = Rest(l),
         pass'.memo \in {pass.memo} \cup Resolved \/ pass'.memo = Failed,
         \A m \in Listings \ {l} : row'[m] = row[m],
         pass.alone /\ pass.stage = "project" => Served(row'[l], pass'.memo)
  PROVE  Alone'
<1> SUFFICES ASSUME pass.alone PROVE Alone'
  BY DEF Alone
<1>1. DOMAIN pass.chunk \subseteq Listings
  BY DEF PassOK, IsPass, RowsIn
<1>2. /\ DOMAIN pass'.chunk = DOMAIN pass.chunk \ {l}
      /\ \A m \in DOMAIN pass'.chunk : pass'.chunk[m] = pass.chunk[m]
  BY RestAlone
<1>3. \A m \in DOMAIN pass'.chunk : pass'.chunk[m] = row'[m]
  BY <1>1, <1>2 DEF Alone
<1>4. ASSUME pass.stage = "project", NEW m \in Listings,
             m \notin pass'.todo, m \notin DOMAIN pass'.chunk
      PROVE  Served(row'[m], pass'.memo)
  <2>1. CASE m # l
    <3>1. Served(row[m], pass.memo)
      BY <1>2, <1>4, <2>1 DEF Alone
    <3> QED BY <2>1, <3>1, MemoStays
  <2> QED BY <1>4, <2>1
<1> QED BY <1>3, <1>4 DEF Alone

LEMMA SkipRowAlone ==
  ASSUME IInv, TInv, Alone, NEW l \in Listings, SkipRow(l) PROVE Alone'
<1>1. UNCHANGED row
  BY Zenon DEF SkipRow
<1>2. /\ pass # Idle /\ l \in DOMAIN pass.chunk
      /\ pass'.todo = pass.todo /\ pass'.stage = pass.stage /\ pass'.alone = pass.alone
      /\ pass'.chunk = Rest(l)
      /\ pass'.memo \in {pass.memo, Failed} \cup Resolved
  BY RowDone
<1>3. ASSUME pass.alone PROVE Served(row[l], pass'.memo)
  <2>1. pass.chunk[l] = row[l]
    BY <1>2, <1>3 DEF Alone
  <2>2. CASE ~HasDraft(row[l]) \/ ~row[l].draft.category
    BY <2>2 DEF Served
  <2>3. CASE \E memo \in Resolved :
               /\ memo \notin Judged
               /\ pass' = [pass EXCEPT !.chunk = Rest(l),
                             !.memo = IF Unresolved(memo) THEN Failed ELSE memo]
    <3>1. \E memo \in Resolved :
            memo \notin Judged /\ pass'.memo = IF Unresolved(memo) THEN Failed ELSE memo
      BY <1>2, <2>3 DEF IInv, PassOK, IsPass
    <3>2. cached \in DOMAIN Schemas
      BY CachedIsARevision
    <3>3. Unread \notin Resolved
      BY <3>2, ReprojectAssumption DEF Resolved
    <3>4. pass'.memo # Unread /\ pass'.memo \notin Judged
      BY <3>1, <3>3, ReprojectAssumption DEF Judged
    <3> QED BY <3>4 DEF Served
  <2> QED BY <2>1, <2>2, <2>3, Zenon DEF SkipRow
<1> QED BY <1>1, <1>2, <1>3, LeavesAlone DEF IInv

LEMMA CompareRowAlone ==
  ASSUME IInv, TInv, Alone, NEW l \in Listings, CompareRow(l) PROVE Alone'
<1>1. UNCHANGED row
  BY Zenon DEF CompareRow
<1>2. /\ pass # Idle /\ l \in DOMAIN pass.chunk
      /\ pass'.todo = pass.todo /\ pass'.stage = pass.stage /\ pass'.alone = pass.alone
      /\ pass'.memo \in Resolved \cap Judged
      /\ \/ /\ Repaired(pass.chunk[l], pass'.memo) = pass.chunk[l].projections
            /\ pass'.chunk = Rest(l)
         \/ pass'.chunk = pass.chunk
  BY RowCompared
<1>3. CASE /\ Repaired(pass.chunk[l], pass'.memo) = pass.chunk[l].projections
           /\ pass'.chunk = Rest(l)
  <2>1. ASSUME pass.alone PROVE Served(row[l], pass'.memo)
    <3>1. pass.chunk[l] = row[l]
      BY <1>2, <2>1 DEF Alone
    <3> QED BY <1>2, <1>3, <3>1, JudgedResolved DEF Served
  <2> QED BY <1>1, <1>2, <1>3, <2>1, LeavesAlone DEF IInv
<1>4. CASE pass'.chunk = pass.chunk
  <2>1. ASSUME NEW m, Served(row[m], pass.memo) PROVE Served(row'[m], pass'.memo)
    BY <1>1, <1>2, <2>1, MemoStays
  <2> QED BY <1>1, <1>2, <1>4, <2>1 DEF Alone
<1> QED BY <1>2, <1>3, <1>4

LEMMA ProjectRowAlone ==
  ASSUME IInv, TInv, Alone, NEW l \in Listings, ProjectRow(l) PROVE Alone'
<1>1. /\ row'[l].projections = Repaired(pass.chunk[l], pass.memo)
      /\ row'[l].draft = row[l].draft /\ row'[l].status = row[l].status
      /\ \A m \in Listings \ {l} : row'[m] = row[m]
  BY ProjectFollows DEF IInv
<1>2. /\ pass # Idle /\ l \in DOMAIN pass.chunk
      /\ pass'.todo = pass.todo /\ pass'.stage = pass.stage /\ pass'.alone = pass.alone
      /\ pass'.chunk = Rest(l) /\ pass'.memo = pass.memo
  <2>1. pass.stage = "project"
    BY DEF ProjectRow, Running
  <2>2. ~SkipRow(l)
    <3>1. l \in DOMAIN pass.seen
      BY DEF ProjectRow
    <3> QED BY <3>1, Zenon DEF SkipRow
  <2> QED BY <2>2, RowDone
<1>3. pass.memo \in Judged
  BY <1>2 DEF TInv, PassGood, ProjectRow
<1>4. ASSUME pass.alone PROVE Served(row'[l], pass.memo)
  <2>1. pass.chunk[l] = row[l] /\ GoodRow(row[l])
    BY <1>2, <1>4 DEF Alone, TInv, RowsGood
  <2>2. Repaired(row'[l], pass.memo) = row'[l].projections
    BY <1>1, <1>3, <2>1, JudgedResolved, RepairedAgain
  <2> QED BY <1>3, <2>2, JudgedResolved DEF Served
<1> QED BY <1>1, <1>2, <1>4, LeavesAlone DEF IInv

LEMMA StepAlone == ASSUME IInv, TInv, Alone, [Next]_vars PROVE Alone'
<1>0. PassOK
  BY DEF IInv
<1>1. ASSUME UNCHANGED <<row, pass>> PROVE Alone'
  BY <1>1 DEF Alone
<1>2. CASE Owner
  <2>1. ASSUME NEW q \in Requests, NEW l \in Listings, Begun(q, l) PROVE UNCHANGED <<row, pass>>
    BY <2>1 DEF Begun, Load, Validate, Restore, LoadToMove, Hold
  <2>2. ASSUME NEW q \in Requests, NEW d \in Drafts, SaveDraft(q, d)
        PROVE  UNCHANGED <<row, pass>>
    BY <2>2 DEF SaveDraft, BeginSave
  <2>3. ASSUME NEW q \in Requests, PublishListing(q) \/ RefuseLate(q) \/ ReadContent(q)
        PROVE  UNCHANGED <<row, pass>>
    BY <2>3 DEF PublishListing, BeginSave, RefuseLate, ReadContent
  <2>4. ASSUME NEW q \in Requests, Save(q) PROVE Alone'
    BY <1>0, <2>4, DisturbedAlone DEF Save
  <2>5. ASSUME NEW q \in Requests, NEW s \in Statuses, Move(q, s) PROVE Alone'
    BY <1>0, <2>5, DisturbedAlone DEF Move
  <2> QED BY <1>1, <1>2, <2>1, <2>2, <2>3, <2>4, <2>5 DEF Owner, Begun
<1>3. CASE Pass
  BY <1>3, StageAlone, FetchAlone, RenameRowAlone, SkipRowAlone, CompareRowAlone,
     ProjectRowAlone DEF Pass
<1>4. CASE CatalogueMoves
  BY <1>0, <1>4, DisturbedAlone DEF CatalogueMoves
<1>5. ASSUME NEW rev, CacheAnswers(rev) PROVE Alone'
  BY <1>1, <1>5 DEF CacheAnswers
<1>6. CASE UNCHANGED vars
  BY <1>1, <1>6 DEF vars
<1> QED BY <1>2, <1>3, <1>4, <1>5, <1>6 DEF Next

(* What an undisturbed pass has read is still so, and what it has done     *)
(* stands.                                                                 *)
THEOREM AlonePass == Spec => []Alone
<1>1. Init => Alone
  BY DEF Init, Alone
<1>2. IInv /\ TInv /\ Alone /\ [Next]_vars => Alone'
  BY StepAlone
<1> QED BY <1>1, <1>2, Inv, Good, PTL DEF Spec

-----------------------------------------------------------------------------
(* Rows, requests and the pass hold what they should, for any catalogue    *)
(* and any drafts.                                                         *)
THEOREM Types == Spec => []TypeOK
<1>1. IInv /\ TInv => TypeOK
  <2> SUFFICES ASSUME IInv, TInv PROVE TypeOK
    OBVIOUS
  <2>1. \A l \in Listings : RowOK(row[l])
    BY GoodRowIsOK DEF TInv, RowsGood
  <2>2. schema \in DOMAIN Schemas /\ cached \in 1 .. schema
    BY DEF TInv, RevisionsOK
  <2>3. \A q \in Requests : held[q] # Nothing =>
          /\ held[q].listing \in Listings /\ RowOK(held[q].instance)
          /\ held[q].under \in {Unread} \cup 1 .. schema
    BY GoodRowIsOK DEF IInv, HeldOK, IsHeld, TInv, HeldGood, GoodHeld
  <2>4. pass # Idle =>
          /\ DOMAIN pass.chunk \cup pass.todo \subseteq Listings
          /\ DOMAIN pass.chunk \cap pass.todo = {}
          /\ DOMAIN pass.seen \subseteq DOMAIN pass.chunk
          /\ \A l \in DOMAIN pass.chunk : RowOK(pass.chunk[l])
          /\ pass.memo \in {Unread, Failed} \cup 1 .. schema
    BY GoodRowIsOK DEF IInv, PassOK, IsPass, RowsIn, TInv, PassGood
  <2> QED BY <2>1, <2>2, <2>3, <2>4 DEF TypeOK
<1> QED BY <1>1, Inv, Good, PTL

CardsAgree == \A l \in Listings : CardAgrees(row[l].projections)

OneSearchColumn ==
  \A l \in Listings :
    SearchAgrees(row[l].projections)
      \/ row'[l].projections.features # row[l].projections.features =>
    \/ SearchAgrees(row'[l].projections)
    \/ \E q \in Requests : StaleMove(q) /\ held[q].listing = l

(* What keeps the table and the search column keeps their agreement.       *)
LEMMA SameSearch ==
  ASSUME \A l \in Listings : row'[l].projections = row[l].projections
  PROVE  OneSearchColumn
BY DEF OneSearchColumn

LEMMA SaveSearch == ASSUME IInv, TInv, NEW q \in Requests, Save(q) PROVE OneSearchColumn
<1> DEFINE w == Written(held[q])
<1>1. /\ held[q].listing \in Listings /\ row' = [row EXCEPT ![held[q].listing] = w]
      /\ IsRow(w) /\ SearchAgrees(w.projections)
  BY SaveWrites
<1> HIDE DEF w
<1>2. row'[held[q].listing] = w /\ \A m \in Listings \ {held[q].listing} : row'[m] = row[m]
  BY <1>1, RowWrite DEF IInv
<1> QED BY <1>1, <1>2 DEF OneSearchColumn

LEMMA MoveSearch ==
  ASSUME IInv, TInv, NEW q \in Requests, NEW s \in Statuses, Move(q, s) PROVE OneSearchColumn
<1> DEFINE l == held[q].listing
<1>1. held[q] # Nothing /\ l \in Listings
  BY MoveWrites
<1>2. PICK w : /\ row' = [row EXCEPT ![l] = w] /\ IsRow(w)
               /\ w.projections.features = row[l].projections.features
               /\ \/ w.projections = row[l].projections
                  \/ held[q].instance.projections.features = row[l].projections.features
                       => SearchAgrees(w.projections)
  BY MoveWrites
<1> HIDE DEF l
<1>3. row'[l] = w /\ \A m \in Listings \ {l} : row'[m] = row[m]
  BY <1>1, <1>2, RowWrite DEF IInv
<1>4. \/ w.projections = row[l].projections
      \/ SearchAgrees(w.projections)
      \/ StaleMove(q) /\ held[q].listing = l
  BY <1>2 DEF StaleMove, l
<1> QED BY <1>1, <1>2, <1>3, <1>4 DEF OneSearchColumn

LEMMA ProjectSearch ==
  ASSUME IInv, TInv, NEW l \in Listings, ProjectRow(l) PROVE OneSearchColumn
BY ProjectWrites DEF OneSearchColumn

LEMMA RenameSearch ==
  ASSUME IInv, TInv, NEW l \in Listings, RenameRow(l) PROVE OneSearchColumn
<1>1. \E w : row' = row \/ row' = [row EXCEPT ![l] = [row[l] EXCEPT !.draft = w]]
  BY DEF RenameRow
<1>2. \A m \in Listings : row'[m].projections = row[m].projections
  BY <1>1 DEF IInv, RowsOK, IsRow
<1> QED BY <1>2, SameSearch

LEMMA StepSearch == ASSUME IInv, TInv, [Next]_vars PROVE OneSearchColumn
<1>1. ASSUME UNCHANGED row PROVE OneSearchColumn
  BY <1>1, SameSearch
<1>2. CASE Owner
  <2>1. ASSUME NEW q \in Requests, NEW l \in Listings, Begun(q, l) PROVE UNCHANGED row
    BY <2>1 DEF Begun, Load, Validate, Restore, LoadToMove, Hold
  <2>2. ASSUME NEW q \in Requests, NEW d \in Drafts, SaveDraft(q, d) PROVE UNCHANGED row
    BY <2>2 DEF SaveDraft, BeginSave
  <2>3. ASSUME NEW q \in Requests, PublishListing(q) \/ RefuseLate(q) \/ ReadContent(q)
        PROVE  UNCHANGED row
    BY <2>3 DEF PublishListing, BeginSave, RefuseLate, ReadContent
  <2> QED BY <1>1, <1>2, <2>1, <2>2, <2>3, SaveSearch, MoveSearch DEF Owner, Begun
<1>3. CASE Pass
  <2>1. CASE StartReproject \/ StartRename \/ RenameEnds \/ PassEnds
    BY <1>1, <2>1 DEF StartReproject, StartRename, RenameEnds, PassEnds
  <2>2. ASSUME NEW c, Fetch(c) PROVE UNCHANGED row
    BY <2>2 DEF Fetch
  <2>3. ASSUME NEW l \in Listings, SkipRow(l) PROVE UNCHANGED row
    BY <2>3, Zenon DEF SkipRow
  <2>4. ASSUME NEW l \in Listings, CompareRow(l) PROVE UNCHANGED row
    BY <2>4, Zenon DEF CompareRow
  <2> QED BY <1>1, <1>3, <2>1, <2>2, <2>3, <2>4, RenameSearch, ProjectSearch DEF Pass
<1>4. CASE CatalogueMoves \/ \E rev : CacheAnswers(rev)
  BY <1>1, <1>4 DEF CatalogueMoves, CacheAnswers
<1>5. CASE UNCHANGED vars
  BY <1>1, <1>5 DEF vars
<1> QED BY <1>2, <1>3, <1>4, <1>5 DEF Next

(* The table, the title and the badges of a row are one derivation, and so *)
(* is the search column but for a move from an instance read before the    *)
(* table was written: for any catalogue and any number of requests.        *)
THEOREM OneDerivation == Spec => ProjectionsAgree
<1>1. TInv => CardsAgree
  BY DEF TInv, RowsGood, GoodRow, IsCard, CardsAgree
<1>2. IInv /\ TInv /\ [Next]_vars => [OneSearchColumn]_vars
  BY StepSearch
<1> QED BY <1>1, <1>2, Inv, Good, PTL
        DEF Spec, ProjectionsAgree, CardsAgree, OneSearchColumn

LEMMA FetchedGood == ASSUME TInv, NEW r \in Fetched PROVE GoodRow(r)
<1>1. pass # Idle /\ \E m \in DOMAIN pass.chunk : r = pass.chunk[m]
  BY DEF Fetched, Running
<1> QED BY <1>1 DEF TInv, PassGood

(* Whatever the catalogue, a repair shows the answers it accepts and keeps *)
(* the rejected ones that were shown, and no others.                       *)
THEOREM RepairsKeepRejectedFields == Spec => []RepairKeepsRejectedFields
<1>1. TInv => RepairKeepsRejectedFields
  <2> SUFFICES ASSUME TInv, NEW r \in Fetched, NEW rev \in Judged \cap {cached}
               PROVE  FieldsShown(Repaired(r, rev)) =
                        ((DOMAIN r.draft.features
                            \cap {Schemas[rev].features[i].slug :
                                     i \in Fields(Schemas[rev].features)})
                           \ FieldFailures(Schemas[rev].features, r.draft.features))
                        \cup (FieldsShown(r.projections)
                                \cap FieldFailures(Schemas[rev].features, r.draft.features))
    BY DEF RepairKeepsRejectedFields
  <2> DEFINE category == Schemas[rev].features
  <2> DEFINE f == r.draft.features
  <2> DEFINE X == Rejected(r, rev)
  <2> DEFINE stored == r.projections.features
  <2> DEFINE list == Repaired(r, rev).features
  <2>1. GoodRow(r) /\ rev \in DOMAIN Schemas
    BY FetchedGood DEF Judged
  <2>2. IsCategory(category)
    BY <2>1, RepairJoins
  <2>3. PICK K : /\ Shown(category, Without(f, X), K)
                 /\ ToSet(list) = FreshDaos(category, Without(f, X), K)
                                    \cup {d \in ToSet(stored) : d.slug \in X}
    BY <2>1, RepairJoins
  <2> DEFINE T == FreshDaos(category, Without(f, X), K)
  <2>4. /\ ToSet(FreshFeatures(category, Without(f, X), K)) = T
        /\ {d.slug : d \in {d \in ToSet(FreshFeatures(category, Without(f, X), K)) : ~d.header}}
             = DOMAIN Without(f, X) \cap {category[i].slug : i \in Fields(category)}
    BY <2>2, <2>3, FreshHolds, FreshFields
  <2>5. DOMAIN Without(f, X) = DOMAIN f \ X
    BY DEF Without
  <2>6. FieldsShown(Repaired(r, rev)) = {d.slug : d \in {d \in ToSet(list) : ~d.header}}
    BY DEF FieldsShown
  <2>7. FieldsShown(r.projections) = {d.slug : d \in {d \in ToSet(stored) : ~d.header}}
    BY DEF FieldsShown
  <2>8. X = FieldFailures(category, f)
    BY DEF Rejected
  <2> HIDE DEF category, f, X, stored, list, T
  <2>9. {d.slug : d \in {d \in ToSet(list) : ~d.header}}
          = {d.slug : d \in {d \in T : ~d.header}}
            \cup ({d.slug : d \in {d \in ToSet(stored) : ~d.header}} \cap X)
    BY <2>3 DEF T
  <2> QED BY <2>4, <2>5, <2>6, <2>7, <2>8, <2>9 DEF category, f
<1> QED BY <1>1, Good, PTL

(* The headings a repair shows, whatever the catalogue: the filter, run    *)
(* from the last entry to the first, finds the sections with an answer.    *)
THEOREM HeadingsFollow == Spec => []HeadingsFollowAcceptedAnswers
<1>1. TInv => HeadingsFollowAcceptedAnswers
  <2> SUFFICES ASSUME TInv, NEW r \in Fetched, NEW rev \in Judged \cap {cached}
               PROVE  Headings(Repaired(r, rev).features) =
                        HeadingsToShow(Schemas[rev].features,
                          DOMAIN r.draft.features
                            \ FieldFailures(Schemas[rev].features, r.draft.features))
                        \cup (Headings(r.projections.features)
                                \cap FieldFailures(Schemas[rev].features, r.draft.features))
    BY DEF HeadingsFollowAcceptedAnswers
  <2> DEFINE category == Schemas[rev].features
  <2> DEFINE f == r.draft.features
  <2> DEFINE X == Rejected(r, rev)
  <2> DEFINE stored == r.projections.features
  <2> DEFINE list == Repaired(r, rev).features
  <2>1. GoodRow(r) /\ rev \in DOMAIN Schemas
    BY FetchedGood DEF Judged
  <2>2. IsCategory(category)
    BY <2>1, RepairJoins
  <2>3. PICK K : /\ Shown(category, Without(f, X), K)
                 /\ ToSet(list) = FreshDaos(category, Without(f, X), K)
                                    \cup {d \in ToSet(stored) : d.slug \in X}
    BY <2>1, RepairJoins
  <2> DEFINE T == FreshDaos(category, Without(f, X), K)
  <2>4. /\ ToSet(FreshFeatures(category, Without(f, X), K)) = T
        /\ Headings(FreshFeatures(category, Without(f, X), K))
             = HeadingsToShow(category, DOMAIN Without(f, X))
    BY <2>2, <2>3, FreshHolds, FreshHeadings
  <2>5. DOMAIN Without(f, X) = DOMAIN f \ X
    BY DEF Without
  <2>6. X = FieldFailures(category, f)
    BY DEF Rejected
  <2> HIDE DEF category, f, X, stored, list, T
  <2>7. {d.slug : d \in {d \in ToSet(list) : d.header}}
          = {d.slug : d \in {d \in T : d.header}}
            \cup ({d.slug : d \in {d \in ToSet(stored) : d.header}} \cap X)
    BY <2>3 DEF T
  <2>8. Headings(list) = HeadingsToShow(category, DOMAIN f \ X) \cup (Headings(stored) \cap X)
    BY <2>4, <2>5, <2>7 DEF Headings
  <2> QED BY <2>6, <2>8 DEF category, f, stored, list
<1> QED BY <1>1, Good, PTL

(* A pass that ran alone, under the catalogue's schema, leaves nothing it  *)
(* could improve, whatever the cache answered before.                      *)
THEOREM CleanPasses == Spec => []CleanPassLeavesNothingStale
<1>1. Alone => CleanPassLeavesNothingStale
  <2> SUFFICES ASSUME Alone, EndsAlone, pass.memo \in Judged, pass.memo = schema,
                      NEW l \in Listings, HasDraft(row[l]), row[l].draft.category
               PROVE  row[l].projections = Repaired(row[l], schema)
    BY DEF CleanPassLeavesNothingStale
  <2>1. /\ pass # Idle /\ pass.alone /\ pass.stage = "project"
        /\ pass.todo = {} /\ DOMAIN pass.chunk = {}
    BY DEF EndsAlone, Running, Exhausted
  <2> QED BY <2>1 DEF Alone, Served
<1> QED BY <1>1, AlonePass, PTL

(* After such a pass what the catalogue hides is public only on an excused *)
(* row.                                                                    *)
THEOREM OnlyExcusedValues == Spec => []OnlyExcusedValuesStayPublic
<1>1. TInv /\ Alone => OnlyExcusedValuesStayPublic
  <2> SUFFICES ASSUME TInv, Alone, EndsAlone, pass.memo \in Judged \cap {schema},
                      NEW l \in Listings, NEW i \in DOMAIN Schemas[schema].features,
                      ~Schemas[schema].features[i].public,
                      Schemas[schema].features[i].slug \in FieldsShown(row[l].projections),
                      HasDraft(row[l]), row[l].draft.category,
                      Schemas[schema].features[i].slug \notin Rejected(row[l], schema)
               PROVE  Schemas[schema].features[i].slug \in HiddenSlugs(row[l].projections)
    BY DEF OnlyExcusedValuesStayPublic, Rejected
  <2> DEFINE category == Schemas[schema].features
  <2> DEFINE answers == Without(row[l].draft.features, Rejected(row[l], schema))
  <2>1. /\ pass # Idle /\ pass.alone /\ pass.stage = "project"
        /\ pass.todo = {} /\ DOMAIN pass.chunk = {}
    BY DEF EndsAlone, Running, Exhausted
  <2>2. row[l].projections = Repaired(row[l], schema)
    BY <2>1 DEF Alone, Served
  <2>3. GoodRow(row[l]) /\ schema \in DOMAIN Schemas
    BY DEF TInv, RowsGood, Judged
  <2>4. IsCategory(category)
    BY <2>3, RepairJoins
  <2>5. PICK K : /\ Shown(category, answers, K)
                 /\ ToSet(row[l].projections.features)
                      = FreshDaos(category, answers, K)
                        \cup {d \in ToSet(row[l].projections.features) :
                                d.slug \in Rejected(row[l], schema)}
    BY <2>2, <2>3, RepairJoins
  <2>6. PICK d \in ToSet(row[l].projections.features) : d.slug = category[i].slug
    BY DEF FieldsShown
  <2>7. d \in FreshDaos(category, answers, K)
    BY <2>5, <2>6
  <2>8. PICK k \in K : d = Dao(category, k, answers)
    BY <2>7 DEF FreshDaos
  <2>9. k \in DOMAIN category /\ category[k].slug = category[i].slug
    BY <2>5, <2>6, <2>8, DaoFields DEF Shown
  <2>10. k = i
    BY <2>4, <2>9 DEF IsCategory
  <2>11. ~d.public
    BY <2>8, <2>10, DaoFields
  <2> QED BY <2>6, <2>11 DEF HiddenSlugs
<1> QED BY <1>1, Good, AlonePass, PTL
=============================================================================

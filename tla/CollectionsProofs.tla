-------------------------- MODULE CollectionsProofs --------------------------
(***************************************************************************)
(* What the other proofs need of sorted lists: InOrder lists every element *)
(* of a finite set once, each after those that come before it; and a set   *)
(* of natural numbers has a least one, by which the proofs reason from one *)
(* position of a list to the next.                                         *)
(***************************************************************************)
EXTENDS Collections, FiniteSetTheorems, WellFoundedInduction, TLAPS

(* A set of natural numbers has a least element. *)
LEMMA Least ==
  ASSUME NEW T, T \in SUBSET Nat, T # {}
  PROVE  \E m \in T : \A k \in T : m <= k
<1> DEFINE R == OpToRel(<, Nat)
<1>1. IsWellFoundedOn(R, Nat)
  BY NatLessThanWellFounded
<1>2. \A x, y \in Nat : x < y => <<x, y>> \in R
  BY DEF OpToRel
<1> HIDE DEF R
<1>3. PICK x \in T : \A y \in T : ~(<<y, x>> \in R)
  BY <1>1, WFMin
<1>4. \A y \in T : x <= y
  <2> TAKE y \in T
  <2>1. x \in Nat /\ y \in Nat
    OBVIOUS
  <2>2. ~(y < x)
    BY <1>2, <1>3, <2>1
  <2> QED
    BY <2>1, <2>2
<1> QED
  BY <1>4

(* An element of a finite interval or set of numbers that is the greatest. *)
LEMMA Greatest ==
  ASSUME NEW T, NEW n \in Nat, T \in SUBSET (1..n), T # {}
  PROVE  \E m \in T : \A k \in T : k <= m
<1> DEFINE U == {n - k : k \in T}
<1>1. U \in SUBSET Nat /\ U # {}
  <2>1. \A k \in T : n - k \in Nat
    <3> TAKE k \in T
    <3>1. k \in 1..n
      OBVIOUS
    <3> QED
      BY <3>1
  <2> QED
    BY <2>1
<1>2. PICK u \in U : \A v \in U : u <= v
  <2> HIDE DEF U
  <2> QED
    BY <1>1, Least
<1>3. PICK m \in T : u = n - m
  BY <1>2
<1>4. \A k \in T : k <= m
  <2> TAKE k \in T
  <2>1. n - k \in U /\ k \in Int /\ m \in Int
    BY <1>3
  <2> QED
    BY <1>2, <1>3, <2>1
<1> QED
  BY <1>4

-----------------------------------------------------------------------------
(* A strict order of all of a finite set: before[x] is what precedes x. *)
OrdersAll(S, before) ==
  /\ IsFiniteSet(S)
  /\ before \in [S -> SUBSET S]
  /\ \A x \in S : x \notin before[x] /\ \A y \in before[x] : before[y] \subseteq before[x]
  /\ \A x, y \in S : x = y \/ x \in before[y] \/ y \in before[x]

(* The list of a set in such an order. *)
Enumerates(at, S, before) ==
  /\ Cardinality(S) \in Nat
  /\ at \in [1..Cardinality(S) -> S]
  /\ \A n \in 1..Cardinality(S) : Cardinality(before[at[n]]) = n - 1
  /\ \A x \in S : \E n \in 1..Cardinality(S) : at[n] = x
  /\ \A i, j \in 1..Cardinality(S) : i < j <=> at[i] \in before[at[j]]

(* The nearer of two elements has fewer before it. *)
LEMMA FewerBefore ==
  ASSUME NEW S, NEW before, OrdersAll(S, before), NEW x \in S, NEW y \in before[x]
  PROVE  /\ Cardinality(before[y]) < Cardinality(before[x])
         /\ Cardinality(before[y]) \in Nat /\ Cardinality(before[x]) \in Nat
<1>1. /\ y \in S /\ before[x] \subseteq S /\ before[y] \subseteq before[x]
      /\ y \notin before[y] /\ IsFiniteSet(S)
  BY DEF OrdersAll
<1>2. IsFiniteSet(before[x])
  BY <1>1, FS_Subset
<1>3. IsFiniteSet(before[y]) /\ Cardinality(before[y]) <= Cardinality(before[x])
  BY <1>1, <1>2, FS_Subset
<1>4. Cardinality(before[y]) \in Nat /\ Cardinality(before[x]) \in Nat
  BY <1>2, <1>3, FS_CardinalityType
<1>5. Cardinality(before[y]) # Cardinality(before[x])
  BY <1>1, <1>2, FS_Subset
<1> QED
  BY <1>3, <1>4, <1>5

(* Each place from 0 on is that of one element. *)
LEMMA EveryPlaceIsTaken ==
  ASSUME NEW S, NEW before, OrdersAll(S, before)
  PROVE  /\ Cardinality(S) \in Nat
         /\ \A x \in S : Cardinality(before[x]) \in 0..(Cardinality(S) - 1)
         /\ \A n \in 1..Cardinality(S) : \E x \in S : Cardinality(before[x]) = n - 1
<1> DEFINE N == Cardinality(S)
           place == [x \in S |-> Cardinality(before[x])]
<1>1. IsFiniteSet(S) /\ N \in Nat
  BY FS_CardinalityType DEF OrdersAll
<1>2. \A x \in S : Cardinality(before[x]) \in 0..(N - 1)
  <2> TAKE x \in S
  <2>1. before[x] \subseteq S /\ x \notin before[x]
    BY DEF OrdersAll
  <2>2. IsFiniteSet(before[x]) /\ Cardinality(before[x]) <= N /\ Cardinality(before[x]) # N
    BY <1>1, <2>1, FS_Subset
  <2>3. Cardinality(before[x]) \in Nat
    BY <2>2, FS_CardinalityType
  <2> QED
    BY <1>1, <2>2, <2>3
<1>3. \A x, y \in S : Cardinality(before[x]) = Cardinality(before[y]) => x = y
  <2> TAKE x \in S, y \in S
  <2>1. x = y \/ x \in before[y] \/ y \in before[x]
    BY DEF OrdersAll
  <2>2. x \in before[y] => Cardinality(before[x]) < Cardinality(before[y])
    BY FewerBefore
  <2>3. y \in before[x] => Cardinality(before[y]) < Cardinality(before[x])
    BY FewerBefore
  <2> QED
    BY <1>2, <2>1, <2>2, <2>3
<1>4. place \in Injection(S, 0..(N - 1))
  BY <1>2, <1>3 DEF Injection, IsInjective
<1>5. IsFiniteSet(0..(N - 1)) /\ Cardinality(0..(N - 1)) = N
  BY <1>1, FS_Interval
<1>6. place \in Surjection(S, 0..(N - 1))
  <2> HIDE DEF place
  <2> QED
    BY <1>4, <1>5, FS_Injection
<1>7. \A n \in 1..N : \E x \in S : Cardinality(before[x]) = n - 1
  <2> TAKE n \in 1..N
  <2>1. n - 1 \in 0..(N - 1)
    BY <1>1
  <2>2. \E x \in S : place[x] = n - 1
    BY <1>6, <2>1 DEF Surjection
  <2> QED
    BY <2>2
<1> QED
  BY <1>1, <1>2, <1>7

(* A list that has at each place an element with the right number before   *)
(* it enumerates the set.                                                  *)
LEMMA PlacedInOrder ==
  ASSUME NEW S, NEW before, OrdersAll(S, before),
         NEW at \in [1..Cardinality(S) -> S],
         \A n \in 1..Cardinality(S) : Cardinality(before[at[n]]) = n - 1
  PROVE  Enumerates(at, S, before)
<1> DEFINE N == Cardinality(S)
<1>1. /\ N \in Nat
      /\ \A x \in S : Cardinality(before[x]) \in 0..(N - 1)
  BY EveryPlaceIsTaken
<1>2. \A x, y \in S : Cardinality(before[x]) = Cardinality(before[y]) => x = y
  <2> TAKE x \in S, y \in S
  <2>1. x = y \/ x \in before[y] \/ y \in before[x]
    BY DEF OrdersAll
  <2>2. x \in before[y] => Cardinality(before[x]) < Cardinality(before[y])
    BY FewerBefore
  <2>3. y \in before[x] => Cardinality(before[y]) < Cardinality(before[x])
    BY FewerBefore
  <2> QED
    BY <1>1, <2>1, <2>2, <2>3
<1>3. \A x \in S : \E n \in 1..N : at[n] = x
  <2> TAKE x \in S
  <2>1. Cardinality(before[x]) + 1 \in 1..N
    BY <1>1
  <2>2. Cardinality(before[at[Cardinality(before[x]) + 1]]) = Cardinality(before[x])
    BY <1>1, <2>1
  <2>3. at[Cardinality(before[x]) + 1] = x
    BY <1>2, <2>1, <2>2
  <2> QED
    BY <2>1, <2>3
<1>4. \A i, j \in 1..N : i < j <=> at[i] \in before[at[j]]
  <2> TAKE i \in 1..N, j \in 1..N
  <2>1. at[i] \in S /\ at[j] \in S /\ i \in Int /\ j \in Int
    BY <1>1
  <2>2. at[i] \in before[at[j]] => i < j
    <3> HAVE at[i] \in before[at[j]]
    <3>1. Cardinality(before[at[i]]) < Cardinality(before[at[j]])
      BY <2>1, FewerBefore
    <3> QED
      BY <2>1, <3>1
  <2>3. at[j] \in before[at[i]] => j < i
    <3> HAVE at[j] \in before[at[i]]
    <3>1. Cardinality(before[at[j]]) < Cardinality(before[at[i]])
      BY <2>1, FewerBefore
    <3> QED
      BY <2>1, <3>1
  <2>4. at[i] = at[j] => i = j
    <3> HAVE at[i] = at[j]
    <3>1. i - 1 = j - 1
      OBVIOUS
    <3> QED
      BY <2>1, <3>1
  <2>5. at[i] = at[j] \/ at[i] \in before[at[j]] \/ at[j] \in before[at[i]]
    BY <2>1 DEF OrdersAll
  <2> QED
    BY <2>1, <2>2, <2>3, <2>4, <2>5
<1> QED
  BY <1>1, <1>3, <1>4 DEF Enumerates

(* The positions of a list, in their order. *)
LEMMA PositionsInOrder ==
  ASSUME NEW P, NEW n \in Nat, P \in SUBSET (1..n)
  PROVE  Enumerates(InOrder(P, Earlier), P, [x \in P |-> {y \in P : y < x}])
<1> DEFINE before == [x \in P |-> {y \in P : y < x}]
           at == InOrder(P, Earlier)
<1>1. IsFiniteSet(P) /\ P \in SUBSET Nat
  <2>1. IsFiniteSet(1..n)
    BY FS_Interval
  <2>2. IsFiniteSet(P)
    BY <2>1, FS_Subset
  <2> QED
    BY <2>2
<1>2. OrdersAll(P, before)
  <2>1. \A x, y \in P : x = y \/ x \in before[y] \/ y \in before[x]
    BY <1>1
  <2>2. \A x \in P : x \notin before[x] /\ \A y \in before[x] : before[y] \subseteq before[x]
    <3> TAKE x \in P
    <3>1. \A y \in P : y < x => \A z \in P : z < y => z < x
      BY <1>1
    <3>2. ~(x < x)
      BY <1>1
    <3> QED
      BY <3>1, <3>2
  <2> QED
    BY <1>1, <2>1, <2>2 DEF OrdersAll
<1>3. \A m \in 1..Cardinality(P) :
        \E x \in P : Cardinality({y \in P : y < x}) = m - 1
  <2> TAKE m \in 1..Cardinality(P)
  <2>1. PICK x \in P : Cardinality(before[x]) = m - 1
    <3> HIDE DEF before
    <3> QED
      BY <1>2, EveryPlaceIsTaken
  <2> QED
    BY <2>1
<1>4. \A m \in 1..Cardinality(P) :
        at[m] \in P /\ Cardinality({y \in P : y < at[m]}) = m - 1
  BY <1>3 DEF InOrder, Earlier
<1>5. at \in [1..Cardinality(P) -> P]
  BY <1>4 DEF InOrder
<1>6. \A m \in 1..Cardinality(P) : Cardinality(before[at[m]]) = m - 1
  BY <1>4
<1> HIDE DEF before, at
<1>7. Enumerates(at, P, before)
  BY <1>2, <1>5, <1>6, PlacedInOrder
<1> QED
  BY <1>7 DEF before, at

-----------------------------------------------------------------------------
(* A list, whatever its elements. *)
IsList(s) == \E n \in Nat : s = [i \in 1..n |-> s[i]]

LEMMA ListDomain ==
  ASSUME NEW s, IsList(s)
  PROVE  /\ Len(s) \in Nat /\ DOMAIN s = 1..Len(s)
         /\ s \in Seq({s[i] : i \in DOMAIN s})
<1>1. PICK n \in Nat : s = [i \in 1..n |-> s[i]]
  BY DEF IsList
<1>2. s \in Seq({s[i] : i \in DOMAIN s})
  BY <1>1
<1> QED
  BY <1>2

(* One list after another. *)
LEMMA Concatenated ==
  ASSUME NEW s, NEW t, IsList(s), IsList(t)
  PROVE  /\ IsList(s \o t) /\ Len(s \o t) = Len(s) + Len(t)
         /\ DOMAIN (s \o t) = 1..(Len(s) + Len(t))
         /\ \A i \in DOMAIN s : (s \o t)[i] = s[i]
         /\ \A i \in DOMAIN t : (s \o t)[Len(s) + i] = t[i]
         /\ \A i \in DOMAIN (s \o t) : i \in DOMAIN s \/ i - Len(s) \in DOMAIN t
<1> DEFINE S == {s[i] : i \in DOMAIN s} \cup {t[i] : i \in DOMAIN t}
<1>1. /\ Len(s) \in Nat /\ DOMAIN s = 1..Len(s) /\ s \in Seq(S)
      /\ Len(t) \in Nat /\ DOMAIN t = 1..Len(t) /\ t \in Seq(S)
  <2>1. s \in Seq({s[i] : i \in DOMAIN s}) /\ t \in Seq({t[i] : i \in DOMAIN t})
        /\ Len(s) \in Nat /\ DOMAIN s = 1..Len(s) /\ Len(t) \in Nat /\ DOMAIN t = 1..Len(t)
    BY ListDomain
  <2> QED
    BY <2>1
<1> HIDE DEF S
<1>2. /\ s \o t \in Seq(S) /\ Len(s \o t) = Len(s) + Len(t)
      /\ \A i \in 1..Len(s) : (s \o t)[i] = s[i]
      /\ \A i \in 1..Len(t) : (s \o t)[Len(s) + i] = t[i]
  BY <1>1
<1>3. DOMAIN (s \o t) = 1..(Len(s) + Len(t))
  BY <1>1, <1>2
<1>4. PICK n \in Nat : n = Len(s) + Len(t)
  BY <1>1
<1>5. s \o t = [i \in 1..n |-> (s \o t)[i]]
  <2>1. DOMAIN (s \o t) = 1..n
    BY <1>3, <1>4
  <2>2. PICK u : u = s \o t
    OBVIOUS
  <2>3. u \in Seq(S) /\ Len(u) = n
    BY <1>2, <1>4, <2>2
  <2>4. u \in [1..n -> S]
    BY <2>3
  <2>5. u = [i \in 1..n |-> u[i]]
    BY <2>4
  <2> QED
    BY <2>2, <2>5
<1>6. IsList(s \o t)
  BY <1>4, <1>5 DEF IsList
<1> QED
  BY <1>1, <1>2, <1>3, <1>6

(* The lists with at most one element. *)
LEMMA ShortLists ==
  ASSUME NEW e
  PROVE  /\ IsList(<< >>) /\ Len(<< >>) = 0 /\ DOMAIN << >> = {}
         /\ IsList(<<e>>) /\ Len(<<e>>) = 1 /\ DOMAIN <<e>> = {1} /\ <<e>>[1] = e
<1>1. PICK u : u = << >>
  OBVIOUS
<1>2. u = [i \in 1..0 |-> u[i]] /\ DOMAIN u = {} /\ Len(u) = 0
  <2>1. u \in Seq({}) /\ Len(u) = 0
    BY <1>1
  <2>2. u \in [1..0 -> {}] /\ DOMAIN u = 1..0
    BY <2>1
  <2> QED
    BY <2>1, <2>2
<1>3. PICK v : v = <<e>>
  OBVIOUS
<1>4. v = [i \in 1..1 |-> v[i]] /\ DOMAIN v = {1} /\ Len(v) = 1 /\ v[1] = e
  <2>1. v \in Seq({e}) /\ Len(v) = 1 /\ v[1] = e
    BY <1>3
  <2>2. v \in [1..1 -> {e}] /\ DOMAIN v = 1..1
    BY <2>1
  <2> QED
    BY <2>1, <2>2
<1> QED
  BY <1>1, <1>2, <1>3, <1>4 DEF IsList

LEMMA EmptyList ==
  ASSUME NEW s, IsList(s), Len(s) = 0 PROVE s = << >>
<1>1. s \in Seq({s[i] : i \in DOMAIN s})
  BY ListDomain
<1> QED
  BY <1>1

(* A list in which each element stands for another. *)
LEMMA MappedList ==
  ASSUME NEW s, NEW n \in Nat, DOMAIN s = 1..n, s = [i \in DOMAIN s |-> s[i]]
  PROVE  IsList(s) /\ Len(s) = n
<1>1. s = [i \in 1..n |-> s[i]]
  OBVIOUS
<1>2. IsList(s)
  BY <1>1 DEF IsList
<1>3. Len(s) \in Nat /\ 1..n = 1..Len(s)
  BY <1>2, ListDomain
<1> QED
  BY <1>2, <1>3

(* The elements at some positions of a list: each has a place, a later one *)
(* a later place.                                                          *)
Picks(f, s, P) ==
  /\ IsList(f) /\ Len(f) = Cardinality(P) /\ Cardinality(P) \in Nat
  /\ DOMAIN f = 1..Cardinality(P)
  /\ \E at : /\ \A i \in DOMAIN f : at[i] \in P /\ f[i] = s[at[i]]
             /\ \A x \in P : \E i \in DOMAIN f : at[i] = x
             /\ \A i, j \in DOMAIN f : i < j <=> at[i] < at[j]

LEMMA FilteredList ==
  ASSUME NEW s, NEW n \in Nat, NEW P, P \in SUBSET (1..n)
  PROVE  Picks(Filtered(s, P), s, P)
<1> DEFINE before == [x \in P |-> {y \in P : y < x}]
<1> PICK f : f = Filtered(s, P)
  OBVIOUS
<1> PICK at : at = InOrder(P, Earlier)
  OBVIOUS
<1>1. Enumerates(at, P, before)
  BY PositionsInOrder
<1>2. /\ Cardinality(P) \in Nat /\ at \in [1..Cardinality(P) -> P]
      /\ \A x \in P : \E i \in 1..Cardinality(P) : at[i] = x
      /\ \A i, j \in 1..Cardinality(P) : i < j <=> at[i] \in before[at[j]]
  BY <1>1 DEF Enumerates
<1>3. f = [i \in DOMAIN at |-> s[at[i]]] /\ DOMAIN at = 1..Cardinality(P)
  BY <1>2 DEF Filtered
<1>4. IsList(f) /\ Len(f) = Cardinality(P)
  BY <1>2, <1>3, MappedList
<1>5. \A i, j \in 1..Cardinality(P) : i < j <=> at[i] < at[j]
  BY <1>2
<1>6. /\ \A i \in DOMAIN f : at[i] \in P /\ f[i] = s[at[i]]
      /\ \A x \in P : \E i \in DOMAIN f : at[i] = x
      /\ \A i, j \in DOMAIN f : i < j <=> at[i] < at[j]
  BY <1>2, <1>3, <1>5
<1>7. Picks(f, s, P)
  BY <1>2, <1>3, <1>4, <1>6 DEF Picks
<1> QED
  BY <1>7
=============================================================================

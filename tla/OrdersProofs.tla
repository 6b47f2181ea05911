---------------------------- MODULE OrdersProofs ----------------------------
(***************************************************************************)
(* What Orders defines is what it is named for.                            *)
(***************************************************************************)
EXTENDS Orders, FiniteSetTheorems, WellFoundedInduction, TLAPS

StrictOrder(S, before) ==
    /\ \A x \in S : <<x, x>> \notin before
    /\ \A x, y \in S : x = y \/ <<x, y>> \in before \/ <<y, x>> \in before
    /\ \A x, y, z \in S : <<x, y>> \in before /\ <<y, z>> \in before => <<x, z>> \in before

\* A least number of a set of them.
LEMMA LeastOf == ASSUME NEW S, S \subseteq Nat, S # {} PROVE \E x \in S : \A y \in S : x <= y
<1>1. IsWellFoundedOn(OpToRel(<, Nat), Nat)
    BY NatLessThanWellFounded
<1>2. PICK x \in S : \A y \in S : ~(<<y, x>> \in OpToRel(<, Nat))
    BY <1>1, WFMin
<1>3. \A y \in S : ~(y < x)
    BY <1>2 DEF OpToRel
<1>4. ASSUME NEW y \in S PROVE x <= y
  <2>1. x \in Nat /\ y \in Nat /\ ~(y < x)
      BY <1>2, <1>3
  <2> QED BY <2>1
<1> QED BY <1>2, <1>4

\* A finite set has one element for each number of elements below it, and
\* more are below the later of two.
LEMMA Placed ==
    ASSUME NEW S, IsFiniteSet(S), NEW before, StrictOrder(S, before)
    PROVE  /\ Cardinality(S) \in Nat
           /\ \A x \in S : Cardinality(Below(x, S, before)) \in 0 .. Cardinality(S) - 1
           /\ \A x, y \in S : <<x, y>> \in before =>
                  Cardinality(Below(x, S, before)) < Cardinality(Below(y, S, before))
           /\ \A k \in 1 .. Cardinality(S) : \E x \in S : Cardinality(Below(x, S, before)) = k - 1
<1> DEFINE B(x) == Below(x, S, before)
           n == Cardinality(S)
           rank == [x \in S |-> Cardinality(B(x)) + 1]
<1>1. n \in Nat
    BY FS_CardinalityType
<1>2. ASSUME NEW T \in SUBSET S, NEW U \in SUBSET T, U # T
      PROVE  Cardinality(U) \in Nat /\ Cardinality(T) \in Nat /\ Cardinality(U) < Cardinality(T)
             /\ Cardinality(T) <= n
  <2>1. IsFiniteSet(T) /\ Cardinality(T) <= n
      BY FS_Subset
  <2>2. IsFiniteSet(U) /\ Cardinality(U) <= Cardinality(T) /\ Cardinality(U) # Cardinality(T)
      BY <1>2, <2>1, FS_Subset
  <2>3. Cardinality(U) \in Nat /\ Cardinality(T) \in Nat
      BY <2>1, <2>2, FS_CardinalityType
  <2> QED BY <2>1, <2>2, <2>3
<1>3. ASSUME NEW x \in S PROVE Cardinality(B(x)) \in 0 .. n - 1
  <2>1. B(x) \in SUBSET S /\ B(x) # S
      BY DEF Below, StrictOrder
  <2>2. Cardinality(B(x)) \in Nat /\ Cardinality(B(x)) < n
      BY <1>2, <2>1
  <2> QED BY <1>1, <2>2
<1>4. ASSUME NEW x \in S, NEW y \in S, <<x, y>> \in before
      PROVE  Cardinality(B(x)) < Cardinality(B(y))
  <2>1. B(y) \in SUBSET S /\ B(x) \in SUBSET B(y)
      BY <1>4 DEF Below, StrictOrder
  <2>2. x \in B(y) /\ x \notin B(x)
      BY <1>4 DEF Below, StrictOrder
  <2> QED BY <1>2, <2>1, <2>2
<1>5. rank \in Injection(S, 1 .. n)
  <2>1. rank \in [S -> 1 .. n]
      BY <1>1, <1>3
  <2>2. ASSUME NEW x \in S, NEW y \in S, rank[x] = rank[y] PROVE x = y
    <3>1. Cardinality(B(x)) + 1 = Cardinality(B(y)) + 1
        BY <2>2
    <3>2. Cardinality(B(x)) \in 0 .. n - 1 /\ Cardinality(B(y)) \in 0 .. n - 1
        BY <1>3
    <3>3. /\ <<x, y>> \in before => Cardinality(B(x)) < Cardinality(B(y))
          /\ <<y, x>> \in before => Cardinality(B(y)) < Cardinality(B(x))
        BY <1>4
    <3>4. x = y \/ <<x, y>> \in before \/ <<y, x>> \in before
        BY DEF StrictOrder
    <3>5. Cardinality(B(x)) = Cardinality(B(y))
      <4> HIDE DEF B, n
      <4> QED BY <1>1, <3>1, <3>2
    <3>6. ~(<<x, y>> \in before) /\ ~(<<y, x>> \in before)
      <4> HIDE DEF B, n
      <4> QED BY <1>1, <3>2, <3>3, <3>5
    <3> QED BY <3>4, <3>6
  <2> QED BY <2>1, <2>2 DEF Injection, IsInjective
<1>6. IsFiniteSet(1 .. n) /\ Cardinality(1 .. n) = n
    BY <1>1, FS_Interval
<1>7. rank \in Surjection(S, 1 .. n)
    BY <1>5, <1>6, FS_Injection
<1>8. ASSUME NEW k \in 1 .. n PROVE \E x \in S : Cardinality(B(x)) = k - 1
  <2>1. PICK x \in S : rank[x] = k
      BY <1>7 DEF Surjection
  <2> QED BY <1>1, <1>3, <2>1
<1> QED BY <1>1, <1>3, <1>4, <1>8

\* InOrder lists its set, each element once, in order.
LEMMA Listed ==
    ASSUME NEW S, IsFiniteSet(S), NEW before, StrictOrder(S, before)
    PROVE  /\ Cardinality(S) \in Nat
           /\ InOrder(S, before) \in [1 .. Cardinality(S) -> S]
           /\ \A x \in S : \E k \in 1 .. Cardinality(S) : InOrder(S, before)[k] = x
           /\ \A j, k \in 1 .. Cardinality(S) :
                  (j < k) <=> <<InOrder(S, before)[j], InOrder(S, before)[k]>> \in before
<1> DEFINE n == Cardinality(S)
           e == InOrder(S, before)
           rank(x) == Cardinality(Below(x, S, before))
<1>1. n \in Nat
    BY Placed
<1>2. ASSUME NEW k \in 1 .. n PROVE e[k] \in S /\ rank(e[k]) = k - 1
  <2>1. e[k] = CHOOSE x \in S : rank(x) = k - 1
      BY DEF InOrder
  <2>2. \E x \in S : rank(x) = k - 1
      BY Placed
  <2> HIDE DEF e, rank
  <2> QED BY <2>1, <2>2
<1>3. e \in [1 .. n -> S]
    BY <1>2 DEF InOrder
<1>4. ASSUME NEW x \in S, NEW y \in S PROVE rank(x) \in Nat /\ rank(x) + 1 \in 1 .. n
                                        /\ (rank(x) = rank(y) => x = y)
                                        /\ (rank(x) < rank(y) <=> <<x, y>> \in before)
  <2>1. rank(x) \in 0 .. n - 1 /\ rank(y) \in 0 .. n - 1
      BY Placed
  <2>2. (<<x, y>> \in before => rank(x) < rank(y)) /\ (<<y, x>> \in before => rank(y) < rank(x))
      BY Placed
  <2>3. x = y \/ <<x, y>> \in before \/ <<y, x>> \in before
      BY DEF StrictOrder
  <2> HIDE DEF rank, n
  <2> QED BY <1>1, <2>1, <2>2, <2>3
<1>5. ASSUME NEW x \in S PROVE \E k \in 1 .. n : e[k] = x
  <2>1. rank(x) + 1 \in 1 .. n /\ rank(x) \in Nat
      BY <1>4
  <2>2. e[rank(x) + 1] \in S /\ rank(e[rank(x) + 1]) = rank(x)
      BY <1>2, <2>1
  <2>3. e[rank(x) + 1] = x
      BY <1>4, <2>2
  <2> QED BY <2>1, <2>3
<1>6. ASSUME NEW j \in 1 .. n, NEW k \in 1 .. n PROVE (j < k) <=> <<e[j], e[k]>> \in before
  <2>1. e[j] \in S /\ e[k] \in S /\ rank(e[j]) = j - 1 /\ rank(e[k]) = k - 1
      BY <1>2
  <2>2. rank(e[j]) < rank(e[k]) <=> <<e[j], e[k]>> \in before
      BY <1>4, <2>1
  <2> HIDE DEF e, rank, n
  <2> QED BY <1>1, <2>1, <2>2
<1> QED BY <1>1, <1>3, <1>5, <1>6

\* The places of a sequence are in the order of the numbers.
LEMMA Ascends ==
    ASSUME NEW n \in Nat, NEW places \in SUBSET (1 .. n)
    PROVE  /\ IsFiniteSet(places) /\ Cardinality(places) \in Nat
           /\ Ascending(places) \in [1 .. Cardinality(places) -> places]
           /\ \A p \in places : \E k \in 1 .. Cardinality(places) : Ascending(places)[k] = p
           /\ \A j, k \in 1 .. Cardinality(places) : j < k <=> Ascending(places)[j] < Ascending(places)[k]
<1> DEFINE before == {p \in places \X places : p[1] < p[2]}
<1>1. IsFiniteSet(places)
  <2>1. IsFiniteSet(1 .. n)
      BY FS_Interval
  <2> QED BY <2>1, FS_Subset
<1>2. StrictOrder(places, before)
    BY DEF StrictOrder
<1>3. \A x, y \in places : <<x, y>> \in before <=> x < y
    OBVIOUS
<1> HIDE DEF before
<1>4. Ascending(places) = InOrder(places, before)
    BY DEF Ascending, before
<1>5. /\ Cardinality(places) \in Nat
      /\ InOrder(places, before) \in [1 .. Cardinality(places) -> places]
      /\ \A x \in places : \E k \in 1 .. Cardinality(places) : InOrder(places, before)[k] = x
      /\ \A j, k \in 1 .. Cardinality(places) :
             (j < k) <=> <<InOrder(places, before)[j], InOrder(places, before)[k]>> \in before
    BY <1>1, <1>2, Listed
<1> QED BY <1>1, <1>3, <1>4, <1>5

\* What is picked is what is at the places, each once and in order.
LEMMA PickedFacts ==
    ASSUME NEW T, NEW s \in Seq(T), NEW places \in SUBSET (DOMAIN s)
    PROVE  /\ Picked(s, places) \in Seq(T)
           /\ Len(Picked(s, places)) = Cardinality(places) /\ Cardinality(places) \in Nat
           /\ \A k \in DOMAIN Picked(s, places) : \E p \in places : Picked(s, places)[k] = s[p]
           /\ \A p \in places : \E k \in DOMAIN Picked(s, places) : Picked(s, places)[k] = s[p]
           /\ \A j, k \in DOMAIN Picked(s, places) : j < k =>
                  \E p, q \in places : p < q /\ Picked(s, places)[j] = s[p] /\ Picked(s, places)[k] = s[q]
<1> DEFINE n == Cardinality(places)
           e == Ascending(places)
<1>1. /\ Len(s) \in Nat /\ DOMAIN s = 1 .. Len(s) /\ \A p \in DOMAIN s : s[p] \in T
    OBVIOUS
<1>2. /\ n \in Nat /\ e \in [1 .. n -> places]
      /\ \A p \in places : \E k \in 1 .. n : e[k] = p
      /\ \A j, k \in 1 .. n : j < k <=> e[j] < e[k]
    BY <1>1, Ascends
<1>3. Picked(s, places) = [k \in 1 .. n |-> s[e[k]]]
    BY DEF Picked
<1> HIDE DEF n, e
<1>4. Picked(s, places) \in Seq(T) /\ Len(Picked(s, places)) = n /\ DOMAIN Picked(s, places) = 1 .. n
    BY <1>1, <1>2, <1>3
<1> QED BY <1>2, <1>3, <1>4 DEF n

\* What is not picked is the rest.
LEMMA PickedApart ==
    ASSUME NEW n \in Nat, NEW places \in SUBSET (1 .. n), NEW others \in SUBSET (1 .. n),
           places \cap others = {}
    PROVE  Cardinality(places \cup others) = Cardinality(places) + Cardinality(others)
           /\ Cardinality(places) \in Nat /\ Cardinality(others) \in Nat
<1>1. IsFiniteSet(places) /\ IsFiniteSet(others)
  <2>1. IsFiniteSet(1 .. n)
      BY FS_Interval
  <2> QED BY <2>1, FS_Subset
<1>2. Cardinality(places) \in Nat /\ Cardinality(others) \in Nat
    BY <1>1, FS_CardinalityType
<1>3. Cardinality(places \cup others) = Cardinality(places) + Cardinality(others) - Cardinality(places \cap others)
    BY <1>1, FS_Union
<1>4. Cardinality(places \cap others) = 0
    BY FS_EmptySet
<1> QED BY <1>2, <1>3, <1>4

\* t has the elements of s, at other places.
Rearranges(t, s) ==
    /\ \A k \in DOMAIN s : \E p \in DOMAIN s : t[k] = s[p]
    /\ \A p \in DOMAIN s : \E k \in DOMAIN s : t[k] = s[p]

\* Of two elements of t, the first comes from a place of s that is before the
\* other's.
InTurn(t, s, before) ==
    \A j, k \in DOMAIN s : j < k =>
        \E p, q \in DOMAIN s : <<p, q>> \in before /\ t[j] = s[p] /\ t[k] = s[q]

\* A sorted sequence is the sequence, in order.
LEMMA ArrangedFacts ==
    ASSUME NEW T, NEW s \in Seq(T), NEW before, StrictOrder(DOMAIN s, before)
    PROVE  /\ Arranged(s, before) \in Seq(T) /\ Len(Arranged(s, before)) = Len(s)
           /\ Rearranges(Arranged(s, before), s) /\ InTurn(Arranged(s, before), s, before)
<1> DEFINE e == InOrder(DOMAIN s, before)
<1>1. /\ Len(s) \in Nat /\ DOMAIN s = 1 .. Len(s) /\ \A p \in DOMAIN s : s[p] \in T
    OBVIOUS
<1>2. IsFiniteSet(DOMAIN s) /\ Cardinality(DOMAIN s) = Len(s)
    BY <1>1, FS_Interval
<1>3. /\ e \in [DOMAIN s -> DOMAIN s]
      /\ \A p \in DOMAIN s : \E k \in DOMAIN s : e[k] = p
      /\ \A j, k \in DOMAIN s : j < k => <<e[j], e[k]>> \in before
  <2>1. /\ InOrder(DOMAIN s, before) \in [1 .. Cardinality(DOMAIN s) -> DOMAIN s]
        /\ \A x \in DOMAIN s : \E k \in 1 .. Cardinality(DOMAIN s) : InOrder(DOMAIN s, before)[k] = x
        /\ \A j, k \in 1 .. Cardinality(DOMAIN s) :
               (j < k) <=> <<InOrder(DOMAIN s, before)[j], InOrder(DOMAIN s, before)[k]>> \in before
      BY <1>2, Listed
  <2> QED BY <1>1, <1>2, <2>1
<1>4. Arranged(s, before) = [k \in DOMAIN s |-> s[e[k]]]
    BY DEF Arranged
<1> HIDE DEF e
<1>5. Arranged(s, before) \in Seq(T) /\ Len(Arranged(s, before)) = Len(s)
    BY <1>1, <1>3, <1>4
<1>6. \A k \in DOMAIN s : e[k] \in DOMAIN s /\ Arranged(s, before)[k] = s[e[k]]
    BY <1>3, <1>4
<1>7. ASSUME NEW p \in DOMAIN s PROVE \E k \in DOMAIN s : Arranged(s, before)[k] = s[p]
    BY <1>3, <1>6, ZenonT(30)
<1>8. ASSUME NEW j \in DOMAIN s, NEW k \in DOMAIN s, j < k
      PROVE  \E p, q \in DOMAIN s : <<p, q>> \in before /\ Arranged(s, before)[j] = s[p]
                                     /\ Arranged(s, before)[k] = s[q]
    BY <1>3, <1>6, <1>8
<1>9. InTurn(Arranged(s, before), s, before)
    BY <1>8 DEF InTurn
<1>10. Rearranges(Arranged(s, before), s)
    BY <1>6, <1>7 DEF Rearranges
<1> QED BY <1>5, <1>9, <1>10

\* What is picked of a sequence is some of its members.
LEMMA PickedMembers ==
    ASSUME NEW T, NEW s \in Seq(T), NEW places \in SUBSET (DOMAIN s)
    PROVE  /\ Picked(s, places) \in Seq(T) /\ Elements(Picked(s, places)) = {s[p] : p \in places}
           /\ Len(Picked(s, places)) = Cardinality(places)
<1>1. \A k \in DOMAIN Picked(s, places) : Picked(s, places)[k] \in {s[p] : p \in places}
    BY PickedFacts
<1>2. \A p \in places : s[p] \in Elements(Picked(s, places))
    BY PickedFacts DEF Elements
<1>3. Picked(s, places) \in Seq(T) /\ Len(Picked(s, places)) = Cardinality(places)
    BY PickedFacts
<1> QED BY <1>1, <1>2, <1>3 DEF Elements

LEMMA JoinedMembers ==
    ASSUME NEW T, NEW a \in Seq(T), NEW b \in Seq(T)
    PROVE  a \o b \in Seq(T) /\ Elements(a \o b) = Elements(a) \cup Elements(b)
<1>1. a \o b \in Seq(T) /\ DOMAIN (a \o b) = 1 .. Len(a) + Len(b) /\ DOMAIN a = 1 .. Len(a) /\ DOMAIN b = 1 .. Len(b)
      /\ Len(a) \in Nat /\ Len(b) \in Nat
    OBVIOUS
<1>2. ASSUME NEW i \in 1 .. Len(a) PROVE i \in 1 .. Len(a) + Len(b) /\ (a \o b)[i] = a[i]
    BY <1>1
<1>3. ASSUME NEW i \in 1 .. Len(b) PROVE Len(a) + i \in 1 .. Len(a) + Len(b) /\ (a \o b)[Len(a) + i] = b[i]
    BY <1>1
<1>4. ASSUME NEW i \in 1 .. Len(a) + Len(b), i \notin 1 .. Len(a)
      PROVE  i - Len(a) \in 1 .. Len(b) /\ i = Len(a) + (i - Len(a))
    BY <1>1, <1>4
<1>5. Elements(a) \subseteq Elements(a \o b)
    BY <1>1, <1>2 DEF Elements
<1>6. Elements(b) \subseteq Elements(a \o b)
    BY <1>1, <1>3 DEF Elements
<1>7. Elements(a \o b) \subseteq Elements(a) \cup Elements(b)
    BY <1>1, <1>2, <1>3, <1>4 DEF Elements
<1> QED BY <1>1, <1>5, <1>6, <1>7

\* What is got from a finite set is one.
LEMMA ImageFinite ==
    ASSUME NEW S, IsFiniteSet(S), NEW T, NEW f \in [S -> T], \A t \in T : \E x \in S : f[x] = t
    PROVE  IsFiniteSet(T)
<1>1. f \in Surjection(S, T)
    BY DEF Surjection
<1> QED BY <1>1, FS_Surjection

\* A list with one element more.
LEMMA AppendedMembers ==
    ASSUME NEW T, NEW s \in Seq(T), NEW x \in T
    PROVE  Append(s, x) \in Seq(T) /\ Elements(Append(s, x)) = Elements(s) \cup {x}
<1>1. /\ Append(s, x) \in Seq(T) /\ DOMAIN Append(s, x) = 1 .. Len(s) + 1 /\ DOMAIN s = 1 .. Len(s) /\ Len(s) \in Nat
      /\ Append(s, x)[Len(s) + 1] = x /\ \A i \in 1 .. Len(s) : Append(s, x)[i] = s[i]
    OBVIOUS
<1>2. \A i \in 1 .. Len(s) + 1 : i \in 1 .. Len(s) \/ i = Len(s) + 1
    BY <1>1
<1>3. \A i \in 1 .. Len(s) : i \in 1 .. Len(s) + 1
    BY <1>1
<1>4. Len(s) + 1 \in 1 .. Len(s) + 1
    BY <1>1
<1> QED BY <1>1, <1>2, <1>3, <1>4 DEF Elements

\* A list with none after it.
LEMMA JoinedNone == ASSUME NEW a, a \in Seq(Elements(a)) PROVE a \o <<>> = a
OBVIOUS

-----------------------------------------------------------------------------
(***************************************************************************)
(* Counting up, for the functions that walk a list.                        *)
(***************************************************************************)
\* What is so of 0, and of i when it is of i - 1, is so up to n.
LEMMA Counting ==
    ASSUME NEW n \in Nat, NEW G, 0 \in G, \A i \in 1 .. n : i - 1 \in G => i \in G
    PROVE  \A i \in 0 .. n : i \in G
<1> DEFINE Out == {i \in 0 .. n : i \notin G}
<1> SUFFICES ASSUME Out # {} PROVE FALSE
    OBVIOUS
<1>1. PICK i \in Out : \A j \in Out : i <= j
  <2>1. Out \subseteq Nat
      OBVIOUS
  <2> HIDE DEF Out
  <2> QED BY <2>1, LeastOf
<1>2. i \in 1 .. n /\ i - 1 \in 0 .. n /\ ~(i <= i - 1)
    BY <1>1
<1>3. i - 1 \notin Out
    BY <1>1, <1>2
<1> QED BY <1>1, <1>2, <1>3

\* What n steps come to, from z on, is a function.
Stepped(g, n, z, step) == g[0] = z /\ \A i \in 1 .. n : g[i] = step[i][g[i - 1]]

LEMMA Walked ==
    ASSUME NEW n \in Nat, NEW T, NEW z \in T, NEW step \in [1 .. n -> [T -> T]]
    PROVE  \E g \in [0 .. n -> T] : Stepped(g, n, z, step)
<1> DEFINE G == {k \in 0 .. n : \E g \in [0 .. k -> T] : Stepped(g, k, z, step)}
<1>1. 0 \in G
  <2> DEFINE g == [i \in 0 .. 0 |-> z]
  <2>1. g \in [0 .. 0 -> T] /\ g[0] = z
      OBVIOUS
  <2> HIDE DEF g
  <2> QED BY <2>1 DEF Stepped
<1>2. ASSUME NEW k \in 1 .. n, k - 1 \in G PROVE k \in G
  <2>1. PICK f \in [0 .. k - 1 -> T] : Stepped(f, k - 1, z, step)
      BY <1>2
  <2> DEFINE g == [i \in 0 .. k |-> IF i = k THEN step[k][f[k - 1]] ELSE f[i]]
  <2>2. k \in Nat /\ k - 1 \in Nat /\ k - 1 \in 0 .. k - 1 /\ step[k] \in [T -> T]
      OBVIOUS
  <2>3. g \in [0 .. k -> T]
    <3>1. step[k][f[k - 1]] \in T
        BY <2>2
    <3>2. \A i \in 0 .. k : i = k \/ i \in 0 .. k - 1
        BY <2>2
    <3> QED BY <3>1, <3>2
  <2>4. (\A i \in 0 .. k - 1 : g[i] = f[i]) /\ g[k] = step[k][f[k - 1]]
      BY <2>2
  <2> HIDE DEF g
  <2>5. g[0] = z
      BY <2>1, <2>2, <2>4 DEF Stepped
  <2>6. ASSUME NEW i \in 1 .. k PROVE g[i] = step[i][g[i - 1]]
    <3>1. CASE i = k
        BY <2>2, <2>4, <3>1
    <3>2. CASE i # k
      <4>1. i \in 1 .. k - 1 /\ i \in 0 .. k - 1 /\ i - 1 \in 0 .. k - 1
          BY <2>2, <3>2
      <4>2. g[i] = f[i] /\ g[i - 1] = f[i - 1]
          BY <2>4, <4>1
      <4> QED BY <2>1, <4>1, <4>2 DEF Stepped
    <3> QED BY <3>1, <3>2
  <2>7. Stepped(g, k, z, step)
      BY <2>5, <2>6 DEF Stepped
  <2> QED BY <2>3, <2>7
<1>3. \A i \in 0 .. n : i \in G
  <2> HIDE DEF G
  <2> QED BY <1>1, <1>2, Counting
<1> QED BY <1>3

\* A greatest number of a set of them up to n.
LEMMA GreatestOf ==
    ASSUME NEW n \in Nat, NEW S, S \subseteq 0 .. n, S # {}
    PROVE  \E x \in S : \A y \in S : y <= x
<1> DEFINE D == {n - x : x \in S}
<1>1. D \subseteq Nat /\ D # {}
  <2>1. \A x \in S : n - x \in Nat
      OBVIOUS
  <2> QED BY <2>1
<1>2. PICK d \in D : \A e \in D : d <= e
    BY <1>1, LeastOf
<1>3. PICK x \in S : d = n - x
    BY <1>2
<1>4. ASSUME NEW y \in S PROVE y <= x
  <2>1. n - y \in D /\ x \in 0 .. n /\ y \in 0 .. n
      OBVIOUS
  <2>2. n - x <= n - y
      BY <1>2, <1>3, <2>1
  <2> HIDE DEF D
  <2> QED BY <2>1, <2>2
<1> QED BY <1>4
=============================================================================

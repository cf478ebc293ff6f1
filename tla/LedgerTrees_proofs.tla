------------------------- MODULE LedgerTrees_proofs -------------------------
(***************************************************************************)
(* Theorems about the two Merkle trees of the operator, for ledgers and     *)
(* logs of any length.                                                      *)
(***************************************************************************)
EXTENDS ExportPromise, ContinuityPromise, NatLemmas, SequenceTheorems

(***************************************************************************)
(* The split point.  The loop that doubles 1 as long as it stays below n    *)
(* finds, for n > 2, twice what it finds for half of n.                     *)
(***************************************************************************)
Doubling(d, n) ==
  d = [split \in 1..n |-> IF 2 * split < n THEN d[2 * split] ELSE split]

\* There is a function that obeys the equation: of one that obeys it within j
\* of n, one application of the equation makes one that obeys it within j + 1.
LEMMA DoublingExists ==
  ASSUME NEW n \in Nat
  PROVE  \E d : Doubling(d, n)
<1> DEFINE Body(d, s) == IF 2 * s < n THEN d[2 * s] ELSE s
           Within(d, j) == /\ d = [s \in 1..n |-> d[s]]
                           /\ \A s \in 1..n : n - s < j => d[s] = Body(d, s)
           T == {j \in Nat : \E d : Within(d, j)}
<1>1. 0 \in T
  <2>1. Within([s \in 1..n |-> s], 0)
    OBVIOUS
  <2> QED
    BY <2>1
<1>2. ASSUME NEW j \in Nat, j \in T
      PROVE  j + 1 \in T
  <2>1. PICK d : Within(d, j)
    BY <1>2
  <2> DEFINE e == [s \in 1..n |-> Body(d, s)]
  <2>2. \A s \in 1..n : n - s < j => e[s] = d[s]
    BY <2>1
  <2>3. ASSUME NEW s \in 1..n, n - s < j + 1, 2 * s < n
        PROVE  e[s] = e[2 * s]
    <3>1. 2 * s \in 1..n /\ n - 2 * s < j
      BY <2>3
    <3>2. e[2 * s] = d[2 * s]
      BY <2>2, <3>1
    <3> QED
      BY <2>3, <3>2
  <2>4. \A s \in 1..n : n - s < j + 1 => e[s] = Body(e, s)
    BY <2>3
  <2>5. Within(e, j + 1)
    BY <2>4
  <2> HIDE DEF Within, e
  <2> QED
    BY <2>5
<1>3. n \in T
  <2> HIDE DEF T
  <2> QED
    BY <1>1, <1>2, Induction
<1>4. PICK d : Within(d, n)
  BY <1>3
<1>5. \A s \in 1..n : n - s < n
  OBVIOUS
<1>6. \A s \in 1..n : d[s] = Body(d, s)
  BY <1>4, <1>5
<1> QED
  BY <1>4, <1>6 DEF Doubling

LEMMA SplitIs ==
  ASSUME NEW n \in Nat
  PROVE  \E d : Doubling(d, n) /\ SplitPoint(n) = d[1]
<1> DEFINE d == CHOOSE d : d = [split \in 1..n |-> IF 2 * split < n THEN d[2 * split] ELSE split]
<1>1. Doubling(d, n)
  BY DoublingExists, Zenon DEF Doubling
<1>2. SplitPoint(n) = d[1]
  BY DEF SplitPoint
<1> QED
  BY <1>1, <1>2

LEMMA SmallSplits == SplitPoint(1) = 1 /\ SplitPoint(2) = 1
<1>1. PICK d : Doubling(d, 1) /\ SplitPoint(1) = d[1]
  BY SplitIs
<1>2. PICK e : Doubling(e, 2) /\ SplitPoint(2) = e[1]
  BY SplitIs
<1>3. d[1] = 1
  BY <1>1 DEF Doubling
<1>4. e[1] = 1
  BY <1>2 DEF Doubling
<1> QED
  BY <1>1, <1>2, <1>3, <1>4

Half(n) == (n + 1) \div 2

\* From 2 s on in the loop for n as from s on in the loop for half of n.
LEMMA SplitHalves ==
  ASSUME NEW n \in Nat, n >= 3
  PROVE  SplitPoint(n) = 2 * SplitPoint(Half(n))
<1> DEFINE h == Half(n)
<1>1. h \in Nat /\ h >= 2 /\ h < n /\ \A s \in Nat : 4 * s < n <=> 2 * s < h
  BY DEF Half
<1>2. PICK d : Doubling(d, n) /\ SplitPoint(n) = d[1]
  BY SplitIs
<1>3. PICK e : Doubling(e, h) /\ SplitPoint(h) = e[1]
  BY SplitIs, <1>1
<1>0. \A s \in 1..n : d[s] = IF 2 * s < n THEN d[2 * s] ELSE s
  BY <1>2 DEF Doubling
<1>00. \A s \in 1..h : e[s] = IF 2 * s < h THEN e[2 * s] ELSE s
  BY <1>3 DEF Doubling
<1> HIDE DEF h
<1> DEFINE T == {j \in Nat : \A s \in 1..h : h - s < j /\ 2 * s <= n => d[2 * s] = 2 * e[s]}
<1>4. 0 \in T
  BY <1>1
<1>5. ASSUME NEW j \in Nat, j \in T
      PROVE  j + 1 \in T
  <2> SUFFICES ASSUME NEW s \in 1..h, h - s < j + 1, 2 * s <= n
               PROVE  d[2 * s] = 2 * e[s]
    OBVIOUS
  <2>1. s \in Nat /\ 2 * s \in 1..n /\ (4 * s < n <=> 2 * s < h) /\ 2 * (2 * s) = 4 * s
    BY <1>1
  <2>2. d[2 * s] = IF 4 * s < n THEN d[4 * s] ELSE 2 * s
    BY <1>0, <2>1
  <2>3. e[s] = IF 2 * s < h THEN e[2 * s] ELSE s
    BY <1>00
  <2>4. CASE 2 * s < h
    <3>1. 2 * s \in 1..h /\ h - 2 * s < j /\ 2 * (2 * s) <= n
      BY <2>1, <2>4, <1>1
    <3>2. d[2 * (2 * s)] = 2 * e[2 * s]
      BY <3>1, <1>5
    <3> QED
      BY <2>1, <2>2, <2>3, <2>4, <3>2
  <2>5. CASE ~ (2 * s < h)
    BY <2>1, <2>2, <2>3, <2>5
  <2> QED
    BY <2>4, <2>5
<1>6. h \in T
  <2> HIDE DEF T
  <2> QED
    BY <1>1, <1>4, <1>5, Induction
<1>7. d[2 * 1] = 2 * e[1]
  BY <1>6, <1>1
<1>8. d[1] = d[2 * 1]
  BY <1>0
<1> QED
  BY <1>2, <1>3, <1>7, <1>8 DEF h

LEMMA SplitBounds ==
  ASSUME NEW n \in Nat, n >= 2
  PROVE  SplitPoint(n) \in 1..(n - 1)
<1> DEFINE T == {i \in Nat : i >= 2 => SplitPoint(i) \in 1..(i - 1)}
<1>1. ASSUME NEW i \in Nat, \A m \in 0..(i - 1) : m \in T
      PROVE  i \in T
  <2>1. CASE i <= 2
    BY <2>1, SmallSplits
  <2>2. CASE i >= 3
    <3>1. Half(i) \in 0..(i - 1) /\ Half(i) >= 2 /\ Half(i) \in Nat /\ 2 * Half(i) <= i + 1
      BY <2>2 DEF Half
    <3>2. SplitPoint(Half(i)) \in 1..(Half(i) - 1)
      BY <3>1, <1>1
    <3>3. SplitPoint(i) = 2 * SplitPoint(Half(i))
      BY <2>2, SplitHalves
    <3> HIDE DEF Half
    <3> QED
      BY <3>1, <3>2, <3>3
  <2> QED
    BY <2>1, <2>2
<1> HIDE DEF T
<1>2. n \in T
  BY <1>1, StrongInduction
<1> QED
  BY <1>2 DEF T

\* A log that reaches over the split point of a longer one splits there too.
LEMMA SplitIsShared ==
  ASSUME NEW n \in Nat, NEW m \in Nat, n >= 2, SplitPoint(n) < m, m <= n
  PROVE  SplitPoint(m) = SplitPoint(n)
<1> DEFINE T == {i \in Nat : i >= 2 =>
                   \A l \in 0..i : SplitPoint(i) < l => SplitPoint(l) = SplitPoint(i)}
<1>1. ASSUME NEW i \in Nat, \A k \in 0..(i - 1) : k \in T
      PROVE  i \in T
  <2> SUFFICES ASSUME i >= 2, NEW l \in 0..i, SplitPoint(i) < l
               PROVE  SplitPoint(l) = SplitPoint(i)
    OBVIOUS
  <2>1. CASE i = 2
    BY <2>1, SmallSplits
  <2>2. CASE i >= 3
    <3> DEFINE h == Half(i)
               g == Half(l)
    <3>1. h \in 0..(i - 1) /\ h >= 2 /\ h \in Nat
      BY <2>2 DEF Half
    <3>2. SplitPoint(i) = 2 * SplitPoint(h) /\ SplitPoint(h) \in 1..(h - 1)
      BY <2>2, <3>1, SplitHalves, SplitBounds
    <3>3. l \in Nat /\ l >= 3 /\ g \in 0..h /\ SplitPoint(h) < g
      BY <3>2 DEF Half
    <3>4. SplitPoint(l) = 2 * SplitPoint(g)
      BY <3>3, SplitHalves
    <3> HIDE DEF h, g
    <3>5. SplitPoint(g) = SplitPoint(h)
      BY <3>1, <3>3, <1>1
    <3> QED
      BY <3>2, <3>4, <3>5
  <2> QED
    BY <2>1, <2>2
<1> HIDE DEF T
<1>2. n \in T
  BY <1>1, StrongInduction
<1> QED
  BY <1>2 DEF T

(***************************************************************************)
(* Trees over any nodes.  In the forest t over the nodes x[1] .. x[N],      *)
(* t[n][lo] is the root of the n nodes from the lo-th on; the subtrees of a *)
(* ledger are the forest over its leaves.                                   *)
(***************************************************************************)
Parts(t, n, lo) == Node(t[SplitPoint(n)][lo], t[n - SplitPoint(n)][lo + SplitPoint(n)])

Forest(t, x, N) ==
  t = [n \in 1..N |-> [lo \in 1..(N - n + 1) |-> IF n = 1 THEN x[lo] ELSE Parts(t, n, lo)]]

LEMMA SamePartsSameRow ==
  ASSUME NEW N \in Nat, NEW x, NEW t, NEW u, NEW n \in 2..N,
         t[SplitPoint(n)] = u[SplitPoint(n)], t[n - SplitPoint(n)] = u[n - SplitPoint(n)]
  PROVE  [lo \in 1..(N - n + 1) |-> IF n = 1 THEN x[lo] ELSE Parts(t, n, lo)]
         = [lo \in 1..(N - n + 1) |-> IF n = 1 THEN x[lo] ELSE Parts(u, n, lo)]
<1>1. \A lo \in 1..(N - n + 1) : Parts(t, n, lo) = Parts(u, n, lo)
  BY DEF Parts
<1> QED
  BY <1>1

LEMMA ForestExists ==
  ASSUME NEW N \in Nat, NEW x
  PROVE  \E t : Forest(t, x, N)
<1> DEFINE Body(t, n) == [lo \in 1..(N - n + 1) |-> IF n = 1 THEN x[lo] ELSE Parts(t, n, lo)]
           UpTo(t, j) == /\ t = [n \in 1..N |-> t[n]]
                         /\ \A n \in 1..N : n <= j => t[n] = Body(t, n)
           T == {j \in Nat : \E t : UpTo(t, j)}
<1>1. 0 \in T
  <2>1. UpTo([n \in 1..N |-> n], 0)
    OBVIOUS
  <2> HIDE DEF UpTo
  <2> QED
    BY <2>1
<1>2. ASSUME NEW j \in Nat, j \in T
      PROVE  j + 1 \in T
  <2>1. PICK t : UpTo(t, j)
    BY <1>2
  <2>2. PICK u : u = [n \in 1..N |-> Body(t, n)]
    OBVIOUS
  <2>3. \A n \in 1..N : u[n] = Body(t, n)
    BY <2>2
  <2>4. \A n \in 1..N : n <= j => u[n] = t[n]
    BY <2>1, <2>3
  <2>5. ASSUME NEW n \in 1..N, n <= j + 1
        PROVE  Body(t, n) = Body(u, n)
    <3>1. CASE n = 1
      BY <3>1
    <3>2. CASE n >= 2
      <4>1. SplitPoint(n) \in 1..N /\ SplitPoint(n) <= j
        BY <3>2, <2>5, SplitBounds
      <4>2. n - SplitPoint(n) \in 1..N /\ n - SplitPoint(n) <= j
        BY <3>2, <2>5, SplitBounds
      <4>3. /\ t[SplitPoint(n)] = u[SplitPoint(n)]
            /\ t[n - SplitPoint(n)] = u[n - SplitPoint(n)]
        BY <4>1, <4>2, <2>4
      <4>4. n \in 2..N
        BY <3>2
      <4> QED
        BY <4>3, <4>4, SamePartsSameRow
    <3> QED
      BY <3>1, <3>2
  <2>6. u = [n \in 1..N |-> u[n]]
    BY <2>2
  <2>7. UpTo(u, j + 1)
    <3> HIDE DEF Body
    <3> QED
      BY <2>3, <2>5, <2>6
  <2> HIDE DEF UpTo
  <2> QED
    BY <2>7
<1>3. N \in T
  <2> HIDE DEF T
  <2> QED
    BY <1>1, <1>2, Induction
<1>4. PICK t : UpTo(t, N)
  BY <1>3
<1>5. \A n \in 1..N : n <= N
  OBVIOUS
<1>6. \A n \in 1..N : t[n] = Body(t, n)
  BY <1>4, <1>5
<1>7. t = [n \in 1..N |-> t[n]]
  BY <1>4
<1>8. t = [n \in 1..N |-> Body(t, n)]
  <2> HIDE DEF UpTo, Body
  <2> QED
    BY <1>6, <1>7
<1>9. Forest(t, x, N)
  BY <1>8 DEF Forest
<1> QED
  BY <1>9

\* What a forest says of one node.
LEMMA ForestNode ==
  ASSUME NEW N \in Nat, NEW x, NEW t, Forest(t, x, N),
         NEW n \in 1..N, NEW lo \in 1..(N - n + 1)
  PROVE  /\ n = 1 => t[n][lo] = x[lo]
         /\ n >= 2 => t[n][lo] = Parts(t, n, lo)
<1>1. t[n] = [l \in 1..(N - n + 1) |-> IF n = 1 THEN x[l] ELSE Parts(t, n, l)]
  BY DEF Forest
<1>2. t[n][lo] = IF n = 1 THEN x[lo] ELSE Parts(t, n, lo)
  BY <1>1
<1> QED
  BY <1>2

\* The two parts of a node are nodes of the forest.
LEMMA PartsFit ==
  ASSUME NEW N \in Nat, NEW n \in 2..N, NEW lo \in 1..(N - n + 1)
  PROVE  /\ SplitPoint(n) \in 1..(n - 1) /\ n - SplitPoint(n) \in 1..(n - 1)
         /\ SplitPoint(n) \in 1..N /\ n - SplitPoint(n) \in 1..N
         /\ lo \in 1..(N - SplitPoint(n) + 1)
         /\ lo + SplitPoint(n) \in 1..(N - (n - SplitPoint(n)) + 1)
<1>1. SplitPoint(n) \in 1..(n - 1)
  BY SplitBounds
<1> QED
  BY <1>1

LeavesOver(data) == [i \in 1..Len(data) |-> Leaf(data[i])]

LEMMA SubtreesAreAForest ==
  ASSUME NEW data, Len(data) \in Nat
  PROVE  Forest(Subtrees(data), LeavesOver(data), Len(data))
<1> DEFINE N == Len(data)
           x == LeavesOver(data)
           Own(t) == t = [n \in 1..N |-> [lo \in 1..(N - n + 1) |->
                            IF n = 1 THEN Leaf(data[lo]) ELSE Parts(t, n, lo)]]
<1>1. PICK t : Forest(t, x, N)
  BY ForestExists
<1>2. ASSUME NEW u
      PROVE  Own(u) <=> Forest(u, x, N)
  <2>1. ASSUME NEW n \in 1..N
        PROVE  [lo \in 1..(N - n + 1) |-> IF n = 1 THEN Leaf(data[lo]) ELSE Parts(u, n, lo)]
               = [lo \in 1..(N - n + 1) |-> IF n = 1 THEN x[lo] ELSE Parts(u, n, lo)]
    <3>1. ASSUME NEW lo \in 1..(N - n + 1), n = 1
          PROVE  x[lo] = Leaf(data[lo])
      BY <3>1 DEF LeavesOver
    <3> HIDE DEF N, x
    <3> QED
      BY <3>1
  <2> HIDE DEF x
  <2> QED
    BY <2>1 DEF Forest
<1>3. Own(t)
  BY <1>1, <1>2
<1>4. Subtrees(data) = CHOOSE u : Own(u)
  BY DEF Subtrees, Parts
<1> HIDE DEF Own
<1>5. Own(Subtrees(data))
  BY <1>3, <1>4
<1> QED
  BY <1>5, <1>2

(***************************************************************************)
(* Two trees of the same size with the same root have the same nodes: where *)
(* the halves meet follows from the size alone.                             *)
(***************************************************************************)
LEMMA NodeIsInjective ==
  ASSUME NEW a, NEW b, NEW c, NEW d, Node(a, b) = Node(c, d)
  PROVE  a = c /\ b = d
BY DEF Node

LEMMA SameRootSameNodes ==
  ASSUME NEW N \in Nat, NEW x, NEW t, Forest(t, x, N),
         NEW M \in Nat, NEW y, NEW u, Forest(u, y, M),
         NEW n \in Nat, n \in 1..N, n \in 1..M,
         NEW lo \in 1..(N - n + 1), NEW at \in 1..(M - n + 1),
         t[n][lo] = u[n][at]
  PROVE  \A i \in 0..(n - 1) : x[lo + i] = y[at + i]
<1> DEFINE Same(k) ==
             \A a \in 1..(N - k + 1), b \in 1..(M - k + 1) :
               t[k][a] = u[k][b] => \A i \in 0..(k - 1) : x[a + i] = y[b + i]
           T == {k \in Nat : k \in 1..N /\ k \in 1..M => Same(k)}
<1>1. ASSUME NEW k \in Nat, \A m \in 0..(k - 1) : m \in T
      PROVE  k \in T
  <2> SUFFICES ASSUME k \in 1..N, k \in 1..M,
                      NEW a \in 1..(N - k + 1), NEW b \in 1..(M - k + 1),
                      t[k][a] = u[k][b],
                      NEW i \in 0..(k - 1)
               PROVE  x[a + i] = y[b + i]
    OBVIOUS
  <2>1. CASE k = 1
    <3>1. t[k][a] = x[a] /\ u[k][b] = y[b]
      BY <2>1, ForestNode
    <3> QED
      BY <2>1, <3>1
  <2>2. CASE k >= 2
    <3> DEFINE s == SplitPoint(k)
    <3>1. t[k][a] = Parts(t, k, a)
      BY <2>2, ForestNode
    <3>2. u[k][b] = Parts(u, k, b)
      BY <2>2, ForestNode
    <3>0. k \in 2..N /\ k \in 2..M
      BY <2>2
    <3>3. t[s][a] = u[s][b] /\ t[k - s][a + s] = u[k - s][b + s]
      <4> HIDE DEF s
      <4>1. Node(t[s][a], t[k - s][a + s]) = Node(u[s][b], u[k - s][b + s])
        BY <3>1, <3>2 DEF Parts, s
      <4> QED
        BY <4>1, NodeIsInjective
    <3>4. /\ s \in 1..(k - 1) /\ k - s \in 1..(k - 1)
          /\ a \in 1..(N - s + 1) /\ a + s \in 1..(N - (k - s) + 1)
      BY <3>0, PartsFit
    <3>5. b \in 1..(M - s + 1) /\ b + s \in 1..(M - (k - s) + 1)
      BY <3>0, PartsFit
    <3> HIDE DEF s
    <3>6. s \in 0..(k - 1) /\ s \in 1..N /\ s \in 1..M /\ s \in Nat
      BY <3>4
    <3>7. k - s \in 0..(k - 1) /\ k - s \in 1..N /\ k - s \in 1..M /\ k - s \in Nat
      BY <3>4
    <3>8. Same(s) /\ Same(k - s)
      <4>1. s \in T /\ k - s \in T
        BY <1>1, <3>6, <3>7
      <4> HIDE DEF Same
      <4> QED
        BY <4>1, <3>6, <3>7
    <3>9. CASE i < s
      <4>1. \A j \in 0..(s - 1) : x[a + j] = y[b + j]
        BY <3>3, <3>4, <3>5, <3>8
      <4> QED
        BY <4>1, <3>4, <3>9
    <3>10. CASE i >= s
      <4>1. i - s \in 0..((k - s) - 1)
        BY <3>4, <3>10
      <4>2. x[(a + s) + (i - s)] = y[(b + s) + (i - s)]
        BY <3>3, <3>4, <3>5, <3>8, <4>1
      <4>3. (a + s) + (i - s) = a + i /\ (b + s) + (i - s) = b + i
        BY <3>4
      <4> QED
        BY <4>2, <4>3
    <3> QED
      BY <3>9, <3>10, <3>4
  <2> QED
    BY <2>1, <2>2
<1> HIDE DEF T
<1>2. n \in T
  BY <1>1, StrongInduction
<1> QED
  BY <1>2 DEF T

(***************************************************************************)
(* One level up.  Joining the nodes in pairs, an odd last one staying as it *)
(* is, leaves the root of every tree alone that starts at an odd node and   *)
(* ends at an even one or at the end.  This is the tree the loop of the     *)
(* check sees: bottom up, a level a turn.                                   *)
(***************************************************************************)
Pairs(x, N) ==
  [i \in 1..Half(N) |-> IF 2 * i <= N THEN Node(x[2 * i - 1], x[2 * i]) ELSE x[2 * i - 1]]

LEMMA HalfOf ==
  ASSUME NEW n \in Nat
  PROVE  /\ Half(n) \in Nat
         /\ n = 2 * Half(n) \/ n = 2 * Half(n) - 1
         /\ \A m \in Nat : n = 2 * m \/ n = 2 * m - 1 => Half(n) = m
BY DEF Half

LEMMA OneLevelUp ==
  ASSUME NEW N \in Nat, NEW x, NEW t, Forest(t, x, N),
         NEW u, Forest(u, Pairs(x, N), Half(N)),
         NEW n \in 1..N, NEW a \in Nat, a >= 1, 2 * a + n - 2 <= N,
         n % 2 = 0 \/ 2 * a + n - 2 = N
  PROVE  t[n][2 * a - 1] = u[Half(n)][a]
<1> DEFINE Lifts(k) == \A b \in Nat :
             /\ b >= 1 /\ 2 * b + k - 2 <= N
             /\ k % 2 = 0 \/ 2 * b + k - 2 = N
             => t[k][2 * b - 1] = u[Half(k)][b]
           T == {k \in Nat : k \in 1..N => Lifts(k)}
<1>1. ASSUME NEW k \in Nat, \A m \in 0..(k - 1) : m \in T
      PROVE  k \in T
  <2> SUFFICES ASSUME k \in 1..N, NEW b \in Nat, b >= 1, 2 * b + k - 2 <= N,
                      k % 2 = 0 \/ 2 * b + k - 2 = N
               PROVE  t[k][2 * b - 1] = u[Half(k)][b]
    OBVIOUS
  <2> DEFINE H == Half(N)
             h == Half(k)
             lo == 2 * b - 1
  <2>1. H \in Nat /\ h \in Nat /\ h \in 1..H /\ b \in 1..(H - h + 1)
    BY DEF Half
  <2>2. lo \in 1..(N - k + 1)
    OBVIOUS
  <2>3. CASE k = 1
    <3>1. t[k][lo] = x[lo]
      BY <2>2, <2>3, ForestNode
    <3>2. h = 1 /\ b \in 1..H /\ ~ (2 * b <= N)
      BY <2>3 DEF Half
    <3>3. u[h][b] = Pairs(x, N)[b]
      BY <2>1, <3>2, ForestNode
    <3>4. Pairs(x, N)[b] = x[lo]
      BY <3>2 DEF Pairs
    <3> QED
      BY <3>1, <3>3, <3>4
  <2>4. CASE k = 2
    <3>1. t[k][lo] = Node(t[1][lo], t[1][lo + 1])
      BY <2>2, <2>4, ForestNode, SmallSplits DEF Parts
    <3>2. t[1][lo] = x[lo] /\ t[1][lo + 1] = x[lo + 1]
      <4>1. 1 \in 1..N /\ lo \in 1..(N - 1 + 1) /\ lo + 1 \in 1..(N - 1 + 1)
        BY <2>4
      <4> HIDE DEF lo
      <4> QED
        BY <4>1, ForestNode
    <3>3. h = 1 /\ b \in 1..H /\ 2 * b <= N /\ lo + 1 = 2 * b
      BY <2>4 DEF Half
    <3>4. u[h][b] = Pairs(x, N)[b]
      BY <2>1, <3>3, ForestNode
    <3>5. Pairs(x, N)[b] = Node(x[lo], x[lo + 1])
      BY <3>3 DEF Pairs
    <3> QED
      BY <3>1, <3>2, <3>4, <3>5
  <2>5. CASE k >= 3
    <3> DEFINE s == SplitPoint(h)
    <3>1. h >= 2 /\ h < k /\ (k = 2 * h \/ k = 2 * h - 1)
      BY <2>5 DEF Half
    <3>2. SplitPoint(k) = 2 * s
      BY <2>5, SplitHalves
    <3>3. s \in 1..(h - 1)
      BY <2>1, <3>1, SplitBounds
    <3>4. t[k][lo] = Node(t[2 * s][lo], t[k - 2 * s][lo + 2 * s])
      BY <2>2, <2>5, <3>2, ForestNode DEF Parts
    <3>5. u[h][b] = Node(u[s][b], u[h - s][b + s])
      BY <2>1, <3>1, ForestNode DEF Parts
    <3> HIDE DEF s, h
    <3>6. t[2 * s][2 * b - 1] = u[s][b]
      <4>1. 2 * s \in 0..(k - 1) /\ 2 * s \in 1..N /\ (2 * s) % 2 = 0 /\ 2 * b + 2 * s - 2 <= N
        BY <2>1, <3>1, <3>3
      <4>2. Half(2 * s) = s
        BY <3>3, HalfOf
      <4>3. Lifts(2 * s)
        BY <4>1, <1>1
      <4> QED
        BY <4>1, <4>2, <4>3
    <3>7. t[k - 2 * s][2 * (b + s) - 1] = u[h - s][b + s]
      <4>1. /\ k - 2 * s \in 0..(k - 1) /\ k - 2 * s \in 1..N
            /\ b + s \in Nat /\ b + s >= 1
            /\ 2 * (b + s) + (k - 2 * s) - 2 = 2 * b + k - 2
        BY <2>1, <3>1, <3>3
      <4>2. (k - 2 * s) % 2 = 0 \/ 2 * (b + s) + (k - 2 * s) - 2 = N
        BY <2>1, <3>1, <3>3, <4>1
      <4>3. Half(k - 2 * s) = h - s
        <5>1. h - s \in Nat /\ (k - 2 * s = 2 * (h - s) \/ k - 2 * s = 2 * (h - s) - 1)
          BY <2>1, <3>1, <3>3
        <5> QED
          BY <5>1, <4>1, HalfOf
      <4>4. Lifts(k - 2 * s)
        BY <4>1, <1>1
      <4> QED
        BY <4>1, <4>2, <4>3, <4>4
    <3>8. lo + 2 * s = 2 * (b + s) - 1
      BY <3>3
    <3> QED
      BY <3>4, <3>5, <3>6, <3>7, <3>8 DEF h
  <2> QED
    BY <2>3, <2>4, <2>5
<1> HIDE DEF T
<1>2. n \in Nat /\ n \in T
  BY <1>1, StrongInduction
<1> QED
  BY <1>2 DEF T

\* In particular the root of the whole.
LEMMA RootOneLevelUp ==
  ASSUME NEW N \in Nat, N >= 1, NEW x, NEW t, Forest(t, x, N),
         NEW u, Forest(u, Pairs(x, N), Half(N))
  PROVE  t[N][1] = u[Half(N)][1]
<1>1. N \in 1..N /\ 1 \in Nat /\ 2 * 1 + N - 2 = N /\ 2 * 1 - 1 = 1
  OBVIOUS
<1>2. t[N][2 * 1 - 1] = u[Half(N)][1]
  BY <1>1, OneLevelUp
<1> QED
  BY <1>1, <1>2

(***************************************************************************)
(* The inner loop of the check, which shifts an even index on the right     *)
(* edge down until it is odd.                                               *)
(***************************************************************************)
Shifting(o, fn) == o = [x \in 0..fn |-> IF x % 2 = 0 /\ x # 0 THEN o[x \div 2] ELSE x]

LEMMA ShiftingExists ==
  ASSUME NEW fn \in Nat
  PROVE  \E o : Shifting(o, fn)
<1> DEFINE Body(o, x) == IF x % 2 = 0 /\ x # 0 THEN o[x \div 2] ELSE x
           Below(o, j) == /\ o = [x \in 0..fn |-> o[x]]
                          /\ \A x \in 0..fn : x < j => o[x] = Body(o, x)
           T == {j \in Nat : \E o : Below(o, j)}
<1>1. 0 \in T
  <2>1. Below([x \in 0..fn |-> x], 0)
    OBVIOUS
  <2> HIDE DEF Below
  <2> QED
    BY <2>1
<1>2. ASSUME NEW j \in Nat, j \in T
      PROVE  j + 1 \in T
  <2>1. PICK o : Below(o, j)
    BY <1>2
  <2>2. PICK q : q = [x \in 0..fn |-> Body(o, x)]
    OBVIOUS
  <2>3. \A x \in 0..fn : x < j => q[x] = o[x]
    BY <2>1, <2>2
  <2>4. ASSUME NEW x \in 0..fn, x < j + 1
        PROVE  q[x] = Body(q, x)
    <3>1. CASE x % 2 = 0 /\ x # 0
      <4>1. x \div 2 \in 0..fn /\ x \div 2 < j
        BY <3>1, <2>4
      <4>2. q[x \div 2] = o[x \div 2]
        BY <4>1, <2>3
      <4>3. q[x] = o[x \div 2]
        BY <2>2, <3>1
      <4> QED
        BY <3>1, <4>2, <4>3
    <3>2. CASE ~ (x % 2 = 0 /\ x # 0)
      <4>1. q[x] = x
        BY <2>2, <3>2
      <4> QED
        BY <4>1, <3>2
    <3> QED
      BY <3>1, <3>2
  <2>5. q = [x \in 0..fn |-> q[x]]
    BY <2>2
  <2>6. Below(q, j + 1)
    BY <2>4, <2>5
  <2> HIDE DEF Below
  <2> QED
    BY <2>6
<1>3. fn + 1 \in T
  <2> HIDE DEF T
  <2> QED
    BY <1>1, <1>2, Induction
<1>4. PICK o : Below(o, fn + 1)
  BY <1>3
<1>5. \A x \in 0..fn : x < fn + 1
  OBVIOUS
<1>6. \A x \in 0..fn : o[x] = Body(o, x)
  BY <1>4, <1>5
<1>7. o = [x \in 0..fn |-> Body(o, x)]
  <2>1. o = [x \in 0..fn |-> o[x]]
    BY <1>4
  <2> HIDE DEF Body, Below
  <2> QED
    BY <2>1, <1>6
<1> QED
  BY <1>7 DEF Shifting

LEMMA ShiftedIs ==
  ASSUME NEW fn \in Nat
  PROVE  \E o : Shifting(o, fn) /\ Shifted(fn) = o[fn]
<1> DEFINE o == CHOOSE o : o = [x \in 0..fn |-> IF x % 2 = 0 /\ x # 0 THEN o[x \div 2] ELSE x]
<1>1. Shifting(o, fn)
  BY ShiftingExists, Zenon DEF Shifting
<1>2. Shifted(fn) = o[fn]
  BY DEF Shifted
<1> QED
  BY <1>1, <1>2

LEMMA ShiftedOdd ==
  ASSUME NEW fn \in Nat, fn % 2 = 1
  PROVE  Shifted(fn) = fn
<1>1. PICK o : Shifting(o, fn) /\ Shifted(fn) = o[fn]
  BY ShiftedIs
<1>2. o[fn] = fn
  BY <1>1 DEF Shifting
<1> QED
  BY <1>1, <1>2

\* An even index is shifted to where its half is.
LEMMA ShiftedEven ==
  ASSUME NEW g \in Nat, g # 0
  PROVE  Shifted(2 * g) = Shifted(g)
<1>1. PICK o : Shifting(o, 2 * g) /\ Shifted(2 * g) = o[2 * g]
  BY ShiftedIs
<1>2. PICK q : Shifting(q, g) /\ Shifted(g) = q[g]
  BY ShiftedIs
<1> DEFINE T == {x \in Nat : x <= g => o[x] = q[x]}
<1>3. ASSUME NEW x \in Nat, \A y \in 0..(x - 1) : y \in T
      PROVE  x \in T
  <2> SUFFICES ASSUME x <= g
               PROVE  o[x] = q[x]
    OBVIOUS
  <2>1. x \in 0..(2 * g) /\ x \in 0..g
    OBVIOUS
  <2>2. o[x] = IF x % 2 = 0 /\ x # 0 THEN o[x \div 2] ELSE x
    BY <1>1, <2>1 DEF Shifting
  <2>3. q[x] = IF x % 2 = 0 /\ x # 0 THEN q[x \div 2] ELSE x
    BY <1>2, <2>1 DEF Shifting
  <2>4. CASE x % 2 = 0 /\ x # 0
    <3>1. x \div 2 \in 0..(x - 1) /\ x \div 2 \in Nat /\ x \div 2 <= g
      BY <2>4
    <3>2. o[x \div 2] = q[x \div 2]
      BY <3>1, <1>3
    <3> QED
      BY <2>2, <2>3, <2>4, <3>2
  <2> QED
    BY <2>2, <2>3, <2>4
<1> HIDE DEF T
<1>4. g \in T
  BY <1>3, StrongInduction
<1>5. o[g] = q[g]
  BY <1>4 DEF T
<1>6. 2 * g \in 0..(2 * g) /\ (2 * g) % 2 = 0 /\ 2 * g # 0 /\ (2 * g) \div 2 = g
  OBVIOUS
<1>7. o[2 * g] = o[g]
  BY <1>1, <1>6 DEF Shifting
<1> QED
  BY <1>1, <1>2, <1>5, <1>7

(***************************************************************************)
(* One turn of the loop in a tree of N nodes, from the node at fn, is one   *)
(* level up; from a last node without a neighbour it is the same turn one   *)
(* level up.                                                                *)
(***************************************************************************)
LEMMA TurnFromARightNode ==
  ASSUME NEW N \in Nat, N >= 2, NEW g \in Nat, 2 * g + 1 <= N - 1, NEW node, NEW sibling
  PROVE  Climb(At(2 * g + 1, N - 1, node, FALSE), sibling)
         = At(g, Half(N) - 1, Node(sibling, node), FALSE)
<1>1. /\ (2 * g + 1) % 2 = 1 /\ (2 * g + 1) \div 2 = g
      /\ (N - 1) \div 2 = Half(N) - 1 /\ N - 1 # 0
  BY DEF Half
<1> QED
  BY <1>1 DEF Climb, At

LEMMA TurnFromALastNode ==
  ASSUME NEW g \in Nat, g # 0, NEW node, NEW sibling
  PROVE  Climb(At(2 * g, 2 * g, node, FALSE), sibling)
         = Climb(At(g, g, node, FALSE), sibling)
<1>1. (2 * g) % 2 # 1 /\ 2 * g # 0
  OBVIOUS
<1>2. Shifted(2 * g) = Shifted(g)
  BY ShiftedEven
<1>3. Climb(At(2 * g, 2 * g, node, FALSE), sibling)
      = At(Shifted(g) \div 2, Shifted(g) \div 2, Node(sibling, node), FALSE)
  BY <1>1, <1>2 DEF Climb, At
<1>4. CASE g % 2 = 1
  BY <1>3, <1>4, ShiftedOdd DEF Climb, At
<1>5. CASE g % 2 # 1
  BY <1>3, <1>5 DEF Climb, At
<1> QED
  BY <1>4, <1>5

(***************************************************************************)
(* The loop, from the j-th sibling on: it is in state s there, ends in      *)
(* state f, and `at` are the states in between.                             *)
(***************************************************************************)
Climbs(at, path, j, s, f) ==
  /\ j = Len(path) => f = s
  /\ j < Len(path) => at[j + 1] = Climb(s, path[j + 1]) /\ f = at[Len(path)]
  /\ \A k \in (j + 1)..(Len(path) - 1) : at[k + 1] = Climb(at[k], path[k + 1])

Tops(f, root) == ~ f.raised /\ f.sn = 0 /\ f.node = root

LEMMA RaisedStays ==
  ASSUME NEW at, NEW path, Len(path) \in Nat, NEW j \in Nat, j < Len(path),
         NEW s, NEW f, Climbs(at, path, j, s, f), at[j + 1].raised
  PROVE  f.raised
<1> DEFINE L == Len(path)
           T == {k \in Nat : k \in (j + 1)..L => at[k].raised}
<1>1. 0 \in T
  OBVIOUS
<1>2. ASSUME NEW k \in Nat, k \in T
      PROVE  k + 1 \in T
  <2> SUFFICES ASSUME k + 1 \in (j + 1)..L
               PROVE  at[k + 1].raised
    OBVIOUS
  <2>1. CASE k = j
    BY <2>1
  <2>2. CASE k # j
    <3>1. k \in (j + 1)..L /\ k \in (j + 1)..(L - 1)
      BY <2>2
    <3>2. at[k].raised
      BY <3>1, <1>2
    <3>3. at[k + 1] = Climb(at[k], path[k + 1])
      BY <3>1 DEF Climbs
    <3> QED
      BY <3>2, <3>3 DEF Climb, At
  <2> QED
    BY <2>1, <2>2
<1>3. L \in T
  <2> HIDE DEF T
  <2> QED
    BY <1>1, <1>2, Induction
<1> QED
  BY <1>3 DEF Climbs

\* While the loop is below the top there is a sibling left, at the top there
\* is none.
LEMMA TopOrTurn ==
  ASSUME NEW at, NEW path, Len(path) \in Nat, NEW j \in 0..Len(path),
         NEW s, s.raised = FALSE, NEW f, NEW root,
         Climbs(at, path, j, s, f), Tops(f, root)
  PROVE  /\ s.sn = 0 => j = Len(path) /\ f = s
         /\ s.sn # 0 => j < Len(path)
<1>1. CASE j = Len(path)
  BY <1>1 DEF Climbs, Tops
<1>2. CASE j < Len(path)
  <2>1. ASSUME s.sn = 0
        PROVE  FALSE
    <3>1. at[j + 1] = Climb(s, path[j + 1])
      BY <1>2 DEF Climbs
    <3>2. at[j + 1].raised
      BY <3>1, <2>1 DEF Climb, At
    <3>3. f.raised
      BY <1>2, <3>2, RaisedStays
    <3> QED
      BY <3>3 DEF Tops
  <2> QED
    BY <1>2, <2>1
<1> QED
  BY <1>1, <1>2

\* Taking a turn.
LEMMA Turn ==
  ASSUME NEW at, NEW path, Len(path) \in Nat, NEW j \in 0..(Len(path) - 1),
         NEW s, NEW r, NEW f, Climbs(at, path, j, s, f), r = Climb(s, path[j + 1])
  PROVE  j + 1 \in 0..Len(path) /\ Climbs(at, path, j + 1, r, f)
<1>1. at[j + 1] = r /\ f = at[Len(path)]
  BY DEF Climbs
<1>2. j + 1 = Len(path) => f = r
  BY <1>1
<1>3. j + 1 < Len(path) => at[(j + 1) + 1] = Climb(r, path[(j + 1) + 1])
  BY <1>1 DEF Climbs
<1>4. \A k \in ((j + 1) + 1)..(Len(path) - 1) : at[k + 1] = Climb(at[k], path[k + 1])
  BY DEF Climbs
<1> QED
  BY <1>1, <1>2, <1>3, <1>4 DEF Climbs

\* A state whose next turn is the same may stand for another.
LEMMA SameTurn ==
  ASSUME NEW at, NEW path, NEW j, NEW s, NEW r, NEW f,
         Climbs(at, path, j, s, f), j # Len(path),
         Climb(s, path[j + 1]) = Climb(r, path[j + 1])
  PROVE  Climbs(at, path, j, r, f)
BY DEF Climbs

(***************************************************************************)
(* Soundness of the check: a path that leads from a node, at place fn of N, *)
(* to the root over N nodes starts at the node that stands there.  Each     *)
(* turn goes one level up, where there are half as many nodes; nodes are    *)
(* joined in one way only, so the node below is known from the one above.   *)
(***************************************************************************)
LEMMA TheClimbStartsAtItsNode ==
  ASSUME NEW at, NEW path, Len(path) \in Nat, NEW f, NEW root,
         NEW N \in Nat, NEW x, NEW t, Forest(t, x, N), t[N][1] = root,
         NEW j \in 0..Len(path), NEW fn \in 0..(N - 1), NEW node,
         Climbs(at, path, j, At(fn, N - 1, node, FALSE), f), Tops(f, root)
  PROVE  node = x[fn + 1]
<1> DEFINE Starts(n) ==
             \A y, u :
               Forest(u, y, n) /\ u[n][1] = root =>
                 \A i \in 0..Len(path), k \in 0..(n - 1) : \A v :
                   Climbs(at, path, i, At(k, n - 1, v, FALSE), f) => v = y[k + 1]
           T == {n \in Nat : Starts(n)}
<1>1. ASSUME NEW n \in Nat, \A m \in 0..(n - 1) : m \in T
      PROVE  n \in T
  <2> SUFFICES ASSUME NEW y, NEW u, Forest(u, y, n), u[n][1] = root,
                      NEW i \in 0..Len(path), NEW k \in 0..(n - 1), NEW v,
                      Climbs(at, path, i, At(k, n - 1, v, FALSE), f)
               PROVE  v = y[k + 1]
    OBVIOUS
  <2> DEFINE s == At(k, n - 1, v, FALSE)
  <2>0. s.sn = n - 1 /\ s.raised = FALSE /\ Climbs(at, path, i, s, f)
    BY DEF At
  <2>00. /\ s.sn = 0 => i = Len(path) /\ f = s
         /\ s.sn # 0 => i < Len(path)
    <3> HIDE DEF s
    <3> QED
      BY <2>0, TopOrTurn
  <2>000. s = At(k, n - 1, v, FALSE)
    OBVIOUS
  <2> HIDE DEF s
  <2>1. CASE n = 1
    <3>1. f = At(k, n - 1, v, FALSE)
      BY <2>0, <2>00, <2>000, <2>1
    <3>2. v = root
      BY <3>1 DEF Tops, At
    <3>3. u[n][1] = y[1]
      <4>1. n \in 1..n /\ 1 \in 1..(n - n + 1)
        BY <2>1
      <4> QED
        BY <2>1, <4>1, ForestNode
    <3> QED
      BY <2>1, <3>2, <3>3
  <2>2. CASE n >= 2
    <3> DEFINE h == Half(n)
               z == Pairs(y, n)
               sibling == path[i + 1]
    <3>1. h \in Nat /\ h \in 0..(n - 1) /\ (n = 2 * h \/ n = 2 * h - 1)
      BY <2>2 DEF Half
    <3>2. PICK w : Forest(w, z, h)
      BY <3>1, ForestExists
    <3>3. w[h][1] = root
      BY <2>2, <3>2, RootOneLevelUp
    <3>4. n - 1 # 0 /\ i \in 0..(Len(path) - 1)
      BY <2>2, <2>0, <2>00
    <3>5. \A e \in 0..Len(path), g \in 0..(h - 1) : \A r :
            Climbs(at, path, e, At(g, h - 1, r, FALSE), f) => r = z[g + 1]
      <4>1. Starts(h)
        BY <1>1, <3>1
      <4> HIDE DEF h, z
      <4> QED
        BY <3>2, <3>3, <4>1
    <3>6. \A g \in 0..(h - 1) :
            z[g + 1] = IF 2 * g + 2 <= n THEN Node(y[2 * g + 1], y[2 * g + 2]) ELSE y[2 * g + 1]
      <4> TAKE g \in 0..(h - 1)
      <4>1. g + 1 \in 1..h /\ 2 * (g + 1) = 2 * g + 2 /\ (2 * g + 2) - 1 = 2 * g + 1
        BY <3>1
      <4>2. z[g + 1] = IF 2 * (g + 1) <= n THEN Node(y[2 * (g + 1) - 1], y[2 * (g + 1)])
                                           ELSE y[2 * (g + 1) - 1]
        BY <4>1 DEF Pairs
      <4> HIDE DEF z
      <4> QED
        BY <4>1, <4>2
    <3>7. PICK g \in Nat : k = 2 * g \/ k = 2 * g + 1
      <4>1. k \div 2 \in Nat /\ (k = 2 * (k \div 2) \/ k = 2 * (k \div 2) + 1)
        OBVIOUS
      <4> QED
        BY <4>1
    <3>8. g \in 0..(h - 1)
      BY <3>1, <3>7
    <3> HIDE DEF h, z
    <3>9. CASE k = 2 * g + 1
      <4>1. Climb(At(k, n - 1, v, FALSE), sibling) = At(g, h - 1, Node(sibling, v), FALSE)
        <5>1. 2 * g + 1 <= n - 1
          BY <3>9
        <5>2. Climb(At(2 * g + 1, n - 1, v, FALSE), sibling)
              = At(g, Half(n) - 1, Node(sibling, v), FALSE)
          BY <2>2, <5>1, TurnFromARightNode, Zenon
        <5> QED
          BY <3>9, <5>2 DEF h
      <4>2. i + 1 \in 0..Len(path) /\ Climbs(at, path, i + 1, At(g, h - 1, Node(sibling, v), FALSE), f)
        BY <4>1, <3>4, Turn
      <4>3. Node(sibling, v) = z[g + 1]
        BY <4>2, <3>5, <3>8
      <4>4. z[g + 1] = Node(y[2 * g + 1], y[2 * g + 2]) /\ k + 1 = 2 * g + 2
        BY <3>6, <3>8, <3>9
      <4> QED
        BY <4>3, <4>4, NodeIsInjective
    <3>10. CASE k = 2 * g /\ 2 * g < n - 1
      <4>1. Climb(At(k, n - 1, v, FALSE), sibling) = At(g, h - 1, Node(v, sibling), FALSE)
        <5>1. k = 2 * g /\ k # n - 1 /\ n - 1 # 0
          BY <3>10, <2>2
        <5>2. k % 2 # 1 /\ k \div 2 = g
          BY <5>1
        <5>3. (n - 1) \div 2 = h - 1
          BY <3>1
        <5> QED
          BY <5>1, <5>2, <5>3 DEF Climb, At
      <4>2. i + 1 \in 0..Len(path) /\ Climbs(at, path, i + 1, At(g, h - 1, Node(v, sibling), FALSE), f)
        BY <4>1, <3>4, Turn
      <4>3. Node(v, sibling) = z[g + 1]
        BY <4>2, <3>5, <3>8
      <4>4. z[g + 1] = Node(y[2 * g + 1], y[2 * g + 2]) /\ k + 1 = 2 * g + 1
        BY <3>6, <3>8, <3>10
      <4> QED
        BY <4>3, <4>4, NodeIsInjective
    <3>11. CASE k = 2 * g /\ 2 * g = n - 1
      <4>1. g # 0 /\ g = h - 1 /\ ~ (2 * g + 2 <= n)
        BY <2>2, <3>1, <3>11
      <4>2. Climb(At(k, n - 1, v, FALSE), sibling) = Climb(At(g, h - 1, v, FALSE), sibling)
        <5>1. g # 0
          BY <4>1
        <5>2. Climb(At(2 * g, 2 * g, v, FALSE), sibling) = Climb(At(g, g, v, FALSE), sibling)
          BY <5>1, TurnFromALastNode, Zenon
        <5> QED
          BY <3>11, <4>1, <5>2
      <4>3. Climbs(at, path, i, At(g, h - 1, v, FALSE), f)
        <5>1. i # Len(path)
          BY <3>4
        <5> QED
          BY <4>2, <5>1, SameTurn
      <4>4. v = z[g + 1]
        BY <4>3, <3>5, <3>8
      <4>5. z[g + 1] = y[2 * g + 1]
        BY <4>1, <3>6, <3>8
      <4> QED
        BY <4>4, <4>5, <3>11
    <3> QED
      BY <3>7, <3>9, <3>10, <3>11
  <2> QED
    BY <2>1, <2>2
<1> HIDE DEF T
<1>2. N \in T
  BY <1>1, StrongInduction
<1> QED
  BY <1>2 DEF T

(***************************************************************************)
(* The whole loop.                                                          *)
(***************************************************************************)
Climbing(at, s, path) ==
  at = [k \in 0..Len(path) |-> IF k = 0 THEN s ELSE Climb(at[k - 1], path[k])]

LEMMA ClimbingExists ==
  ASSUME NEW path, Len(path) \in Nat, NEW s
  PROVE  \E at : Climbing(at, s, path)
<1> DEFINE L == Len(path)
           Body(at, k) == IF k = 0 THEN s ELSE Climb(at[k - 1], path[k])
           Below(at, j) == /\ at = [k \in 0..L |-> at[k]]
                           /\ \A k \in 0..L : k < j => at[k] = Body(at, k)
           T == {j \in Nat : \E at : Below(at, j)}
<1>1. 0 \in T
  <2>1. Below([k \in 0..L |-> k], 0)
    OBVIOUS
  <2> HIDE DEF Below
  <2> QED
    BY <2>1
<1>2. ASSUME NEW j \in Nat, j \in T
      PROVE  j + 1 \in T
  <2>1. PICK at : Below(at, j)
    BY <1>2
  <2>2. PICK to : to = [k \in 0..L |-> Body(at, k)]
    OBVIOUS
  <2>3. \A k \in 0..L : k < j => to[k] = at[k]
    BY <2>1, <2>2
  <2>4. ASSUME NEW k \in 0..L, k < j + 1
        PROVE  to[k] = Body(to, k)
    <3>1. CASE k = 0
      BY <2>2, <3>1
    <3>2. CASE k # 0
      <4>1. k - 1 \in 0..L /\ k - 1 < j
        BY <2>4, <3>2
      <4>2. to[k - 1] = at[k - 1]
        BY <4>1, <2>3
      <4>3. to[k] = Climb(at[k - 1], path[k])
        BY <2>2, <3>2
      <4> QED
        BY <3>2, <4>2, <4>3
    <3> QED
      BY <3>1, <3>2
  <2>5. to = [k \in 0..L |-> to[k]]
    BY <2>2
  <2>6. Below(to, j + 1)
    BY <2>4, <2>5
  <2> HIDE DEF Below
  <2> QED
    BY <2>6
<1>3. L + 1 \in T
  <2> HIDE DEF T
  <2> QED
    BY <1>1, <1>2, Induction
<1>4. PICK at : Below(at, L + 1)
  BY <1>3
<1>5. \A k \in 0..L : k < L + 1
  OBVIOUS
<1>6. \A k \in 0..L : at[k] = Body(at, k)
  BY <1>4, <1>5
<1>7. at = [k \in 0..L |-> Body(at, k)]
  <2>1. at = [k \in 0..L |-> at[k]]
    BY <1>4
  <2> HIDE DEF Body, Below
  <2> QED
    BY <2>1, <1>6
<1> QED
  BY <1>7 DEF Climbing

LEMMA ClimbedIs ==
  ASSUME NEW path, Len(path) \in Nat, NEW leaf, NEW index, NEW tree_size
  PROVE  \E at : /\ Climbing(at, At(index, tree_size - 1, leaf, FALSE), path)
                 /\ Climbed(leaf, index, tree_size, path) = at[Len(path)]
<1> DEFINE s == At(index, tree_size - 1, leaf, FALSE)
           at == CHOOSE at : at = [k \in 0..Len(path) |->
                                     IF k = 0 THEN At(index, tree_size - 1, leaf, FALSE)
                                     ELSE Climb(at[k - 1], path[k])]
<1>0. \E to : Climbing(to, s, path)
  BY ClimbingExists
<1>1. Climbing(at, s, path)
  BY <1>0, Zenon DEF Climbing
<1>2. Climbed(leaf, index, tree_size, path) = at[Len(path)]
  BY DEF Climbed
<1> QED
  BY <1>1, <1>2

LEMMA ClimbingClimbs ==
  ASSUME NEW path, Len(path) \in Nat, NEW s, NEW at, Climbing(at, s, path)
  PROVE  Climbs(at, path, 0, s, at[Len(path)])
<1>1. \A k \in 0..Len(path) : at[k] = IF k = 0 THEN s ELSE Climb(at[k - 1], path[k])
  BY DEF Climbing
<1>2. at[0] = s
  BY <1>1
<1>3. \A k \in 0..(Len(path) - 1) : at[k + 1] = Climb(at[k], path[k + 1])
  <2> TAKE k \in 0..(Len(path) - 1)
  <2>1. k + 1 \in 0..Len(path) /\ k + 1 # 0 /\ (k + 1) - 1 = k
    OBVIOUS
  <2>2. at[k + 1] = IF k + 1 = 0 THEN s ELSE Climb(at[(k + 1) - 1], path[k + 1])
    BY <1>1, <2>1
  <2> QED
    BY <2>1, <2>2
<1>4. 0 < Len(path) => at[0 + 1] = Climb(at[0], path[0 + 1])
  BY <1>3
<1> QED
  BY <1>2, <1>3, <1>4 DEF Climbs

LEMMA LeafIsInjective ==
  ASSUME NEW a, NEW b, Leaf(a) = Leaf(b)
  PROVE  a = b
BY DEF Leaf

(***************************************************************************)
(* _root_from_audit_path is sound: what it accepts under the root of a      *)
(* ledger is the leaf that stands there, whatever leaf, index and path it   *)
(* is given, if tree_size is that ledger's.                                 *)
(***************************************************************************)
LEMMA PathIsSound ==
  ASSUME NEW data, Len(data) \in Nat, NEW path, Len(path) \in Nat,
         NEW leaf, NEW index,
         PathHolds(leaf, index, Len(data), path, MerkleRoot(data))
  PROVE  index \in 0..(Len(data) - 1) /\ leaf = Leaf(data[index + 1])
<1> DEFINE N == Len(data)
           x == LeavesOver(data)
           t == Subtrees(data)
           s == At(index, N - 1, leaf, FALSE)
<1>1. PICK at : /\ Climbing(at, s, path)
                /\ Climbed(leaf, index, N, path) = at[Len(path)]
  BY ClimbedIs
<1>2. index \in 0..(N - 1) /\ Tops(at[Len(path)], MerkleRoot(data))
  BY <1>1 DEF PathHolds, Tops
<1>3. Climbs(at, path, 0, s, at[Len(path)])
  BY <1>1, ClimbingClimbs
<1>4. Forest(t, x, N) /\ t[N][1] = MerkleRoot(data)
  BY SubtreesAreAForest DEF MerkleRoot
<1>5. leaf = x[index + 1]
  <2>1. 0 \in 0..Len(path)
    OBVIOUS
  <2> HIDE DEF t, x
  <2> QED
    BY <1>2, <1>3, <1>4, <2>1, TheClimbStartsAtItsNode
<1>6. x[index + 1] = Leaf(data[index + 1])
  <2>1. index + 1 \in 1..N
    BY <1>2
  <2> QED
    BY <2>1 DEF LeavesOver
<1> QED
  BY <1>2, <1>5, <1>6

(***************************************************************************)
(* Sequences of hashes, which are in no set that has a name.                *)
(***************************************************************************)
IsSeq(p) == \E A : p \in Seq(A)

LEMMA EmptyIsSeq == IsSeq(<<>>) /\ Len(<<>>) = 0
BY EmptySeq DEF IsSeq

LEMMA LenOfSeq ==
  ASSUME NEW p, IsSeq(p)
  PROVE  Len(p) \in Nat /\ DOMAIN p = 1..Len(p) /\ (Len(p) = 0 => p = <<>>)
<1>1. PICK A : p \in Seq(A)
  BY DEF IsSeq
<1> QED
  BY <1>1, LenProperties, EmptySeq

LEMMA AppendIsSeq ==
  ASSUME NEW p, IsSeq(p), NEW e
  PROVE  /\ IsSeq(Append(p, e))
         /\ Len(Append(p, e)) = Len(p) + 1
         /\ \A i \in 1..Len(p) : Append(p, e)[i] = p[i]
         /\ Append(p, e)[Len(p) + 1] = e
<1>1. PICK A : p \in Seq(A)
  BY DEF IsSeq
<1> DEFINE S == A \cup {e}
<1>2. p \in Seq(S) /\ e \in S
  BY <1>1, SeqMonotonic
<1> HIDE DEF S
<1>3. /\ Append(p, e) \in Seq(S)
      /\ Len(Append(p, e)) = Len(p) + 1
      /\ \A i \in 1..Len(p) : Append(p, e)[i] = p[i]
      /\ Append(p, e)[Len(p) + 1] = e
  BY <1>2, AppendProperties
<1> QED
  BY <1>3 DEF IsSeq

LEMMA ConsIsSeq ==
  ASSUME NEW p, IsSeq(p), NEW e
  PROVE  /\ IsSeq(<<e>> \o p)
         /\ Len(<<e>> \o p) = Len(p) + 1
         /\ (<<e>> \o p)[1] = e
         /\ \A i \in 1..Len(p) : (<<e>> \o p)[i + 1] = p[i]
         /\ \A r : Append(<<e>> \o p, r) = <<e>> \o Append(p, r)
<1>1. PICK A : p \in Seq(A)
  BY DEF IsSeq
<1> DEFINE S == A \cup {e}
<1>2. p \in Seq(S) /\ e \in S
  BY <1>1, SeqMonotonic
<1> HIDE DEF S
<1>3. <<e>> \in Seq(S) /\ Len(<<e>>) = 1 /\ <<e>>[1] = e
  BY <1>2
<1>4. /\ <<e>> \o p \in Seq(S)
      /\ Len(<<e>> \o p) = Len(p) + 1
      /\ \A i \in 1..(1 + Len(p)) :
           (<<e>> \o p)[i] = IF i <= 1 THEN <<e>>[i] ELSE p[i - 1]
  <2> DEFINE q == <<e>>
  <2>1. q \in Seq(S) /\ Len(q) = 1
    BY <1>3
  <2>2. Len(p) \in Nat
    BY <1>2, LenProperties
  <2> HIDE DEF q
  <2>3. /\ q \o p \in Seq(S)
        /\ Len(q \o p) = Len(q) + Len(p)
        /\ \A i \in 1..(Len(q) + Len(p)) :
             (q \o p)[i] = IF i <= Len(q) THEN q[i] ELSE p[i - Len(q)]
    BY <1>2, <2>1, ConcatProperties
  <2>4. /\ q \o p \in Seq(S)
        /\ Len(q \o p) = Len(p) + 1
        /\ \A i \in 1..(1 + Len(p)) : (q \o p)[i] = IF i <= 1 THEN q[i] ELSE p[i - 1]
    BY <2>1, <2>2, <2>3
  <2> QED
    BY <2>4 DEF q
<1>5. Len(p) \in Nat
  BY <1>2, LenProperties
<1>6. (<<e>> \o p)[1] = e
  BY <1>3, <1>4, <1>5
<1>7. \A i \in 1..Len(p) : (<<e>> \o p)[i + 1] = p[i]
  <2> TAKE i \in 1..Len(p)
  <2>1. i + 1 \in 1..(1 + Len(p)) /\ ~ (i + 1 <= 1) /\ (i + 1) - 1 = i
    BY <1>5
  <2> QED
    BY <1>4, <2>1
<1>8. ASSUME NEW r
      PROVE  Append(<<e>> \o p, r) = <<e>> \o Append(p, r)
  <2> DEFINE R == S \cup {r}
             q == <<e>>
  <2>1. p \in Seq(R) /\ q \in Seq(R) /\ <<r>> \in Seq(R) /\ r \in R
    BY <1>2, <1>3, SeqMonotonic
  <2>2. q \o p \in Seq(R)
    <3> HIDE DEF R, q
    <3> QED
      BY <2>1, ConcatProperties
  <2> HIDE DEF R, q
  <2>3. Append(q \o p, r) = (q \o p) \o <<r>> /\ Append(p, r) = p \o <<r>>
    BY <2>1, <2>2, AppendIsConcat
  <2>4. (q \o p) \o <<r>> = q \o (p \o <<r>>)
    BY <2>1, ConcatAssociative
  <2> QED
    BY <2>3, <2>4 DEF q
<1> QED
  BY <1>4, <1>6, <1>7, <1>8 DEF IsSeq

(***************************************************************************)
(* Audit paths.  p[n][lo] are the siblings, lowest first, of the node at    *)
(* index (from 0) in the tree over the n nodes from the lo-th on.           *)
(***************************************************************************)
Grown(p, t, n, lo, index) ==
  IF index + 1 < lo + SplitPoint(n)
  THEN Append(p[SplitPoint(n)][lo], t[n - SplitPoint(n)][lo + SplitPoint(n)])
  ELSE Append(p[n - SplitPoint(n)][lo + SplitPoint(n)], t[SplitPoint(n)][lo])

Siblings(p, t, N, index) ==
  p = [n \in 1..N |-> [lo \in 1..(N - n + 1) |->
         IF n = 1 THEN <<>> ELSE Grown(p, t, n, lo, index)]]

LEMMA SameGrowthSameRow ==
  ASSUME NEW N \in Nat, NEW t, NEW index, NEW p, NEW q, NEW n \in 2..N,
         p[SplitPoint(n)] = q[SplitPoint(n)], p[n - SplitPoint(n)] = q[n - SplitPoint(n)]
  PROVE  [lo \in 1..(N - n + 1) |-> IF n = 1 THEN <<>> ELSE Grown(p, t, n, lo, index)]
         = [lo \in 1..(N - n + 1) |-> IF n = 1 THEN <<>> ELSE Grown(q, t, n, lo, index)]
<1>1. \A lo \in 1..(N - n + 1) : Grown(p, t, n, lo, index) = Grown(q, t, n, lo, index)
  BY Zenon DEF Grown
<1> QED
  BY <1>1

LEMMA SiblingsExist ==
  ASSUME NEW N \in Nat, NEW t, NEW index
  PROVE  \E p : Siblings(p, t, N, index)
<1> DEFINE Body(p, n) == [lo \in 1..(N - n + 1) |->
                            IF n = 1 THEN <<>> ELSE Grown(p, t, n, lo, index)]
           UpTo(p, j) == /\ p = [n \in 1..N |-> p[n]]
                         /\ \A n \in 1..N : n <= j => p[n] = Body(p, n)
           T == {j \in Nat : \E p : UpTo(p, j)}
<1>1. 0 \in T
  <2>1. UpTo([n \in 1..N |-> n], 0)
    OBVIOUS
  <2> HIDE DEF UpTo
  <2> QED
    BY <2>1
<1>2. ASSUME NEW j \in Nat, j \in T
      PROVE  j + 1 \in T
  <2>1. PICK p : UpTo(p, j)
    BY <1>2
  <2>2. PICK q : q = [n \in 1..N |-> Body(p, n)]
    OBVIOUS
  <2>3. \A n \in 1..N : q[n] = Body(p, n)
    BY <2>2
  <2>4. \A n \in 1..N : n <= j => q[n] = p[n]
    BY <2>1, <2>3
  <2>5. ASSUME NEW n \in 1..N, n <= j + 1
        PROVE  Body(p, n) = Body(q, n)
    <3>1. CASE n = 1
      BY <3>1
    <3>2. CASE n >= 2
      <4>1. SplitPoint(n) \in 1..N /\ SplitPoint(n) <= j
        BY <3>2, <2>5, SplitBounds
      <4>2. n - SplitPoint(n) \in 1..N /\ n - SplitPoint(n) <= j
        BY <3>2, <2>5, SplitBounds
      <4>3. /\ p[SplitPoint(n)] = q[SplitPoint(n)]
            /\ p[n - SplitPoint(n)] = q[n - SplitPoint(n)]
        BY <4>1, <4>2, <2>4
      <4>4. n \in 2..N
        BY <3>2
      <4> QED
        BY <4>3, <4>4, SameGrowthSameRow
    <3> QED
      BY <3>1, <3>2
  <2>6. q = [n \in 1..N |-> q[n]]
    BY <2>2
  <2>7. UpTo(q, j + 1)
    <3> HIDE DEF Body
    <3> QED
      BY <2>3, <2>5, <2>6
  <2> HIDE DEF UpTo
  <2> QED
    BY <2>7
<1>3. N \in T
  <2> HIDE DEF T
  <2> QED
    BY <1>1, <1>2, Induction
<1>4. PICK p : UpTo(p, N)
  BY <1>3
<1>5. \A n \in 1..N : n <= N
  OBVIOUS
<1>6. \A n \in 1..N : p[n] = Body(p, n)
  BY <1>4, <1>5
<1>7. p = [n \in 1..N |-> Body(p, n)]
  <2>1. p = [n \in 1..N |-> p[n]]
    BY <1>4
  <2> HIDE DEF UpTo, Body
  <2> QED
    BY <1>6, <2>1
<1>8. Siblings(p, t, N, index)
  BY <1>7 DEF Siblings
<1> QED
  BY <1>8

LEMMA SiblingsNode ==
  ASSUME NEW N \in Nat, NEW t, NEW index, NEW p, Siblings(p, t, N, index),
         NEW n \in 1..N, NEW lo \in 1..(N - n + 1)
  PROVE  /\ n = 1 => p[n][lo] = <<>>
         /\ n >= 2 => p[n][lo] = Grown(p, t, n, lo, index)
<1>1. p[n] = [l \in 1..(N - n + 1) |-> IF n = 1 THEN <<>> ELSE Grown(p, t, n, l, index)]
  BY DEF Siblings
<1>2. p[n][lo] = IF n = 1 THEN <<>> ELSE Grown(p, t, n, lo, index)
  BY <1>1
<1> QED
  BY <1>2

LEMMA SiblingsAreSeqs ==
  ASSUME NEW N \in Nat, NEW t, NEW index, NEW p, Siblings(p, t, N, index),
         NEW n \in 1..N, NEW lo \in 1..(N - n + 1)
  PROVE  IsSeq(p[n][lo])
<1> DEFINE T == {k \in Nat : k \in 1..N => \A l \in 1..(N - k + 1) : IsSeq(p[k][l])}
<1>1. ASSUME NEW k \in Nat, \A m \in 0..(k - 1) : m \in T
      PROVE  k \in T
  <2> SUFFICES ASSUME k \in 1..N, NEW l \in 1..(N - k + 1)
               PROVE  IsSeq(p[k][l])
    OBVIOUS
  <2>1. CASE k = 1
    BY <2>1, SiblingsNode, EmptyIsSeq
  <2>2. CASE k >= 2
    <3> DEFINE s == SplitPoint(k)
    <3>1. p[k][l] = Grown(p, t, k, l, index)
      BY <2>2, SiblingsNode
    <3>2. k \in 2..N
      BY <2>2
    <3>3. /\ s \in 1..(k - 1) /\ k - s \in 1..(k - 1) /\ s \in 1..N /\ k - s \in 1..N
          /\ l \in 1..(N - s + 1) /\ l + s \in 1..(N - (k - s) + 1)
      BY <3>2, PartsFit
    <3>4. p[k][l] = IF index + 1 < l + s THEN Append(p[s][l], t[k - s][l + s])
                                         ELSE Append(p[k - s][l + s], t[s][l])
      BY <3>1 DEF Grown
    <3> HIDE DEF s
    <3>5. s \in 0..(k - 1) /\ k - s \in 0..(k - 1)
      BY <3>3
    <3>6. s \in T /\ k - s \in T
      BY <3>5, <1>1
    <3>7. IsSeq(p[s][l]) /\ IsSeq(p[k - s][l + s])
      BY <3>3, <3>6
    <3> QED
      BY <3>4, <3>7, AppendIsSeq
  <2> QED
    BY <2>1, <2>2
<1> HIDE DEF T
<1>2. n \in Nat /\ n \in T
  BY <1>1, StrongInduction
<1> QED
  BY <1>2 DEF T

LEMMA AuditPathIs ==
  ASSUME NEW data, Len(data) \in Nat, NEW index
  PROVE  \E p : /\ Siblings(p, Subtrees(data), Len(data), index)
                /\ AuditPath(data, index) = p[Len(data)][1]
<1> DEFINE N == Len(data)
           t == Subtrees(data)
           Own(p) == p = [n \in 1..N |-> [lo \in 1..(N - n + 1) |->
                            IF n = 1 THEN <<>> ELSE Grown(p, t, n, lo, index)]]
<1>0. \E p : Siblings(p, t, N, index)
  <2> HIDE DEF t
  <2> QED
    BY SiblingsExist
<1>1. \E p : Own(p)
  BY <1>0, Zenon DEF Siblings
<1>2. AuditPath(data, index) = (CHOOSE p : Own(p))[N][1]
  BY DEF AuditPath, Grown
<1> DEFINE p == CHOOSE p : Own(p)
<1>3. Own(p)
  <2> HIDE DEF Own
  <2> QED
    BY <1>1
<1>4. Siblings(p, t, N, index)
  BY <1>3 DEF Siblings
<1> HIDE DEF Own
<1> QED
  BY <1>2, <1>4

LEMMA AuditPathIsSeq ==
  ASSUME NEW data, Len(data) \in Nat, Len(data) >= 1, NEW index
  PROVE  IsSeq(AuditPath(data, index))
<1>1. PICK p : /\ Siblings(p, Subtrees(data), Len(data), index)
               /\ AuditPath(data, index) = p[Len(data)][1]
  BY AuditPathIs
<1>2. Len(data) \in 1..Len(data) /\ 1 \in 1..(Len(data) - Len(data) + 1)
  OBVIOUS
<1> QED
  BY <1>1, <1>2, SiblingsAreSeqs

(***************************************************************************)
(* One level up, the siblings are the same but for the lowest, the neighbour *)
(* of the node itself, which a last node may not have.                      *)
(***************************************************************************)
Beside(x, N, index, path) ==
  IF index % 2 = 1 THEN <<x[index]>> \o path
  ELSE IF index + 2 <= N THEN <<x[index + 2]>> \o path
  ELSE path

LEMMA BesideAppend ==
  ASSUME NEW x, NEW N, NEW index, NEW path, IsSeq(path), NEW e
  PROVE  Beside(x, N, index, Append(path, e)) = Append(Beside(x, N, index, path), e)
<1>1. \A b : Append(<<b>> \o path, e) = <<b>> \o Append(path, e)
  BY ConsIsSeq
<1> QED
  BY <1>1 DEF Beside

LEMMA ConsEmpty ==
  ASSUME NEW e
  PROVE  <<e>> \o <<>> = Append(<<>>, e)
<1>1. <<>> \in Seq({e}) /\ e \in {e}
  OBVIOUS
<1>2. Append(<<>>, e) = <<>> \o <<e>> /\ <<e>> \in Seq({e})
  BY <1>1, AppendIsConcat
<1>3. <<>> \o <<e>> = <<e>> /\ <<e>> \o <<>> = <<e>>
  BY <1>2, ConcatEmptySeq
<1> QED
  BY <1>2, <1>3

LEMMA ConsNothing ==
  ASSUME NEW e
  PROVE  <<e>> \o <<>> = <<e>>
<1>1. <<e>> \in Seq({e})
  OBVIOUS
<1> QED
  BY <1>1, ConcatEmptySeq

LEMMA SiblingsOneLevelUp ==
  ASSUME NEW N \in Nat, NEW x, NEW t, Forest(t, x, N),
         NEW u, Forest(u, Pairs(x, N), Half(N)),
         NEW index \in 0..(N - 1), NEW g \in Nat, index = 2 * g \/ index = 2 * g + 1,
         NEW p, Siblings(p, t, N, index),
         NEW q, Siblings(q, u, Half(N), g),
         NEW n \in 1..N, NEW a \in Nat, a >= 1, 2 * a + n - 2 <= N,
         n % 2 = 0 \/ 2 * a + n - 2 = N,
         2 * a - 1 <= index + 1, index + 1 <= 2 * a + n - 2
  PROVE  p[n][2 * a - 1] = Beside(x, N, index, q[Half(n)][a])
<1> DEFINE Lifts(k) == \A b \in Nat :
             /\ b >= 1 /\ 2 * b + k - 2 <= N
             /\ k % 2 = 0 \/ 2 * b + k - 2 = N
             /\ 2 * b - 1 <= index + 1 /\ index + 1 <= 2 * b + k - 2
             => p[k][2 * b - 1] = Beside(x, N, index, q[Half(k)][b])
           T == {k \in Nat : k \in 1..N => Lifts(k)}
<1>1. ASSUME NEW k \in Nat, \A m \in 0..(k - 1) : m \in T
      PROVE  k \in T
  <2> SUFFICES ASSUME k \in 1..N, NEW b \in Nat, b >= 1, 2 * b + k - 2 <= N,
                      k % 2 = 0 \/ 2 * b + k - 2 = N,
                      2 * b - 1 <= index + 1, index + 1 <= 2 * b + k - 2
               PROVE  p[k][2 * b - 1] = Beside(x, N, index, q[Half(k)][b])
    OBVIOUS
  <2> DEFINE H == Half(N)
             h == Half(k)
             lo == 2 * b - 1
  <2>1. H \in Nat /\ h \in Nat /\ h \in 1..H /\ b \in 1..(H - h + 1)
    BY DEF Half
  <2>2. lo \in 1..(N - k + 1)
    OBVIOUS
  <2>3. CASE k = 1
    <3>1. p[k][lo] = <<>>
      BY <2>2, <2>3, SiblingsNode
    <3>2. h = 1 /\ index = 2 * b - 2 /\ ~ (index + 2 <= N) /\ index % 2 # 1
      BY <2>3 DEF Half
    <3>3. q[h][b] = <<>>
      BY <2>1, <3>2, SiblingsNode
    <3> QED
      BY <3>1, <3>2, <3>3 DEF Beside
  <2>4. CASE k = 2
    <3> DEFINE e == IF index + 1 < lo + 1 THEN x[lo + 1] ELSE x[lo]
    <3>1. 1 \in 1..N /\ lo \in 1..(N - 1 + 1) /\ lo + 1 \in 1..(N - 1 + 1)
      BY <2>4
    <3>2. t[1][lo] = x[lo] /\ t[1][lo + 1] = x[lo + 1]
      <4> HIDE DEF lo
      <4> QED
        BY <3>1, ForestNode
    <3>3. p[1][lo] = <<>> /\ p[1][lo + 1] = <<>>
      <4> HIDE DEF lo
      <4> QED
        BY <3>1, SiblingsNode
    <3>4. p[k][lo] = Grown(p, t, k, lo, index)
      BY <2>2, <2>4, SiblingsNode
    <3>5. p[k][lo] = Append(<<>>, e)
      <4>1. SplitPoint(k) = 1 /\ k - SplitPoint(k) = 1
        BY <2>4, SmallSplits
      <4>2. Grown(p, t, k, lo, index)
            = IF index + 1 < lo + 1 THEN Append(p[1][lo], t[1][lo + 1])
                                    ELSE Append(p[1][lo + 1], t[1][lo])
        BY <4>1 DEF Grown
      <4> QED
        BY <3>2, <3>3, <3>4, <4>2
    <3>6. h = 1
      BY <2>4 DEF Half
    <3>7. q[h][b] = <<>>
      BY <2>1, <3>6, SiblingsNode
    <3>8. CASE index = 2 * b - 2
      <4>1. /\ index % 2 # 1 /\ index + 2 <= N /\ index + 2 = lo + 1
            /\ index + 1 < lo + 1
        BY <2>4, <3>8
      <4> QED
        BY <3>5, <3>7, <4>1, ConsEmpty DEF Beside
    <3>9. CASE index = 2 * b - 1
      <4>1. index % 2 = 1 /\ index = lo /\ ~ (index + 1 < lo + 1)
        BY <3>9
      <4> QED
        BY <3>5, <3>7, <4>1, ConsEmpty DEF Beside
    <3> QED
      BY <2>4, <3>8, <3>9
  <2>5. CASE k >= 3
    <3> DEFINE s == SplitPoint(h)
    <3>1. h >= 2 /\ h < k /\ (k = 2 * h \/ k = 2 * h - 1)
      BY <2>5 DEF Half
    <3>2. SplitPoint(k) = 2 * s
      BY <2>5, SplitHalves
    <3>3. s \in 1..(h - 1)
      BY <2>1, <3>1, SplitBounds
    <3>4. p[k][lo] = IF index + 1 < lo + 2 * s
                     THEN Append(p[2 * s][lo], t[k - 2 * s][lo + 2 * s])
                     ELSE Append(p[k - 2 * s][lo + 2 * s], t[2 * s][lo])
      BY <2>2, <2>5, <3>2, SiblingsNode DEF Grown
    <3>5. q[h][b] = IF g + 1 < b + s THEN Append(q[s][b], u[h - s][b + s])
                                     ELSE Append(q[h - s][b + s], u[s][b])
      BY <2>1, <3>1, SiblingsNode DEF Grown
    <3> HIDE DEF s, h, H
    <3>6. lo + 2 * s = 2 * (b + s) - 1 /\ (index + 1 < lo + 2 * s <=> g + 1 < b + s)
      BY <3>3
    <3>7. /\ 2 * s \in 0..(k - 1) /\ 2 * s \in 1..N /\ (2 * s) % 2 = 0
          /\ 2 * b + 2 * s - 2 <= N /\ Half(2 * s) = s
      BY <2>1, <3>1, <3>3, HalfOf
    <3>8. /\ k - 2 * s \in 0..(k - 1) /\ k - 2 * s \in 1..N
          /\ b + s \in Nat /\ b + s >= 1
          /\ 2 * (b + s) + (k - 2 * s) - 2 = 2 * b + k - 2
      BY <2>1, <3>1, <3>3
    <3>9. (k - 2 * s) % 2 = 0 \/ 2 * (b + s) + (k - 2 * s) - 2 = N
      BY <2>1, <3>1, <3>3, <3>8
    <3>10. Half(k - 2 * s) = h - s
      <4>1. h - s \in Nat /\ (k - 2 * s = 2 * (h - s) \/ k - 2 * s = 2 * (h - s) - 1)
        BY <2>1, <3>1, <3>3
      <4> QED
        BY <4>1, <3>8, HalfOf
    <3>11. t[2 * s][lo] = u[s][b]
      BY <3>7, OneLevelUp
    <3>12. t[k - 2 * s][2 * (b + s) - 1] = u[h - s][b + s]
      BY <3>8, <3>9, <3>10, OneLevelUp
    <3>13. /\ s \in 1..H /\ b \in 1..(H - s + 1)
           /\ h - s \in 1..H /\ b + s \in 1..(H - (h - s) + 1)
      BY <2>1, <3>3
    <3>14. IsSeq(q[s][b]) /\ IsSeq(q[h - s][b + s])
      BY <2>1, <3>13, SiblingsAreSeqs DEF H
    <3>15. CASE g + 1 < b + s
      <4>1. p[2 * s][lo] = Beside(x, N, index, q[s][b])
        <5>1. Lifts(2 * s)
          BY <3>7, <1>1
        <5>2. index + 1 <= 2 * b + 2 * s - 2
          BY <3>6, <3>15, <3>3
        <5> QED
          BY <3>7, <5>1, <5>2
      <4>2. p[k][lo] = Append(Beside(x, N, index, q[s][b]), u[h - s][b + s])
        BY <3>4, <3>6, <3>12, <3>15, <4>1
      <4>3. q[h][b] = Append(q[s][b], u[h - s][b + s])
        BY <3>5, <3>15
      <4> QED
        BY <3>14, <4>2, <4>3, BesideAppend DEF h
    <3>16. CASE ~ (g + 1 < b + s)
      <4>1. p[k - 2 * s][2 * (b + s) - 1] = Beside(x, N, index, q[h - s][b + s])
        <5>1. Lifts(k - 2 * s)
          BY <3>8, <1>1
        <5>2. 2 * (b + s) - 1 <= index + 1 /\ index + 1 <= 2 * (b + s) + (k - 2 * s) - 2
          BY <3>6, <3>8, <3>16, <3>3
        <5> QED
          BY <3>8, <3>9, <3>10, <5>1, <5>2
      <4>2. p[k][lo] = Append(Beside(x, N, index, q[h - s][b + s]), u[s][b])
        BY <3>4, <3>6, <3>11, <3>16, <4>1
      <4>3. q[h][b] = Append(q[h - s][b + s], u[s][b])
        BY <3>5, <3>16
      <4> QED
        BY <3>14, <4>2, <4>3, BesideAppend DEF h
    <3> QED
      BY <3>15, <3>16
  <2> QED
    BY <2>3, <2>4, <2>5
<1> HIDE DEF T
<1>2. n \in Nat /\ n \in T
  BY <1>1, StrongInduction
<1> QED
  BY <1>2 DEF T

LEMMA AuditPathOneLevelUp ==
  ASSUME NEW N \in Nat, N >= 1, NEW x, NEW t, Forest(t, x, N),
         NEW u, Forest(u, Pairs(x, N), Half(N)),
         NEW index \in 0..(N - 1), NEW g \in Nat, index = 2 * g \/ index = 2 * g + 1,
         NEW p, Siblings(p, t, N, index),
         NEW q, Siblings(q, u, Half(N), g)
  PROVE  p[N][1] = Beside(x, N, index, q[Half(N)][1])
<1>1. N \in 1..N /\ 1 \in Nat /\ 2 * 1 + N - 2 = N /\ 2 * 1 - 1 = 1
  OBVIOUS
<1>2. 2 * 1 - 1 <= index + 1 /\ index + 1 <= 2 * 1 + N - 2
  OBVIOUS
<1>3. p[N][2 * 1 - 1] = Beside(x, N, index, q[Half(N)][1])
  BY <1>1, <1>2, SiblingsOneLevelUp
<1> QED
  BY <1>1, <1>3

(***************************************************************************)
(* Completeness of the check: the audit path of a leaf leads to the root.   *)
(***************************************************************************)
Arrives(s, path, f) == \A at : Climbing(at, s, path) => at[Len(path)] = f

LEMMA ClimbingStates ==
  ASSUME NEW path, Len(path) \in Nat, NEW s, NEW at, Climbing(at, s, path)
  PROVE  /\ at[0] = s
         /\ \A k \in 1..Len(path) : at[k] = Climb(at[k - 1], path[k])
<1>1. \A k \in 0..Len(path) : at[k] = IF k = 0 THEN s ELSE Climb(at[k - 1], path[k])
  BY DEF Climbing
<1> QED
  BY <1>1

LEMMA ArrivesAtOnce ==
  ASSUME NEW s
  PROVE  Arrives(s, <<>>, s)
BY EmptyIsSeq, ClimbingStates DEF Arrives

LEMMA ArrivesAfterATurn ==
  ASSUME NEW path, IsSeq(path), NEW e, NEW s, NEW f, Arrives(Climb(s, e), path, f)
  PROVE  Arrives(s, <<e>> \o path, f)
<1> DEFINE q == <<e>> \o path
           L == Len(path)
<1>1. L \in Nat /\ Len(q) = L + 1 /\ q[1] = e /\ \A i \in 1..L : q[i + 1] = path[i]
  BY LenOfSeq, ConsIsSeq
<1> HIDE DEF q
<1> SUFFICES ASSUME NEW at, Climbing(at, s, q)
             PROVE  at[Len(q)] = f
  BY DEF Arrives, q
<1>2. at[0] = s /\ \A k \in 1..(L + 1) : at[k] = Climb(at[k - 1], q[k])
  BY <1>1, ClimbingStates
<1>3. PICK to : to = [k \in 0..L |-> at[k + 1]]
  OBVIOUS
<1>4. \A k \in 0..L : to[k] = IF k = 0 THEN Climb(s, e) ELSE Climb(to[k - 1], path[k])
  <2> TAKE k \in 0..L
  <2>1. CASE k = 0
    BY <1>1, <1>2, <1>3, <2>1
  <2>2. CASE k # 0
    <3>1. k + 1 \in 1..(L + 1) /\ k \in 1..L /\ k - 1 \in 0..L /\ (k + 1) - 1 = k /\ (k - 1) + 1 = k
      BY <1>1, <2>2
    <3>2. at[k + 1] = Climb(at[k], q[k + 1])
      BY <1>2, <3>1
    <3>3. to[k] = at[k + 1] /\ to[k - 1] = at[k]
      BY <1>3, <3>1
    <3> QED
      BY <1>1, <2>2, <3>1, <3>2, <3>3
  <2> QED
    BY <2>1, <2>2
<1>5. Climbing(to, Climb(s, e), path)
  BY <1>3, <1>4 DEF Climbing
<1>6. to[L] = f
  BY <1>5 DEF Arrives
<1>7. to[L] = at[L + 1]
  BY <1>1, <1>3
<1> QED
  BY <1>1, <1>6, <1>7

LEMMA ArrivesBySameTurn ==
  ASSUME NEW path, IsSeq(path), path # <<>>, NEW s, NEW r, NEW f, Arrives(s, path, f),
         \A e : Climb(r, e) = Climb(s, e)
  PROVE  Arrives(r, path, f)
<1> DEFINE L == Len(path)
<1>1. L \in Nat /\ L # 0
  BY LenOfSeq
<1> SUFFICES ASSUME NEW at, Climbing(at, r, path)
             PROVE  at[L] = f
  BY DEF Arrives
<1>2. at[0] = r /\ \A k \in 1..L : at[k] = Climb(at[k - 1], path[k])
  BY <1>1, ClimbingStates
<1>3. PICK to : to = [k \in 0..L |-> IF k = 0 THEN s ELSE at[k]]
  OBVIOUS
<1>4. \A k \in 0..L : to[k] = IF k = 0 THEN s ELSE Climb(to[k - 1], path[k])
  <2> TAKE k \in 0..L
  <2>1. CASE k = 0
    BY <1>1, <1>3, <2>1
  <2>2. CASE k = 1
    <3>1. to[1] = Climb(r, path[1])
      BY <1>1, <1>2, <1>3, <2>2
    <3>2. to[0] = s
      BY <1>1, <1>3
    <3> QED
      BY <2>2, <3>1, <3>2
  <2>3. CASE k >= 2
    <3>1. k \in 1..L /\ k - 1 \in 0..L /\ k # 0 /\ k - 1 # 0
      BY <1>1, <2>3
    <3>2. to[k] = at[k] /\ to[k - 1] = at[k - 1]
      BY <1>3, <3>1
    <3> QED
      BY <1>2, <3>1, <3>2
  <2> QED
    BY <1>1, <2>1, <2>2, <2>3
<1>5. Climbing(to, s, path)
  BY <1>3, <1>4 DEF Climbing
<1>6. to[L] = f
  BY <1>5 DEF Arrives
<1> QED
  BY <1>1, <1>3, <1>6

LEMMA TheSiblingsLeadToTheRoot ==
  ASSUME NEW N \in Nat, N >= 1, NEW x, NEW t, Forest(t, x, N),
         NEW index \in 0..(N - 1), NEW p, Siblings(p, t, N, index)
  PROVE  Arrives(At(index, N - 1, x[index + 1], FALSE), p[N][1], At(0, 0, t[N][1], FALSE))
<1> DEFINE Leads(n) ==
             \A y, u : Forest(u, y, n) =>
               \A k \in 0..(n - 1) : \A q : Siblings(q, u, n, k) =>
                 Arrives(At(k, n - 1, y[k + 1], FALSE), q[n][1], At(0, 0, u[n][1], FALSE))
           T == {n \in Nat : n >= 1 => Leads(n)}
<1>1. ASSUME NEW n \in Nat, \A m \in 0..(n - 1) : m \in T
      PROVE  n \in T
  <2> SUFFICES ASSUME n >= 1, NEW y, NEW u, Forest(u, y, n),
                      NEW k \in 0..(n - 1), NEW q, Siblings(q, u, n, k)
               PROVE  Arrives(At(k, n - 1, y[k + 1], FALSE), q[n][1], At(0, 0, u[n][1], FALSE))
    OBVIOUS
  <2>0. n \in 1..n /\ 1 \in 1..(n - n + 1)
    OBVIOUS
  <2>1. CASE n = 1
    <3>1. q[n][1] = <<>> /\ u[n][1] = y[1]
      BY <2>0, <2>1, ForestNode, SiblingsNode
    <3>2. k = 0 /\ n - 1 = 0 /\ k + 1 = 1
      BY <2>1
    <3> QED
      BY <3>1, <3>2, ArrivesAtOnce
  <2>2. CASE n >= 2
    <3> DEFINE h == Half(n)
               z == Pairs(y, n)
    <3>1. h \in Nat /\ h >= 1 /\ h \in 0..(n - 1) /\ (n = 2 * h \/ n = 2 * h - 1)
      BY <2>2 DEF Half
    <3>2. PICK w : Forest(w, z, h)
      BY <3>1, ForestExists
    <3>3. w[h][1] = u[n][1]
      BY <2>2, <3>2, RootOneLevelUp
    <3>4. PICK g \in Nat : k = 2 * g \/ k = 2 * g + 1
      <4>1. k \div 2 \in Nat /\ (k = 2 * (k \div 2) \/ k = 2 * (k \div 2) + 1)
        OBVIOUS
      <4> QED
        BY <4>1
    <3>5. g \in 0..(h - 1)
      BY <3>1, <3>4
    <3>6. PICK r : Siblings(r, w, h, g)
      BY <3>1, SiblingsExist
    <3> DEFINE path == r[h][1]
               top == At(0, 0, u[n][1], FALSE)
    <3>7. q[n][1] = Beside(y, n, k, path)
      BY <2>2, <3>2, <3>4, <3>6, AuditPathOneLevelUp
    <3>8. Arrives(At(g, h - 1, z[g + 1], FALSE), path, top)
      <4>1. Leads(h)
        BY <1>1, <3>1
      <4> HIDE DEF h, z
      <4>2. Arrives(At(g, h - 1, z[g + 1], FALSE), path, At(0, 0, w[h][1], FALSE))
        BY <3>2, <3>5, <3>6, <4>1
      <4> QED
        BY <3>3, <4>2
    <3>9. z[g + 1] = IF 2 * g + 2 <= n THEN Node(y[2 * g + 1], y[2 * g + 2]) ELSE y[2 * g + 1]
      <4>1. g + 1 \in 1..h /\ 2 * (g + 1) = 2 * g + 2 /\ (2 * g + 2) - 1 = 2 * g + 1
        BY <3>1, <3>5
      <4>2. z[g + 1] = IF 2 * (g + 1) <= n THEN Node(y[2 * (g + 1) - 1], y[2 * (g + 1)])
                                           ELSE y[2 * (g + 1) - 1]
        BY <4>1 DEF Pairs
      <4> HIDE DEF z
      <4> QED
        BY <4>1, <4>2
    <3>10. IsSeq(path)
      <4>1. h \in 1..h /\ 1 \in 1..(h - h + 1)
        BY <3>1
      <4> HIDE DEF h
      <4> QED
        BY <3>1, <3>6, <4>1, SiblingsAreSeqs
    <3> HIDE DEF z, path, top
    <3>11. CASE k = 2 * g + 1
      <4>1. k % 2 = 1 /\ 2 * g + 1 <= n - 1 /\ 2 * g + 2 <= n /\ k + 1 = 2 * g + 2
        BY <3>11
      <4>2. q[n][1] = <<y[2 * g + 1]>> \o path
        BY <3>7, <3>11, <4>1 DEF Beside
      <4>3. Climb(At(2 * g + 1, n - 1, y[2 * g + 2], FALSE), y[2 * g + 1])
            = At(g, Half(n) - 1, Node(y[2 * g + 1], y[2 * g + 2]), FALSE)
        BY <2>2, <4>1, TurnFromARightNode, Zenon
      <4>4. Climb(At(k, n - 1, y[k + 1], FALSE), y[2 * g + 1]) = At(g, h - 1, z[g + 1], FALSE)
        BY <3>9, <3>11, <4>1, <4>3
      <4> QED
        BY <3>8, <3>10, <4>2, <4>4, ArrivesAfterATurn DEF top
    <3>12. CASE k = 2 * g /\ 2 * g < n - 1
      <4>1. /\ k % 2 # 1 /\ k \div 2 = g /\ k # n - 1 /\ n - 1 # 0
            /\ k + 2 <= n /\ 2 * g + 2 <= n /\ k + 2 = 2 * g + 2 /\ k + 1 = 2 * g + 1
        BY <2>2, <3>12
      <4>2. (n - 1) \div 2 = h - 1
        BY <3>1
      <4>3. q[n][1] = <<y[k + 2]>> \o path
        BY <3>7, <4>1 DEF Beside
      <4>4. Climb(At(k, n - 1, y[k + 1], FALSE), y[k + 2])
            = At(g, h - 1, Node(y[k + 1], y[k + 2]), FALSE)
        <5> HIDE DEF h
        <5> QED
          BY <4>1, <4>2 DEF Climb, At
      <4>5. z[g + 1] = Node(y[k + 1], y[k + 2])
        BY <3>9, <4>1
      <4> QED
        BY <3>8, <3>10, <4>3, <4>4, <4>5, ArrivesAfterATurn DEF top
    <3>13. CASE k = 2 * g /\ 2 * g = n - 1
      <4>1. /\ g # 0 /\ g = h - 1 /\ ~ (2 * g + 2 <= n) /\ ~ (k + 2 <= n) /\ k % 2 # 1
            /\ k + 1 = 2 * g + 1
        BY <2>2, <3>1, <3>13
      <4>2. q[n][1] = path /\ z[g + 1] = y[k + 1]
        BY <3>7, <3>9, <4>1 DEF Beside
      <4>3. \A e : Climb(At(k, n - 1, y[k + 1], FALSE), e)
                   = Climb(At(g, h - 1, y[k + 1], FALSE), e)
        <5> TAKE e
        <5>1. g # 0
          BY <4>1
        <5>2. Climb(At(2 * g, 2 * g, y[k + 1], FALSE), e) = Climb(At(g, g, y[k + 1], FALSE), e)
          BY <5>1, TurnFromALastNode, Zenon
        <5> QED
          BY <3>13, <4>1, <5>2
      <4>4. path # <<>>
        <5> SUFFICES ASSUME path = <<>>
                     PROVE  FALSE
          OBVIOUS
        <5> DEFINE s == At(g, h - 1, z[g + 1], FALSE)
        <5>1. PICK at : Climbing(at, s, <<>>)
          BY EmptyIsSeq, ClimbingExists
        <5>2. at[0] = s
          <6> HIDE DEF s
          <6> QED
            BY <5>1, EmptyIsSeq, ClimbingStates
        <5>3. at[0] = top
          BY <3>8, <5>1, EmptyIsSeq DEF Arrives
        <5>4. s.sn = h - 1 /\ top.sn = 0
          BY DEF At, top
        <5> QED
          BY <4>1, <5>2, <5>3, <5>4
      <4>5. Arrives(At(g, h - 1, y[k + 1], FALSE), path, top)
        BY <3>8, <4>2
      <4>6. Arrives(At(k, n - 1, y[k + 1], FALSE), path, top)
        BY <3>10, <4>3, <4>4, <4>5, ArrivesBySameTurn
      <4> QED
        BY <4>2, <4>6 DEF top
    <3>14. k = 2 * g => 2 * g < n - 1 \/ 2 * g = n - 1
      OBVIOUS
    <3> QED
      BY <3>4, <3>11, <3>12, <3>13, <3>14
  <2>3. n = 1 \/ n >= 2
    OBVIOUS
  <2> QED
    BY <2>1, <2>2, <2>3
<1> HIDE DEF T
<1>2. N \in T
  BY <1>1, StrongInduction
<1> QED
  BY <1>2 DEF T

(***************************************************************************)
(* _root_from_audit_path is complete: it accepts every leaf of a ledger at  *)
(* its place, with the path a producer gives out for it.                    *)
(***************************************************************************)
LEMMA PathIsComplete ==
  ASSUME NEW data, Len(data) \in Nat, NEW index \in 0..(Len(data) - 1)
  PROVE  PathHolds(Leaf(data[index + 1]), index, Len(data), AuditPath(data, index),
                   MerkleRoot(data))
<1> DEFINE N == Len(data)
           x == LeavesOver(data)
           t == Subtrees(data)
           path == AuditPath(data, index)
           s == At(index, N - 1, Leaf(data[index + 1]), FALSE)
           top == At(0, 0, t[N][1], FALSE)
<1>1. Forest(t, x, N) /\ t[N][1] = MerkleRoot(data)
  BY SubtreesAreAForest DEF MerkleRoot
<1>2. PICK p : Siblings(p, t, N, index) /\ path = p[N][1]
  BY AuditPathIs
<1>3. N \in Nat /\ N >= 1 /\ index + 1 \in 1..N
  OBVIOUS
<1>4. x[index + 1] = Leaf(data[index + 1])
  BY <1>3 DEF LeavesOver
<1>5. Len(path) \in Nat
  BY <1>3, AuditPathIsSeq, LenOfSeq
<1>6. Arrives(s, path, top)
  <2> HIDE DEF t, x, path
  <2>1. Arrives(At(index, N - 1, x[index + 1], FALSE), p[N][1], top)
    BY <1>1, <1>2, <1>3, TheSiblingsLeadToTheRoot
  <2> QED
    BY <1>2, <1>4, <2>1
<1>7. PICK at : /\ Climbing(at, s, path)
                /\ Climbed(Leaf(data[index + 1]), index, N, path) = at[Len(path)]
  BY <1>5, ClimbedIs
<1>8. at[Len(path)] = top
  BY <1>6, <1>7 DEF Arrives
<1>9. top.sn = 0 /\ top.raised = FALSE /\ top.node = MerkleRoot(data)
  BY <1>1 DEF At
<1> QED
  BY <1>7, <1>8, <1>9 DEF PathHolds

(***************************************************************************)
(* Consistency proofs.  p[w][lo][old] leads from the tree over the first    *)
(* `old` of the w nodes from the lo-th on to the tree over all of them.     *)
(***************************************************************************)
Extended(p, t, w, lo, old) ==
  IF old <= SplitPoint(w)
  THEN Append(p[SplitPoint(w)][lo][old], t[w - SplitPoint(w)][lo + SplitPoint(w)])
  ELSE Append(p[w - SplitPoint(w)][lo + SplitPoint(w)][old - SplitPoint(w)],
              t[SplitPoint(w)][lo])

\* It begins with the node at the bottom, but as the RFC has it not where only
\* left halves led there.
FirstNode(t, w, lo, rfc) ==
  IF rfc THEN (IF lo = 1 THEN <<>> ELSE <<t[w][lo]>>) ELSE <<t[w][lo]>>

Trails(p, t, N, rfc) ==
  p = [w \in 1..N |-> [lo \in 1..(N - w + 1) |-> [old \in 1..w |->
         IF old = w THEN FirstNode(t, w, lo, rfc) ELSE Extended(p, t, w, lo, old)]]]

LEMMA SameTrailsSameRow ==
  ASSUME NEW N \in Nat, NEW t, NEW rfc, NEW p, NEW q, NEW w \in 1..N,
         w >= 2 => /\ p[SplitPoint(w)] = q[SplitPoint(w)]
                   /\ p[w - SplitPoint(w)] = q[w - SplitPoint(w)]
  PROVE  [lo \in 1..(N - w + 1) |-> [old \in 1..w |->
            IF old = w THEN FirstNode(t, w, lo, rfc) ELSE Extended(p, t, w, lo, old)]]
         = [lo \in 1..(N - w + 1) |-> [old \in 1..w |->
              IF old = w THEN FirstNode(t, w, lo, rfc) ELSE Extended(q, t, w, lo, old)]]
<1>1. ASSUME NEW lo \in 1..(N - w + 1), NEW old \in 1..w, old # w
      PROVE  Extended(p, t, w, lo, old) = Extended(q, t, w, lo, old)
  <2>1. w >= 2
    BY <1>1
  <2> QED
    BY <2>1, Zenon DEF Extended
<1>2. \A lo \in 1..(N - w + 1) :
        [old \in 1..w |-> IF old = w THEN FirstNode(t, w, lo, rfc) ELSE Extended(p, t, w, lo, old)]
        = [old \in 1..w |-> IF old = w THEN FirstNode(t, w, lo, rfc) ELSE Extended(q, t, w, lo, old)]
  BY <1>1
<1> QED
  BY <1>2

LEMMA TrailsExist ==
  ASSUME NEW N \in Nat, NEW t, NEW rfc
  PROVE  \E p : Trails(p, t, N, rfc)
<1> DEFINE Body(p, w) == [lo \in 1..(N - w + 1) |-> [old \in 1..w |->
                            IF old = w THEN FirstNode(t, w, lo, rfc) ELSE Extended(p, t, w, lo, old)]]
           UpTo(p, j) == /\ p = [w \in 1..N |-> p[w]]
                         /\ \A w \in 1..N : w <= j => p[w] = Body(p, w)
           T == {j \in Nat : \E p : UpTo(p, j)}
<1>1. 0 \in T
  <2>1. UpTo([w \in 1..N |-> w], 0)
    OBVIOUS
  <2> HIDE DEF UpTo
  <2> QED
    BY <2>1
<1>2. ASSUME NEW j \in Nat, j \in T
      PROVE  j + 1 \in T
  <2>1. PICK p : UpTo(p, j)
    BY <1>2
  <2>2. PICK q : q = [w \in 1..N |-> Body(p, w)]
    OBVIOUS
  <2>3. \A w \in 1..N : q[w] = Body(p, w)
    BY <2>2
  <2>4. \A w \in 1..N : w <= j => q[w] = p[w]
    BY <2>1, <2>3
  <2>5. ASSUME NEW w \in 1..N, w <= j + 1
        PROVE  Body(p, w) = Body(q, w)
    <3>1. ASSUME w >= 2
          PROVE  /\ p[SplitPoint(w)] = q[SplitPoint(w)]
                 /\ p[w - SplitPoint(w)] = q[w - SplitPoint(w)]
      <4>1. SplitPoint(w) \in 1..N /\ SplitPoint(w) <= j
        BY <3>1, <2>5, SplitBounds
      <4>2. w - SplitPoint(w) \in 1..N /\ w - SplitPoint(w) <= j
        BY <3>1, <2>5, SplitBounds
      <4> QED
        BY <4>1, <4>2, <2>4
    <3> QED
      BY <3>1, SameTrailsSameRow
  <2>6. q = [w \in 1..N |-> q[w]]
    BY <2>2
  <2>7. UpTo(q, j + 1)
    <3> HIDE DEF Body
    <3> QED
      BY <2>3, <2>5, <2>6
  <2> HIDE DEF UpTo
  <2> QED
    BY <2>7
<1>3. N \in T
  <2> HIDE DEF T
  <2> QED
    BY <1>1, <1>2, Induction
<1>4. PICK p : UpTo(p, N)
  BY <1>3
<1>5. \A w \in 1..N : w <= N
  OBVIOUS
<1>6. \A w \in 1..N : p[w] = Body(p, w)
  BY <1>4, <1>5
<1>7. p = [w \in 1..N |-> Body(p, w)]
  <2>1. p = [w \in 1..N |-> p[w]]
    BY <1>4
  <2> HIDE DEF UpTo, Body
  <2> QED
    BY <1>6, <2>1
<1>8. Trails(p, t, N, rfc)
  BY <1>7 DEF Trails
<1> QED
  BY <1>8

\* What p has at one place.
TrailAt(p, t, rfc, w, lo, old) ==
  p[w][lo][old] = IF old = w THEN FirstNode(t, w, lo, rfc) ELSE Extended(p, t, w, lo, old)

LEMMA TrailsNode ==
  ASSUME NEW N \in Nat, NEW t, NEW rfc, NEW p, Trails(p, t, N, rfc),
         NEW w \in 1..N, NEW lo \in 1..(N - w + 1), NEW old \in 1..w
  PROVE  TrailAt(p, t, rfc, w, lo, old)
<1>1. p[w] = [l \in 1..(N - w + 1) |-> [o \in 1..w |->
                IF o = w THEN FirstNode(t, w, l, rfc) ELSE Extended(p, t, w, l, o)]]
  BY DEF Trails
<1>2. p[w][lo] = [o \in 1..w |-> IF o = w THEN FirstNode(t, w, lo, rfc) ELSE Extended(p, t, w, lo, o)]
  BY <1>1
<1>3. p[w][lo][old] = IF old = w THEN FirstNode(t, w, lo, rfc) ELSE Extended(p, t, w, lo, old)
  BY <1>2
<1> QED
  BY <1>3 DEF TrailAt

LEMMA OneIsSeq ==
  ASSUME NEW e
  PROVE  IsSeq(<<e>>) /\ Len(<<e>>) = 1 /\ <<e>>[1] = e
<1>1. <<e>> \in Seq({e})
  OBVIOUS
<1> QED
  BY <1>1 DEF IsSeq

SeqAt(p, rfc, w, lo, old) ==
  IsSeq(p[w][lo][old]) /\ (~ rfc => Len(p[w][lo][old]) >= 1)

LEMMA TrailsAreSeqs ==
  ASSUME NEW N \in Nat, NEW t, NEW rfc \in BOOLEAN, NEW p, Trails(p, t, N, rfc),
         NEW w \in 1..N, NEW lo \in 1..(N - w + 1), NEW old \in 1..w
  PROVE  SeqAt(p, rfc, w, lo, old)
<1> DEFINE T == {k \in Nat : k \in 1..N =>
                   \A l \in 1..(N - k + 1), o \in 1..k :
                     IsSeq(p[k][l][o]) /\ (~ rfc => Len(p[k][l][o]) >= 1)}
<1>1. ASSUME NEW k \in Nat, \A m \in 0..(k - 1) : m \in T
      PROVE  k \in T
  <2> SUFFICES ASSUME k \in 1..N, NEW l \in 1..(N - k + 1), NEW o \in 1..k
               PROVE  IsSeq(p[k][l][o]) /\ (~ rfc => Len(p[k][l][o]) >= 1)
    OBVIOUS
  <2>0. TrailAt(p, t, rfc, k, l, o)
    BY TrailsNode
  <2>1. CASE o = k
    <3>1. p[k][l][o] = IF rfc /\ l = 1 THEN <<>> ELSE <<t[k][l]>>
      BY <2>0, <2>1 DEF TrailAt, FirstNode
    <3>2. \A e : IsSeq(<<e>>) /\ Len(<<e>>) = 1
      BY OneIsSeq
    <3>3. IsSeq(<<t[k][l]>>) /\ Len(<<t[k][l]>>) = 1
      BY <3>2, Zenon
    <3> QED
      BY <3>1, <3>3, EmptyIsSeq
  <2>2. CASE o # k
    <3> DEFINE s == SplitPoint(k)
    <3>1. k \in 2..N
      BY <2>2
    <3>2. p[k][l][o] = Extended(p, t, k, l, o)
      BY <2>0, <2>2 DEF TrailAt
    <3>3. /\ s \in 1..(k - 1) /\ k - s \in 1..(k - 1) /\ s \in 1..N /\ k - s \in 1..N
          /\ l \in 1..(N - s + 1) /\ l + s \in 1..(N - (k - s) + 1)
      BY <3>1, PartsFit
    <3>4. p[k][l][o] = IF o <= s THEN Append(p[s][l][o], t[k - s][l + s])
                                 ELSE Append(p[k - s][l + s][o - s], t[s][l])
      BY <3>2 DEF Extended
    <3> HIDE DEF s
    <3>5. s \in T /\ k - s \in T
      <4>1. s \in 0..(k - 1) /\ k - s \in 0..(k - 1)
        BY <3>3
      <4> QED
        BY <4>1, <1>1
    <3>6. CASE o <= s
      <4>1. o \in 1..s
        BY <3>3, <3>6
      <4>2. IsSeq(p[s][l][o])
        BY <3>3, <3>5, <4>1
      <4> QED
        BY <3>4, <3>6, <4>2, AppendIsSeq, LenOfSeq
    <3>7. CASE ~ (o <= s)
      <4>1. o - s \in 1..(k - s)
        BY <3>3, <3>7
      <4>2. IsSeq(p[k - s][l + s][o - s])
        BY <3>3, <3>5, <4>1
      <4> QED
        BY <3>4, <3>7, <4>2, AppendIsSeq, LenOfSeq
    <3> QED
      BY <3>6, <3>7
  <2> QED
    BY <2>1, <2>2
<1> HIDE DEF T
<1>2. w \in Nat /\ w \in T
  BY <1>1, StrongInduction
<1> QED
  BY <1>2 DEF T, SeqAt

(***************************************************************************)
(* The two ways to write a consistency proof down differ in its first node, *)
(* where the old tree is one subtree: the whole one, or 1, 2, 4... entries. *)
(***************************************************************************)
SamePath(p, q, t, w, lo, old) ==
  IF lo = 1 /\ (old = w \/ SplitPoint(old + 1) = old)
  THEN p[w][lo][old] = <<t[old][lo]>> \o q[w][lo][old]
  ELSE p[w][lo][old] = q[w][lo][old]

LEMMA TrailsDifferByTheFirstNode ==
  ASSUME NEW N \in Nat, NEW t, NEW p, Trails(p, t, N, FALSE), NEW q, Trails(q, t, N, TRUE),
         NEW w \in 1..N, NEW lo \in 1..(N - w + 1), NEW old \in 1..w
  PROVE  SamePath(p, q, t, w, lo, old)
<1> DEFINE T == {k \in Nat : k \in 1..N =>
                   \A l \in 1..(N - k + 1), o \in 1..k : SamePath(p, q, t, k, l, o)}
<1>1. ASSUME NEW k \in Nat, \A m \in 0..(k - 1) : m \in T
      PROVE  k \in T
  <2> SUFFICES ASSUME k \in 1..N, NEW l \in 1..(N - k + 1), NEW o \in 1..k
               PROVE  SamePath(p, q, t, k, l, o)
    OBVIOUS
  <2>0. TrailAt(p, t, FALSE, k, l, o) /\ TrailAt(q, t, TRUE, k, l, o)
    BY TrailsNode
  <2>1. CASE o = k
    <3>1. p[k][l][o] = <<t[k][l]>>
      BY <2>0, <2>1 DEF TrailAt, FirstNode
    <3>2. q[k][l][o] = IF l = 1 THEN <<>> ELSE <<t[k][l]>>
      BY <2>0, <2>1 DEF TrailAt, FirstNode
    <3>3. \A e : <<e>> \o <<>> = <<e>>
      BY ConsNothing
    <3> QED
      BY <2>1, <3>1, <3>2, <3>3 DEF SamePath
  <2>2. CASE o # k
    <3> DEFINE s == SplitPoint(k)
    <3>1. k \in 2..N
      BY <2>2
    <3>2. /\ p[k][l][o] = Extended(p, t, k, l, o)
          /\ q[k][l][o] = Extended(q, t, k, l, o)
      BY <2>0, <2>2 DEF TrailAt
    <3>3. /\ s \in 1..(k - 1) /\ k - s \in 1..(k - 1) /\ s \in 1..N /\ k - s \in 1..N
          /\ l \in 1..(N - s + 1) /\ l + s \in 1..(N - (k - s) + 1)
      BY <3>1, PartsFit
    <3>4. /\ o <= s => /\ p[k][l][o] = Append(p[s][l][o], t[k - s][l + s])
                       /\ q[k][l][o] = Append(q[s][l][o], t[k - s][l + s])
          /\ ~ (o <= s) => /\ p[k][l][o] = Append(p[k - s][l + s][o - s], t[s][l])
                           /\ q[k][l][o] = Append(q[k - s][l + s][o - s], t[s][l])
      BY <3>2 DEF Extended
    \* The first half of a tree is a subtree; no longer beginning is one.
    <3>5. \A i \in Nat : s < i /\ i <= k => SplitPoint(i) = s
      BY <3>1, SplitIsShared
    <3> HIDE DEF s
    <3>6. s \in T /\ k - s \in T
      <4>1. s \in 0..(k - 1) /\ k - s \in 0..(k - 1)
        BY <3>3
      <4> QED
        BY <4>1, <1>1
    <3>7. CASE o <= s
      <4>1. o \in 1..s
        BY <3>3, <3>7
      <4>2. SamePath(p, q, t, s, l, o)
        BY <3>3, <3>6, <4>1
      <4>3. IsSeq(q[s][l][o])
        <5>1. SeqAt(q, TRUE, s, l, o)
          BY <3>3, <4>1, TrailsAreSeqs
        <5> QED
          BY <5>1 DEF SeqAt
      <4>4. \A e, r : Append(<<e>> \o q[s][l][o], r) = <<e>> \o Append(q[s][l][o], r)
        BY <4>3, ConsIsSeq
      <4>5. SplitPoint(s + 1) = s
        <5>1. s + 1 \in Nat /\ s < s + 1 /\ s + 1 <= k
          BY <3>3
        <5> QED
          BY <3>5, <5>1
      <4>6. (o = s \/ SplitPoint(o + 1) = o) <=> (o = k \/ SplitPoint(o + 1) = o)
        BY <2>2, <4>5
      <4>7. /\ p[k][l][o] = Append(p[s][l][o], t[k - s][l + s])
            /\ q[k][l][o] = Append(q[s][l][o], t[k - s][l + s])
        BY <3>4, <3>7
      <4>8. CASE l = 1 /\ (o = s \/ SplitPoint(o + 1) = o)
        <5>1. p[s][l][o] = <<t[o][l]>> \o q[s][l][o]
          BY <4>2, <4>8 DEF SamePath
        <5>2. p[k][l][o] = <<t[o][l]>> \o q[k][l][o]
          <6>1. p[k][l][o] = Append(<<t[o][l]>> \o q[s][l][o], t[k - s][l + s])
            BY <4>7, <5>1, Zenon
          <6>2. Append(<<t[o][l]>> \o q[s][l][o], t[k - s][l + s])
                = <<t[o][l]>> \o Append(q[s][l][o], t[k - s][l + s])
            BY <4>4, Zenon
          <6> QED
            BY <4>7, <6>1, <6>2, Zenon
        <5>3. l = 1 /\ (o = k \/ SplitPoint(o + 1) = o)
          BY <4>6, <4>8
        <5> QED
          BY <5>2, <5>3 DEF SamePath
      <4>9. CASE ~ (l = 1 /\ (o = s \/ SplitPoint(o + 1) = o))
        <5>1. p[s][l][o] = q[s][l][o]
          BY <4>2, <4>9 DEF SamePath
        <5>2. p[k][l][o] = q[k][l][o]
          BY <4>7, <5>1, Zenon
        <5>3. ~ (l = 1 /\ (o = k \/ SplitPoint(o + 1) = o))
          BY <4>6, <4>9
        <5> QED
          BY <5>2, <5>3 DEF SamePath
      <4> QED
        BY <4>8, <4>9, Zenon
    <3>8. CASE ~ (o <= s)
      <4>1. o - s \in 1..(k - s) /\ l + s # 1
        BY <3>3, <3>8
      <4>2. SamePath(p, q, t, k - s, l + s, o - s)
        BY <3>3, <3>6, <4>1
      <4>3. p[k - s][l + s][o - s] = q[k - s][l + s][o - s]
        BY <4>1, <4>2 DEF SamePath
      <4>4. SplitPoint(o + 1) # o
        <5>1. o + 1 \in Nat /\ s < o + 1 /\ o + 1 <= k /\ o # s
          BY <2>2, <3>3, <3>8
        <5> QED
          BY <3>5, <5>1
      <4> QED
        <5>1. p[k][l][o] = q[k][l][o]
          BY <3>4, <3>8, <4>3, Zenon
        <5> QED
          BY <2>2, <4>4, <5>1, Zenon DEF SamePath
    <3> QED
      BY <3>7, <3>8
  <2> QED
    BY <2>1, <2>2
<1> HIDE DEF T
<1>2. w \in Nat /\ w \in T
  BY <1>1, StrongInduction
<1> QED
  BY <1>2 DEF T

(***************************************************************************)
(* _verify_consistency_nodes: at[len][m][n] is what it returns of the first *)
(* len hashes of the proof, for an old tree of m and a new one of n.        *)
(***************************************************************************)
Sub(at, m, n, len) ==
  IF m <= SplitPoint(n) THEN at[len - 1][m][SplitPoint(n)]
  ELSE at[len - 1][m - SplitPoint(n)][n - SplitPoint(n)]

Found(at, m, n, len, path) ==
  IF len = 0 THEN Raised
  ELSE IF m = n THEN Hashes(path[1], path[1])
  ELSE IF Sub(at, m, n, len).raised THEN Raised
  ELSE IF m <= SplitPoint(n)
    THEN Hashes(Sub(at, m, n, len).old, Node(Sub(at, m, n, len).new, path[len]))
  ELSE Hashes(Node(path[len], Sub(at, m, n, len).old), Node(path[len], Sub(at, m, n, len).new))

Halving(at, m0, n0, path) ==
  at = [len \in 0..Len(path) |-> [m \in 1..m0 |-> [n \in 1..n0 |-> Found(at, m, n, len, path)]]]

LEMMA HalvingExists ==
  ASSUME NEW m0, NEW n0, NEW path, Len(path) \in Nat
  PROVE  \E at : Halving(at, m0, n0, path)
<1> DEFINE L == Len(path)
           Body(at, len) == [m \in 1..m0 |-> [n \in 1..n0 |-> Found(at, m, n, len, path)]]
           Below(at, j) == /\ at = [len \in 0..L |-> at[len]]
                           /\ \A len \in 0..L : len < j => at[len] = Body(at, len)
           T == {j \in Nat : \E at : Below(at, j)}
<1>1. 0 \in T
  <2>1. Below([len \in 0..L |-> len], 0)
    OBVIOUS
  <2> HIDE DEF Below
  <2> QED
    BY <2>1
<1>2. ASSUME NEW j \in Nat, j \in T
      PROVE  j + 1 \in T
  <2>1. PICK at : Below(at, j)
    BY <1>2
  <2>2. PICK to : to = [len \in 0..L |-> Body(at, len)]
    OBVIOUS
  <2>3. \A len \in 0..L : to[len] = Body(at, len)
    BY <2>2
  <2>4. \A len \in 0..L : len < j => to[len] = at[len]
    BY <2>1, <2>3
  <2>5. ASSUME NEW len \in 0..L, len < j + 1
        PROVE  Body(at, len) = Body(to, len)
    <3>1. ASSUME NEW m, NEW n
          PROVE  Found(at, m, n, len, path) = Found(to, m, n, len, path)
      <4>1. CASE len = 0
        BY <4>1 DEF Found
      <4>2. CASE len # 0
        <5>1. len - 1 \in 0..L /\ len - 1 < j
          BY <4>2, <2>5
        <5>2. to[len - 1] = at[len - 1]
          BY <5>1, <2>4
        <5>3. Sub(at, m, n, len) = Sub(to, m, n, len)
          BY <5>2, Zenon DEF Sub
        <5> QED
          BY <5>3, Zenon DEF Found
      <4> QED
        BY <4>1, <4>2
    <3> QED
      BY <3>1, Zenon
  <2>6. to = [len \in 0..L |-> to[len]]
    BY <2>2
  <2>7. Below(to, j + 1)
    <3> HIDE DEF Body
    <3> QED
      BY <2>3, <2>5, <2>6
  <2> HIDE DEF Below
  <2> QED
    BY <2>7
<1>3. L + 1 \in T
  <2> HIDE DEF T
  <2> QED
    BY <1>1, <1>2, Induction
<1>4. PICK at : Below(at, L + 1)
  BY <1>3
<1>5. \A len \in 0..L : len < L + 1
  OBVIOUS
<1>6. \A len \in 0..L : at[len] = Body(at, len)
  BY <1>4, <1>5
<1>7. at = [len \in 0..L |-> Body(at, len)]
  <2>1. at = [len \in 0..L |-> at[len]]
    BY <1>4
  <2> HIDE DEF Below, Body
  <2> QED
    BY <1>6, <2>1
<1>8. Halving(at, m0, n0, path)
  BY <1>7 DEF Halving
<1> QED
  BY <1>8

\* What at has at one place.
FoundAt(at, m, n, len, path) == at[len][m][n] = Found(at, m, n, len, path)

LEMMA HalvingNode ==
  ASSUME NEW m0 \in Nat, NEW n0 \in Nat, NEW path, Len(path) \in Nat,
         NEW at, Halving(at, m0, n0, path),
         NEW len \in 0..Len(path), NEW m \in 1..m0, NEW n \in 1..n0
  PROVE  FoundAt(at, m, n, len, path)
<1>1. at[len] = [a \in 1..m0 |-> [b \in 1..n0 |-> Found(at, a, b, len, path)]]
  BY DEF Halving
<1>2. at[len][m] = [b \in 1..n0 |-> Found(at, m, b, len, path)]
  BY <1>1
<1> QED
  BY <1>2 DEF FoundAt

LEMMA ConsistencyNodesIs ==
  ASSUME NEW m0, NEW n0, NEW path, Len(path) \in Nat
  PROVE  \E at : /\ Halving(at, m0, n0, path)
                 /\ ConsistencyNodes(m0, n0, path) = at[Len(path)][m0][n0]
<1> DEFINE Own(at) == at = [len \in 0..Len(path) |-> [m \in 1..m0 |-> [n \in 1..n0 |->
                              Found(at, m, n, len, path)]]]
<1>0. \E at : Halving(at, m0, n0, path)
  BY HalvingExists
<1>1. \E at : Own(at)
  BY <1>0, Zenon DEF Halving
<1>2. ConsistencyNodes(m0, n0, path) = (CHOOSE at : Own(at))[Len(path)][m0][n0]
  BY DEF ConsistencyNodes, Found, Sub
<1> DEFINE at == CHOOSE at : Own(at)
<1>3. Own(at)
  <2> HIDE DEF Own
  <2> QED
    BY <1>1
<1>4. Halving(at, m0, n0, path)
  BY <1>3 DEF Halving
<1> HIDE DEF Own
<1> QED
  BY <1>2, <1>4

(***************************************************************************)
(* Soundness.  If the check rebuilds, from one proof, the root over the     *)
(* first m nodes of one log and the root over n nodes of another, then the  *)
(* first m nodes of both are the same: a subtree that only the new log has  *)
(* is never asked about, one that both have is bound to the same hash.      *)
(***************************************************************************)
SoundAt(row, x, t, M, y, u, N, m0, n0) ==
  \A m \in 1..m0, n \in 1..n0 : \A lo \in Nat :
    /\ m <= n /\ m <= M /\ n <= N
    /\ 1 <= lo /\ lo <= M - m + 1 /\ lo <= N - n + 1
    /\ ~ row[m][n].raised
    /\ row[m][n].old = t[m][lo] /\ row[m][n].new = u[n][lo]
    => \A i \in 0..(m - 1) : x[lo + i] = y[lo + i]

SameTop(x, t, M, y, u, N, n, lo) ==
  /\ M \in Nat /\ Forest(t, x, M) /\ N \in Nat /\ Forest(u, y, N)
  /\ n \in Nat /\ n \in 1..M /\ n \in 1..N /\ lo \in 1..(M - n + 1) /\ lo \in 1..(N - n + 1)
  /\ t[n][lo] = u[n][lo]

LEMMA SameTopSameNodes ==
  ASSUME NEW x, NEW t, NEW M, NEW y, NEW u, NEW N, NEW n, NEW lo,
         SameTop(x, t, M, y, u, N, n, lo)
  PROVE  \A i \in 0..(n - 1) : x[lo + i] = y[lo + i]
<1>1. M \in Nat /\ N \in Nat /\ n \in Nat
  BY DEF SameTop
<1>2. Forest(t, x, M) /\ Forest(u, y, N)
  BY DEF SameTop
<1>3. n \in 1..M /\ n \in 1..N
  BY DEF SameTop
<1>4. lo \in 1..(M - n + 1) /\ lo \in 1..(N - n + 1)
  BY DEF SameTop
<1>5. t[n][lo] = u[n][lo]
  BY DEF SameTop
<1> QED
  BY <1>1, <1>2, <1>3, <1>4, <1>5, SameRootSameNodes

\* The check of a half, below, and the hash h that makes it the check of the
\* whole.
HalvesMeet(below, k, h, x, t, M, y, u, N, m0, n0, m, n, lo) ==
  /\ M \in Nat /\ Forest(t, x, M) /\ N \in Nat /\ Forest(u, y, N)
  /\ m0 \in Nat /\ n0 \in Nat /\ SoundAt(below, x, t, M, y, u, N, m0, n0)
  /\ m \in 1..m0 /\ n \in 1..n0 /\ lo \in Nat /\ m < n /\ m <= M /\ n <= N
  /\ 1 <= lo /\ lo <= M - m + 1 /\ lo <= N - n + 1
  /\ k = SplitPoint(n)
  /\ m <= k => /\ ~ below[m][k].raised
               /\ below[m][k].old = t[m][lo] /\ Node(below[m][k].new, h) = u[n][lo]
  /\ m > k => /\ ~ below[m - k][n - k].raised
              /\ Node(h, below[m - k][n - k].old) = t[m][lo]
              /\ Node(h, below[m - k][n - k].new) = u[n][lo]

\* From the lo-th on, m nodes are the same.
Agree(x, y, lo, m) == \A i \in 0..(m - 1) : x[lo + i] = y[lo + i]

LEMMA SoundHalfway ==
  ASSUME NEW below, NEW k, NEW h, NEW x, NEW t, NEW M, NEW y, NEW u, NEW N,
         NEW m0, NEW n0, NEW m, NEW n, NEW lo,
         HalvesMeet(below, k, h, x, t, M, y, u, N, m0, n0, m, n, lo)
  PROVE  Agree(x, y, lo, m)
<1> SUFFICES \A i \in 0..(m - 1) : x[lo + i] = y[lo + i]
  BY DEF Agree
<1> USE DEF HalvesMeet
<1>0. \A c, l : SameTop(x, t, M, y, u, N, c, l) =>
        \A i \in 0..(c - 1) : x[l + i] = y[l + i]
  BY SameTopSameNodes
<1>1. n \in 2..N /\ n >= 2 /\ n \in 1..N /\ lo \in 1..(N - n + 1) /\ m \in 1..M
      /\ lo \in 1..(M - m + 1) /\ m \in Nat /\ n \in Nat
  OBVIOUS
<1>2. /\ k \in 1..(n - 1) /\ n - k \in 1..(n - 1) /\ k \in 1..N /\ n - k \in 1..N
      /\ lo \in 1..(N - k + 1) /\ lo + k \in 1..(N - (n - k) + 1)
  BY <1>1, PartsFit
<1>3. u[n][lo] = Node(u[k][lo], u[n - k][lo + k])
  <2>1. u[n][lo] = Parts(u, n, lo)
    BY <1>1, ForestNode
  <2> QED
    BY <2>1 DEF Parts
<1>4. CASE m <= k
  <2> DEFINE sub == below[m][k]
  <2>1. ~ sub.raised /\ sub.old = t[m][lo] /\ Node(sub.new, h) = Node(u[k][lo], u[n - k][lo + k])
    BY <1>3, <1>4
  <2>2. sub.new = u[k][lo]
    BY <2>1, NodeIsInjective
  <2>3. k \in 1..n0 /\ k <= N /\ lo <= N - k + 1
    BY <1>2
  <2> QED
    BY <1>4, <2>1, <2>2, <2>3 DEF SoundAt
<1>5. CASE m > k
  <2> DEFINE sub == below[m - k][n - k]
  <2>1. m \in 2..M /\ m >= 2 /\ k < m /\ k \in Nat
    BY <1>1, <1>2, <1>5
  <2>2. SplitPoint(m) = k
    BY <1>1, <1>5, <2>1, SplitIsShared
  <2>3. /\ k \in 1..(m - 1) /\ m - k \in 1..(m - 1) /\ k \in 1..M /\ m - k \in 1..M
        /\ lo \in 1..(M - k + 1) /\ lo + k \in 1..(M - (m - k) + 1)
    BY <1>1, <2>1, <2>2, PartsFit
  <2>4. t[m][lo] = Node(t[k][lo], t[m - k][lo + k])
    <3>1. t[m][lo] = Parts(t, m, lo)
      BY <1>1, <2>1, ForestNode
    <3> QED
      BY <3>1, <2>2 DEF Parts
  <2>5. /\ ~ sub.raised
        /\ Node(h, sub.old) = Node(t[k][lo], t[m - k][lo + k])
        /\ Node(h, sub.new) = Node(u[k][lo], u[n - k][lo + k])
    BY <1>3, <1>5, <2>4
  <2>6. /\ h = t[k][lo] /\ sub.old = t[m - k][lo + k]
        /\ h = u[k][lo] /\ sub.new = u[n - k][lo + k]
    BY <2>5, NodeIsInjective
  <2>7. \A i \in 0..(k - 1) : x[lo + i] = y[lo + i]
    <3>1. t[k][lo] = u[k][lo]
      BY <2>6
    <3>2. k \in Nat
      BY <2>1
    <3>3. k \in 1..M
      BY <2>3
    <3>4. k \in 1..N
      BY <1>2
    <3>5. lo \in 1..(M - k + 1)
      BY <2>3
    <3>6. lo \in 1..(N - k + 1)
      BY <1>2
    <3> QED
      BY <1>0, <3>1, <3>2, <3>3, <3>4, <3>5, <3>6 DEF SameTop
  <2>8. \A i \in 0..((m - k) - 1) : x[(lo + k) + i] = y[(lo + k) + i]
    <3>1. /\ m - k \in 1..m0 /\ n - k \in 1..n0 /\ lo + k \in Nat
          /\ m - k <= n - k /\ m - k <= M /\ n - k <= N
          /\ 1 <= lo + k /\ lo + k <= M - (m - k) + 1 /\ lo + k <= N - (n - k) + 1
      BY <1>1, <1>2, <2>1, <2>3
    <3>2. ~ sub.raised /\ sub.old = t[m - k][lo + k] /\ sub.new = u[n - k][lo + k]
      BY <2>5, <2>6
    <3> QED
      BY <3>1, <3>2 DEF SoundAt
  <2> SUFFICES ASSUME NEW i \in 0..(m - 1)
               PROVE  x[lo + i] = y[lo + i]
    OBVIOUS
  <2>9. CASE i < k
    <3>1. i \in 0..(k - 1)
      BY <2>1, <2>9
    <3> QED
      BY <2>7, <3>1
  <2>10. CASE i >= k
    <3>1. i - k \in 0..((m - k) - 1) /\ (lo + k) + (i - k) = lo + i
      BY <1>1, <2>1, <2>10
    <3>2. x[(lo + k) + (i - k)] = y[(lo + k) + (i - k)]
      BY <2>8, <3>1
    <3> QED
      BY <3>1, <3>2
  <2>11. i < k \/ i >= k
    BY <2>1
  <2> QED
    BY <2>9, <2>10, <2>11
<1>6. m <= k \/ m > k
  BY <1>1, <1>2
<1> QED
  BY <1>4, <1>5, <1>6

LEMMA NodesAreSound ==
  ASSUME NEW m0 \in Nat, NEW n0 \in Nat, NEW path, Len(path) \in Nat,
         NEW at, Halving(at, m0, n0, path),
         NEW M \in Nat, NEW x, NEW t, Forest(t, x, M),
         NEW N \in Nat, NEW y, NEW u, Forest(u, y, N)
  PROVE  SoundAt(at[Len(path)], x, t, M, y, u, N, m0, n0)
<1> DEFINE Sound(len) == SoundAt(at[len], x, t, M, y, u, N, m0, n0)
           T == {len \in Nat : len \in 0..Len(path) => Sound(len)}
<1>0. /\ \A len \in 0..Len(path), m \in 1..m0, n \in 1..n0 :
           at[len][m][n] = Found(at, m, n, len, path)
      /\ \A c, l : SameTop(x, t, M, y, u, N, c, l) =>
           \A i \in 0..(c - 1) : x[l + i] = y[l + i]
  <2>1. \A len \in 0..Len(path), m \in 1..m0, n \in 1..n0 :
          at[len][m][n] = Found(at, m, n, len, path)
    BY HalvingNode DEF FoundAt
  <2> QED
    BY <2>1, SameTopSameNodes
<1>1. ASSUME NEW len \in Nat, \A k \in 0..(len - 1) : k \in T
      PROVE  len \in T
  <2>1. ASSUME len \in 0..Len(path), NEW m \in 1..m0, NEW n \in 1..n0, NEW lo \in Nat,
               m <= n, m <= M, n <= N, 1 <= lo, lo <= M - m + 1, lo <= N - n + 1,
               ~ at[len][m][n].raised,
               at[len][m][n].old = t[m][lo], at[len][m][n].new = u[n][lo]
        PROVE  \A i \in 0..(m - 1) : x[lo + i] = y[lo + i]
    <3> HIDE DEF T
    <3>0. len \in 0..Len(path) /\ m \in 1..m0 /\ n \in 1..n0
      BY <2>1
    <3>1. at[len][m][n] = Found(at, m, n, len, path)
      BY <1>0, <3>0
    <3>2. len # 0
      BY <2>1, <3>1 DEF Found, Raised
    <3>3. CASE m = n
      <4>1. at[len][m][n] = Hashes(path[1], path[1])
        BY <3>1, <3>2, <3>3 DEF Found
      <4>2. t[m][lo] = u[m][lo]
        BY <2>1, <3>3, <4>1 DEF Hashes
      <4>3. m \in Nat
        BY <2>1
      <4>4. m \in 1..M
        BY <2>1, <3>3
      <4>5. m \in 1..N
        BY <2>1, <3>3
      <4>6. lo \in 1..(M - m + 1)
        BY <2>1, <3>3
      <4>7. lo \in 1..(N - m + 1)
        BY <2>1, <3>3
      <4> QED
        BY <1>0, <4>2, <4>3, <4>4, <4>5, <4>6, <4>7 DEF SameTop
    <3>4. CASE m # n
      <4>8. PICK k : k = SplitPoint(n)
        OBVIOUS
      <4>0. PICK sub : sub = Sub(at, m, n, len)
        OBVIOUS
      <4>15. PICK h : h = path[len]
        OBVIOUS
      <4>1. /\ ~ sub.raised
            /\ at[len][m][n] = IF m <= k THEN Hashes(sub.old, Node(sub.new, h))
                               ELSE Hashes(Node(h, sub.old), Node(h, sub.new))
        <5>1. Found(at, m, n, len, path)
              = IF sub.raised THEN Raised
                ELSE IF m <= k THEN Hashes(sub.old, Node(sub.new, h))
                ELSE Hashes(Node(h, sub.old), Node(h, sub.new))
          BY <3>2, <3>4, <4>0, <4>8, <4>15, Zenon DEF Found
        <5>2. ~ sub.raised
          BY <2>1, <3>1, <5>1 DEF Raised
        <5> QED
          BY <3>1, <5>1, <5>2
      <4>2. sub = IF m <= k THEN at[len - 1][m][k] ELSE at[len - 1][m - k][n - k]
        BY <4>0, <4>8 DEF Sub
      <4>3. Sound(len - 1)
        <5>1. len - 1 \in 0..(len - 1) /\ len - 1 \in 0..Len(path)
          BY <2>1, <3>2
        <5>2. len - 1 \in T
          BY <5>1, <1>1
        <5> HIDE DEF Sound
        <5> QED
          BY <5>1, <5>2 DEF T
      <4>4. m \in Nat /\ n \in Nat /\ m < n
        BY <2>1, <3>4
      <4>5. k \in Nat
        <5>1. n >= 2
          BY <2>1, <4>4
        <5> QED
          BY <4>4, <4>8, <5>1, SplitBounds
      <4>6. ASSUME m <= k
            PROVE  LET half == at[len - 1][m][k]
                   IN ~ half.raised /\ half.old = t[m][lo] /\ Node(half.new, h) = u[n][lo]
        BY <2>1, <4>1, <4>2, <4>6 DEF Hashes
      <4>7. ASSUME m > k
            PROVE  LET half == at[len - 1][m - k][n - k]
                   IN /\ ~ half.raised
                      /\ Node(h, half.old) = t[m][lo] /\ Node(h, half.new) = u[n][lo]
        <5>1. ~ (m <= k)
          BY <4>4, <4>5, <4>7
        <5> QED
          BY <2>1, <4>1, <4>2, <5>1 DEF Hashes
      <4>9. PICK below : below = at[len - 1]
        OBVIOUS
      <4>10. SoundAt(below, x, t, M, y, u, N, m0, n0)
        BY <4>3, <4>9
      <4>11. m <= k => /\ ~ below[m][k].raised
                       /\ below[m][k].old = t[m][lo] /\ Node(below[m][k].new, h) = u[n][lo]
        BY <4>6, <4>9
      <4>12. m > k => /\ ~ below[m - k][n - k].raised
                      /\ Node(h, below[m - k][n - k].old) = t[m][lo]
                      /\ Node(h, below[m - k][n - k].new) = u[n][lo]
        BY <4>7, <4>9
      <4>13. m <= M /\ n <= N /\ 1 <= lo /\ lo <= M - m + 1 /\ lo <= N - n + 1
        BY <2>1
      <4>14. HalvesMeet(below, k, h, x, t, M, y, u, N, m0, n0, m, n, lo)
        BY <4>4, <4>8, <4>10, <4>11, <4>12, <4>13 DEF HalvesMeet
      <4> QED
        <5>1. Agree(x, y, lo, m)
          BY <4>14, SoundHalfway
        <5> QED
          BY <5>1 DEF Agree
    <3> QED
      BY <3>3, <3>4
  <2> QED
    BY <2>1 DEF SoundAt
<1> HIDE DEF T
<1>2. Len(path) \in T
  BY <1>1, StrongInduction
<1> QED
  BY <1>2 DEF T

(***************************************************************************)
(* Completeness.  Trees over the same nodes have the same roots, and the    *)
(* way a consistency proof describes leads the check to both roots.         *)
(***************************************************************************)
LEMMA SameNodesSameRoot ==
  ASSUME NEW N \in Nat, NEW x, NEW t, Forest(t, x, N),
         NEW M \in Nat, NEW y, NEW u, Forest(u, y, M),
         NEW n \in Nat, n \in 1..N, n \in 1..M,
         NEW lo \in 1..(N - n + 1), lo \in 1..(M - n + 1),
         \A i \in 0..(n - 1) : x[lo + i] = y[lo + i]
  PROVE  t[n][lo] = u[n][lo]
<1> DEFINE Same(k) ==
             \A a \in 1..(N - k + 1) :
               a <= M - k + 1 /\ (\A i \in 0..(k - 1) : x[a + i] = y[a + i])
               => t[k][a] = u[k][a]
           T == {k \in Nat : k \in 1..N /\ k \in 1..M => Same(k)}
<1>1. ASSUME NEW k \in Nat, \A m \in 0..(k - 1) : m \in T
      PROVE  k \in T
  <2>1. ASSUME k \in 1..N, k \in 1..M, NEW a \in 1..(N - k + 1), a <= M - k + 1,
               \A i \in 0..(k - 1) : x[a + i] = y[a + i]
        PROVE  t[k][a] = u[k][a]
    <3> HIDE DEF T
    <3>0. a \in 1..(M - k + 1) /\ a \in Nat
      BY <2>1
    <3>1. CASE k = 1
      <4>1. t[k][a] = x[a]
        BY <2>1, <3>1, ForestNode
      <4>2. u[k][a] = y[a]
        BY <2>1, <3>0, <3>1, ForestNode
      <4>3. x[a + 0] = y[a + 0] /\ a + 0 = a
        BY <2>1, <3>0, <3>1
      <4> QED
        BY <4>1, <4>2, <4>3
    <3>2. CASE k >= 2
      <4>1. t[k][a] = Parts(t, k, a)
        BY <2>1, <3>2, ForestNode
      <4>2. u[k][a] = Parts(u, k, a)
        BY <2>1, <3>0, <3>2, ForestNode
      <4>3. PICK s : s = SplitPoint(k)
        OBVIOUS
      <4>4. k \in 2..N /\ k \in 2..M
        BY <2>1, <3>2
      <4>5. /\ s \in 1..(k - 1) /\ k - s \in 1..(k - 1) /\ s \in 1..N /\ k - s \in 1..N
            /\ a \in 1..(N - s + 1) /\ a + s \in 1..(N - (k - s) + 1)
        BY <2>1, <4>3, <4>4, PartsFit
      <4>6. /\ s \in 1..M /\ k - s \in 1..M
            /\ a <= M - s + 1 /\ a + s <= M - (k - s) + 1
        BY <2>1, <4>5
      <4>7. Same(s) /\ Same(k - s)
        <5>1. s \in 0..(k - 1) /\ k - s \in 0..(k - 1)
          BY <4>5
        <5>2. s \in T /\ k - s \in T
          BY <1>1, <5>1
        <5> HIDE DEF Same
        <5> QED
          BY <4>5, <4>6, <5>2 DEF T
      <4>8. \A i \in 0..(s - 1) : x[a + i] = y[a + i]
        BY <2>1, <4>5
      <4>9. \A i \in 0..((k - s) - 1) : x[(a + s) + i] = y[(a + s) + i]
        <5> SUFFICES ASSUME NEW i \in 0..((k - s) - 1)
                     PROVE  x[(a + s) + i] = y[(a + s) + i]
          OBVIOUS
        <5>1. s + i \in 0..(k - 1) /\ (a + s) + i = a + (s + i)
          BY <4>5
        <5> QED
          BY <2>1, <5>1
      <4>10. t[s][a] = u[s][a] /\ t[k - s][a + s] = u[k - s][a + s]
        BY <4>5, <4>6, <4>7, <4>8, <4>9
      <4> QED
        BY <4>1, <4>2, <4>3, <4>10 DEF Parts
    <3> QED
      BY <2>1, <3>1, <3>2
  <2> QED
    BY <2>1
<1> HIDE DEF T
<1>2. n \in T
  BY <1>1, StrongInduction
<1>3. Same(n)
  BY <1>2 DEF T
<1>4. lo <= M - n + 1
  OBVIOUS
<1> QED
  BY <1>3, <1>4

\* One way up: the two hashes of a half become those of the whole.
HalfLeads(at, path, len, k, t, x, N, w, lo, old) ==
  /\ N \in Nat /\ Forest(t, x, N)
  /\ w \in 2..N /\ lo \in 1..(N - w + 1) /\ old \in 1..(w - 1)
  /\ k = SplitPoint(w) /\ len \in Nat /\ len >= 1
  /\ old <= k => /\ path[len] = t[w - k][lo + k]
                 /\ at[len - 1][old][k] = Hashes(t[old][lo], t[k][lo])
  /\ old > k => /\ path[len] = t[k][lo]
                /\ at[len - 1][old - k][w - k]
                   = Hashes(t[old - k][lo + k], t[w - k][lo + k])

LEMMA LeadsHalfway ==
  ASSUME NEW at, NEW path, NEW len, NEW k, NEW t, NEW x, NEW N, NEW w, NEW lo, NEW old,
         HalfLeads(at, path, len, k, t, x, N, w, lo, old)
  PROVE  Found(at, old, w, len, path) = Hashes(t[old][lo], t[w][lo])
<1> USE DEF HalfLeads
<1>1. k \in 1..(w - 1) /\ w \in 1..N /\ w >= 2 /\ w \in Nat /\ old \in Nat /\ old # w
      /\ len # 0
  <2>1. k \in 1..(w - 1)
    BY PartsFit
  <2> QED
    BY <2>1
<1>2. t[w][lo] = Node(t[k][lo], t[w - k][lo + k])
  <2>1. t[w][lo] = Parts(t, w, lo)
    BY <1>1, ForestNode
  <2> QED
    BY <2>1 DEF Parts
<1>3. CASE old <= k
  <2>1. Sub(at, old, w, len) = Hashes(t[old][lo], t[k][lo])
    BY <1>3 DEF Sub
  <2>2. Found(at, old, w, len, path) = Hashes(t[old][lo], Node(t[k][lo], path[len]))
    BY <1>1, <1>3, <2>1 DEF Found, Hashes
  <2> QED
    BY <1>2, <1>3, <2>2
<1>4. CASE old > k
  <2>0. ~ (old <= k)
    BY <1>1, <1>4
  <2>1. Sub(at, old, w, len) = Hashes(t[old - k][lo + k], t[w - k][lo + k])
    BY <1>4, <2>0 DEF Sub
  <2>2. Found(at, old, w, len, path)
        = Hashes(Node(path[len], t[old - k][lo + k]), Node(path[len], t[w - k][lo + k]))
    BY <1>1, <2>0, <2>1 DEF Found, Hashes
  <2>3. SplitPoint(old) = k
    <3>1. k < old /\ old <= w
      BY <1>1, <1>4
    <3> QED
      BY <1>1, <3>1, SplitIsShared
  <2>4. t[old][lo] = Node(t[k][lo], t[old - k][lo + k])
    <3>1. old \in 1..N /\ lo \in 1..(N - old + 1) /\ old >= 2
      BY <1>1, <1>4
    <3>2. t[old][lo] = Parts(t, old, lo)
      BY <3>1, ForestNode
    <3> QED
      BY <2>3, <3>2 DEF Parts
  <2> QED
    BY <1>2, <1>4, <2>2, <2>4
<1> QED
  BY <1>1, <1>3, <1>4

\* The first hashes of the proof are the way q.
Starts(path, q) == Len(q) <= Len(path) /\ \A i \in 1..Len(q) : path[i] = q[i]

LEMMA StartsShorter ==
  ASSUME NEW path, Len(path) \in Nat, NEW q, IsSeq(q), NEW e, Starts(path, Append(q, e))
  PROVE  /\ Starts(path, q) /\ path[Len(q) + 1] = e
         /\ Len(Append(q, e)) = Len(q) + 1 /\ Len(q) \in Nat /\ Len(q) + 1 <= Len(path)
<1>1. /\ Len(Append(q, e)) = Len(q) + 1 /\ Len(q) \in Nat
      /\ \A i \in 1..Len(q) : Append(q, e)[i] = q[i]
      /\ Append(q, e)[Len(q) + 1] = e
  BY AppendIsSeq, LenOfSeq
<1> DEFINE r == Append(q, e)
<1>2. Len(r) <= Len(path) /\ \A i \in 1..Len(r) : path[i] = r[i]
  BY DEF Starts
<1> HIDE DEF r
<1>3. Len(r) = Len(q) + 1 /\ r[Len(q) + 1] = e /\ \A i \in 1..Len(q) : r[i] = q[i]
  BY <1>1 DEF r
<1>4. path[Len(q) + 1] = e
  BY <1>1, <1>2, <1>3
<1>5. Starts(path, q)
  BY <1>1, <1>2, <1>3 DEF Starts
<1> QED
  BY <1>1, <1>2, <1>3, <1>4, <1>5 DEF r

LedAt(at, t, w, lo, old, p) ==
  at[Len(p[w][lo][old])][old][w] = Hashes(t[old][lo], t[w][lo])

LEMMA NodesAreComplete ==
  ASSUME NEW N \in Nat, NEW x, NEW t, Forest(t, x, N), NEW p, Trails(p, t, N, FALSE),
         NEW m0 \in Nat, NEW n0 \in Nat, NEW path, Len(path) \in Nat,
         NEW at, Halving(at, m0, n0, path),
         NEW w0 \in 1..N, NEW lo0 \in 1..(N - w0 + 1), NEW old0 \in 1..w0,
         old0 <= m0, w0 <= n0, Starts(path, p[w0][lo0][old0])
  PROVE  LedAt(at, t, w0, lo0, old0, p)
<1> DEFINE Leads(w) ==
             \A lo \in 1..(N - w + 1), old \in 1..w :
               old <= m0 /\ w <= n0 /\ Starts(path, p[w][lo][old])
               => at[Len(p[w][lo][old])][old][w] = Hashes(t[old][lo], t[w][lo])
           T == {w \in Nat : w \in 1..N => Leads(w)}
<1>0. \A w \in 1..N : \A lo \in 1..(N - w + 1), old \in 1..w :
        TrailAt(p, t, FALSE, w, lo, old)
  BY TrailsNode
<1>1. ASSUME NEW w \in Nat, \A k \in 0..(w - 1) : k \in T
      PROVE  w \in T
  <2>1. ASSUME w \in 1..N, NEW lo \in 1..(N - w + 1), NEW old \in 1..w,
               old <= m0, w <= n0, Starts(path, p[w][lo][old])
        PROVE  at[Len(p[w][lo][old])][old][w] = Hashes(t[old][lo], t[w][lo])
    <3> HIDE DEF T
    <3>1. old \in 1..m0 /\ w \in 1..n0
      BY <2>1
    <3>2. CASE old = w
      <4>1. p[w][lo][old] = <<t[w][lo]>>
        BY <1>0, <2>1, <3>2 DEF TrailAt, FirstNode
      <4>2. PICK e : e = t[w][lo]
        OBVIOUS
      <4>3. Len(<<e>>) = 1 /\ <<e>>[1] = e
        BY OneIsSeq
      <4>4. Len(p[w][lo][old]) = 1 /\ path[1] = e /\ 1 \in 0..Len(path)
        <5>1. Starts(path, <<e>>)
          BY <2>1, <4>1, <4>2
        <5> QED
          BY <4>1, <4>2, <4>3, <5>1 DEF Starts
      <4>5. at[1][old][w] = Found(at, old, w, 1, path)
        <5>1. FoundAt(at, old, w, 1, path)
          BY <3>1, <4>4, HalvingNode
        <5> QED
          BY <5>1 DEF FoundAt
      <4>6. Found(at, old, w, 1, path) = Hashes(e, e)
        BY <3>2, <4>4 DEF Found
      <4> QED
        BY <3>2, <4>2, <4>4, <4>5, <4>6
    <3>3. CASE old # w
      <4>1. PICK k : k = SplitPoint(w)
        OBVIOUS
      <4>2. w \in 2..N /\ old \in 1..(w - 1)
        BY <2>1, <3>3
      <4>3. /\ k \in 1..(w - 1) /\ w - k \in 1..(w - 1) /\ k \in 1..N /\ w - k \in 1..N
            /\ lo \in 1..(N - k + 1) /\ lo + k \in 1..(N - (w - k) + 1)
        BY <2>1, <4>1, <4>2, PartsFit
      <4>4. p[w][lo][old] = IF old <= k THEN Append(p[k][lo][old], t[w - k][lo + k])
                            ELSE Append(p[w - k][lo + k][old - k], t[k][lo])
        <5>1. p[w][lo][old] = Extended(p, t, w, lo, old)
          <6>1. w \in 1..N /\ lo \in 1..(N - w + 1) /\ old \in 1..w
            BY <2>1
          <6> QED
            BY <1>0, <3>3, <6>1 DEF TrailAt
        <5> QED
          BY <4>1, <5>1 DEF Extended
      <4>5. k \in 0..(w - 1) /\ w - k \in 0..(w - 1)
        BY <4>3
      <4>6. Leads(k) /\ Leads(w - k)
        <5>1. k \in T /\ w - k \in T
          BY <1>1, <4>5
        <5> HIDE DEF Leads
        <5> QED
          BY <4>3, <5>1 DEF T
      <4>7. CASE old <= k
        <5>1. PICK q : q = p[k][lo][old]
          OBVIOUS
        <5>2. PICK e : e = t[w - k][lo + k]
          OBVIOUS
        <5>3. p[w][lo][old] = Append(q, e)
          BY <4>4, <4>7, <5>1, <5>2
        <5>4. old \in 1..k /\ k <= n0
          BY <2>1, <4>3, <4>7
        <5>5. IsSeq(q)
          <6>1. SeqAt(p, FALSE, k, lo, old)
            BY <4>3, <5>1, <5>4, TrailsAreSeqs
          <6> QED
            BY <5>1, <6>1 DEF SeqAt
        <5>6. /\ Starts(path, q) /\ path[Len(q) + 1] = e
              /\ Len(Append(q, e)) = Len(q) + 1 /\ Len(q) \in Nat /\ Len(q) + 1 <= Len(path)
          <6>1. Starts(path, Append(q, e))
            BY <2>1, <5>3
          <6> QED
            BY <5>5, <6>1, StartsShorter
        <5>7. at[Len(q)][old][k] = Hashes(t[old][lo], t[k][lo])
          BY <2>1, <4>3, <4>6, <5>1, <5>4, <5>6
        <5>8. PICK len : len = Len(q) + 1
          OBVIOUS
        <5>9. len \in Nat /\ len >= 1 /\ len - 1 = Len(q) /\ len \in 0..Len(path)
          BY <5>6, <5>8
        <5>10. Found(at, old, w, len, path) = Hashes(t[old][lo], t[w][lo])
          <6>1. ~ (old > k)
            BY <4>3, <4>7
          <6>2. path[len] = t[w - k][lo + k] /\ at[len - 1][old][k] = Hashes(t[old][lo], t[k][lo])
            BY <5>2, <5>6, <5>7, <5>8, <5>9
          <6>3. lo \in 1..(N - w + 1)
            BY <2>1
          <6> QED
            <7>1. HalfLeads(at, path, len, k, t, x, N, w, lo, old)
              BY <4>1, <4>2, <5>9, <6>1, <6>2, <6>3 DEF HalfLeads
            <7> QED
              BY <7>1, LeadsHalfway
        <5>11. at[len][old][w] = Found(at, old, w, len, path)
          <6>1. FoundAt(at, old, w, len, path)
            BY <3>1, <5>9, HalvingNode
          <6> QED
            BY <6>1 DEF FoundAt
        <5> QED
          BY <5>3, <5>6, <5>8, <5>10, <5>11
      <4>8. CASE old > k
        <5>1. PICK q : q = p[w - k][lo + k][old - k]
          OBVIOUS
        <5>2. PICK e : e = t[k][lo]
          OBVIOUS
        <5>0. ~ (old <= k)
          BY <4>3, <4>8
        <5>3. p[w][lo][old] = Append(q, e)
          BY <4>4, <5>0, <5>1, <5>2
        <5>4. old - k \in 1..(w - k) /\ w - k <= n0 /\ old - k <= m0
          BY <2>1, <4>2, <4>3, <4>8
        <5>5. IsSeq(q)
          <6>1. SeqAt(p, FALSE, w - k, lo + k, old - k)
            BY <4>3, <5>1, <5>4, TrailsAreSeqs
          <6> QED
            BY <5>1, <6>1 DEF SeqAt
        <5>6. /\ Starts(path, q) /\ path[Len(q) + 1] = e
              /\ Len(Append(q, e)) = Len(q) + 1 /\ Len(q) \in Nat /\ Len(q) + 1 <= Len(path)
          <6>1. Starts(path, Append(q, e))
            BY <2>1, <5>3
          <6> QED
            BY <5>5, <6>1, StartsShorter
        <5>7. at[Len(q)][old - k][w - k] = Hashes(t[old - k][lo + k], t[w - k][lo + k])
          BY <2>1, <4>3, <4>6, <5>1, <5>4, <5>6
        <5>8. PICK len : len = Len(q) + 1
          OBVIOUS
        <5>9. len \in Nat /\ len >= 1 /\ len - 1 = Len(q) /\ len \in 0..Len(path)
          BY <5>6, <5>8
        <5>10. Found(at, old, w, len, path) = Hashes(t[old][lo], t[w][lo])
          <6>2. /\ path[len] = t[k][lo]
                /\ at[len - 1][old - k][w - k]
                   = Hashes(t[old - k][lo + k], t[w - k][lo + k])
            BY <5>2, <5>6, <5>7, <5>8, <5>9
          <6>3. lo \in 1..(N - w + 1)
            BY <2>1
          <6> QED
            <7>1. HalfLeads(at, path, len, k, t, x, N, w, lo, old)
              BY <4>1, <4>2, <5>0, <5>9, <6>2, <6>3 DEF HalfLeads
            <7> QED
              BY <7>1, LeadsHalfway
        <5>11. at[len][old][w] = Found(at, old, w, len, path)
          <6>1. FoundAt(at, old, w, len, path)
            BY <3>1, <5>9, HalvingNode
          <6> QED
            BY <6>1 DEF FoundAt
        <5> QED
          BY <5>3, <5>6, <5>8, <5>10, <5>11
      <4>9. old <= k \/ old > k
        BY <4>2, <4>3
      <4> HIDE DEF Leads
      <4> QED
        BY <4>7, <4>8, <4>9
    <3> QED
      BY <3>2, <3>3
  <2> QED
    BY <2>1
<1> HIDE DEF T
<1>2. w0 \in T
  BY <1>1, StrongInduction
<1>3. Leads(w0)
  BY <1>2 DEF T
<1> QED
  BY <1>3 DEF LedAt

LEMMA OneLess ==
  ASSUME NEW a, NEW b \in Nat, a = b + 1, NEW len \in Nat, len < a
  PROVE  len - 1 < b
  OBVIOUS

\* A proof of fewer hashes than the way has, whatever they are, is used up
\* before the check arrives.
RaisedAt(at, len, m, n) == at[len][m][n] = Raised

LEMMA NodesRaiseEarly ==
  ASSUME NEW N \in Nat, NEW t, NEW p, Trails(p, t, N, FALSE),
         NEW m0 \in Nat, NEW n0 \in Nat, NEW path, Len(path) \in Nat,
         NEW at, Halving(at, m0, n0, path),
         NEW w0 \in 1..N, NEW lo0 \in 1..(N - w0 + 1), NEW old0 \in 1..w0,
         old0 <= m0, w0 <= n0,
         NEW len0 \in 0..Len(path), len0 < Len(p[w0][lo0][old0])
  PROVE  RaisedAt(at, len0, old0, w0)
<1> DEFINE Stops(w) ==
             \A lo \in 1..(N - w + 1), old \in 1..w, len \in 0..Len(path) :
               old <= m0 /\ w <= n0 /\ len < Len(p[w][lo][old]) => at[len][old][w] = Raised
           T == {w \in Nat : w \in 1..N => Stops(w)}
<1>1. ASSUME NEW w \in Nat, \A k \in 0..(w - 1) : k \in T
      PROVE  w \in T
  <2> SUFFICES ASSUME w \in 1..N, NEW lo \in 1..(N - w + 1), NEW old \in 1..w,
                      NEW len \in 0..Len(path),
                      old <= m0, w <= n0, len < Len(p[w][lo][old])
               PROVE  at[len][old][w] = Raised
    OBVIOUS
  <2> HIDE DEF T
  <2>0. TrailAt(p, t, FALSE, w, lo, old)
    BY TrailsNode
  <2>1. at[len][old][w] = Found(at, old, w, len, path)
    <3>1. old \in 1..m0 /\ w \in 1..n0
      OBVIOUS
    <3>2. FoundAt(at, old, w, len, path)
      BY <3>1, HalvingNode
    <3> QED
      BY <3>2 DEF FoundAt
  <2>2. CASE len = 0
    BY <2>1, <2>2 DEF Found
  <2>3. CASE len # 0
    <3>1. old # w
      <4> SUFFICES ASSUME old = w PROVE FALSE
        OBVIOUS
      <4>1. p[w][lo][old] = <<t[w][lo]>>
        BY <2>0 DEF TrailAt, FirstNode
      <4>2. \A e : Len(<<e>>) = 1
        BY OneIsSeq
      <4>3. Len(p[w][lo][old]) = 1
        BY <4>1, <4>2, Zenon
      <4> QED
        BY <2>3, <4>3
    <3>2. PICK k : k = SplitPoint(w)
      OBVIOUS
    <3>3. w \in 2..N /\ old \in 1..(w - 1)
      BY <3>1
    <3>4. /\ k \in 1..(w - 1) /\ w - k \in 1..(w - 1) /\ k \in 1..N /\ w - k \in 1..N
          /\ lo \in 1..(N - k + 1) /\ lo + k \in 1..(N - (w - k) + 1)
      BY <3>2, <3>3, PartsFit
    <3>5. p[w][lo][old] = IF old <= k THEN Append(p[k][lo][old], t[w - k][lo + k])
                          ELSE Append(p[w - k][lo + k][old - k], t[k][lo])
      <4>1. p[w][lo][old] = Extended(p, t, w, lo, old)
        BY <2>0, <3>1 DEF TrailAt
      <4> QED
        BY <3>2, <4>1 DEF Extended
    <3>6. Stops(k) /\ Stops(w - k)
      <4>1. k \in 0..(w - 1) /\ w - k \in 0..(w - 1)
        BY <3>4
      <4>2. k \in T /\ w - k \in T
        BY <1>1, <4>1
      <4> HIDE DEF Stops
      <4> QED
        BY <3>4, <4>2 DEF T
    <3>7. len - 1 \in 0..Len(path) /\ len \in Nat
      BY <2>3
    <3>8. Sub(at, old, w, len) = Raised
      <4>1. CASE old <= k
        <5>1. old \in 1..k /\ k <= n0
          BY <3>3, <3>4, <4>1
        <5>2. IsSeq(p[k][lo][old])
          <6>1. SeqAt(p, FALSE, k, lo, old)
            BY <3>4, <5>1, TrailsAreSeqs
          <6> QED
            BY <6>1 DEF SeqAt
        <5>3. Len(p[w][lo][old]) = Len(p[k][lo][old]) + 1 /\ Len(p[k][lo][old]) \in Nat
          BY <3>5, <4>1, <5>2, AppendIsSeq, LenOfSeq
        <5>4. len - 1 < Len(p[k][lo][old])
          BY <3>7, <5>3, OneLess, Zenon
        <5>5. at[len - 1][old][k] = Raised
          BY <3>4, <3>6, <3>7, <5>1, <5>4
        <5> QED
          BY <3>2, <4>1, <5>5 DEF Sub
      <4>2. CASE ~ (old <= k)
        <5>1. old - k \in 1..(w - k) /\ w - k <= n0 /\ old - k <= m0
          BY <3>3, <3>4, <4>2
        <5>2. IsSeq(p[w - k][lo + k][old - k])
          <6>1. SeqAt(p, FALSE, w - k, lo + k, old - k)
            BY <3>4, <5>1, TrailsAreSeqs
          <6> QED
            BY <6>1 DEF SeqAt
        <5>3. /\ Len(p[w][lo][old]) = Len(p[w - k][lo + k][old - k]) + 1
              /\ Len(p[w - k][lo + k][old - k]) \in Nat
          BY <3>5, <4>2, <5>2, AppendIsSeq, LenOfSeq
        <5>4. len - 1 < Len(p[w - k][lo + k][old - k])
          BY <3>7, <5>3, OneLess, Zenon
        <5>5. at[len - 1][old - k][w - k] = Raised
          BY <3>4, <3>6, <3>7, <5>1, <5>4
        <5> QED
          BY <3>2, <4>2, <5>5 DEF Sub
      <4> QED
        BY <4>1, <4>2
    <3>9. Found(at, old, w, len, path) = Raised
      <4>1. Raised.raised
        BY DEF Raised
      <4> QED
        BY <2>3, <3>1, <3>8, <4>1 DEF Found
    <3> QED
      BY <2>1, <3>9
  <2> QED
    BY <2>2, <2>3
<1> HIDE DEF T
<1>2. w0 \in T
  BY <1>1, StrongInduction
<1>3. Stops(w0)
  BY <1>2 DEF T
<1> QED
  BY <1>3 DEF RaisedAt

(***************************************************************************)
(* The continuity log.                                                      *)
(***************************************************************************)
LEMMA EntriesLen ==
  ASSUME NEW f, NEW s \in Nat
  PROVE  /\ Len(Entries(f, s)) = s
         /\ \A n \in 1..s : Entries(f, s)[n] = IF n <= f THEN ReceiptHash(n) ELSE <<"other", n>>
<1>1. Entries(f, s) = [n \in 1..s |-> IF n <= f THEN ReceiptHash(n) ELSE <<"other", n>>]
  BY DEF Entries
<1>2. Len(Entries(f, s)) = s
  BY <1>1
<1>3. \A n \in 1..s : Entries(f, s)[n] = IF n <= f THEN ReceiptHash(n) ELSE <<"other", n>>
  BY <1>1
<1> QED
  BY <1>2, <1>3

\* The tree over the log of s receipts.
LEMMA LogIsAForest ==
  ASSUME NEW f, NEW s \in Nat
  PROVE  /\ Forest(Subtrees(Entries(f, s)), LeavesOver(Entries(f, s)), s)
         /\ Root(f, s) = Subtrees(Entries(f, s))[s][1]
         /\ \A n \in 1..s : LeavesOver(Entries(f, s))[n] = Leaf(Entries(f, s)[n])
<1>1. Len(Entries(f, s)) = s
  BY EntriesLen
<1>2. Forest(Subtrees(Entries(f, s)), LeavesOver(Entries(f, s)), s)
  BY <1>1, SubtreesAreAForest
<1>3. Root(f, s) = Subtrees(Entries(f, s))[s][1]
  BY <1>1 DEF Root, MerkleRoot
<1>4. \A n \in 1..s : LeavesOver(Entries(f, s))[n] = Leaf(Entries(f, s)[n])
  BY <1>1 DEF LeavesOver
<1> QED
  BY <1>2, <1>3, <1>4

\* The proof the log gives out is a trail through its tree.
ProofTrail(f, m, n, q) ==
  /\ Trails(q, Subtrees(Entries(f, n)), n, TRUE)
  /\ ConsistencyProof(f, m, n) = q[n][1][m]

LEMMA ConsistencyProofIs ==
  ASSUME NEW f, NEW n \in Nat, NEW m \in 1..n
  PROVE  \E q : ProofTrail(f, m, n, q)
<1> DEFINE t == Subtrees(Entries(f, n))
           Own(q) == q = [width \in 1..n |-> [lo \in 1..(n - width + 1) |->
                            [old \in 1..width |->
                               IF old = width
                               THEN (IF lo = 1 THEN <<>> ELSE <<t[width][lo]>>)
                               ELSE Extended(q, t, width, lo, old)]]]
<1>0. \E q : Trails(q, t, n, TRUE)
  <2> HIDE DEF t
  <2> QED
    BY TrailsExist
<1>1. ASSUME NEW q
      PROVE  Trails(q, t, n, TRUE) <=> Own(q)
  BY Zenon DEF Trails, FirstNode
<1>2. \E q : Own(q)
  <2> HIDE DEF Own, t
  <2> QED
    BY <1>0, <1>1
<1>3. ConsistencyProof(f, m, n) = IF m = 0 THEN <<>> ELSE (CHOOSE q : Own(q))[n][1][m]
  BY Zenon DEF ConsistencyProof, Extended
<1>4. PICK q : q = CHOOSE r : Own(r)
  OBVIOUS
<1>5. Own(q)
  <2> HIDE DEF Own
  <2> QED
    BY <1>2, <1>4
<1>6. Trails(q, t, n, TRUE)
  <2> HIDE DEF Own, t
  <2> QED
    BY <1>1, <1>5
<1>7. ConsistencyProof(f, m, n) = q[n][1][m]
  <2> HIDE DEF Own
  <2>1. m # 0
    OBVIOUS
  <2> QED
    BY <1>3, <1>4, <2>1
<1> QED
  <2> HIDE DEF t, Own
  <2>1. t = Subtrees(Entries(f, n))
    BY DEF t
  <2> QED
    BY <1>6, <1>7, <2>1, Zenon DEF ProofTrail

\* The proof from the empty log, or from the whole one, is empty.
LEMMA NothingToShow ==
  ASSUME NEW f, NEW n \in Nat, NEW m \in {0, n}
  PROVE  ConsistencyProof(f, m, n) = <<>> /\ CompletedProof(f, m, n) = <<>>
<1>1. ConsistencyProof(f, m, n) = <<>>
  <2>1. CASE m = 0
    BY <2>1, Zenon DEF ConsistencyProof
  <2>2. CASE m # 0
    <3>1. m = n /\ m \in 1..n /\ n \in 1..n /\ 1 \in 1..(n - n + 1)
      BY <2>2
    <3>2. PICK t : t = Subtrees(Entries(f, n))
      OBVIOUS
    <3>3. PICK q : Trails(q, t, n, TRUE) /\ ConsistencyProof(f, m, n) = q[n][1][m]
      <4>1. \E q : ProofTrail(f, m, n, q)
        BY <3>1, ConsistencyProofIs
      <4> QED
        BY <3>2, <4>1 DEF ProofTrail
    <3>4. TrailAt(q, t, TRUE, n, 1, m)
      BY <3>1, <3>3, TrailsNode
    <3> QED
      BY <3>1, <3>3, <3>4 DEF TrailAt, FirstNode
  <2> QED
    BY <2>1, <2>2
<1>2. ~ IsSubtree(m, n)
  <2>1. m \notin 1..(n - 1)
    OBVIOUS
  <2> QED
    BY <2>1 DEF IsSubtree
<1> QED
  BY <1>1, <1>2 DEF CompletedProof

\* An older log is the beginning of the tree.
LEMMA OldRootIs ==
  ASSUME NEW f, NEW n \in Nat, NEW m \in 1..n
  PROVE  Root(f, m) = Subtrees(Entries(f, n))[m][1]
<1>1. PICK x, y, t, u : /\ x = LeavesOver(Entries(f, m)) /\ y = LeavesOver(Entries(f, n))
                        /\ t = Subtrees(Entries(f, m)) /\ u = Subtrees(Entries(f, n))
  OBVIOUS
<1>2. m \in Nat
  OBVIOUS
<1>3. /\ Forest(t, x, m) /\ Forest(u, y, n) /\ Root(f, m) = t[m][1]
      /\ \A i \in 1..m : x[i] = Leaf(Entries(f, m)[i])
      /\ \A i \in 1..n : y[i] = Leaf(Entries(f, n)[i])
  BY <1>1, <1>2, LogIsAForest
<1>4. ASSUME NEW i \in 0..(m - 1)
      PROVE  x[1 + i] = y[1 + i]
  <2>1. 1 + i \in 1..m /\ 1 + i \in 1..n
    OBVIOUS
  <2>2. Entries(f, m)[1 + i] = Entries(f, n)[1 + i]
    BY <2>1 DEF Entries
  <2> QED
    BY <1>3, <2>1, <2>2
<1>5. m \in 1..m /\ m \in 1..n /\ 1 \in 1..(m - m + 1) /\ 1 \in 1..(n - m + 1)
  OBVIOUS
<1>6. t[m][1] = u[m][1]
  BY <1>2, <1>3, <1>4, <1>5, SameNodesSameRoot
<1> QED
  BY <1>1, <1>3, <1>6

\* Completed with the old root it is the trail whose first node is never left
\* out.
CompletedTrail(f, m, n, t, p) ==
  /\ Trails(p, t, n, FALSE)
  /\ CompletedProof(f, m, n) = p[n][1][m]
  /\ IsSeq(p[n][1][m]) /\ Len(p[n][1][m]) >= 1
  /\ IsSubtree(m, n) => Len(p[n][1][m]) = Len(ConsistencyProof(f, m, n)) + 1

LEMMA CompletedProofIs ==
  ASSUME NEW f, NEW n \in Nat, NEW m \in 1..(n - 1),
         NEW t, t = Subtrees(Entries(f, n))
  PROVE  \E p : CompletedTrail(f, m, n, t, p)
<1>1. m \in 1..n /\ n \in 1..n /\ 1 \in 1..(n - n + 1) /\ m # n
  OBVIOUS
<1>2. PICK q : Trails(q, t, n, TRUE) /\ ConsistencyProof(f, m, n) = q[n][1][m]
  <2>1. \E q : ProofTrail(f, m, n, q)
    BY <1>1, ConsistencyProofIs
  <2> QED
    BY <2>1 DEF ProofTrail
<1>3. PICK p : Trails(p, t, n, FALSE)
  BY TrailsExist
<1>4. SamePath(p, q, t, n, 1, m)
  BY <1>1, <1>2, <1>3, TrailsDifferByTheFirstNode
<1>5. IsSubtree(m, n) <=> SplitPoint(m + 1) = m
  BY DEF IsSubtree
<1>6. Root(f, m) = t[m][1]
  BY <1>1, OldRootIs
<1>7. CompletedProof(f, m, n) = p[n][1][m]
  BY <1>1, <1>2, <1>4, <1>5, <1>6 DEF SamePath, CompletedProof
<1>8. IsSeq(p[n][1][m]) /\ Len(p[n][1][m]) >= 1
  <2>1. SeqAt(p, FALSE, n, 1, m)
    BY <1>1, <1>3, TrailsAreSeqs
  <2> QED
    BY <2>1 DEF SeqAt
<1>9. ASSUME IsSubtree(m, n)
      PROVE  Len(p[n][1][m]) = Len(q[n][1][m]) + 1
  <2>1. p[n][1][m] = <<t[m][1]>> \o q[n][1][m]
    BY <1>4, <1>5, <1>9 DEF SamePath
  <2>2. IsSeq(q[n][1][m])
    <3>1. SeqAt(q, TRUE, n, 1, m)
      BY <1>1, <1>2, TrailsAreSeqs
    <3> QED
      BY <3>1 DEF SeqAt
  <2> QED
    BY <2>1, <2>2, ConsIsSeq
<1> QED
  BY <1>2, <1>3, <1>7, <1>8, <1>9 DEF CompletedTrail

LEMMA ProofsAreSeqs ==
  ASSUME NEW f, NEW n \in Nat, NEW m \in 0..n
  PROVE  IsSeq(ConsistencyProof(f, m, n)) /\ IsSeq(CompletedProof(f, m, n))
<1>1. CASE m \in {0, n}
  BY <1>1, NothingToShow, EmptyIsSeq
<1>2. CASE m \notin {0, n}
  <2>1. m \in 1..(n - 1) /\ m \in 1..n
    BY <1>2
  <2>2. PICK t : t = Subtrees(Entries(f, n))
    OBVIOUS
  <2>3. PICK q : Trails(q, t, n, TRUE) /\ ConsistencyProof(f, m, n) = q[n][1][m]
    <3>1. \E q : ProofTrail(f, m, n, q)
      BY <2>1, ConsistencyProofIs
    <3> QED
      BY <2>2, <3>1 DEF ProofTrail
  <2>4. n \in 1..n /\ 1 \in 1..(n - n + 1)
    BY <2>1
  <2>5. IsSeq(ConsistencyProof(f, m, n))
    <3>1. SeqAt(q, TRUE, n, 1, m)
      BY <2>1, <2>3, <2>4, TrailsAreSeqs
    <3> QED
      BY <2>3, <3>1 DEF SeqAt
  <2>6. IsSeq(CompletedProof(f, m, n))
    <3>1. \E p : CompletedTrail(f, m, n, t, p)
      BY <2>1, <2>2, CompletedProofIs
    <3> QED
      BY <3>1 DEF CompletedTrail
  <2> QED
    BY <2>5, <2>6
<1> QED
  BY <1>1, <1>2

LEMMA BentIsSeq ==
  ASSUME NEW proof, IsSeq(proof), NEW bent \in Bent(proof)
  PROVE  IsSeq(bent)
<1>1. CASE proof = <<>>
  BY <1>1 DEF Bent
<1>2. CASE proof # <<>>
  <2>1. PICK A : proof \in Seq(A)
    BY DEF IsSeq
  <2>2. Tail(proof) \in Seq(A)
    BY <1>2, <2>1, HeadTailProperties
  <2>3. SubSeq(proof, 1, Len(proof) - 1) \in Seq(A)
    <3>1. Len(proof) \in Nat /\ \A i \in 1..Len(proof) : proof[i] \in A
      BY <2>1
    <3>2. 1 \in Int /\ Len(proof) - 1 \in Int /\ \A i \in 1..(Len(proof) - 1) : proof[i] \in A
      BY <3>1
    <3> QED
      BY <3>2, SubSeqProperties
  <2>4. IsSeq(<<proof[1]>> \o proof)
    BY ConsIsSeq
  <2> QED
    BY <1>2, <2>1, <2>2, <2>3, <2>4 DEF Bent, IsSeq
<1> QED
  BY <1>1, <1>2

(***************************************************************************)
(* The inductive invariant of the log: whatever parts a bundle is made of,  *)
(* its head was signed for some log, its sizes are numbers and its paths    *)
(* are sequences; and the verdict is the one on this bundle.                *)
(***************************************************************************)
Signed(checkpoint) ==
  \E f \in Forks, s \in Nat :
    /\ s >= 1 /\ s <= MaxLog /\ checkpoint.sth.tree_size = s
    /\ checkpoint.signature.over = [tree_size |-> s, root_hash |-> Root(f, s)]

WholeConsistency(c) ==
  c.old_tree_size \in Nat /\ c.new_tree_size \in Nat /\ IsSeq(c.proof)

Whole(b) ==
  /\ b.receipt \in Nat /\ b.receipt >= 1
  /\ Signed(b.checkpoint)
  /\ b.inclusion_proof # Absent => IsSeq(b.inclusion_proof.audit_path)
  /\ b.consistency_proof # Absent => WholeConsistency(b.consistency_proof)

LogIInv ==
  /\ size \in 0..MaxLog
  /\ bundle # Absent \/ vouched => Whole(bundle)
  /\ bundle # Absent \/ vouched => (vouched <=> Vouches(bundle))

LEMMA LogInitIInv == LogInit => LogIInv
<1> SUFFICES ASSUME LogInit PROVE LogIInv
  OBVIOUS
<1>1. 0 \in 0..MaxLog
  BY LogAssumption
<1> QED
  BY <1>1 DEF LogInit, LogIInv

\* Giving out parts that are whole.
LEMMA GiveKeepsIInv ==
  ASSUME LogIInv, NEW receipt, NEW checkpoint, NEW inclusion, NEW consistency,
         Give(receipt, checkpoint, inclusion, consistency),
         receipt \in Nat, receipt >= 1, Signed(checkpoint),
         inclusion # Absent => IsSeq(inclusion.audit_path),
         consistency # Absent => WholeConsistency(consistency)
  PROVE  LogIInv'
<1>1. PICK b : b = [receipt |-> receipt, checkpoint |-> checkpoint,
                    inclusion_proof |-> inclusion, consistency_proof |-> consistency]
  OBVIOUS
<1>2. Whole(b)
  BY <1>1 DEF Whole
<1>3. bundle' = b /\ vouched' = Vouches(b) /\ size' = size
  BY <1>1 DEF Give
<1>4. Whole(bundle') <=> Whole(b)
  BY <1>3
<1>5. Vouches(bundle') <=> Vouches(b)
  BY <1>3
<1>6. vouched' <=> Vouches(b)
  BY <1>3
<1> QED
  BY <1>2, <1>3, <1>4, <1>5, <1>6 DEF LogIInv

LEMMA HeadsAreSigned ==
  ASSUME NEW f \in Forks, NEW s \in Nat, s >= 1, s <= MaxLog, NEW key, NEW root
  PROVE  /\ Signed(SignedHead(f, s, key))
         /\ Signed([SignedHead(f, s, key) EXCEPT !.sth.root_hash = root])
<1>1. PICK h : h = [tree_size |-> s, root_hash |-> Root(f, s)]
  OBVIOUS
<1>2. SignedHead(f, s, key)
      = [sth |-> h, signature |-> [over |-> h, by |-> key], sth_public_key_hex |-> key]
  BY <1>1 DEF SignedHead
<1>3. Signed(SignedHead(f, s, key))
  BY <1>1, <1>2 DEF Signed
<1>4. PICK c : c = [SignedHead(f, s, key) EXCEPT !.sth.root_hash = root]
  OBVIOUS
<1>5. c.sth.tree_size = s /\ c.signature.over = h
  BY <1>1, <1>2, <1>4
<1>6. Signed(c)
  BY <1>1, <1>5 DEF Signed
<1> QED
  BY <1>3, <1>4, <1>6

LEMMA InclusionsAreWhole ==
  ASSUME NEW f, NEW s \in Nat, s >= 1, NEW n
  PROVE  IsSeq(Inclusion(n, f, s).audit_path)
<1>1. Len(Entries(f, s)) = s
  BY EntriesLen
<1>2. PICK index : index = n - 1
  OBVIOUS
<1>3. IsSeq(AuditPath(Entries(f, s), index))
  BY <1>1, AuditPathIsSeq
<1>4. Inclusion(n, f, s).audit_path = AuditPath(Entries(f, s), index)
  BY <1>2 DEF Inclusion
<1> QED
  BY <1>3, <1>4

LEMMA LogNextIInv == LogIInv /\ [LogNext]_logvars => LogIInv'
<1> SUFFICES ASSUME LogIInv, [LogNext]_logvars PROVE LogIInv'
  OBVIOUS
<1>0. MaxLog \in Nat /\ MaxLog \in Forks /\ size \in Nat /\ size <= MaxLog
  BY LogAssumption DEF LogIInv, Forks
<1>1. CASE AppendReceipt
  <2>1. size' \in 0..MaxLog
    BY <1>0, <1>1 DEF AppendReceipt
  <2>2. bundle' = bundle /\ vouched' = vouched
    BY <1>1 DEF AppendReceipt
  <2> QED
    BY <2>1, <2>2 DEF LogIInv
<1>2. ASSUME NEW s \in 1..size, NEW n \in 1..s, NEW c \in HonestConsistency(s) \cup {Absent},
             GiveBundle(n, s, c)
      PROVE  LogIInv'
  <2>1. s \in Nat /\ s >= 1 /\ s <= MaxLog /\ n \in Nat /\ n >= 1
    BY <1>0
  <2>2. Give(n, SignedHead(MaxLog, s, HeadKey), Inclusion(n, MaxLog, s), c)
    BY <1>2 DEF GiveBundle
  <2>3. ASSUME c # Absent
        PROVE  WholeConsistency(c)
    <3>1. PICK m \in 0..s :
            c \in {Consistency(MaxLog, m, s, proof) : proof \in HonestProofs(m, s)}
      BY <2>3 DEF HonestConsistency
    <3>2. PICK proof \in HonestProofs(m, s) : c = Consistency(MaxLog, m, s, proof)
      BY <3>1
    <3>3. IsSeq(proof)
      BY <2>1, ProofsAreSeqs DEF HonestProofs
    <3> QED
      BY <2>1, <3>2, <3>3 DEF Consistency, WholeConsistency
  <2>4. Signed(SignedHead(MaxLog, s, HeadKey))
    BY <1>0, <2>1, HeadsAreSigned
  <2>5. IsSeq(Inclusion(n, MaxLog, s).audit_path)
    BY <2>1, InclusionsAreWhole
  <2> QED
    BY <2>1, <2>2, <2>3, <2>4, <2>5, GiveKeepsIInv
<1>3. ASSUME NEW f \in Forks, NEW other \in InclusionsOf({f, MaxLog}),
             NEW s \in 1..size, NEW n \in 1..size, GiveMixedInclusion(n, f, s, other)
      PROVE  LogIInv'
  <2>1. s \in Nat /\ s >= 1 /\ s <= MaxLog /\ n \in Nat /\ n >= 1
    BY <1>0
  <2>2. IsSeq(other.audit_path)
    <3>1. PICK r \in 1..size : other \in {Inclusion(i, g, r) : g \in {f, MaxLog}, i \in 1..r}
      BY DEF InclusionsOf
    <3>2. PICK g \in {f, MaxLog}, i \in 1..r : other = Inclusion(i, g, r)
      BY <3>1
    <3>3. r \in Nat /\ r >= 1
      BY <1>0
    <3> QED
      BY <3>2, <3>3, InclusionsAreWhole
  <2>3. ASSUME NEW key, Give(n, SignedHead(f, s, key), other, Absent)
        PROVE  LogIInv'
    <3>1. Signed(SignedHead(f, s, key))
      BY <2>1, HeadsAreSigned
    <3> QED
      BY <2>1, <2>2, <2>3, <3>1, GiveKeepsIInv
  <2>4. CASE Give(n, SignedHead(f, s, HeadKey), Absent, Absent)
    <3>1. Signed(SignedHead(f, s, HeadKey))
      BY <2>1, HeadsAreSigned
    <3> QED
      BY <2>1, <2>4, <3>1, GiveKeepsIInv
  <2>5. CASE Give(n, [SignedHead(f, s, HeadKey) EXCEPT !.sth.root_hash = other.sth_root],
                  other, Absent)
    <3>1. PICK c : c = [SignedHead(f, s, HeadKey) EXCEPT !.sth.root_hash = other.sth_root]
      OBVIOUS
    <3>2. Signed(c)
      BY <2>1, <3>1, HeadsAreSigned
    <3>3. Give(n, c, other, Absent)
      BY <2>5, <3>1
    <3> QED
      BY <2>1, <2>2, <3>2, <3>3, GiveKeepsIInv
  <2> QED
    BY <1>3, <2>3, <2>4, <2>5 DEF GiveMixedInclusion
<1>4. ASSUME NEW from, NEW to, NEW logs, NEW m \in 1..size, NEW n \in 1..size,
             NEW proof \in PathsOf(logs), GiveMixedConsistency(from, to, m, n, proof)
      PROVE  LogIInv'
  <2>1. m \in Nat /\ n \in Nat /\ size >= 1
    BY <1>0
  <2>2. IsSeq(proof)
    <3>1. PICK r \in 1..size :
            proof \in UNION {Bent(CompletedProof(f, i, r)) : f \in logs, i \in 1..r}
      BY DEF PathsOf
    <3>2. PICK f \in logs, i \in 1..r : proof \in Bent(CompletedProof(f, i, r))
      BY <3>1
    <3>3. r \in Nat /\ i \in 0..r
      BY <1>0
    <3>4. IsSeq(CompletedProof(f, i, r))
      BY <3>3, ProofsAreSeqs
    <3> QED
      BY <3>2, <3>4, BentIsSeq
  <2>3. PICK c : c = [old_tree_size |-> m, new_tree_size |-> n,
                      old_root |-> Root(from, m), new_root |-> Root(to, n), proof |-> proof]
    OBVIOUS
  <2>4. Give(1, SignedHead(MaxLog, size, HeadKey), Inclusion(1, MaxLog, size), c)
    BY <1>4, <2>3 DEF GiveMixedConsistency
  <2>5. WholeConsistency(c)
    BY <2>1, <2>2, <2>3 DEF WholeConsistency
  <2>6. Signed(SignedHead(MaxLog, size, HeadKey))
    BY <1>0, <2>1, HeadsAreSigned
  <2>7. IsSeq(Inclusion(1, MaxLog, size).audit_path)
    BY <1>0, <2>1, InclusionsAreWhole
  <2>8. 1 \in Nat /\ 1 >= 1
    OBVIOUS
  <2> QED
    BY <2>4, <2>5, <2>6, <2>7, <2>8, GiveKeepsIInv
<1>5. CASE UNCHANGED logvars
  BY <1>5 DEF logvars, LogIInv
<1>6. CASE GiveAny
  BY <1>2, <1>3, <1>4, <1>6 DEF GiveAny
<1> QED
  BY <1>1, <1>5, <1>6 DEF LogNext

LEMMA HeadIsSigned ==
  ASSUME LogIInv, vouched
  PROVE  \E f \in Forks, s \in Nat :
           s >= 1 /\ bundle.checkpoint.sth = [tree_size |-> s, root_hash |-> Root(f, s)]
<1>1. Whole(bundle) /\ HeadHolds(bundle.checkpoint)
  BY DEF LogIInv, Vouches
<1>2. bundle.checkpoint.signature.over = bundle.checkpoint.sth
  BY <1>1 DEF HeadHolds
<1> QED
  BY <1>1, <1>2 DEF Whole, Signed

LEMMA IInvReceiptInLog == LogIInv => TheReceiptIsInTheLog
<1> SUFFICES ASSUME LogIInv, vouched
             PROVE  \E f \in Forks :
                      LET sth == bundle.checkpoint.sth
                          place == bundle.inclusion_proof.entry_id + 1 IN
                      /\ sth.root_hash = Root(f, sth.tree_size)
                      /\ place <= sth.tree_size
                      /\ Entries(f, sth.tree_size)[place] = ReceiptHash(bundle.receipt)
  BY DEF TheReceiptIsInTheLog
<1>1. PICK f \in Forks, s \in Nat :
        s >= 1 /\ bundle.checkpoint.sth = [tree_size |-> s, root_hash |-> Root(f, s)]
  BY HeadIsSigned
<1>2. PICK sth : sth = bundle.checkpoint.sth
  OBVIOUS
<1>3. PICK p : p = bundle.inclusion_proof
  OBVIOUS
<1>4. sth.tree_size = s /\ sth.root_hash = Root(f, s)
  BY <1>1, <1>2
<1>5. InclusionHolds(bundle.receipt, p) /\ IsOfTheHead(p, sth) /\ p # Absent
  BY <1>2, <1>3 DEF LogIInv, Vouches
<1>6. IsSeq(p.audit_path)
  BY <1>3, <1>5 DEF LogIInv, Whole
<1>7. p.leaf_hash = Leaf(ReceiptHash(bundle.receipt))
  BY <1>5 DEF InclusionHolds
<1>8. PICK data : data = Entries(f, s)
  OBVIOUS
<1>9. Len(data) = s /\ Len(data) \in Nat /\ MerkleRoot(data) = Root(f, s)
  BY <1>8, EntriesLen DEF Root
<1>10. PathHolds(p.leaf_hash, p.entry_id, Len(data), p.audit_path, MerkleRoot(data))
  BY <1>4, <1>5, <1>9 DEF InclusionHolds, IsOfTheHead
<1>11. p.entry_id \in 0..(Len(data) - 1) /\ p.leaf_hash = Leaf(data[p.entry_id + 1])
  <2>1. Len(p.audit_path) \in Nat
    BY <1>6, LenOfSeq
  <2> QED
    BY <1>9, <1>10, <2>1, PathIsSound
<1>12. ReceiptHash(bundle.receipt) = data[p.entry_id + 1]
  BY <1>7, <1>11, LeafIsInjective
<1>13. p.entry_id + 1 <= s
  BY <1>9, <1>11
<1> QED
  BY <1>2, <1>3, <1>4, <1>8, <1>12, <1>13

\* What the check of two heads binds.
LEMMA ConsistencyIsSound ==
  ASSUME NEW c, c.old_tree_size \in Nat, c.new_tree_size \in Nat, IsSeq(c.proof),
         ConsistencyHolds(c), c.old_tree_size # 0, NEW f \in Forks, NEW g \in Forks,
         c.old_root = Root(f, c.old_tree_size), c.new_root = Root(g, c.new_tree_size)
  PROVE  Entries(f, c.old_tree_size) = Entries(g, c.old_tree_size)
<1>1. PICK m \in Nat : m = c.old_tree_size
  OBVIOUS
<1>2. PICK n \in Nat : n = c.new_tree_size
  OBVIOUS
<1>3. PICK path : path = c.proof
  OBVIOUS
<1>4. m # 0 /\ m <= n /\ c.old_root = Root(f, m) /\ c.new_root = Root(g, n)
  BY <1>1, <1>2 DEF ConsistencyHolds
<1>5. PICK x, y, t, u : /\ x = LeavesOver(Entries(f, m)) /\ y = LeavesOver(Entries(g, n))
                        /\ t = Subtrees(Entries(f, m)) /\ u = Subtrees(Entries(g, n))
  OBVIOUS
<1>6. /\ Forest(t, x, m) /\ Forest(u, y, n) /\ Root(f, m) = t[m][1] /\ Root(g, n) = u[n][1]
      /\ \A i \in 1..m : x[i] = Leaf(Entries(f, m)[i])
      /\ \A i \in 1..n : y[i] = Leaf(Entries(g, n)[i])
  BY <1>5, LogIsAForest
<1>7. \A i \in 0..(m - 1) : x[1 + i] = y[1 + i]
  <2>1. CASE m = n
    <3>1. c.old_root = c.new_root
      BY <1>1, <1>2, <1>4, <2>1 DEF ConsistencyHolds
    <3>2. SameTop(x, t, m, y, u, n, m, 1)
      BY <1>4, <1>6, <2>1, <3>1 DEF SameTop
    <3> QED
      BY <3>2, SameTopSameNodes
  <2>2. CASE m # n
    <3>1. PICK hashes : hashes = ConsistencyNodes(m, n, path)
      OBVIOUS
    <3>2. ~ hashes.raised /\ hashes.old = Root(f, m) /\ hashes.new = Root(g, n)
      BY <1>1, <1>2, <1>3, <1>4, <2>2, <3>1 DEF ConsistencyHolds
    <3>3. Len(path) \in Nat
      BY <1>3, LenOfSeq
    <3>4. PICK at : Halving(at, m, n, path) /\ hashes = at[Len(path)][m][n]
      BY <3>1, <3>3, ConsistencyNodesIs
    <3>5. SoundAt(at[Len(path)], x, t, m, y, u, n, m, n)
      BY <1>6, <3>3, <3>4, NodesAreSound
    <3>6. PICK row : row = at[Len(path)]
      OBVIOUS
    <3>7. /\ m \in 1..m /\ n \in 1..n /\ 1 \in Nat /\ m <= n /\ m <= m /\ n <= n
          /\ 1 <= 1 /\ 1 <= m - m + 1 /\ 1 <= n - n + 1
      BY <1>4
    <3>8. ~ row[m][n].raised /\ row[m][n].old = t[m][1] /\ row[m][n].new = u[n][1]
      BY <1>6, <3>2, <3>4, <3>6
    <3> QED
      BY <3>5, <3>6, <3>7, <3>8 DEF SoundAt
  <2> QED
    BY <2>1, <2>2
<1>8. ASSUME NEW i \in 1..m
      PROVE  Entries(f, m)[i] = Entries(g, m)[i]
  <2>1. i - 1 \in 0..(m - 1) /\ 1 + (i - 1) = i /\ i \in 1..n
    BY <1>4
  <2>2. x[i] = y[i]
    BY <1>7, <2>1
  <2>3. Leaf(Entries(f, m)[i]) = Leaf(Entries(g, n)[i])
    BY <1>6, <2>1, <2>2
  <2>4. Entries(f, m)[i] = Entries(g, n)[i]
    BY <2>3, LeafIsInjective
  <2>5. Entries(g, n)[i] = Entries(g, m)[i]
    BY <2>1 DEF Entries
  <2> QED
    BY <2>4, <2>5
<1>9. Entries(f, m) = Entries(g, m)
  <2>1. /\ Entries(f, m) = [i \in 1..m |-> Entries(f, m)[i]]
        /\ Entries(g, m) = [i \in 1..m |-> Entries(g, m)[i]]
    BY DEF Entries
  <2> QED
    BY <1>8, <2>1
<1> QED
  BY <1>1, <1>9

LEMMA IInvOneLog == LogIInv => ConsistentHeadsAreOneLog
<1> SUFFICES ASSUME LogIInv, NEW c, c = bundle.consistency_proof, vouched, c # Absent,
                    NEW f \in Forks, NEW g \in Forks, c.old_tree_size # 0,
                    c.old_root = Root(f, c.old_tree_size),
                    c.new_root = Root(g, c.new_tree_size)
             PROVE  Entries(f, c.old_tree_size) = Entries(g, c.old_tree_size)
  BY DEF ConsistentHeadsAreOneLog
<1>1. ConsistencyHolds(c)
  BY DEF LogIInv, Vouches
<1>2. c.old_tree_size \in Nat /\ c.new_tree_size \in Nat /\ IsSeq(c.proof)
  BY DEF LogIInv, Whole, WholeConsistency
<1> QED
  BY <1>1, <1>2, ConsistencyIsSound

\* The check finds the way along a completed proof.
LEMMA ConsistencyIsComplete ==
  ASSUME NEW f, NEW m \in Nat, NEW n \in Nat, m <= n
  PROVE  ConsistencyHolds(Consistency(f, m, n, CompletedProof(f, m, n)))
<1>1. PICK path : path = CompletedProof(f, m, n)
  OBVIOUS
<1>2. PICK c : c = Consistency(f, m, n, path)
  OBVIOUS
<1>3. /\ c.old_tree_size = m /\ c.new_tree_size = n /\ c.proof = path
      /\ m # 0 => c.old_root = Root(f, m)
      /\ c.new_root = Root(f, n)
  BY <1>2 DEF Consistency
<1>4. CASE m = 0 \/ m = n
  <2>1. path = <<>>
    BY <1>1, <1>4, NothingToShow
  <2> QED
    BY <1>1, <1>2, <1>3, <1>4, <2>1 DEF ConsistencyHolds
<1>5. CASE m # n /\ m # 0
  <2>1. m \in 1..(n - 1)
    BY <1>5
  <2>2. PICK u : u = Subtrees(Entries(f, n))
    OBVIOUS
  <2>3. PICK p : /\ Trails(p, u, n, FALSE) /\ path = p[n][1][m]
                 /\ IsSeq(path) /\ Len(path) >= 1
    <3>1. \E p : CompletedTrail(f, m, n, u, p)
      BY <2>1, <2>2, CompletedProofIs
    <3> QED
      BY <1>1, <3>1 DEF CompletedTrail
  <2>4. PICK y : y = LeavesOver(Entries(f, n))
    OBVIOUS
  <2>5. Forest(u, y, n) /\ Root(f, n) = u[n][1]
    BY <2>2, <2>4, LogIsAForest
  <2>6. n \in 1..n /\ 1 \in 1..(n - n + 1) /\ m \in 1..n /\ m \in 1..m
    BY <2>1
  <2>7. Len(path) \in Nat /\ path # <<>>
    BY <2>3, LenOfSeq, EmptyIsSeq
  <2>8. PICK hashes : hashes = ConsistencyNodes(m, n, path)
    OBVIOUS
  <2>9. PICK at : Halving(at, m, n, path) /\ hashes = at[Len(path)][m][n]
    BY <2>7, <2>8, ConsistencyNodesIs
  <2>10. at[Len(path)][m][n] = Hashes(u[m][1], u[n][1])
    <3>1. Starts(path, p[n][1][m])
      BY <2>3, <2>7 DEF Starts
    <3>2. m <= m /\ n <= n
      OBVIOUS
    <3>3. at[Len(p[n][1][m])][m][n] = Hashes(u[m][1], u[n][1])
      <4>1. LedAt(at, u, n, 1, m, p)
        BY <2>3, <2>5, <2>6, <2>7, <2>9, <3>1, <3>2, NodesAreComplete
      <4> QED
        BY <4>1 DEF LedAt
    <3> QED
      BY <2>3, <3>3
  <2>11. Root(f, m) = u[m][1]
    BY <2>2, <2>6, OldRootIs
  <2>12. ~ hashes.raised /\ hashes.old = Root(f, m) /\ hashes.new = Root(f, n)
    BY <2>5, <2>9, <2>10, <2>11 DEF Hashes
  <2> QED
    BY <1>1, <1>2, <1>3, <1>5, <2>7, <2>8, <2>12 DEF ConsistencyHolds
<1> QED
  BY <1>4, <1>5

\* Without the old root it is one node short.
LEMMA ConsistencyIsRefused ==
  ASSUME NEW f, NEW m \in Nat, NEW n \in Nat, IsSubtree(m, n)
  PROVE  ~ ConsistencyHolds(Consistency(f, m, n, ConsistencyProof(f, m, n)))
<1>1. PICK path : path = ConsistencyProof(f, m, n)
  OBVIOUS
<1>2. PICK c : c = Consistency(f, m, n, path)
  OBVIOUS
<1>3. c.old_tree_size = m /\ c.new_tree_size = n /\ c.proof = path
  BY <1>2 DEF Consistency
<1>4. m \in 1..(n - 1) /\ m # 0 /\ m # n
  BY DEF IsSubtree
<1>5. PICK t : t = Subtrees(Entries(f, n))
  OBVIOUS
<1>6. PICK p : Trails(p, t, n, FALSE) /\ Len(p[n][1][m]) = Len(path) + 1
  <2>1. \E p : CompletedTrail(f, m, n, t, p)
    BY <1>4, <1>5, CompletedProofIs
  <2> QED
    BY <1>1, <1>4, <2>1 DEF CompletedTrail
<1>7. Len(path) \in Nat
  BY <1>1, <1>4, ProofsAreSeqs, LenOfSeq
<1>8. PICK hashes : hashes = ConsistencyNodes(m, n, path)
  OBVIOUS
<1>9. PICK at : Halving(at, m, n, path) /\ hashes = at[Len(path)][m][n]
  BY <1>7, <1>8, ConsistencyNodesIs
<1>10. at[Len(path)][m][n] = Raised
  <2>1. /\ n \in 1..n /\ 1 \in 1..(n - n + 1) /\ m \in 1..n /\ m <= m /\ n <= n
        /\ Len(path) \in 0..Len(path) /\ Len(path) < Len(p[n][1][m])
    BY <1>4, <1>6, <1>7
  <2> QED
    <3>1. RaisedAt(at, Len(path), m, n)
      BY <1>6, <1>7, <1>9, <2>1, NodesRaiseEarly
    <3> QED
      BY <3>1 DEF RaisedAt
<1>11. hashes.raised
  BY <1>9, <1>10 DEF Raised
<1> QED
  BY <1>1, <1>2, <1>3, <1>4, <1>8, <1>11 DEF ConsistencyHolds

\* A proof the log gave out is accepted when it is the completed one.
LEMMA ConsistencyIsExact ==
  ASSUME NEW f, NEW m \in Nat, NEW n \in Nat, m <= n,
         NEW proof \in {ConsistencyProof(f, m, n), CompletedProof(f, m, n)}
  PROVE  ConsistencyHolds(Consistency(f, m, n, proof)) <=> proof = CompletedProof(f, m, n)
<1>1. CASE proof = CompletedProof(f, m, n)
  BY <1>1, ConsistencyIsComplete
<1>2. CASE proof # CompletedProof(f, m, n)
  <2>1. IsSubtree(m, n) /\ proof = ConsistencyProof(f, m, n)
    BY <1>2 DEF CompletedProof
  <2> QED
    BY <1>2, <2>1, ConsistencyIsRefused
<1> QED
  BY <1>1, <1>2

\* Of honest parts, only the consistency proof decides.
LEMMA HonestPartsPass ==
  ASSUME LogIInv, HonestParts
  PROVE  vouched <=> \/ bundle.consistency_proof = Absent
                     \/ ConsistencyHolds(bundle.consistency_proof)
<1>0. PICK s : s = bundle.checkpoint.sth.tree_size
  OBVIOUS
<1> /\ bundle # Absent /\ bundle.inclusion_proof # Absent
    /\ bundle.checkpoint = SignedHead(MaxLog, s, HeadKey)
    /\ bundle.receipt <= s /\ bundle.inclusion_proof = Inclusion(bundle.receipt, MaxLog, s)
  BY <1>0 DEF HonestParts
<1>1. s \in Nat /\ s >= 1 /\ s <= MaxLog /\ bundle.receipt \in Nat /\ bundle.receipt >= 1
  BY <1>0 DEF LogIInv, Whole, Signed
<1>2. HeadHolds(bundle.checkpoint)
  BY DEF SignedHead, HeadHolds
<1>3. PICK n : n = bundle.receipt
  OBVIOUS
<1>4. PICK p : p = Inclusion(n, MaxLog, s)
  OBVIOUS
<1>5. PICK data : data = Entries(MaxLog, s)
  OBVIOUS
<1>6. MaxLog \in Nat /\ n \in 1..s /\ n \in Nat /\ n <= MaxLog
  BY <1>1, <1>3, LogAssumption
<1>7. /\ Len(data) = s /\ Len(data) \in Nat /\ MerkleRoot(data) = Root(MaxLog, s)
      /\ data[n] = ReceiptHash(n)
  <2>1. Len(Entries(MaxLog, s)) = s
    BY <1>1, EntriesLen
  <2>2. Entries(MaxLog, s)[n] = IF n <= MaxLog THEN ReceiptHash(n) ELSE <<"other", n>>
    BY <1>1, <1>6, EntriesLen
  <2>3. MerkleRoot(data) = Root(MaxLog, s)
    BY <1>5 DEF Root
  <2> QED
    BY <1>1, <1>5, <1>6, <2>1, <2>2, <2>3
<1>8. PICK index \in Nat : index = n - 1 /\ index + 1 = n /\ index < s
  BY <1>1, <1>6
<1>9. PathHolds(Leaf(data[n]), index, s, AuditPath(data, index), Root(MaxLog, s))
  <2>1. index \in 0..(Len(data) - 1) /\ index + 1 = n
    <3>1. index \in 0..(s - 1)
      BY <1>1, <1>8
    <3> QED
      BY <1>7, <1>8, <3>1
  <2>2. PathHolds(Leaf(data[index + 1]), index, Len(data), AuditPath(data, index),
                  MerkleRoot(data))
    BY <1>7, <2>1, PathIsComplete
  <2> QED
    BY <1>7, <2>1, <2>2
<1>10. /\ p.leaf_hash = Leaf(data[n]) /\ p.entry_id = index
       /\ p.audit_path = AuditPath(data, index) /\ p.sth_tree_size = s
       /\ p.sth_root = Root(MaxLog, s)
  BY <1>4, <1>5, <1>8 DEF Inclusion
<1>11. bundle.checkpoint.sth = [tree_size |-> s, root_hash |-> Root(MaxLog, s)]
  BY DEF SignedHead
<1>12. IsOfTheHead(p, bundle.checkpoint.sth)
  BY <1>10, <1>11 DEF IsOfTheHead
<1>13. InclusionHolds(n, p)
  BY <1>7, <1>9, <1>10 DEF InclusionHolds
<1>14. Vouches(bundle) <=> \/ bundle.consistency_proof = Absent
                            \/ ConsistencyHolds(bundle.consistency_proof)
  BY <1>2, <1>3, <1>4, <1>12, <1>13 DEF Vouches
<1> QED
  BY <1>14 DEF LogIInv

LEMMA IInvHonestBundles == LogIInv => HonestBundlesPass
<1> SUFFICES ASSUME LogIInv, HonestParts, NEW c, c = bundle.consistency_proof
             PROVE  /\ c = Absent => vouched
                    /\ c # Absent /\ IsHonest(c, HonestProofs(c.old_tree_size, c.new_tree_size))
                       => (vouched <=>
                             c.proof = CompletedProof(MaxLog, c.old_tree_size, c.new_tree_size))
  BY DEF HonestBundlesPass
<1>1. vouched <=> c = Absent \/ ConsistencyHolds(c)
  BY HonestPartsPass
<1>2. ASSUME c # Absent, IsHonest(c, HonestProofs(c.old_tree_size, c.new_tree_size))
      PROVE  vouched <=> c.proof = CompletedProof(MaxLog, c.old_tree_size, c.new_tree_size)
  <2>1. PICK m, n, proof : m = c.old_tree_size /\ n = c.new_tree_size /\ proof = c.proof
    OBVIOUS
  <2>2. m \in Nat /\ n \in Nat
    <3>1. bundle # Absent
      BY DEF HonestParts
    <3> QED
      BY <1>2, <2>1, <3>1 DEF LogIInv, Whole, WholeConsistency
  <2>3. /\ m <= n /\ c = Consistency(MaxLog, m, n, proof)
        /\ proof \in {ConsistencyProof(MaxLog, m, n), CompletedProof(MaxLog, m, n)}
    BY <1>2, <2>1 DEF IsHonest, HonestProofs
  <2>4. ConsistencyHolds(c) <=> proof = CompletedProof(MaxLog, m, n)
    BY <2>2, <2>3, ConsistencyIsExact
  <2> QED
    BY <1>1, <1>2, <2>1, <2>4
<1> QED
  BY <1>1, <1>2

(***************************************************************************)
(* The invariant holds of every state of the log.                           *)
(***************************************************************************)
THEOREM LogIsAsDescribed == LogSpec => []LogIInv
<1>1. LogInit => LogIInv
  BY LogInitIInv
<1>2. LogIInv /\ [LogNext]_logvars => LogIInv'
  BY LogNextIInv
<1> QED
  BY <1>1, <1>2, PTL DEF LogSpec

(***************************************************************************)
(* verify_continuity_checkpoint, on whatever receipt, head and inclusion    *)
(* proof are put together: the receipt of a bundle it accepts is an entry   *)
(* of the log whose head was signed, where the proof says.                  *)
(***************************************************************************)
THEOREM ReceiptIsInTheLog == LogSpec => []TheReceiptIsInTheLog
BY LogIsAsDescribed, IInvReceiptInLog, PTL

(***************************************************************************)
(* _verify_consistency_nodes, on whatever proof it is given: two heads that *)
(* pass are heads of one log.                                               *)
(***************************************************************************)
THEOREM HeadsAreOfOneLog == LogSpec => []ConsistentHeadsAreOneLog
BY LogIsAsDescribed, IInvOneLog, PTL

(***************************************************************************)
(* verify_continuity_checkpoint accepts every bundle that is as it should   *)
(* be, for logs of any length; of the two ways to write its consistency     *)
(* proof down, the one with the old root in it, and that one only: what RFC *)
(* 9162 has the log give out is refused when it leaves the old root out.    *)
(***************************************************************************)
THEOREM TrueBundlesPass == LogSpec => []HonestBundlesPass
BY LogIsAsDescribed, IInvHonestBundles, PTL

(***************************************************************************)
(* The events of a scope, in order: the k-th smallest exists.               *)
(***************************************************************************)
Below(S, n) == {m \in S : m < n}

LEMMA RankedUpTo ==
  ASSUME NEW N \in Nat
  PROVE  \A S \in SUBSET (1..N) :
           /\ IsFiniteSet(S) /\ Cardinality(S) \in Nat
           /\ \A k \in 1..Cardinality(S) : \E n \in S : Cardinality(Below(S, n)) = k - 1
<1> DEFINE Ranked(S) ==
             /\ IsFiniteSet(S) /\ Cardinality(S) \in Nat
             /\ \A k \in 1..Cardinality(S) : \E n \in S : Cardinality(Below(S, n)) = k - 1
           T == {j \in Nat : \A S \in SUBSET (1..j) : Ranked(S)}
<1>1. 0 \in T
  <2>1. \A S \in SUBSET (1..0) : S = {}
    OBVIOUS
  <2>2. Ranked({})
    BY FS_EmptySet
  <2> HIDE DEF Ranked
  <2> QED
    BY <2>1, <2>2
<1>2. ASSUME NEW j \in Nat, j \in T
      PROVE  j + 1 \in T
  <2>1. \A S \in SUBSET (1..j) : Ranked(S)
    BY <1>2
  <2>2. ASSUME NEW S \in SUBSET (1..(j + 1))
        PROVE  Ranked(S)
    <3> DEFINE R == S \ {j + 1}
    <3>1. R \in SUBSET (1..j)
      OBVIOUS
    <3>2. Ranked(R)
      BY <2>1, <3>1
    <3> HIDE DEF T
    <3>3. CASE j + 1 \notin S
      <4>1. R = S
        BY <3>3
      <4> HIDE DEF Ranked, R
      <4> QED
        BY <3>2, <4>1
    <3>4. CASE j + 1 \in S
      <4>1. S = R \cup {j + 1} /\ j + 1 \notin R
        BY <3>4
      <4>2. IsFiniteSet(S) /\ Cardinality(S) = Cardinality(R) + 1
        <5>1. IsFiniteSet(R)
          BY <3>2
        <5> HIDE DEF R
        <5> QED
          BY <4>1, <5>1, FS_AddElement
      <4>3. Cardinality(R) \in Nat /\ Cardinality(S) \in Nat
        BY <3>2, <4>2
      <4>4. ASSUME NEW k \in 1..Cardinality(S)
            PROVE  \E n \in S : Cardinality(Below(S, n)) = k - 1
        <5>1. CASE k = Cardinality(S)
          <6>1. Below(S, j + 1) = R
            <7>1. \A m \in S : m \in Nat /\ (m < j + 1 <=> m # j + 1)
              OBVIOUS
            <7> QED
              BY <7>1 DEF Below
          <6>2. Cardinality(R) = k - 1
            BY <4>2, <4>3, <5>1
          <6> QED
            BY <3>4, <6>1, <6>2
        <5>2. CASE k # Cardinality(S)
          <6>1. k \in 1..Cardinality(R)
            BY <4>2, <4>3, <5>2
          <6>2. PICK n \in R : Cardinality(Below(R, n)) = k - 1
            BY <3>2, <6>1
          <6>3. n \in S /\ n \in 1..j
            BY <3>1
          <6>4. Below(S, n) = Below(R, n)
            BY <6>3 DEF Below
          <6> QED
            BY <6>2, <6>3, <6>4
        <5> QED
          BY <5>1, <5>2
      <4> QED
        BY <4>2, <4>3, <4>4
    <3> QED
      BY <3>3, <3>4
  <2> HIDE DEF Ranked
  <2> QED
    BY <2>2
<1> HIDE DEF T
<1>3. N \in T
  BY <1>1, <1>2, Induction
<1> QED
  BY <1>3 DEF T

LEMMA InOrderIs ==
  ASSUME NEW N \in Nat, NEW S \in SUBSET (1..N)
  PROVE  /\ Cardinality(S) \in Nat
         /\ DOMAIN InOrder(S) = 1..Cardinality(S)
         /\ \A k \in 1..Cardinality(S) : InOrder(S)[k] \in S
<1>1. /\ Cardinality(S) \in Nat
      /\ \A k \in 1..Cardinality(S) : \E n \in S : Cardinality(Below(S, n)) = k - 1
  BY RankedUpTo
<1>2. ASSUME NEW k \in 1..Cardinality(S)
      PROVE  InOrder(S)[k] \in S
  <2>1. \E n \in S : Cardinality({m \in S : m < n}) = k - 1
    BY <1>1 DEF Below
  <2>2. (CHOOSE n \in S : Cardinality({m \in S : m < n}) = k - 1) \in S
    BY <2>1
  <2> QED
    BY <2>2 DEF InOrder
<1>3. DOMAIN InOrder(S) = 1..Cardinality(S)
  BY DEF InOrder
<1> QED
  BY <1>1, <1>2, <1>3

(***************************************************************************)
(* The rows of an export as it should be: a sequence of events of the       *)
(* scope, each with the way from its place.                                 *)
(***************************************************************************)
LEMMA LeavesLen ==
  ASSUME NEW s \in Nat
  PROVE  Len(Leaves(s)) = s /\ \A n \in 1..s : Leaves(s)[n] = EventHash(ledger[n])
<1>1. Leaves(s) = [n \in 1..s |-> EventHash(ledger[n])]
  BY DEF Leaves
<1>2. Len(Leaves(s)) = s
  BY <1>1
<1>3. \A n \in 1..s : Leaves(s)[n] = EventHash(ledger[n])
  BY <1>1
<1> QED
  BY <1>2, <1>3

LEMMA TrueRowIs ==
  ASSUME NEW s \in Nat, s >= 1, NEW n \in 1..s
  PROVE  /\ TrueRow(n, s).event = [content |-> ledger[n], event_hash |-> EventHash(ledger[n])]
         /\ TrueRow(n, s).leaf_index = n - 1
         /\ TrueRow(n, s).audit_path = AuditPath(Leaves(s), n - 1)
         /\ IsSeq(TrueRow(n, s).audit_path)
<1>1. PICK index : index = n - 1
  OBVIOUS
<1>2. TrueRow(n, s) = [event |-> [content |-> ledger[n], event_hash |-> EventHash(ledger[n])],
                       leaf_index |-> index, audit_path |-> AuditPath(Leaves(s), index)]
  BY <1>1 DEF TrueRow, Row, Event
<1>3. IsSeq(AuditPath(Leaves(s), index))
  <2>1. Len(Leaves(s)) = s
    BY LeavesLen
  <2> QED
    BY <2>1, AuditPathIsSeq
<1> QED
  BY <1>1, <1>2, <1>3

LEMMA TrueRowsAre ==
  ASSUME NEW s \in Nat, NEW tenant, NEW action
  PROVE  /\ IsSeq(TrueRows(s, tenant, action))
         /\ \A i \in DOMAIN TrueRows(s, tenant, action) :
              \E n \in 1..s : /\ TrueRows(s, tenant, action)[i] = TrueRow(n, s)
                              /\ InScope(ledger[n], tenant, action)
<1>1. PICK S : S = ScopeOf(s, tenant, action)
  OBVIOUS
<1>2. S \in SUBSET (1..s) /\ \A n \in S : InScope(ledger[n], tenant, action)
  BY <1>1 DEF ScopeOf
<1>3. PICK positions : positions = InOrder(S)
  OBVIOUS
<1>4. PICK c \in Nat : DOMAIN positions = 1..c /\ \A k \in 1..c : positions[k] \in S
  BY <1>2, <1>3, InOrderIs
<1>5. PICK rows : rows = TrueRows(s, tenant, action)
  OBVIOUS
<1>6. rows = [k \in 1..c |-> TrueRow(positions[k], s)]
  BY <1>1, <1>3, <1>4, <1>5 DEF TrueRows
<1>7. rows \in Seq({TrueRow(n, s) : n \in 1..s})
  <2>1. \A k \in 1..c : TrueRow(positions[k], s) \in {TrueRow(n, s) : n \in 1..s}
    BY <1>2, <1>4
  <2> QED
    BY <1>6, <2>1
<1>8. ASSUME NEW i \in DOMAIN rows
      PROVE  \E n \in 1..s : rows[i] = TrueRow(n, s) /\ InScope(ledger[n], tenant, action)
  <2>1. i \in 1..c
    BY <1>6
  <2>2. rows[i] = TrueRow(positions[i], s)
    BY <1>6, <2>1
  <2> QED
    BY <1>2, <1>4, <2>1, <2>2
<1> QED
  BY <1>5, <1>7, <1>8 DEF IsSeq

LEMMA TrueRowsHavePaths ==
  ASSUME NEW s \in Nat, s >= 1, NEW tenant, NEW action
  PROVE  \A i \in DOMAIN TrueRows(s, tenant, action) :
           IsSeq(TrueRows(s, tenant, action)[i].audit_path)
<1>1. PICK rows : rows = TrueRows(s, tenant, action)
  OBVIOUS
<1>2. ASSUME NEW i \in DOMAIN rows
      PROVE  IsSeq(rows[i].audit_path)
  <2>1. PICK n \in 1..s : rows[i] = TrueRow(n, s)
    BY <1>1, TrueRowsAre
  <2> QED
    BY <2>1, TrueRowIs
<1> QED
  BY <1>1, <1>2

(***************************************************************************)
(* The inductive invariant of the exports.                                  *)
(***************************************************************************)
\* The leaves of the ledger l when it held s events.
LeavesOf(l, s) == [n \in 1..s |-> EventHash(l[n])]

Recorded(l) ==
  /\ IsSeq(l) /\ Len(l) <= MaxLedger
  /\ \A n \in 1..Len(l) : \E kind \in Kinds : l[n] = Content(kind, n)

\* The seal names a size the ledger has had, and the root it had then.
Rooted(l, a) ==
  /\ a.payload.tree_size \in 1..Len(l)
  /\ a.payload.root = MerkleRoot(LeavesOf(l, a.payload.tree_size))

\* Files with the four names and nothing else.
FourFiles(files) ==
  files = [manifest |-> files.manifest, events |-> files.events,
           receipts |-> files.receipts, keys |-> files.keys]

\* The archive is what the operator sealed, whatever rows and receipts it holds.
AsSealed(a) ==
  /\ FourFiles(a.files)
  /\ a = Sealed(a.files, PayloadOf(a.files, a.payload.tree_size, a.payload.root), OperatorKey)
  /\ a.files.keys = [id \in {"receipt_key"} |-> ReceiptKey]
  /\ IsSeq(a.files.receipts)
  /\ \A i \in DOMAIN a.files.events : IsSeq(a.files.events[i].audit_path)

ExportIInv ==
  /\ Recorded(ledger)
  /\ accepted \in BOOLEAN /\ changed \in BOOLEAN /\ archive.made \in BOOLEAN
  /\ accepted \/ changed => archive.made
  /\ archive.made => Rooted(ledger, archive)
  /\ archive.made /\ ~changed => AsSealed(archive)
  /\ archive.made => accepted = Accepts(archive, OperatorKey)
  /\ changed => ~accepted

LEMMA AcceptsIsBoolean ==
  ASSUME NEW a, NEW pinned
  PROVE  Accepts(a, pinned) \in BOOLEAN
BY Zenon DEF Accepts

LEMMA ExportInitIInv == Init => ExportIInv
<1> SUFFICES ASSUME Init PROVE ExportIInv
  OBVIOUS
<1>1. ledger = <<>> /\ archive.made = FALSE /\ changed = FALSE /\ accepted = FALSE
  BY DEF Init, NoArchive
<1>2. Recorded(<<>>)
  BY EmptyIsSeq, ExportAssumption DEF Recorded
<1> QED
  BY <1>1, <1>2 DEF ExportIInv

\* Whatever rows and receipts the operator seals.
LEMMA IssueKeepsIInv ==
  ASSUME ExportIInv, NEW manifest, NEW s \in 1..Len(ledger), NEW rows, NEW receipts,
         Issue(manifest, s, rows, receipts),
         \A i \in DOMAIN rows : IsSeq(rows[i].audit_path), IsSeq(receipts)
  PROVE  ExportIInv'
<1>1. PICK files : files = [manifest |-> manifest, events |-> rows, receipts |-> receipts,
                            keys |-> [id \in {"receipt_key"} |-> ReceiptKey]]
  OBVIOUS
<1>2. PICK root : root = MerkleRoot(LeavesOf(ledger, s))
  OBVIOUS
<1>3. PICK a : a = Sealed(files, PayloadOf(files, s, root), OperatorKey)
  OBVIOUS
<1>4. /\ ~ archive.made
      /\ archive' = a /\ accepted' = Accepts(a, OperatorKey)
      /\ ledger' = ledger /\ changed' = changed
  <2>1. MerkleRoot(Leaves(s)) = root
    BY <1>2 DEF Leaves, LeavesOf
  <2> QED
    BY <1>1, <1>3, <2>1 DEF Issue
<1>5. /\ a.made = TRUE /\ a.files = files
      /\ a.payload.tree_size = s /\ a.payload.root = root
  BY <1>3 DEF Sealed, PayloadOf
<1>6. Rooted(ledger, a)
  BY <1>2, <1>5 DEF Rooted
<1>7. AsSealed(a)
  <2>1. a = Sealed(a.files, PayloadOf(a.files, a.payload.tree_size, a.payload.root), OperatorKey)
    BY <1>3, <1>5
  <2> QED
    BY <1>1, <1>5, <2>1 DEF AsSealed, FourFiles
<1>8. PICK verdict \in BOOLEAN : verdict = Accepts(a, OperatorKey)
  BY AcceptsIsBoolean
<1>9. changed = FALSE
  BY <1>4 DEF ExportIInv
<1>10. Recorded(ledger)
  BY DEF ExportIInv
<1>11. PICK l : l = ledger
  OBVIOUS
<1>12. Recorded(l) /\ Rooted(l, a)
  BY <1>6, <1>10, <1>11
<1>13. /\ ledger' = l /\ archive' = a /\ accepted' = verdict /\ changed' = FALSE
  BY <1>4, <1>8, <1>9, <1>11
<1> QED
  BY <1>5, <1>7, <1>8, <1>12, <1>13 DEF ExportIInv

\* What somebody without the operator's key makes of the archive a.
Altered(a, files, payload) == [a EXCEPT !.files = files, !.payload = payload]

Forged(a, files, effort) ==
  IF effort = "file" THEN Altered(a, files, a.payload)
  ELSE LET brought == PayloadOf(files, a.payload.tree_size, a.payload.root)
       IN IF effort = "resealed" THEN Sealed(files, brought, StrangerKey)
          ELSE Altered(a, files, brought)

\* The archive is not accepted, though it names the tree that a names.
Refused(a, forged) ==
  /\ ~ Accepts(forged, OperatorKey)
  /\ forged.made = TRUE
  /\ forged.payload.tree_size = a.payload.tree_size
  /\ forged.payload.root = a.payload.root

\* A file that is changed is not the file that was sealed.
LEMMA ChangeIsRefused ==
  ASSUME NEW a, AsSealed(a), NEW files, files # a.files, FourFiles(files),
         NEW effort \in {"file", "digest", "resealed"},
         NEW forged, forged = Forged(a, files, effort)
  PROVE  Refused(a, forged)
<1> USE DEF Refused
<1>1. PICK p : p = a.payload
  OBVIOUS
<1>2. a = Sealed(a.files, PayloadOf(a.files, p.tree_size, p.root), OperatorKey)
  BY <1>1 DEF AsSealed
<1>3. PICK old : old = a.files
  OBVIOUS
<1>4. PICK sealed : sealed = PayloadOf(old, p.tree_size, p.root)
  OBVIOUS
<1>5. a = [made |-> TRUE, files |-> old, payload |-> sealed, seal_key |-> OperatorKey,
           signed |-> [payload |-> sealed, by |-> OperatorKey]]
  BY <1>2, <1>3, <1>4 DEF Sealed
<1>6. p = sealed /\ sealed.digests = old
  BY <1>1, <1>4, <1>5 DEF PayloadOf
<1>7. PICK brought : brought = PayloadOf(files, p.tree_size, p.root)
  OBVIOUS
<1>8. /\ brought.digests = files /\ brought.tree_size = p.tree_size /\ brought.root = p.root
  BY <1>7 DEF PayloadOf
<1>9. files # old /\ FourFiles(files) /\ FourFiles(old)
  BY <1>3 DEF AsSealed
<1>10. ASSUME ~ SealHolds(forged, OperatorKey) \/ ~ DigestsHold(forged)
       PROVE  ~ Accepts(forged, OperatorKey)
  BY <1>10, Zenon DEF Accepts
<1>11. CASE effort = "file"
  <2>1. forged = [made |-> TRUE, files |-> files, payload |-> p, seal_key |-> OperatorKey,
                  signed |-> [payload |-> sealed, by |-> OperatorKey]]
    BY <1>1, <1>5, <1>11 DEF Forged, Altered
  <2>2. forged.files = files /\ forged.payload = p /\ forged.made = TRUE
    BY <2>1
  <2>3. PICK name \in Files : files[name] # old[name]
    BY <1>9 DEF FourFiles, Files
  <2>4. forged.payload.digests[name] # forged.files[name]
    BY <1>6, <2>2, <2>3
  <2>5. ~ DigestsHold(forged)
    BY <2>3, <2>4, Zenon DEF DigestsHold
  <2> QED
    BY <1>1, <1>10, <2>2, <2>5, Zenon
<1>12. CASE effort = "digest"
  <2>1. forged = [made |-> TRUE, files |-> files, payload |-> brought, seal_key |-> OperatorKey,
                  signed |-> [payload |-> sealed, by |-> OperatorKey]]
    BY <1>1, <1>5, <1>7, <1>12 DEF Forged, Altered
  <2>2. /\ forged.payload = brought /\ forged.made = TRUE
        /\ forged.signed = [payload |-> sealed, by |-> OperatorKey]
    BY <2>1
  <2>3. sealed # brought
    BY <1>6, <1>8, <1>9
  <2>4. forged.signed.payload = sealed
    BY <2>2
  <2>5. ~ SealHolds(forged, OperatorKey)
    <3> SUFFICES ASSUME SealHolds(forged, OperatorKey) PROVE FALSE
      OBVIOUS
    <3>1. forged.signed = [payload |-> forged.payload, by |-> forged.seal_key]
      BY Zenon DEF SealHolds
    <3>2. forged.signed.payload = forged.payload
      BY <3>1
    <3> QED
      BY <2>2, <2>3, <2>4, <3>2
  <2>6. forged.payload.tree_size = p.tree_size /\ forged.payload.root = p.root
    BY <1>8, <2>2
  <2> QED
    BY <1>1, <1>10, <2>2, <2>5, <2>6, Zenon
<1>13. CASE effort = "resealed"
  <2>1. forged = [made |-> TRUE, files |-> files, payload |-> brought, seal_key |-> StrangerKey,
                  signed |-> [payload |-> brought, by |-> StrangerKey]]
    BY <1>1, <1>7, <1>13 DEF Forged, Sealed
  <2>2. forged.seal_key = StrangerKey /\ forged.made = TRUE /\ forged.payload = brought
    BY <2>1
  <2>3. ~ SealHolds(forged, OperatorKey)
    BY <2>2, ExportAssumption, Zenon DEF SealHolds
  <2>4. forged.payload.tree_size = p.tree_size /\ forged.payload.root = p.root
    BY <1>8, <2>2
  <2> QED
    BY <1>1, <1>10, <2>2, <2>3, <2>4, Zenon
<1> QED
  BY <1>11, <1>12, <1>13

LEMMA ChangedIsFourFiles ==
  ASSUME NEW files, FourFiles(files), NEW name \in Files
  PROVE  FourFiles(Changed(files, name))
<1>1. PICK manifest, events, receipts, keys :
        files = [manifest |-> manifest, events |-> events, receipts |-> receipts, keys |-> keys]
  BY DEF FourFiles
<1>2. CASE name = "manifest"
  <2>1. PICK new : new = [manifest EXCEPT !.action_id = NoAction]
    OBVIOUS
  <2>2. Changed(files, name)
        = [manifest |-> new, events |-> events, receipts |-> receipts, keys |-> keys]
    BY <1>1, <1>2, <2>1 DEF Changed
  <2> QED
    BY <2>2 DEF FourFiles
<1>3. CASE name = "events"
  <2>1. PICK new : new = SubSeq(events, 1, Len(events) - 1)
    OBVIOUS
  <2>2. Changed(files, name)
        = [manifest |-> manifest, events |-> new, receipts |-> receipts, keys |-> keys]
    BY <1>1, <1>3, <2>1 DEF Changed
  <2> QED
    BY <2>2 DEF FourFiles
<1>4. CASE name = "receipts"
  <2>1. Changed(files, name)
        = [manifest |-> manifest, events |-> events, receipts |-> <<>>, keys |-> keys]
    BY <1>1, <1>4 DEF Changed
  <2> QED
    BY <2>1 DEF FourFiles
<1>5. CASE name = "keys"
  <2>1. PICK new : new = [id \in {"receipt_key", "other"} |-> ReceiptKey]
    OBVIOUS
  <2>2. Changed(files, name)
        = [manifest |-> manifest, events |-> events, receipts |-> receipts, keys |-> new]
    BY <1>1, <1>5, <2>1 DEF Changed
  <2> QED
    BY <2>2 DEF FourFiles
<1> QED
  BY <1>2, <1>3, <1>4, <1>5 DEF Files

LEMMA ChangeKeepsIInv ==
  ASSUME ExportIInv, NEW name \in Files, NEW effort \in {"file", "digest", "resealed"},
         Change(name, effort)
  PROVE  ExportIInv'
<1>1. PICK a : a = archive
  OBVIOUS
<1>2. PICK l : l = ledger
  OBVIOUS
<1>3. PICK files : files = Changed(a.files, name)
  OBVIOUS
<1>4. PICK forged : forged = Forged(a, files, effort)
  OBVIOUS
<1>5. /\ accepted /\ ~ changed /\ files # a.files
      /\ archive' = forged /\ changed' = TRUE
      /\ accepted' = Accepts(forged, OperatorKey) /\ ledger' = l
  <2>1. /\ accepted /\ ~ changed /\ files # a.files /\ changed' = TRUE /\ ledger' = l
    BY <1>1, <1>2, <1>3, Zenon DEF Change
  <2>2. archive' = forged /\ accepted' = Accepts(forged, OperatorKey)
    <3>1. CASE effort = "file"
      BY <1>1, <1>3, <1>4, <3>1 DEF Change, Forged, Altered
    <3>2. CASE effort = "digest"
      BY <1>1, <1>3, <1>4, <3>2 DEF Change, Forged, Altered
    <3>3. CASE effort = "resealed"
      BY <1>1, <1>3, <1>4, <3>3 DEF Change, Forged, Altered
    <3> QED
      BY <3>1, <3>2, <3>3
  <2> QED
    BY <2>1, <2>2
<1>6. AsSealed(a) /\ Recorded(l) /\ Rooted(l, a)
  BY <1>1, <1>2, <1>5 DEF ExportIInv
<1>7. FourFiles(files)
  <2>1. FourFiles(a.files)
    BY <1>6 DEF AsSealed
  <2> QED
    BY <1>3, <2>1, ChangedIsFourFiles
<1>8. /\ ~ Accepts(forged, OperatorKey) /\ forged.made = TRUE
      /\ forged.payload.tree_size = a.payload.tree_size /\ forged.payload.root = a.payload.root
  <2>1. AsSealed(a) /\ files # a.files /\ FourFiles(files)
    BY <1>5, <1>6, <1>7
  <2>2. effort \in {"file", "digest", "resealed"}
    OBVIOUS
  <2>3. Refused(a, forged)
    BY <1>4, <2>1, <2>2, ChangeIsRefused
  <2> QED
    BY <2>3, Zenon DEF Refused
<1>9. Rooted(l, forged)
  BY <1>6, <1>8 DEF Rooted
<1>10. PICK verdict \in BOOLEAN : verdict = Accepts(forged, OperatorKey)
  BY AcceptsIsBoolean
<1>11. verdict = FALSE /\ accepted' = verdict
  BY <1>5, <1>8, <1>10
<1> QED
  BY <1>5, <1>6, <1>8, <1>9, <1>10, <1>11 DEF ExportIInv

LEMMA AppendKeepsIInv ==
  ASSUME ExportIInv, NEW kind \in Kinds, AppendEvent(kind)
  PROVE  ExportIInv'
<1>1. PICK l : l = ledger
  OBVIOUS
<1>2. PICK n \in Nat : n = Len(l) /\ n < MaxLedger /\ IsSeq(l)
  BY <1>1, LenOfSeq DEF ExportIInv, Recorded, AppendEvent
<1>3. PICK e : e = Content(kind, n + 1)
  OBVIOUS
<1>4. PICK to : to = Append(l, e)
  OBVIOUS
<1>5. /\ ledger' = to /\ archive' = archive /\ changed' = changed /\ accepted' = accepted
      /\ ~ archive.made
  BY <1>1, <1>2, <1>3, <1>4 DEF AppendEvent
<1>6. /\ IsSeq(to) /\ Len(to) = n + 1 /\ to[n + 1] = e
      /\ \A i \in 1..n : to[i] = l[i]
  BY <1>2, <1>4, AppendIsSeq
<1>7. MaxLedger \in Nat
  BY ExportAssumption
<1>8. \A i \in 1..(n + 1) : \E k \in Kinds : to[i] = Content(k, i)
  <2>1. ASSUME NEW i \in 1..(n + 1)
        PROVE  \E k \in Kinds : to[i] = Content(k, i)
    <3>1. CASE i = n + 1
      BY <1>3, <1>6, <3>1
    <3>2. CASE i # n + 1
      <4>1. i \in 1..n
        BY <3>2
      <4>2. \E k \in Kinds : l[i] = Content(k, i)
        BY <1>1, <1>2, <4>1 DEF ExportIInv, Recorded
      <4> QED
        BY <1>6, <4>1, <4>2
    <3> QED
      BY <3>1, <3>2
  <2> QED
    BY <2>1
<1>9. Recorded(to)
  BY <1>2, <1>6, <1>7, <1>8 DEF Recorded
<1> QED
  BY <1>5, <1>9 DEF ExportIInv

LEMMA ExportNextIInv == ExportIInv /\ [Next]_vars => ExportIInv'
<1> SUFFICES ASSUME ExportIInv, [Next]_vars PROVE ExportIInv'
  OBVIOUS
<1>0. IsSeq(ledger) /\ Len(ledger) \in Nat /\ DOMAIN ledger = 1..Len(ledger)
  BY LenOfSeq DEF ExportIInv, Recorded
<1>1. ASSUME NEW kind \in Kinds, AppendEvent(kind)
      PROVE  ExportIInv'
  BY <1>1, AppendKeepsIInv
<1>2. ASSUME NEW schema, NEW tenant, NEW action, NEW s \in DOMAIN ledger,
             SealWhole(schema, tenant, action, s)
      PROVE  ExportIInv'
  <2>1. s \in 1..Len(ledger) /\ s \in Nat /\ s >= 1
    BY <1>0
  <2>2. PICK rows : rows = TrueRows(s, tenant, action)
    OBVIOUS
  <2>3. PICK receipt : receipt = ReceiptFor(rows[Len(rows)].event)
    OBVIOUS
  <2>4. Issue(Manifest(schema, tenant, action), s, rows, <<receipt>>)
    BY <1>2, <2>2, <2>3 DEF SealWhole
  <2>5. \A i \in DOMAIN rows : IsSeq(rows[i].audit_path)
    BY <2>1, <2>2, TrueRowsHavePaths
  <2>6. IsSeq(<<receipt>>)
    BY OneIsSeq
  <2> QED
    BY <2>1, <2>4, <2>5, <2>6, IssueKeepsIInv
<1>3. ASSUME NEW n \in DOMAIN ledger, NEW index, NEW path \in AuditPaths,
             SealMisplacedRow(n, index, path)
      PROVE  ExportIInv'
  <2>1. PICK tenant, action : tenant = ledger[n].tenant_id /\ action = ledger[n].action_id
    OBVIOUS
  <2>2. PICK row : row = Row(n, index, path)
    OBVIOUS
  <2>3. Issue(Manifest(Schema, tenant, action), Len(ledger), <<row>>, <<>>)
    BY <1>3, <2>1, <2>2 DEF SealMisplacedRow
  <2>4. IsSeq(path)
    <3>1. PICK s \in DOMAIN ledger : path \in {AuditPath(Leaves(s), m - 1) : m \in 1..s}
      BY DEF AuditPaths
    <3>2. PICK m \in 1..s : path = AuditPath(Leaves(s), m - 1)
      BY <3>1
    <3>3. s \in Nat /\ s >= 1
      BY <1>0
    <3>4. Len(Leaves(s)) = s
      BY <3>3, LeavesLen
    <3>5. PICK i : i = m - 1
      OBVIOUS
    <3>6. IsSeq(AuditPath(Leaves(s), i))
      BY <3>3, <3>4, AuditPathIsSeq
    <3> QED
      BY <3>2, <3>5, <3>6
  <2>5. row.audit_path = path
    BY <2>2 DEF Row
  <2>6. \A i \in DOMAIN <<row>> : IsSeq(<<row>>[i].audit_path)
    BY <2>4, <2>5
  <2>7. Len(ledger) \in 1..Len(ledger)
    BY <1>0
  <2> QED
    BY <2>3, <2>6, <2>7, EmptyIsSeq, IssueKeepsIInv
<1>4. ASSUME NEW tenant, NEW action, NEW n \in DOMAIN ledger, SealStrayEvent(tenant, action, n)
      PROVE  ExportIInv'
  <2>0. n \in 1..Len(ledger) /\ Len(ledger) >= 1
    BY <1>0
  <2>9. Len(ledger) \in Nat /\ Len(ledger) \in 1..Len(ledger)
    BY <1>0, <2>0
  <2>1. PICK s \in Nat : s = Len(ledger) /\ s \in 1..Len(ledger) /\ s >= 1 /\ n \in 1..s
    BY <2>0, <2>9, Zenon
  <2>2. PICK rows : rows = TrueRows(s, tenant, action)
    OBVIOUS
  <2>3. PICK row : row = TrueRow(n, s)
    OBVIOUS
  <2>4. Issue(Manifest(Schema, tenant, action), s, Append(rows, row), <<>>)
    BY <1>4, <2>1, <2>2, <2>3 DEF SealStrayEvent
  <2>5. \A i \in DOMAIN rows : IsSeq(rows[i].audit_path)
    BY <2>1, <2>2, TrueRowsHavePaths
  <2>6. IsSeq(row.audit_path)
    BY <2>1, <2>3, TrueRowIs
  <2>7. IsSeq(rows)
    BY <2>1, <2>2, TrueRowsAre
  <2>8. PICK more : more = Append(rows, row)
    OBVIOUS
  <2>10. \A i \in DOMAIN more : IsSeq(more[i].audit_path)
    <3>1. /\ IsSeq(more) /\ Len(more) = Len(rows) + 1 /\ more[Len(rows) + 1] = row
          /\ \A i \in 1..Len(rows) : more[i] = rows[i]
      BY <2>7, <2>8, AppendIsSeq
    <3>2. DOMAIN more = 1..Len(more) /\ DOMAIN rows = 1..Len(rows) /\ Len(rows) \in Nat
      BY <2>7, <3>1, LenOfSeq
    <3> SUFFICES ASSUME NEW i \in DOMAIN more
                 PROVE  IsSeq(more[i].audit_path)
      OBVIOUS
    <3>3. i = Len(rows) + 1 \/ i \in 1..Len(rows)
      BY <3>1, <3>2
    <3> QED
      BY <2>5, <2>6, <3>1, <3>2, <3>3
  <2> QED
    BY <2>1, <2>4, <2>8, <2>10, EmptyIsSeq, IssueKeepsIInv
<1>5. ASSUME NEW tenant, NEW action, NEW n \in DOMAIN ledger,
             SealStrayReceipt(tenant, action, n)
      PROVE  ExportIInv'
  <2>0. n \in 1..Len(ledger) /\ Len(ledger) >= 1
    BY <1>0
  <2>9. Len(ledger) \in Nat /\ Len(ledger) \in 1..Len(ledger)
    BY <1>0, <2>0
  <2>1. PICK s \in Nat : s = Len(ledger) /\ s \in 1..Len(ledger) /\ s >= 1
    BY <2>0, <2>9, Zenon
  <2>2. PICK rows : rows = TrueRows(s, tenant, action)
    OBVIOUS
  <2>3. PICK receipt : receipt = ReceiptFor(Event(n))
    OBVIOUS
  <2>4. Issue(Manifest(Schema, tenant, action), s, rows, <<receipt>>)
    BY <1>5, <2>1, <2>2, <2>3 DEF SealStrayReceipt
  <2>5. \A i \in DOMAIN rows : IsSeq(rows[i].audit_path)
    BY <2>1, <2>2, TrueRowsHavePaths
  <2>6. IsSeq(<<receipt>>)
    BY OneIsSeq
  <2> QED
    BY <2>1, <2>4, <2>5, <2>6, IssueKeepsIInv
<1>6. ASSUME NEW name \in Files, NEW effort \in {"file", "digest", "resealed"},
             Change(name, effort)
      PROVE  ExportIInv'
  BY <1>6, ChangeKeepsIInv
<1>7. CASE UNCHANGED vars
  BY <1>7 DEF vars, ExportIInv
<1>8. ASSUME NEW tenant, NEW action, NEW s \in DOMAIN ledger, SealExport(tenant, action, s)
      PROVE  ExportIInv'
  BY <1>2, <1>8 DEF SealExport
<1>9. ASSUME NEW tenant, NEW action, NEW s \in DOMAIN ledger,
             SealOtherVersion(tenant, action, s)
      PROVE  ExportIInv'
  BY <1>2, <1>9 DEF SealOtherVersion
<1>10. CASE Next
  BY <1>1, <1>3, <1>4, <1>5, <1>6, <1>8, <1>9, <1>10, Zenon DEF Next, Operate
<1> QED
  BY <1>7, <1>10

LEMMA IInvTypeOK == ExportIInv => TypeOK
<1> SUFFICES ASSUME ExportIInv PROVE TypeOK
  OBVIOUS
<1>0. DOMAIN ledger = 1..Len(ledger)
  BY LenOfSeq DEF ExportIInv, Recorded
<1>1. \A n \in DOMAIN ledger :
        ledger[n].n = n /\ \E k \in Kinds : InScope(ledger[n], k.tenant_id, k.action_id)
  <2>1. ASSUME NEW n \in DOMAIN ledger
        PROVE  ledger[n].n = n /\ \E k \in Kinds : InScope(ledger[n], k.tenant_id, k.action_id)
    <3>1. PICK kind \in Kinds : ledger[n] = Content(kind, n)
      BY <1>0 DEF ExportIInv, Recorded
    <3>2. PICK c : c = ledger[n]
      OBVIOUS
    <3>3. c.n = n /\ c.tenant_id = kind.tenant_id /\ c.action_id = kind.action_id
      BY <3>1, <3>2 DEF Content
    <3>4. InScope(c, kind.tenant_id, kind.action_id)
      BY <3>3 DEF InScope
    <3> QED
      BY <3>2, <3>3, <3>4
  <2> QED
    BY <2>1
<1>2. archive.made => archive.payload.tree_size \in DOMAIN ledger
  BY <1>0 DEF ExportIInv, Rooted
<1>3. Len(ledger) <= MaxLedger
  BY DEF ExportIInv, Recorded
<1> QED
  BY <1>1, <1>2, <1>3 DEF ExportIInv, TypeOK

LEMMA IInvAcceptedIsSealed == ExportIInv => AcceptedIsSealed
BY DEF ExportIInv, AcceptedIsSealed

\* A row of an accepted archive.
LEMMA RowStands ==
  ASSUME ExportIInv, accepted, NEW i \in DOMAIN Rows
  PROVE  /\ Rows[i].leaf_index \in 0..(archive.payload.tree_size - 1)
         /\ archive.payload.tree_size \in 1..Len(ledger)
         /\ Rows[i].event.content = ledger[Rows[i].leaf_index + 1]
         /\ Rows[i].event.event_hash = EventHash(Rows[i].event.content)
         /\ InScope(Rows[i].event.content, archive.files.manifest.tenant_id,
                    archive.files.manifest.action_id)
<1>1. PICK row : row = Rows[i]
  OBVIOUS
<1>2. PICK a : a = archive
  OBVIOUS
<1>3. Accepts(a, OperatorKey) /\ AsSealed(a) /\ Rooted(ledger, a)
  BY <1>2 DEF ExportIInv
<1>4. i \in DOMAIN a.files.events /\ row = a.files.events[i]
  BY <1>1, <1>2 DEF Rows
<1>5. RowHolds(a, row) /\ ScopeHolds(a)
  BY <1>3, <1>4, Zenon DEF Accepts
<1>6. IsSeq(row.audit_path)
  BY <1>3, <1>4 DEF AsSealed
<1>7. PICK s \in Nat : s = a.payload.tree_size /\ s \in 1..Len(ledger)
  BY <1>3 DEF Rooted
<1>8. PICK data : data = Leaves(s)
  OBVIOUS
<1>9. /\ Len(data) = s /\ Len(data) \in Nat
      /\ \A n \in 1..s : data[n] = EventHash(ledger[n])
      /\ MerkleRoot(data) = a.payload.root
  <2>1. MerkleRoot(data) = a.payload.root
    BY <1>3, <1>7, <1>8 DEF Rooted, Leaves, LeavesOf
  <2> QED
    BY <1>8, <2>1, LeavesLen
<1>10. /\ row.event.event_hash = EventHash(row.event.content)
       /\ row.event.content.tenant_id = a.files.manifest.tenant_id
       /\ PathHolds(Leaf(row.event.event_hash), row.leaf_index, a.payload.tree_size,
                    row.audit_path, a.payload.root)
  BY <1>5, Zenon DEF RowHolds
<1>11. /\ row.leaf_index \in 0..(Len(data) - 1)
       /\ Leaf(row.event.event_hash) = Leaf(data[row.leaf_index + 1])
  <2>1. Len(row.audit_path) \in Nat
    BY <1>6, LenOfSeq
  <2>2. PathHolds(Leaf(row.event.event_hash), row.leaf_index, Len(data), row.audit_path,
                  MerkleRoot(data))
    BY <1>7, <1>9, <1>10
  <2> QED
    BY <1>9, <2>1, <2>2, PathIsSound
<1>12. PICK index \in Nat : index = row.leaf_index /\ index \in 0..(s - 1) /\ index + 1 \in 1..s
  <2>1. row.leaf_index \in 0..(s - 1)
    BY <1>9, <1>11
  <2>2. PICK index \in 0..(s - 1) : index = row.leaf_index
    BY <2>1, Zenon
  <2>3. index \in Nat /\ index + 1 \in 1..s
    BY <1>7
  <2> QED
    BY <2>2, <2>3
<1>13. row.event.event_hash = EventHash(ledger[index + 1])
  BY <1>9, <1>11, <1>12, LeafIsInjective
<1>14. row.event.content = ledger[index + 1]
  BY <1>10, <1>13 DEF EventHash
<1>15. a.files.manifest.action_id = NoAction
       \/ row.event.content.action_id = a.files.manifest.action_id
  BY <1>4, <1>5 DEF ScopeHolds
<1>16. InScope(row.event.content, a.files.manifest.tenant_id, a.files.manifest.action_id)
  BY <1>10, <1>15, Zenon DEF InScope
<1> QED
  BY <1>1, <1>2, <1>7, <1>10, <1>12, <1>14, <1>16

LEMMA IInvEventsStand == ExportIInv => EventsStandWhereTheySay
<1> SUFFICES ASSUME ExportIInv, accepted, NEW i \in DOMAIN Rows
             PROVE  /\ Rows[i].leaf_index < archive.payload.tree_size
                    /\ Rows[i].event.content = ledger[Rows[i].leaf_index + 1]
  BY DEF EventsStandWhereTheySay
<1>1. /\ Rows[i].leaf_index \in 0..(archive.payload.tree_size - 1)
      /\ archive.payload.tree_size \in 1..Len(ledger)
      /\ Rows[i].event.content = ledger[Rows[i].leaf_index + 1]
  BY RowStands
<1> QED
  BY <1>1

LEMMA IInvNothingOfAnother == ExportIInv => NothingOfAnother
<1> SUFFICES ASSUME ExportIInv, accepted
             PROVE  LET manifest == archive.files.manifest IN
                    /\ \A i \in DOMAIN Rows :
                         InScope(Rows[i].event.content, manifest.tenant_id, manifest.action_id)
                    /\ \A i \in DOMAIN archive.files.receipts : \E n \in DOMAIN ledger :
                         /\ InScope(ledger[n], manifest.tenant_id, manifest.action_id)
                         /\ archive.files.receipts[i].ledger_entry_hash = EventHash(ledger[n])
  BY DEF NothingOfAnother
<1>0. DOMAIN ledger = 1..Len(ledger) /\ Len(ledger) \in Nat
  BY LenOfSeq DEF ExportIInv, Recorded
<1>1. PICK tenant, action : /\ tenant = archive.files.manifest.tenant_id
                            /\ action = archive.files.manifest.action_id
  OBVIOUS
<1>2. \A i \in DOMAIN Rows : InScope(Rows[i].event.content, tenant, action)
  BY <1>1, RowStands
<1>3. ASSUME NEW i \in DOMAIN archive.files.receipts
      PROVE  \E n \in DOMAIN ledger :
               /\ InScope(ledger[n], tenant, action)
               /\ archive.files.receipts[i].ledger_entry_hash = EventHash(ledger[n])
  <2>1. PICK a : a = archive
    OBVIOUS
  <2>2. PICK receipt : receipt = a.files.receipts[i]
    OBVIOUS
  <2>3. Accepts(a, OperatorKey)
    BY <2>1 DEF ExportIInv
  <2>4. ReceiptHolds(a, receipt)
    BY <2>1, <2>2, <2>3, Zenon DEF Accepts
  <2>5. PICK j \in DOMAIN a.files.events :
          a.files.events[j].event.event_hash = receipt.ledger_entry_hash
    BY <2>4 DEF ReceiptHolds
  <2>6. j \in DOMAIN Rows /\ Rows[j].event.event_hash = receipt.ledger_entry_hash
    BY <2>1, <2>5 DEF Rows
  <2>7. /\ Rows[j].leaf_index \in 0..(archive.payload.tree_size - 1)
        /\ archive.payload.tree_size \in 1..Len(ledger)
        /\ Rows[j].event.content = ledger[Rows[j].leaf_index + 1]
        /\ Rows[j].event.event_hash = EventHash(Rows[j].event.content)
    BY <2>6, RowStands
  <2>8. PICK n : n = Rows[j].leaf_index + 1
    OBVIOUS
  <2>9. n \in DOMAIN ledger
    BY <1>0, <2>7, <2>8
  <2>10. InScope(ledger[n], tenant, action)
    BY <1>2, <2>6, <2>7, <2>8
  <2>11. receipt.ledger_entry_hash = EventHash(ledger[n])
    BY <2>6, <2>7, <2>8
  <2> QED
    BY <2>1, <2>2, <2>9, <2>10, <2>11
<1> QED
  BY <1>1, <1>2, <1>3

LEMMA IInvHonestExports == ExportIInv => HonestExportsPass
<1> SUFFICES ASSUME ExportIInv, AsItShouldBe PROVE accepted
  BY DEF HonestExportsPass
<1>1. PICK a : a = archive
  OBVIOUS
<1>2. PICK tenant, action : /\ tenant = a.files.manifest.tenant_id
                            /\ action = a.files.manifest.action_id
  OBVIOUS
<1>3. PICK receipts : receipts = a.files.receipts
  OBVIOUS
<1>4. PICK rows : rows = a.files.events
  OBVIOUS
<1>5. PICK s : s = a.payload.tree_size
  OBVIOUS
<1>6. /\ archive.made /\ ~ changed /\ Len(receipts) = 1
      /\ \E k \in DOMAIN rows : receipts[1] = ReceiptFor(rows[k].event)
      /\ rows = TrueRows(s, tenant, action) /\ a.files.manifest.schema_version = Schema
  BY <1>1, <1>2, <1>3, <1>4, <1>5 DEF AsItShouldBe, Rows
<1>7. AsSealed(a) /\ Rooted(ledger, a)
  BY <1>1, <1>6 DEF ExportIInv
<1>8. s \in Nat /\ s >= 1 /\ a.payload.root = MerkleRoot(Leaves(s))
  <2>1. Len(ledger) \in Nat
    BY LenOfSeq DEF ExportIInv, Recorded
  <2>2. s \in 1..Len(ledger)
    BY <1>5, <1>7 DEF Rooted
  <2>3. a.payload.root = MerkleRoot(Leaves(s))
    BY <1>5, <1>7 DEF Rooted, Leaves, LeavesOf
  <2> QED
    BY <2>1, <2>2, <2>3
<1>9. SchemaHolds(a) /\ SealHolds(a, OperatorKey) /\ DigestsHold(a) /\ ManifestHolds(a)
  <2>1. PICK files : files = a.files
    OBVIOUS
  <2>2. PICK payload : payload = PayloadOf(files, s, a.payload.root)
    OBVIOUS
  <2>3. a = Sealed(files, payload, OperatorKey)
    BY <1>5, <1>7, <2>1, <2>2 DEF AsSealed
  <2>4. /\ a.files = files /\ a.payload = payload /\ a.seal_key = OperatorKey
        /\ a.signed = [payload |-> payload, by |-> OperatorKey]
    BY <2>3 DEF Sealed
  <2>5. /\ payload.digests = files /\ payload.tenant_id = files.manifest.tenant_id
        /\ payload.action_id = files.manifest.action_id
        /\ payload.event_count = Len(files.events)
    BY <2>2 DEF PayloadOf
  <2>6. SealHolds(a, OperatorKey)
    BY <2>4, Zenon DEF SealHolds
  <2>7. DigestsHold(a)
    BY <2>4, <2>5, Zenon DEF DigestsHold
  <2>8. ManifestHolds(a)
    BY <2>4, <2>5, Zenon DEF ManifestHolds
  <2>9. files.manifest.schema_version = Schema /\ payload.schema = Schema
    BY <1>1, <1>6, <2>1, <2>2 DEF PayloadOf
  <2>10. SchemaHolds(a)
    BY <2>4, <2>9, Zenon DEF SchemaHolds
  <2> QED
    BY <2>6, <2>7, <2>8, <2>10
<1>10. ASSUME NEW i \in DOMAIN rows
       PROVE  RowHolds(a, rows[i]) /\ rows[i].event.content.tenant_id = tenant
              /\ (action = NoAction \/ rows[i].event.content.action_id = action)
  <2>1. PICK n \in 1..s : rows[i] = TrueRow(n, s) /\ InScope(ledger[n], tenant, action)
    BY <1>6, <1>8, TrueRowsAre
  <2>2. PICK row : row = rows[i]
    OBVIOUS
  <2>3. PICK index \in Nat : index = n - 1 /\ index + 1 = n /\ index \in 0..(s - 1)
    BY <1>8
  <2>4. /\ row.event = [content |-> ledger[n], event_hash |-> EventHash(ledger[n])]
        /\ row.leaf_index = index /\ row.audit_path = AuditPath(Leaves(s), index)
    BY <1>8, <2>1, <2>2, <2>3, TrueRowIs
  <2>5. row.event.content = ledger[n] /\ row.event.event_hash = EventHash(ledger[n])
    BY <2>4
  <2>6. PICK data : data = Leaves(s)
    OBVIOUS
  <2>7. Len(data) = s /\ Len(data) \in Nat /\ data[index + 1] = EventHash(ledger[n])
    BY <1>8, <2>3, <2>6, LeavesLen
  <2>8. PathHolds(Leaf(data[index + 1]), index, Len(data), AuditPath(data, index),
                  MerkleRoot(data))
    <3>1. index \in 0..(Len(data) - 1)
      BY <2>3, <2>7
    <3> QED
      BY <2>7, <3>1, PathIsComplete
  <2>9. PathHolds(Leaf(row.event.event_hash), row.leaf_index, a.payload.tree_size,
                  row.audit_path, a.payload.root)
    BY <1>5, <1>8, <2>4, <2>5, <2>6, <2>7, <2>8
  <2>10. ledger[n].tenant_id = tenant /\ (action = NoAction \/ ledger[n].action_id = action)
    BY <2>1 DEF InScope
  <2>11. RowHolds(a, row)
    BY <1>2, <2>5, <2>9, <2>10 DEF RowHolds
  <2> QED
    BY <2>2, <2>5, <2>10, <2>11
<1>11. ScopeHolds(a)
  BY <1>2, <1>4, <1>10 DEF ScopeHolds
<1>12. ASSUME NEW i \in DOMAIN receipts
       PROVE  ReceiptHolds(a, receipts[i])
  <2>1. DOMAIN receipts = 1..Len(receipts)
    BY <1>3, <1>7, LenOfSeq DEF AsSealed
  <2>2. i = 1
    BY <1>6, <2>1
  <2>3. PICK k \in DOMAIN rows : receipts[i] = ReceiptFor(rows[k].event)
    BY <1>6, <2>2
  <2>4. PICK receipt : receipt = receipts[i]
    OBVIOUS
  <2>5. /\ receipt.key_id = "receipt_key" /\ receipt.made_by = ReceiptKey
        /\ receipt.ledger_entry_hash = rows[k].event.event_hash
    BY <2>3, <2>4 DEF ReceiptFor
  <2>6. a.files.keys = [id \in {"receipt_key"} |-> ReceiptKey]
    BY <1>7 DEF AsSealed
  <2>7. PICK keys : keys = a.files.keys
    OBVIOUS
  <2>8. receipt.key_id \in DOMAIN keys /\ receipt.made_by = keys[receipt.key_id]
    BY <2>5, <2>6, <2>7
  <2>9. \E j \in DOMAIN rows : rows[j].event.event_hash = receipt.ledger_entry_hash
    BY <2>5
  <2> QED
    BY <1>4, <2>4, <2>7, <2>8, <2>9, Zenon DEF ReceiptHolds
<1>13. Accepts(a, OperatorKey)
  BY <1>3, <1>4, <1>9, <1>10, <1>11, <1>12, Zenon DEF Accepts
<1> QED
  BY <1>1, <1>6, <1>13 DEF ExportIInv

(***************************************************************************)
(* The invariant holds of every state of the exports.                       *)
(***************************************************************************)
THEOREM ExportsAreAsDescribed == Spec => []ExportIInv
<1>1. Init => ExportIInv
  BY ExportInitIInv
<1>2. ExportIInv /\ [Next]_vars => ExportIInv'
  BY ExportNextIInv
<1> QED
  BY <1>1, <1>2, PTL DEF Spec

(***************************************************************************)
(* The ledger, the archive and the verdict have the shape they should, for  *)
(* ledgers of any length and tenants and actions of any number.             *)
(***************************************************************************)
THEOREM ExportTypeOK == Spec => []TypeOK
BY ExportsAreAsDescribed, IInvTypeOK, PTL

(***************************************************************************)
(* verify_archive accepts no archive that somebody without the operator's   *)
(* key has changed.                                                         *)
(***************************************************************************)
THEOREM OnlyTheSealedIsAccepted == Spec => []AcceptedIsSealed
BY ExportsAreAsDescribed, IInvAcceptedIsSealed, PTL

(***************************************************************************)
(* root_from_path: every event of an accepted export is the one the ledger  *)
(* holds at the index its row names, whatever rows, indices and paths were  *)
(* sealed.                                                                  *)
(***************************************************************************)
THEOREM EventsStand == Spec => []EventsStandWhereTheySay
BY ExportsAreAsDescribed, IInvEventsStand, PTL

(***************************************************************************)
(* An accepted export holds nothing of another tenant or action, and no     *)
(* receipt of an event that is not in it.                                   *)
(***************************************************************************)
THEOREM NothingOfOthers == Spec => []NothingOfAnother
BY ExportsAreAsDescribed, IInvNothingOfAnother, PTL

(***************************************************************************)
(* verify_archive turns down no export that is as it should be.             *)
(***************************************************************************)
THEOREM TrueExportsPass == Spec => []HonestExportsPass
BY ExportsAreAsDescribed, IInvHonestExports, PTL

=============================================================================

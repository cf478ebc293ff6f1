------------------------------ MODULE NatLemmas ------------------------------
(***************************************************************************)
(* The least-number principle as a statement about sets.  The library's     *)
(* induction theorems take an operator as a parameter; this one takes a set *)
(* of naturals, and an induction is done by taking the least counterexample.*)
(***************************************************************************)
EXTENDS Integers, FiniteSetTheorems, WellFoundedInduction, TLAPS

\* A non-empty set of naturals has a least element: x <= n in such a set is
\* least when 0..x is minimal, by inclusion, among the intervals 0..y of its
\* elements y <= n.  Used for every argument that walks back along a chain.
LEMMA LeastElement ==
  ASSUME NEW T, T \subseteq Nat, T # {}
  PROVE  \E x \in T : \A y \in T : x <= y
<1>1. PICK n \in T : n \in Nat
  OBVIOUS
<1> DEFINE U == T \cap (0..n)
           F == {0..x : x \in U}
<1>2. IsFiniteSet(0..n)
  BY <1>1, FS_Interval
<1>3. IsWellFoundedOn(StrictSubsetOrdering(0..n), FiniteSubsetsOf(0..n))
  BY FS_StrictSubsetOrderingWellFounded
<1>4. F \subseteq FiniteSubsetsOf(0..n) /\ F # {}
  BY <1>1, <1>2, FS_Subset DEF FiniteSubsetsOf
<1> HIDE DEF F
<1>5. PICK m \in F : \A y \in F : ~ (<<y, m>> \in StrictSubsetOrdering(0..n))
  BY <1>3, <1>4, WFMin, Zenon
<1>6. PICK x \in U : m = 0..x
  BY DEF F
<1>7. ASSUME NEW y \in T, y < x
      PROVE  FALSE
  <2>1. y \in U /\ y \in Nat /\ x \in Nat /\ x <= n
    BY <1>1, <1>7, x \in U
  <2>2. 0..y \in F
    BY <2>1 DEF F
  <2>3. 0..y \subseteq 0..x /\ 0..y # 0..x
    BY <2>1, <1>7
  <2>4. 0..x \subseteq 0..n
    BY <2>1, <1>1
  <2> QED
    BY <2>2, <2>3, <2>4, <1>5, <1>6 DEF StrictSubsetOrdering
<1> QED
  BY <1>7, x \in T

\* Induction over a set of naturals.  Used for recursive functions: that one
\* exists that obeys its equation up to each size, and what it returns.
LEMMA Induction ==
  ASSUME NEW T, 0 \in T, \A n \in Nat : n \in T => n + 1 \in T
  PROVE  \A n \in Nat : n \in T
<1> SUFFICES ASSUME {n \in Nat : n \notin T} # {}
             PROVE  FALSE
  OBVIOUS
<1>1. PICK x \in {n \in Nat : n \notin T} : \A y \in {n \in Nat : n \notin T} : x <= y
  BY LeastElement
<1>2. x \in Nat /\ x # 0 /\ x - 1 \in Nat
  BY <1>1
<1>3. x - 1 \in T
  BY <1>1, <1>2
<1> QED
  BY <1>1, <1>2, <1>3

\* The same, from all smaller naturals.
LEMMA StrongInduction ==
  ASSUME NEW T, \A n \in Nat : (\A m \in 0..(n - 1) : m \in T) => n \in T
  PROVE  \A n \in Nat : n \in T
<1> SUFFICES ASSUME {n \in Nat : n \notin T} # {}
             PROVE  FALSE
  OBVIOUS
<1>1. PICK x \in {n \in Nat : n \notin T} : \A y \in {n \in Nat : n \notin T} : x <= y
  BY LeastElement
<1>2. \A m \in 0..(x - 1) : m \in T
  BY <1>1
<1> QED
  BY <1>1, <1>2

=============================================================================

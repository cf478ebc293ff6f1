---------------------------- MODULE LedgerTree ----------------------------
(***************************************************************************)
(* The Merkle tree over a ledger, and the check that a leaf stands at an    *)
(* index of it: _root_from_audit_path of verify.py, which                   *)
(* verify_tenant_export.py repeats as root_from_path.                       *)
(*                                                                          *)
(* Leaf and node hashes are free constructors: the 0 and 1 byte in front of *)
(* what is hashed keep them apart.                                          *)
(***************************************************************************)
EXTENDS Integers, Sequences

Leaf(data)        == <<"leaf", data>>
Node(left, right) == <<"node", left, right>>

\* The largest power of two below n > 1: doubled as long as it stays below.
SplitPoint(n) ==
  LET doubled[split \in 1..n] ==
        IF 2 * split < n THEN doubled[2 * split] ELSE split
  IN doubled[1]

(***************************************************************************)
(* The tree itself: what a producer computes.                               *)
(***************************************************************************)
\* Subtrees(data)[n][lo] is the root over the n entries of data from lo on.
Subtrees(data) ==
  LET root[n \in 1..Len(data)] ==
        [lo \in 1..(Len(data) - n + 1) |->
           IF n = 1 THEN Leaf(data[lo])
           ELSE LET k == SplitPoint(n) IN Node(root[k][lo], root[n - k][lo + k])]
  IN root

MerkleRoot(data) == Subtrees(data)[Len(data)][1]

\* The siblings of the leaf at index (from 0), lowest first.
AuditPath(data, index) ==
  LET path[n \in 1..Len(data)] ==
        [lo \in 1..(Len(data) - n + 1) |->
           IF n = 1 THEN <<>>
           ELSE LET k == SplitPoint(n)
                IN IF index + 1 < lo + k
                   THEN Append(path[k][lo], Subtrees(data)[n - k][lo + k])
                   ELSE Append(path[n - k][lo + k], Subtrees(data)[k][lo])]
  IN path[Len(data)][1]

(***************************************************************************)
(* The check.  `at` is the loop's state: the two shrinking indices, the     *)
(* node so far, and whether the path has turned out too long.               *)
(***************************************************************************)
At(fn, sn, node, raised) == [fn |-> fn, sn |-> sn, node |-> node, raised |-> raised]

\* The inner loop: an even index is halved until it is odd, or 0.
Shifted(fn) ==
  LET odd[x \in 0..fn] == IF x % 2 = 0 /\ x # 0 THEN odd[x \div 2] ELSE x
  IN odd[fn]

\* A variant that treats a node on the right edge like any other.
ClimbPastTheEdge(at, sibling) ==
  IF at.raised \/ at.sn = 0 THEN At(at.fn, at.sn, at.node, TRUE)
  ELSE At(at.fn \div 2, at.sn \div 2,
          IF at.fn % 2 = 1 THEN Node(sibling, at.node) ELSE Node(at.node, sibling),
          FALSE)

\* One turn of the loop.  The inner loop runs only where fn = sn, so shifting
\* each of them until it is odd shifts both as often.
Climb(at, sibling) ==
  IF at.raised \/ at.sn = 0 THEN At(at.fn, at.sn, at.node, TRUE)
  ELSE IF at.fn % 2 = 1 THEN At(at.fn \div 2, at.sn \div 2, Node(sibling, at.node), FALSE)
  ELSE IF at.fn = at.sn
    THEN At(Shifted(at.fn) \div 2, Shifted(at.sn) \div 2, Node(sibling, at.node), FALSE)
  ELSE At(at.fn \div 2, at.sn \div 2, Node(at.node, sibling), FALSE)

Climbed(leaf, index, tree_size, path) ==
  LET at[k \in 0..Len(path)] ==
        IF k = 0 THEN At(index, tree_size - 1, leaf, FALSE)
        ELSE Climb(at[k - 1], path[k])
  IN at[Len(path)]

\* A variant that does not ask that the path reaches the top.
PathHoldsBelowTheTop(leaf, index, tree_size, path, root) ==
  LET at == Climbed(leaf, index, tree_size, path) IN
  /\ index \in 0..(tree_size - 1)
  /\ ~at.raised
  /\ at.node = root

\* _root_from_audit_path returns root: it does not raise, and the path is as
\* long as the tree is high there.
PathHolds(leaf, index, tree_size, path, root) ==
  LET at == Climbed(leaf, index, tree_size, path) IN
  /\ index \in 0..(tree_size - 1)
  /\ ~at.raised /\ at.sn = 0
  /\ at.node = root

=============================================================================

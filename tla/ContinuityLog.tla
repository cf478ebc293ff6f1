--------------------------- MODULE ContinuityLog ---------------------------
(***************************************************************************)
(* verify_continuity_checkpoint of verify.py, and the log whose heads it is *)
(* shown: an operator appends the hashes of receipts to a log, signs a head *)
(* of it now and then, and gives out bundles: a receipt, a signed head, a   *)
(* proof that the receipt is in the log, and a proof that an older head is  *)
(* of the same log.  The log may have been forked, and the parts of a       *)
(* bundle may have been taken from different trees, sizes and proofs.       *)
(***************************************************************************)
EXTENDS LedgerTree

CONSTANTS
  HeadKey,   \* the key the operator signs heads with
  CopyKey,   \* a key of somebody else who keeps a copy of the log
  Absent,    \* a document that is not in the bundle
  MaxLog     \* bound: the receipts in the log

ASSUME LogAssumption == HeadKey # CopyKey /\ MaxLog \in Nat

VARIABLES
  size,     \* the receipts in the log so far
  bundle,   \* the bundle given out, Absent before
  vouched   \* verify_continuity_checkpoint finds nothing wrong with it

logvars == <<size, bundle, vouched>>

LogInit == size = 0 /\ bundle = Absent /\ vouched = FALSE

(***************************************************************************)
(* Logs.  One forked at f has other entries after its first f; forked at    *)
(* MaxLog, it is the operator's log itself.                                 *)
(***************************************************************************)
ReceiptHash(n) == <<"receipt_hash", n>>

Entries(f, s) == [n \in 1..s |-> IF n <= f THEN ReceiptHash(n) ELSE <<"other", n>>]

Root(f, s) == MerkleRoot(Entries(f, s))

\* A signed tree head, with the key it ships with.
SignedHead(f, s, key) ==
  LET sth == [tree_size |-> s, root_hash |-> Root(f, s)]
  IN [sth |-> sth, signature |-> [over |-> sth, by |-> key], sth_public_key_hex |-> key]

\* The proof of the receipt that stands at place n, in the log of s receipts.
Inclusion(n, f, s) ==
  [leaf_hash |-> Leaf(Entries(f, s)[n]), entry_id |-> n - 1,
   audit_path |-> AuditPath(Entries(f, s), n - 1),
   sth_tree_size |-> s, sth_root |-> Root(f, s)]

(***************************************************************************)
(* The proof that the log of m entries is the beginning of the one of n, as *)
(* RFC 9162 section 2.1.4.1 has the log give it out: the node at the bottom *)
(* first, then the sibling of each step up.  Where only left halves led to  *)
(* that node it is the old root, which is known: the proof leaves it out.   *)
(***************************************************************************)
ConsistencyProof(f, m, n) ==
  LET root == Subtrees(Entries(f, n))
      proof[width \in 1..n] ==
        [lo \in 1..(n - width + 1) |-> [old \in 1..width |->
           IF old = width THEN (IF lo = 1 THEN <<>> ELSE <<root[width][lo]>>)
           ELSE LET k == SplitPoint(width)
                IN IF old <= k
                   THEN Append(proof[k][lo][old], root[width - k][lo + k])
                   ELSE Append(proof[width - k][lo + k][old - k], root[k][lo])]]
  IN IF m = 0 THEN <<>> ELSE proof[n][1][m]

\* The old tree is a subtree of the new one: a power of two, the largest one
\* up to itself.
IsSubtree(m, n) == m \in 1..(n - 1) /\ SplitPoint(m + 1) = m

\* The same proof with the old root in it, as the check of section 2.1.4.2
\* completes it before it starts ("prepend first_hash").
CompletedProof(f, m, n) ==
  IF IsSubtree(m, n) THEN <<Root(f, m)>> \o ConsistencyProof(f, m, n)
  ELSE ConsistencyProof(f, m, n)

Consistency(f, m, n, proof) ==
  [old_tree_size |-> m, new_tree_size |-> n,
   old_root |-> IF m = 0 THEN Absent ELSE Root(f, m), new_root |-> Root(f, n),
   proof |-> proof]

(***************************************************************************)
(* _verify_consistency_nodes.  It raises when the proof is used up.         *)
(***************************************************************************)
Raised == [raised |-> TRUE]
Hashes(old, new) == [raised |-> FALSE, old |-> old, new |-> new]

\* A variant that goes on in the left half when the old tree reaches over it.
ConsistencyNodesLeft(m0, n0, path) ==
  LET at[len \in 0..Len(path)] ==
        [m \in 1..m0 |-> [n \in 1..n0 |->
           LET k   == SplitPoint(n)
               sub == at[len - 1][IF m <= k THEN m ELSE k][k]
           IN IF len = 0 THEN Raised
              ELSE IF m = n THEN Hashes(path[1], path[1])
              ELSE IF sub.raised THEN Raised
              ELSE Hashes(sub.old, Node(sub.new, path[len]))]]
  IN at[Len(path)][m0][n0]

ConsistencyNodes(m0, n0, path) ==
  LET at[len \in 0..Len(path)] ==
        [m \in 1..m0 |-> [n \in 1..n0 |->
           LET k   == SplitPoint(n)
               sub == IF m <= k THEN at[len - 1][m][k] ELSE at[len - 1][m - k][n - k]
           IN IF len = 0 THEN Raised
              ELSE IF m = n THEN Hashes(path[1], path[1])
              ELSE IF sub.raised THEN Raised
              ELSE IF m <= k THEN Hashes(sub.old, Node(sub.new, path[len]))
              ELSE Hashes(Node(path[len], sub.old), Node(path[len], sub.new))]]
  IN at[Len(path)][m0][n0]

(***************************************************************************)
(* verify_continuity_checkpoint.                                            *)
(***************************************************************************)
HeadHolds(c) == c.signature = [over |-> c.sth, by |-> c.sth_public_key_hex]

\* A variant that does not compare the leaf with the receipt.
InclusionHoldsOfAnyLeaf(receipt, p) ==
  PathHolds(p.leaf_hash, p.entry_id, p.sth_tree_size, p.audit_path, p.sth_root)

InclusionHolds(receipt, p) ==
  /\ p.leaf_hash = Leaf(ReceiptHash(receipt))
  /\ PathHolds(p.leaf_hash, p.entry_id, p.sth_tree_size, p.audit_path, p.sth_root)

IsOfTheHead(p, sth) == p.sth_root = sth.root_hash /\ p.sth_tree_size = sth.tree_size

\* A variant that takes the old root for granted.
ConsistencyHoldsOfTheNewRoot(c) ==
  LET m == c.old_tree_size
      n == c.new_tree_size
      hashes == ConsistencyNodes(m, n, c.proof)
  IN /\ m <= n
     /\ CASE m = 0 -> c.proof = <<>>
          [] m = n /\ m # 0 -> c.proof = <<>> /\ c.old_root = c.new_root
          [] OTHER -> c.proof # <<>> /\ ~hashes.raised /\ hashes.new = c.new_root

ConsistencyHolds(c) ==
  LET m == c.old_tree_size
      n == c.new_tree_size
      hashes == ConsistencyNodes(m, n, c.proof)
  IN /\ m <= n
     /\ CASE m = 0 -> c.proof = <<>>
          [] m = n /\ m # 0 -> c.proof = <<>> /\ c.old_root = c.new_root
          [] OTHER -> /\ c.proof # <<>>
                      /\ ~hashes.raised
                      /\ hashes.old = c.old_root /\ hashes.new = c.new_root

Vouches(b) ==
  /\ HeadHolds(b.checkpoint)
  /\ b.inclusion_proof # Absent
  /\ InclusionHolds(b.receipt, b.inclusion_proof)
  /\ IsOfTheHead(b.inclusion_proof, b.checkpoint.sth)
  /\ b.consistency_proof = Absent \/ ConsistencyHolds(b.consistency_proof)

(***************************************************************************)
(* The operator and the exporter.                                           *)
(***************************************************************************)
AppendReceipt ==
  /\ size < MaxLog
  /\ size' = size + 1
  /\ UNCHANGED <<bundle, vouched>>

Give(receipt, checkpoint, inclusion, consistency) ==
  LET b == [receipt |-> receipt, checkpoint |-> checkpoint,
            inclusion_proof |-> inclusion, consistency_proof |-> consistency]
  IN /\ bundle' = b
     /\ vouched' = Vouches(b)
     /\ UNCHANGED size

\* A bundle as it should be: at the head of s receipts, with or without the
\* way from the head of m, the old root left out or put in.
GiveBundle(n, s, consistency) ==
  Give(n, SignedHead(MaxLog, s, HeadKey), Inclusion(n, MaxLog, s), consistency)

HonestProofs(m, n) == {ConsistencyProof(MaxLog, m, n), CompletedProof(MaxLog, m, n)}

HonestConsistency(n) ==
  UNION {{Consistency(MaxLog, m, n, proof) : proof \in HonestProofs(m, n)} : m \in 0..n}

\* Bound: parts are mixed once the log is as long as it gets, since an earlier
\* head is the same in a longer log; and of two logs at a time.
Mixing == size = MaxLog
Forks  == 0..MaxLog

\* Receipt, head and proof of different entries, heads, logs and keys.
GiveMixedInclusion(n, f, s, other) ==
  /\ Mixing
  /\ \/ \E key \in {HeadKey, CopyKey} : Give(n, SignedHead(f, s, key), other, Absent)
     \/ Give(n, SignedHead(f, s, HeadKey), Absent, Absent)
     \/ Give(n, [SignedHead(f, s, HeadKey) EXCEPT !.sth.root_hash = other.sth_root], other, Absent)

InclusionsOf(logs) ==
  UNION {{Inclusion(i, f, s) : f \in logs, i \in 1..s} : s \in 1..size}

\* Heads, sizes and proofs of two logs; of a proof, nodes may be lost or
\* doubled.
GiveMixedConsistency(from, to, m, n, proof) ==
  /\ Mixing
  /\ Give(1, SignedHead(MaxLog, size, HeadKey), Inclusion(1, MaxLog, size),
          [old_tree_size |-> m, new_tree_size |-> n,
           old_root |-> Root(from, m), new_root |-> Root(to, n), proof |-> proof])

Bent(proof) ==
  IF proof = <<>> THEN {proof}
  ELSE {proof, Tail(proof), SubSeq(proof, 1, Len(proof) - 1), <<proof[1]>> \o proof}

PathsOf(logs) ==
  UNION {UNION {Bent(CompletedProof(f, m, n)) : f \in logs, m \in 1..n} : n \in 1..size}

GiveAny ==
  \/ \E s \in 1..size : \E n \in 1..s, c \in HonestConsistency(s) \cup {Absent} :
       GiveBundle(n, s, c)
  \/ \E f \in Forks : \E other \in InclusionsOf({f, MaxLog}), s, n \in 1..size :
       GiveMixedInclusion(n, f, s, other)
  \/ \E f \in Forks : \E proof \in PathsOf({f, MaxLog}), m, n \in 1..size :
       \/ GiveMixedConsistency(MaxLog, f, m, n, proof)
       \/ GiveMixedConsistency(f, MaxLog, m, n, proof)

LogNext == bundle = Absent /\ (AppendReceipt \/ GiveAny)

LogSpec == LogInit /\ [][LogNext]_logvars

=============================================================================

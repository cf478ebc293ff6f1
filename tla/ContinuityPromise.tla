------------------------- MODULE ContinuityPromise -------------------------
(***************************************************************************)
(* What an accepted continuity bundle shows.                                *)
(***************************************************************************)
EXTENDS ContinuityLog

(***************************************************************************)
(* If the head of an accepted bundle is one its key's holder signed for a   *)
(* log, then the receipt of the bundle is an entry of that log, at the      *)
(* place the proof names, and below the head's size: however the receipt,   *)
(* the head and the path were put together.                                 *)
(***************************************************************************)
TheReceiptIsInTheLog ==
  vouched => \E f \in Forks :
    LET sth == bundle.checkpoint.sth
        place == bundle.inclusion_proof.entry_id + 1 IN
    /\ sth.root_hash = Root(f, sth.tree_size)
    /\ place <= sth.tree_size
    /\ Entries(f, sth.tree_size)[place] = ReceiptHash(bundle.receipt)

(***************************************************************************)
(* Two heads an accepted bundle takes for consistent are heads of one log:  *)
(* whatever is in the old one is in the new one, at the same place.  A log  *)
(* that was forked before the old head is never taken for its continuation, *)
(* by any proof there is.  (An empty old log says nothing.)                 *)
(***************************************************************************)
ConsistentHeadsAreOneLog ==
  LET c == bundle.consistency_proof IN
  vouched /\ c # Absent =>
    \A f, g \in Forks :
      /\ c.old_tree_size # 0
      /\ c.old_root = Root(f, c.old_tree_size) /\ c.new_root = Root(g, c.new_tree_size)
      => Entries(f, c.old_tree_size) = Entries(g, c.old_tree_size)

(***************************************************************************)
(* A bundle put together as it should be is accepted, for every receipt, at *)
(* every head the log ever had, from every older head, the empty one and    *)
(* the same one included - but the check wants every proof to begin with a  *)
(* node: where RFC 9162 has the log leave the old root out, the bundle is   *)
(* refused, and accepted once the old root is put in front.                 *)
(***************************************************************************)
HonestParts ==
  LET s == bundle.checkpoint.sth.tree_size IN
  /\ bundle # Absent /\ bundle.inclusion_proof # Absent
  /\ bundle.checkpoint = SignedHead(MaxLog, s, HeadKey)
  /\ bundle.receipt <= s /\ bundle.inclusion_proof = Inclusion(bundle.receipt, MaxLog, s)

\* c was given out by the log, with one of these proofs.
IsHonest(c, proofs) ==
  /\ c.old_tree_size <= c.new_tree_size
  /\ c.proof \in proofs
  /\ c = Consistency(MaxLog, c.old_tree_size, c.new_tree_size, c.proof)

HonestBundlesPass ==
  LET c == bundle.consistency_proof
      m == c.old_tree_size
      n == c.new_tree_size IN
  /\ HonestParts /\ c = Absent => vouched
  /\ HonestParts /\ c # Absent /\ IsHonest(c, HonestProofs(m, n)) =>
       (vouched <=> c.proof = CompletedProof(MaxLog, m, n))

(***************************************************************************)
(* What the repository says and a run refutes.                              *)
(***************************************************************************)
\* The docstring of _verify_consistency_nodes: RFC 9162 section 2.1.4.2
\* consistency-proof verification.  A bundle with the proof the RFC has the
\* log give out is accepted.
RFCProofsPass ==
  LET c == bundle.consistency_proof IN
  HonestParts /\ c # Absent
  /\ IsHonest(c, {ConsistencyProof(MaxLog, c.old_tree_size, c.new_tree_size)})
  => vouched

=============================================================================

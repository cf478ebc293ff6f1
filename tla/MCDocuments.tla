----------------------------- MODULE MCDocuments -----------------------------
(***************************************************************************)
(* The documents that have a verifier of their own beside the dispute       *)
(* packet: the exports of a ledger with two tenants, one of them with two   *)
(* actions, and up to five events, the smallest tree with a leaf two levels *)
(* above the others; the continuity bundles of a log of up to six receipts; *)
(* and the seals of an agent, two of them, over two paths and three files   *)
(* of up to two records.  They have no state in common, so a behaviour      *)
(* moves one of the three, from the start of all.                           *)
(***************************************************************************)
EXTENDS ExportPromise, ContinuityPromise, SealPromise, TLC

Kind(t, a) == [tenant_id |-> t, action_id |-> a]
MCKinds == {Kind("t1", "a1"), Kind("t1", "a2"), Kind("t2", "a3")}

\* Exports and bundles do not know of paths and files.
Symmetric == Permutations(Inodes) \cup Permutations(Paths)

DocumentsInit == Init /\ LogInit /\ SealInit

DocumentsNext ==
  \/ LogInit /\ SealInit /\ Next /\ UNCHANGED <<logvars, sealvars>>
  \/ Init /\ SealInit /\ LogNext /\ UNCHANGED <<vars, sealvars>>
  \/ Init /\ LogInit /\ SealNext /\ UNCHANGED <<vars, logvars>>

DocumentsSpec == DocumentsInit /\ [][DocumentsNext]_<<vars, logvars, sealvars>>

=============================================================================

--------------------------- MODULE ArchiveEvidence ---------------------------
(***************************************************************************)
(* An archive export and the checks verify_archive_export makes on it: the  *)
(* ledger slice, the set of workpapers against the subject its attestation  *)
(* is about, and, for whom has a trust root of his own, the timestamp and   *)
(* the transparency receipt of that subject.                                *)
(*                                                                          *)
(* An attestation is                                                        *)
(*  [readable : all four files of the export parse,                         *)
(*   papers   : a sequence of content hashes, None for a workpaper without, *)
(*   subject  : [sha256, sha3_256], the subject_hashes of the record,       *)
(*   chains   : a sequence of chains]                                       *)
(* and a chain is                                                           *)
(*  [anchor_type, complete : the fields of its anchor are there,            *)
(*   token : [parses, sound : BOOLEAN, imprint, root : who certified it],   *)
(*   proof : [leaf, climbs : its path leads from leaf to sth_root,          *)
(*            sth_root, sth_tree_size],                                     *)
(*   sth   : [root_hash, tree_size, signed_by]].                            *)
(* `climbs` is LedgerTree's PathHolds; inside a token only what is stamped, *)
(* by whom, and whether its own signatures hold is told apart.              *)
(***************************************************************************)
EXTENDS Evidence, FiniteSets

NotHex == <<"none", "not hex">>   \* a text bytes.fromhex raises on

NoSubject == [sha256 |-> None, sha3_256 |-> None]

Hashed(a) == {i \in DOMAIN a.papers : a.papers[i] # None}

\* The Merkle root over the sorted hashes: each, as often as it is there.
WorkpaperRoot(a) ==
  Hash("workpapers",
       [h \in {a.papers[i] : i \in Hashed(a)} |->
          Cardinality({i \in Hashed(a) : a.papers[i] = h})])

\* _compute_workpaper_set_hashes, of an index with any hash in it.
CurrentSubject(a) ==
  IF Hashed(a) = {} THEN NoSubject
  ELSE [sha256 |-> WorkpaperRoot(a), sha3_256 |-> Hash("sha3_256", WorkpaperRoot(a))]

ChainsOfType(a, type) == {i \in DOMAIN a.chains : a.chains[i].anchor_type = type}
FirstChain(a, type)   == a.chains[FirstOf(ChainsOfType(a, type))]

\* verify_rfc3161_token.
TokenCodes(token, hash, roots) ==
  IF ~token.parses THEN {"TSA_TOKEN_INVALID"}
  ELSE IF token.imprint # hash THEN {"TSA_TOKEN_HASH_MISMATCH"}
  ELSE IF ~token.sound THEN {"TSA_TOKEN_INVALID"}
  ELSE Report("TSA_TOKEN_NO_TRUSTED_ROOT", token.root \notin roots)

\* verify_scitt_receipt.
ScittCodes(hash, proof, sth, key) ==
  Report("STH_SIGNATURE_INVALID", sth.signed_by # key)
  \cup Report("ANCHOR_INCLUSION_PROOF_INVALID",
         proof.leaf # Hash("leaf", hash) \/ ~proof.climbs)
  \cup Report("ANCHOR_CHECKPOINT_MISMATCH",
         proof.sth_root # sth.root_hash \/ proof.sth_tree_size # sth.tree_size)

(***************************************************************************)
(* The trust roots of a command c: c.tsa_roots, the timestamp authorities   *)
(* whose certificates it names, c.sth_key, the log's key (NoKey for none or *)
(* the empty string), and c.asn1, that asn1crypto can be imported.          *)
(***************************************************************************)
AsksForTsa(c)   == c.tsa_roots # {}
AsksForScitt(c) == c.sth_key # NoKey

TsaCodes(c, a) ==
  IF ChainsOfType(a, "rfc3161_tsa") = {} THEN {"ARCHIVE_EXPORT_NO_TSA_CHAIN"}
  ELSE TokenCodes(FirstChain(a, "rfc3161_tsa").token, a.subject.sha256, c.tsa_roots)

ReceiptOfLogCodes(c, a) ==
  LET chain == FirstChain(a, "sth_inclusion") IN
  IF ChainsOfType(a, "sth_inclusion") = {} THEN {"ARCHIVE_EXPORT_NO_SCITT_CHAIN"}
  ELSE ScittCodes(a.subject.sha3_256, chain.proof, chain.sth, c.sth_key)

\* verify_archive_export_ledger_slice: the checks of verify_events, but for
\* the schema and the action (and with names of their own).
ArchiveSliceCodes(is_archive, manifest, events) ==
  HeaderCodes([schema_ok |-> is_archive, event_count |-> manifest.event_count,
               chain_start |-> manifest.chain_start], events)
  \cup (UNION {EventCodes(events, i) : i \in Walked(events)})

\* verify_archive_export.
ArchiveCodes(c, is_archive, manifest, events, a) ==
  IF ~a.readable THEN {"UNREADABLE_ARCHIVE_EXPORT"}
  ELSE ArchiveSliceCodes(is_archive, manifest, events)
       \cup Report("ARCHIVE_EXPORT_WORKPAPER_SET_TAMPERED", CurrentSubject(a) # a.subject)
       \cup (IF AsksForTsa(c) THEN TsaCodes(c, a) ELSE {})
       \cup (IF AsksForScitt(c) THEN ReceiptOfLogCodes(c, a) ELSE {})

\* What nothing in it or in main() catches: a hash that is no hex, an anchor
\* without its fields, and a token to check with no asn1crypto.
ArchiveRaises(c, a) ==
  /\ a.readable
  /\ \/ \E i \in Hashed(a) : a.papers[i] = NotHex
     \/ /\ AsksForTsa(c) /\ ChainsOfType(a, "rfc3161_tsa") # {}
        /\ \/ ~FirstChain(a, "rfc3161_tsa").complete
           \/ ~c.asn1 \/ a.subject.sha256 = NotHex
     \/ /\ AsksForScitt(c) /\ ChainsOfType(a, "sth_inclusion") # {}
        /\ ~FirstChain(a, "sth_inclusion").complete

=============================================================================

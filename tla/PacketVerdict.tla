---------------------------- MODULE PacketVerdict ----------------------------
(***************************************************************************)
(* What verify.py promises about a dispute packet, stated without failure   *)
(* codes or an order of checks: VerdictOf(c, p) is what a run on command    *)
(* line c and packet p prints.                                              *)
(***************************************************************************)
EXTENDS ArchiveEvidence

(***************************************************************************)
(* A command is                                                             *)
(*  [runnable : the cryptography package is there and every flag is whole,  *)
(*   oqs, archive_export : BOOLEAN,                                         *)
(*   pinned : BOOLEAN, pin : a key or NoKey,                                *)
(*   keyring_given, keyring_readable : BOOLEAN, keyring : a keyring,        *)
(*   checkpoint : an event hash or None, sth_key, tsa_roots, asn1]          *)
(* and a packet is                                                          *)
(*  [base : "directory", "unsafe_zip" or "missing",                         *)
(*   archive : its manifest is an archive export's, readable : BOOLEAN,     *)
(*   manifest, receipt, events, documents, attestation].                    *)
(***************************************************************************)
EarlyDocuments == {"verifier_digest", "ledger_root_version"}
LateDocuments  == {"continuity_checkpoint", "authentication_docs",
                   "scope_conformance", "approver_snapshot",
                   "approval_manifestation", "ledger_head_anchor",
                   "settlement_anchor"}
Documents == EarlyDocuments \cup LateDocuments

ExitCode(v) ==
  IF v \in {"VERIFIED", "VERIFIED (chain only)", "VERIFIED (archive export)"} THEN 0
  ELSE IF v = "UNABLE_TO_RUN" THEN 2
  ELSE 1

\* The command line: no key and keyring together (an empty pin counts as no
\* pin here), and a keyring that reads.
PinNamed(c) == c.pinned /\ c.pin # NoKey

Usable(c) ==
  /\ c.runnable
  /\ c.keyring_given => ~PinNamed(c) /\ c.keyring_readable

ArchiveMode(c, p) == c.archive_export \/ p.archive

CallerSuppliedKey(c) == PinNamed(c) \/ c.keyring_given

\* Every hash of an event is the hash of what the event says.
WellHashed(e) ==
  /\ Complete(e)
  /\ e.payload_hash = PayloadHash(e.payload)
  /\ e.event_id = EventId(e)
  /\ e.event_hash = EventHash(e)

\* An unbroken chain of well-hashed events that starts at `start`.
ChainFrom(start, events) ==
  /\ \A i \in DOMAIN events : WellHashed(events[i])
  /\ \A i \in DOMAIN events :
       events[i].previous_event_hash =
         IF i = 1 THEN start ELSE events[i - 1].event_hash

\* The slice is a chain, the one the manifest describes.
Intact(p) ==
  /\ p.manifest.schema_ok
  /\ p.manifest.event_count = Len(p.events)
  /\ p.events # <<>>
  /\ ChainFrom(p.manifest.chain_start, p.events)
  /\ \E i \in DOMAIN p.events : p.events[i].action_id = p.manifest.action_id

\* The receipt was signed, in the way its algorithm names, by the holder of
\* key; a weak Ed25519 key or R never counts.
StrictlyMade(key, receipt) ==
  /\ Made("classical", key, receipt)
  /\ key \notin WeakKeys
  /\ ~receipt.signature.weak_r

Authentic(key, receipt, oqs) ==
  LET alg == receipt.body.algorithm IN
  /\ Decodable(key, receipt)
  /\ \/ alg = "ed25519" /\ StrictlyMade(key, receipt)
     \/ alg = "ecdsa-p256-sha256" /\ Made("classical", key, receipt)
     \/ alg \in MLDSA /\ oqs /\ Made("pq", key, receipt)
     \/ /\ alg = HYBRID /\ oqs /\ receipt.signature.paired
        /\ StrictlyMade(key, receipt) /\ Made("pq", key, receipt)

Entries(p) == EntriesNamed(p.events, p.receipt.body.ledger_entry_hash)

\* The receipt belongs to an event of the slice, of the manifest's action,
\* which does not contradict the receipt's action hash.
Bound(p) ==
  LET entry == p.events[FirstOf(Entries(p))] IN
  /\ Entries(p) # {}
  /\ entry.action_id = p.manifest.action_id
  /\ entry.payload.action_packet_hash \in {None, p.receipt.body.action_hash}

\* The signed key hash, when the receipt has one, is the manifest key's.
SignerNamed(p) ==
  p.receipt.body.signer_pubkey_hash \in
    {None, PubkeyHash(p.manifest.receipt_public_key)}

\* A pin, the empty one too, is the manifest's key.
PinAgrees(c, p) == c.pinned => c.pin = p.manifest.receipt_public_key

Points(c, p) == EntriesNamed(p.events, c.checkpoint)

\* The checkpoint is in the slice, at or after the receipt's entry.
Covered(c, p) ==
  /\ Points(c, p) # {}
  /\ Entries(p) # {} => FirstOf(Entries(p)) <= FirstOf(Points(c, p))

\* Between the entry and the checkpoint the ledger records the receipt.
Committed(c, p) ==
  /\ Entries(p) # {}
  /\ Recorded(p.manifest, p.receipt, p.events,
              FirstOf(Entries(p)), FirstOf(Points(c, p)))

DocumentsPass(p) == \A d \in Documents : p.documents[d] = "passes"

\* The caller's keyring names the key, unrevoked, and the manifest agrees.
KeyringVouches(c, p) ==
  LET kid == p.receipt.body.key_id IN
  /\ kid \in DOMAIN c.keyring
  /\ ~c.keyring[kid].revoked
  /\ c.keyring[kid].public_key = p.manifest.receipt_public_key

\* The ordinary result.
Verified(c, p) ==
  /\ Intact(p) /\ Bound(p) /\ DocumentsPass(p)
  /\ Authentic(p.manifest.receipt_public_key, p.receipt, c.oqs)
  /\ SignerNamed(p) /\ PinAgrees(c, p)
  /\ c.keyring_given => KeyringVouches(c, p)
  /\ c.checkpoint # None => Covered(c, p)

\* The result a checkpoint can give when the signature cannot be relied on.
\* An algorithm this machine cannot evaluate leaves the entry unexamined.
ChainOnly(c, p) ==
  /\ c.checkpoint # None /\ ~CallerSuppliedKey(c) /\ PinAgrees(c, p)
  /\ Intact(p) /\ DocumentsPass(p) /\ Covered(c, p)
  /\ ~ (/\ Authentic(p.manifest.receipt_public_key, p.receipt, c.oqs)
        /\ SignerNamed(p))
  /\ IF ReturnsEarly(p.manifest.receipt_public_key, p.receipt, c.oqs)
     THEN Entries(p) # {} => Committed(c, p)
     ELSE Bound(p) /\ Committed(c, p)

(***************************************************************************)
(* The result for an archive export: a slice that is a chain, the very set  *)
(* of workpapers the attestation is about and, where the caller brought a   *)
(* root of trust, that set timestamped under it, or logged under it.        *)
(***************************************************************************)
TimestampedUnder(roots, a) ==
  LET chains == ChainsOfType(a, "rfc3161_tsa")
      token  == a.chains[FirstOf(chains)].token
  IN /\ chains # {} /\ token.parses /\ token.sound
     /\ token.root \in roots /\ token.imprint = a.subject.sha256

LoggedUnder(key, a) ==
  LET chains == ChainsOfType(a, "sth_inclusion")
      proof  == a.chains[FirstOf(chains)].proof
      sth    == a.chains[FirstOf(chains)].sth
  IN /\ chains # {} /\ sth.signed_by = key
     /\ proof.climbs /\ proof.leaf = Hash("leaf", a.subject.sha3_256)
     /\ proof.sth_root = sth.root_hash /\ proof.sth_tree_size = sth.tree_size

ArchiveVerified(c, p) ==
  LET a == p.attestation IN
  /\ a.readable
  /\ p.archive
  /\ p.manifest.event_count = Len(p.events)
  /\ p.events # <<>>
  /\ ChainFrom(p.manifest.chain_start, p.events)
  /\ a.subject = CurrentSubject(a)
  /\ AsksForTsa(c) => TimestampedUnder(c.tsa_roots, a)
  /\ AsksForScitt(c) => LoggedUnder(c.sth_key, a)

VerdictOf(c, p) ==
  IF ~Usable(c) THEN "UNABLE_TO_RUN"
  ELSE IF p.base # "directory" THEN "UNREADABLE"
  ELSE IF ArchiveMode(c, p)
    THEN IF c.checkpoint # None THEN "UNABLE_TO_RUN"
         ELSE IF ArchiveRaises(c, p.attestation) THEN "TRACEBACK"
         ELSE IF ArchiveVerified(c, p) THEN "VERIFIED (archive export)"
         ELSE "VERIFICATION FAILED"
  ELSE IF ~p.readable THEN "UNREADABLE"
  ELSE IF \E d \in Documents : p.documents[d] = "raises" THEN "TRACEBACK"
  ELSE IF Verified(c, p) THEN "VERIFIED"
  ELSE IF ChainOnly(c, p) THEN "VERIFIED (chain only)"
  ELSE "VERIFICATION FAILED"

=============================================================================

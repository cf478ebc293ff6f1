------------------------------ MODULE Evidence ------------------------------
(***************************************************************************)
(* The evidence a dispute packet carries and the checks verify.py makes on  *)
(* it, as pure operators: the ledger slice, the receipt's signature, the    *)
(* receipt's place in the slice, the caller's key or keyring, and the       *)
(* caller's checkpoint.  A check returns the set of failure codes it adds   *)
(* to main()'s `failures` list.                                             *)
(*                                                                          *)
(* Hashes are free constructors: <<kind, preimage>>.  Two hashes are equal  *)
(* exactly when what was hashed is equal, which is the collision freedom    *)
(* of SHA-256 over canonical JSON that the program relies on.               *)
(***************************************************************************)
EXTENDS Integers, Sequences

CONSTANTS
  Keys,      \* public keys a receipt may be checked against
  NoKey,     \* no key: a manifest that names none, a pin that is the empty string
  WeakKeys   \* the Ed25519 keys the library accepts and verify.py refuses

ASSUME KeysAssumption == NoKey \notin Keys /\ WeakKeys \subseteq Keys

(***************************************************************************)
(* Values                                                                   *)
(***************************************************************************)
None == <<"none", "null">>        \* a JSON null, or a field that is absent
Hash(kind, x) == <<kind, x>>      \* canonical_hash of a value of that kind

\* A failure code when its condition holds, nothing otherwise.
Report(code, holds) == IF holds THEN {code} ELSE {}

\* The first position of a non-empty set of positions.
FirstOf(S) == CHOOSE i \in S : \A j \in S : i <= j

(***************************************************************************)
(* The ledger slice.  An event is                                           *)
(*   [material   : BOOLEAN    - every field of EVENT_MATERIAL_FIELDS is there *)
(*    event_type, action_id,                                                *)
(*    payload    : [action_packet_hash, receipt_hash]                       *)
(*    payload_hash, previous_event_hash, event_id, event_hash : hashes]     *)
(* and event_type stands for the remaining descriptive fields.              *)
(***************************************************************************)
Material(e) ==
  [event_type |-> e.event_type, action_id |-> e.action_id,
   payload |-> e.payload, payload_hash |-> e.payload_hash,
   previous_event_hash |-> e.previous_event_hash]

PayloadHash(p) == Hash("payload", p)
EventId(e)     == Hash("event_id", Material(e))
EventHash(e)   == Hash("event_hash", <<Material(e), e.event_id>>)

\* Nothing the walk reads is missing, so the walk goes on to the next event.
Complete(e) == e.material /\ e.event_id # None /\ e.event_hash # None

\* The events the walk reads: up to and including the first incomplete one.
Walked(events) ==
  {i \in DOMAIN events : \A j \in 1..(i - 1) : Complete(events[j])}

\* A variant that starts the previous-event comparison one event late.
EventCodesFromTheThird(events, i) ==
  LET e == events[i] IN
    Report("PAYLOAD_HASH_MISMATCH",
           e.material /\ e.payload_hash # PayloadHash(e.payload))
    \cup Report("EVENT_ID_MISMATCH",
           e.material /\ e.event_id # None /\ e.event_id # EventId(e))
    \cup Report("EVENT_HASH_MISMATCH",
           Complete(e) /\ e.event_hash # EventHash(e))
    \cup Report("CHAIN_BROKEN",
           /\ Complete(e) /\ i > 2
           /\ e.previous_event_hash # events[i - 1].event_hash)
    \cup Report("MALFORMED_EVENT", ~Complete(e))

\* What the body of the loop reports of event i.  A missing field raises in
\* the middle of the body: what was reported of the event before it stays.
EventCodes(events, i) ==
  LET e == events[i] IN
    Report("PAYLOAD_HASH_MISMATCH",
           e.material /\ e.payload_hash # PayloadHash(e.payload))
    \cup Report("EVENT_ID_MISMATCH",
           e.material /\ e.event_id # None /\ e.event_id # EventId(e))
    \cup Report("EVENT_HASH_MISMATCH",
           Complete(e) /\ e.event_hash # EventHash(e))
    \cup Report("CHAIN_BROKEN",
           /\ Complete(e) /\ i > 1
           /\ e.previous_event_hash # events[i - 1].event_hash)
    \cup Report("MALFORMED_EVENT", ~Complete(e))

\* What the checks before the loop report.
HeaderCodes(manifest, events) ==
  Report("MANIFEST_SCHEMA_MISMATCH", ~manifest.schema_ok)
  \cup Report("EVENT_COUNT_MISMATCH", manifest.event_count # Len(events))
  \cup Report("EMPTY_LEDGER_SLICE", events = <<>>)
  \cup Report("CHAIN_START_MISMATCH",
         /\ events # <<>>
         /\ events[1].previous_event_hash # manifest.chain_start)

\* What the check after the loop reports.
ActionCodes(manifest, events) ==
  Report("ACTION_NOT_IN_SLICE",
         \A i \in DOMAIN events : events[i].action_id # manifest.action_id)

\* verify_events: every code it may add, as one set.
EventsCodes(manifest, events) ==
  HeaderCodes(manifest, events)
  \cup (UNION {EventCodes(events, i) : i \in Walked(events)})
  \cup IF events # <<>> /\ \A i \in DOMAIN events : Complete(events[i])
         THEN ActionCodes(manifest, events) ELSE {}

(***************************************************************************)
(* The receipt's signature.  A receipt is                                   *)
(*   [body      : [algorithm, key_id, signer_pubkey_hash,                   *)
(*                 ledger_entry_hash, action_hash, decision],               *)
(*    signature : [readable, paired, weak_r : BOOLEAN,                      *)
(*                 classical, pq : the key whose holder made that half,     *)
(*                 over : the body it was made over]]                       *)
(* `body` is the receipt minus signature and tsa_anchor: what is signed and *)
(* what the receipt hash covers.  A single-algorithm signature uses one of  *)
(* the two halves; a hybrid key or signature is `paired` when it splits     *)
(* into two non-empty halves.                                               *)
(***************************************************************************)
ReceiptHash(receipt) == Hash("receipt", receipt.body)

\* The holder of key really made this half over this body.
Made(half, key, receipt) ==
  /\ receipt.signature[half] = key
  /\ receipt.signature.over = receipt.body

\* What the library underneath accepts: genuine Ed25519 signatures and, in
\* the corners of the curve, signatures nobody made.
LibraryAcceptsEd25519(key, receipt) ==
  \/ Made("classical", key, receipt)
  \/ key \in WeakKeys
  \/ receipt.signature.weak_r

Ed25519Verify(key, receipt) ==
  /\ key \notin WeakKeys
  /\ ~receipt.signature.weak_r
  /\ LibraryAcceptsEd25519(key, receipt)

MLDSA == {"ml-dsa-65", "ml-dsa-87"}
HYBRID == "hybrid-ed25519-ml-dsa-65"

\* The fields both halves of the verification decode before anything else.
Decodable(key, receipt) == key # NoKey /\ receipt.signature.readable

(***************************************************************************)
(* The code the algorithm branch of a receipt verifier appends, "ok" for    *)
(* none.  `ed25519` is how that verifier checks an Ed25519 (half) signature.*)
(***************************************************************************)
AlgorithmCode(key, receipt, oqs, ed25519) ==
  LET alg == receipt.body.algorithm
      Verdict(holds) == IF holds THEN "ok" ELSE "RECEIPT_SIGNATURE_INVALID"
  IN IF ~Decodable(key, receipt) THEN "RECEIPT_SIGNATURE_INVALID" ELSE
     CASE alg = "ed25519" -> Verdict(ed25519)
       [] alg = "ecdsa-p256-sha256" -> Verdict(Made("classical", key, receipt))
       [] alg \in MLDSA ->
            IF oqs THEN Verdict(Made("pq", key, receipt)) ELSE "ALGORITHM_UNSUPPORTED"
       [] alg = HYBRID ->
            IF ~receipt.signature.paired THEN "INVALID_HYBRID_FORMAT"
            ELSE IF ~ed25519 THEN "RECEIPT_SIGNATURE_INVALID"
            ELSE IF ~oqs THEN "ALGORITHM_UNSUPPORTED"
            ELSE Verdict(Made("pq", key, receipt))
       [] OTHER -> "RECEIPT_SIGNATURE_ALGORITHM_UNKNOWN"

\* verify.py's algorithm branch, which refuses weak keys and weak Rs itself.
SignatureCode(key, receipt, oqs) ==
  AlgorithmCode(key, receipt, oqs, Ed25519Verify(key, receipt))

\* The branches that `return` out of verify_receipt before it looks the
\* receipt's ledger entry up in the slice.
ReturnsEarly(key, receipt, oqs) ==
  /\ Decodable(key, receipt)
  /\ \/ SignatureCode(key, receipt, oqs) \in
          {"ALGORITHM_UNSUPPORTED", "INVALID_HYBRID_FORMAT",
           "RECEIPT_SIGNATURE_ALGORITHM_UNKNOWN"}
     \/ receipt.body.algorithm = HYBRID /\ ~Ed25519Verify(key, receipt)

(***************************************************************************)
(* The receipt's place in the slice.                                        *)
(***************************************************************************)
EntriesNamed(events, hash) ==
  {i \in DOMAIN events : events[i].event_hash = hash}

BindingCodes(manifest, receipt, events) ==
  LET entries == EntriesNamed(events, receipt.body.ledger_entry_hash)
      bound   == events[FirstOf(entries)]
      recorded == bound.payload.action_packet_hash
  IN IF entries = {} THEN {"RECEIPT_LEDGER_ENTRY_NOT_IN_SLICE"}
     ELSE Report("RECEIPT_BOUND_TO_DIFFERENT_ACTION",
                 bound.action_id # manifest.action_id)
          \cup Report("RECEIPT_ACTION_HASH_MISMATCH",
                 recorded # None /\ recorded # receipt.body.action_hash)

\* verify_receipt, checked against `key`.
ReceiptCodes(manifest, receipt, events, key, oqs) ==
  Report(SignatureCode(key, receipt, oqs), SignatureCode(key, receipt, oqs) # "ok")
  \cup IF ReturnsEarly(key, receipt, oqs) THEN {}
       ELSE BindingCodes(manifest, receipt, events)

(***************************************************************************)
(* The caller's key: a pinned key, or a keyring (a function from key ids to *)
(* [public_key, revoked, active]).                                          *)
(***************************************************************************)
PubkeyHash(key) == Hash("pubkey", key)

\* verify_receipt_key_binding.  `pinned` says whether a pin was passed: the
\* pin may be the empty string, which is NoKey.
KeyBindingCodes(manifest, receipt, pinned, pin) ==
  Report("RECEIPT_SIGNER_PUBKEY_HASH_MISMATCH",
         /\ receipt.body.signer_pubkey_hash # None
         /\ receipt.body.signer_pubkey_hash # PubkeyHash(manifest.receipt_public_key))
  \cup Report("RECEIPT_KEY_NOT_TRUSTED",
         pinned /\ pin # manifest.receipt_public_key)

\* classify_receipt_key: the status of a receipt under the keyring.
KeyStatus(receipt, keyring, signature_ok) ==
  LET kid == receipt.body.key_id IN
    IF kid \notin DOMAIN keyring THEN "RECEIPT_KEY_UNKNOWN"
    ELSE IF ~signature_ok THEN "RECEIPT_SIGNATURE_INVALID"
    ELSE IF keyring[kid].revoked THEN "RECEIPT_KEY_REVOKED"
    ELSE IF keyring[kid].active THEN "RECEIPT_KEY_CURRENT"
    ELSE "RECEIPT_KEY_ROTATED_OUT"

\* The statuses classify_receipt_key also appends as a failure.
StatusCodes(status) ==
  Report(status, status \notin {"RECEIPT_KEY_CURRENT", "RECEIPT_KEY_ROTATED_OUT"})

\* A variant that checks the receipt under the key the packet declares.
KeyringKeyFromTheManifest(manifest, receipt, keyring) == manifest.receipt_public_key

\* The key verify_receipt_with_keyring hands to verify_receipt.
KeyringKey(manifest, receipt, keyring) ==
  LET kid == receipt.body.key_id IN
    IF kid \in DOMAIN keyring THEN keyring[kid].public_key
    ELSE manifest.receipt_public_key

KeyringStatus(manifest, receipt, events, keyring, oqs) ==
  LET codes == ReceiptCodes(manifest, receipt, events,
                            KeyringKey(manifest, receipt, keyring), oqs)
  IN KeyStatus(receipt, keyring, "RECEIPT_SIGNATURE_INVALID" \notin codes)

\* A variant that does not compare the keyring's key with the manifest's.
KeyringCodesWithoutManifestKey(manifest, receipt, events, keyring, oqs) ==
  (ReceiptCodes(manifest, receipt, events, KeyringKey(manifest, receipt, keyring), oqs)
     \ {"RECEIPT_SIGNATURE_INVALID"})
  \cup StatusCodes(KeyringStatus(manifest, receipt, events, keyring, oqs))

\* verify_receipt_with_keyring: its codes; its return value is KeyringStatus.
KeyringCodes(manifest, receipt, events, keyring, oqs) ==
  LET key    == KeyringKey(manifest, receipt, keyring)
      codes  == ReceiptCodes(manifest, receipt, events, key, oqs)
      status == KeyringStatus(manifest, receipt, events, keyring, oqs)
  IN (codes \ {"RECEIPT_SIGNATURE_INVALID"})
     \cup StatusCodes(status)
     \cup Report("RECEIPT_MANIFEST_KEY_MISMATCH",
            /\ receipt.body.key_id \in DOMAIN keyring
            /\ "RECEIPT_SIGNATURE_INVALID" \notin codes
            /\ manifest.receipt_public_key # key)

(***************************************************************************)
(* The caller's checkpoint.                                                 *)
(***************************************************************************)
CHECKPOINT_CAN_STAND_IN_FOR ==
  {"RECEIPT_SIGNATURE_INVALID", "RECEIPT_SIGNATURE_ALGORITHM_UNKNOWN",
   "ALGORITHM_UNSUPPORTED", "INVALID_HYBRID_FORMAT",
   "RECEIPT_SIGNER_PUBKEY_HASH_MISMATCH", "RECEIPT_KEY_UNKNOWN"}

\* An event of the manifest's action, between the two positions, records
\* this receipt's hash.
Recorded(manifest, receipt, events, from, to) ==
  \E i \in from..to : /\ events[i].payload.receipt_hash = ReceiptHash(receipt)
                      /\ events[i].action_id = manifest.action_id

\* A variant that only asks where the checkpoint is.
CheckpointCodesByPosition(manifest, receipt, events, checkpoint, need_content) ==
  LET points  == EntriesNamed(events, checkpoint)
      entries == EntriesNamed(events, receipt.body.ledger_entry_hash)
  IN IF points = {} THEN {"CHECKPOINT_NOT_IN_SLICE"}
     ELSE IF entries = {} THEN {}
     ELSE Report("CHECKPOINT_BEFORE_RECEIPT_ENTRY", FirstOf(points) < FirstOf(entries))

\* verify_checkpoint.
CheckpointCodes(manifest, receipt, events, checkpoint, need_content) ==
  LET points  == EntriesNamed(events, checkpoint)
      entries == EntriesNamed(events, receipt.body.ledger_entry_hash)
      point   == FirstOf(points)
      entry   == FirstOf(entries)
  IN IF points = {} THEN {"CHECKPOINT_NOT_IN_SLICE"}
     ELSE IF entries = {} THEN {}
     ELSE IF point < entry THEN {"CHECKPOINT_BEFORE_RECEIPT_ENTRY"}
     ELSE Report("CHECKPOINT_RECEIPT_NOT_COMMITTED",
                 /\ need_content
                 /\ ~Recorded(manifest, receipt, events, entry, point))

=============================================================================

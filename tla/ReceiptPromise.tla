---------------------------- MODULE ReceiptPromise ----------------------------
(***************************************************************************)
(* What verify_receipt.py promises about a receipt document, stated without *)
(* failure codes or an order of checks, and the properties of a run of it.  *)
(***************************************************************************)
EXTENDS ReceiptVerifier

ASSUME SlicesAssumption ==
  \A d \in Inputs : Len(d.slice) \in Nat /\ DOMAIN d.slice = 1..Len(d.slice)

ASSUME CommandsAssumption ==
  \A c \in Commands :
    /\ c = [f \in DOMAIN c |-> c[f]]
    /\ {"runnable", "oqs", "trust_material_complete", "pinned", "pin", "keyring_given",
        "keyring_readable", "keyring", "checkpoint"} \subseteq DOMAIN c

ASSUME FlagsAssumption ==
  \A c \in Commands : {c.oqs, c.keyring_given, c.trust_material_complete} \subseteq BOOLEAN

Usable(c) == c.runnable /\ (c.keyring_given => ~c.pinned /\ c.keyring_readable)

\* The library takes the signature for one by the holder of key.
Signed(key, receipt, oqs) ==
  LET alg == receipt.body.algorithm IN
  /\ Decodable(key, receipt)
  /\ \/ alg = "ed25519" /\ LibraryAcceptsEd25519(key, receipt)
     \/ alg = "ecdsa-p256-sha256" /\ Made("classical", key, receipt)
     \/ alg \in MLDSA /\ oqs /\ Made("pq", key, receipt)
     \/ /\ alg = HYBRID /\ oqs /\ receipt.signature.paired
        /\ LibraryAcceptsEd25519(key, receipt) /\ Made("pq", key, receipt)

\* A key is at hand, it made the signature, it is the key the receipt names
\* and the one the caller pinned.
SignatureHolds(c, d) ==
  LET key == CheckedKey(c, d) IN
  /\ HaveKey(c, d)
  /\ Signed(key, d.receipt, c.oqs)
  /\ d.receipt.body.signer_pubkey_hash \in {None, PubkeyHash(key)}
  /\ c.pinned => c.pin = key

\* The check ran and said no, or the receipt cannot be decoded.  A check that
\* could not run (no post-quantum library, a malformed pair, an algorithm
\* nobody knows) refutes nothing.
Refuted(c, d) ==
  LET key == CheckedKey(c, d) IN
  AlgorithmCode(key, d.receipt, c.oqs, LibraryAcceptsEd25519(key, d.receipt))
    = "RECEIPT_SIGNATURE_INVALID"

\* The caller's keyring stands behind the key: it lists it, it has not
\* revoked it, and the document does not declare another one.
KeyStanding(c, d) ==
  c.keyring_given =>
    /\ HaveKey(c, d)
    /\ ~c.keyring[d.receipt.body.key_id].revoked
    /\ d.public_key \in {NoKey, CheckedKey(c, d)}

\* The declared hashes of the slice link up and the receipt's entry is there.
ChainHolds(d) ==
  /\ d.slice # <<>>
  /\ \A i \in DOMAIN d.slice : d.slice[i].object
  /\ \A i \in DOMAIN d.slice :
       i > 1 => d.slice[i].previous_event_hash = d.slice[i - 1].event_hash
  /\ d.receipt.body.ledger_entry_hash \in ChainHashes(d.slice)

CheckpointHolds(c, d) == ChainHolds(d) /\ c.checkpoint \in ChainHashes(d.slice)

MaterialHolds(d) == d.material_required => d.material_embedded

StatusOf(c, d) ==
  IF c.keyring_given THEN KeyStatus(d.receipt, c.keyring, ~Refuted(c, d)) ELSE "none"

(***************************************************************************)
(* The two ways a receipt passes.                                           *)
(***************************************************************************)
SignatureVerified(c, d) ==
  /\ SignatureHolds(c, d) /\ KeyStanding(c, d) /\ MaterialHolds(d)
  /\ c.checkpoint = None /\ d.sliced => ChainHolds(d)

ChainVerified(c, d) ==
  /\ c.checkpoint # None /\ CheckpointHolds(c, d) /\ MaterialHolds(d)
  /\ StatusOf(c, d) # "RECEIPT_KEY_REVOKED"

FailingChecks(c, d) ==
  Report("signature", HaveKey(c, d) /\ ~SignatureHolds(c, d))
  \cup Report("checkpoint", c.checkpoint # None /\ ~CheckpointHolds(c, d))
  \cup Report("legacy_chain",
              c.checkpoint = None /\ d.sliced /\ ~ChainHolds(d))
  \cup Report("validation_material", ~MaterialHolds(d))
  \cup Report("receipt_key",
              c.keyring_given /\ (HaveKey(c, d) => ~Refuted(c, d)) /\ ~KeyStanding(c, d))

ReceiptAnswer(c, d) ==
  LET mode == IF SignatureVerified(c, d) THEN "SIGNATURE_VERIFIED"
              ELSE IF ChainVerified(c, d) THEN "CHAIN_VERIFIED_KEY_UNKNOWN"
              ELSE "none"
      result == Result(c, IF mode = "none" THEN 1 ELSE 0, mode, SignatureHolds(c, d),
                       HaveKey(c, d), FailingChecks(c, d))
  IN [result EXCEPT !.receipt_key = StatusOf(c, d)]

AttestationAnswer(c, a) ==
  IF a.complete /\ ~a.readable THEN [Absent EXCEPT !.exit = 1, !.mode = "traceback"]
  ELSE IF AttestationHolds(a)
    THEN Result(c, 0, "ARCHIVE_ATTESTATION_VERIFIED", FALSE, FALSE, {})
  ELSE Result(c, 1, "none", FALSE, FALSE, {"archive_attestation"})

AnswerOf(c, d) ==
  IF ~Usable(c) \/ ~d.readable THEN Malformed(c)
  ELSE IF d.attested THEN AttestationAnswer(c, d.attestation)
  ELSE IF \/ ~d.receipt_present
          \/ ~HaveKey(c, d) /\ c.checkpoint = None /\ ~c.keyring_given
    THEN Malformed(c)
  ELSE ReceiptAnswer(c, d)

(***************************************************************************)
(* Properties of a run.                                                     *)
(***************************************************************************)
SignatureCodes ==
  {"RECEIPT_SIGNATURE_INVALID", "ALGORITHM_UNSUPPORTED", "INVALID_HYBRID_FORMAT",
   "RECEIPT_SIGNATURE_ALGORITHM_UNKNOWN", "RECEIPT_SIGNER_PUBKEY_HASH_MISMATCH",
   "RECEIPT_KEY_NOT_TRUSTED"}

KeyCodes ==
  {"RECEIPT_KEY_UNKNOWN", "RECEIPT_KEY_REVOKED", "RECEIPT_DOCUMENT_KEY_MISMATCH"}

SliceCodes ==
  {"EMPTY_LEDGER_SLICE", "CHAIN_BROKEN", "MALFORMED_LEDGER_EVENT",
   "RECEIPT_LEDGER_ENTRY_NOT_IN_SLICE"}

\* Every variable holds a value main() can give it, no failure is filed under
\* another check's list, and the run is over exactly when it has answered.
TypeOK ==
  /\ pc \in {"flags", "read", "attestation", "receipt", "binding", "keyring",
             "chain", "material", "report", "done"}
  /\ signature_failures \subseteq SignatureCodes
  /\ receipt_key_failures \subseteq KeyCodes
  /\ receipt_key_status \in {"none", "RECEIPT_KEY_UNKNOWN", "RECEIPT_SIGNATURE_INVALID",
                             "RECEIPT_KEY_REVOKED", "RECEIPT_KEY_CURRENT",
                             "RECEIPT_KEY_ROTATED_OUT"}
  /\ checkpoint_failures \subseteq SliceCodes \cup {"CHECKPOINT_NOT_IN_SLICE"}
  /\ legacy_chain_failures \subseteq SliceCodes
  /\ material_failures \subseteq {"VALIDATION_MATERIAL_MISSING"}
  /\ {signature_verified, raw_signature_valid, checkpoint_verified} \subseteq BOOLEAN
  /\ pc = "done" <=> answer # Absent

\* The run answers as promised: the booleans main() sets early and overrides
\* later, for the chain, the material and a revoked key, end in the answer
\* AnswerOf gives.
Abstract == INSTANCE EvidenceVerdict
  WITH packet <- doc, verdict <- answer, VerdictOf <- AnswerOf, Unanswered <- Absent
AnswersAsPromised == Abstract!Spec

Answered == answer # Absent /\ answer.mode # "traceback"

\* A rejection names a failed check, and a receipt accepted on its signature
\* names none: the checks it overrode would be missing from the result.
RejectionsAreExplained ==
  Answered =>
    /\ answer.exit # 0 => answer.failed_checks # {}
    /\ answer.mode = "SIGNATURE_VERIFIED" => answer.failed_checks \subseteq {"checkpoint"}

\* Everything in an answer but the disposition.
BesidesPolicy(a) == <<a.exit, a.mode, a.verdict, a.failed_checks, a.receipt_key>>

\* What the caller declares about its trust material moves the disposition of
\* a check that did not run and nothing else: the same run with the flag
\* turned gives the same verdict, mode, exit code and failed checks.
PolicyNeverMovesTheVerdict ==
  LET turned == [cmd EXCEPT !.trust_material_complete = ~@] IN
  Answered =>
    /\ BesidesPolicy(AnswerOf(turned, doc)) = BesidesPolicy(answer)
    /\ answer.disposition = "REFUSED_BY_POLICY" => answer.verdict = "NOT_EVALUATED"

\* A caller with a keyring learns who signed: a receipt accepted on its
\* signature was made, as far as the library can tell, by the key the keyring
\* lists under the receipt's own key_id, and that key is not revoked.
KeyringDecidesTheKey ==
  answer.mode = "SIGNATURE_VERIFIED" /\ cmd.keyring_given =>
    LET entry == cmd.keyring[doc.receipt.body.key_id] IN
    /\ Signed(entry.public_key, doc.receipt, cmd.oqs)
    /\ ~entry.revoked
    /\ answer.receipt_key = IF entry.active THEN "RECEIPT_KEY_CURRENT"
                            ELSE "RECEIPT_KEY_ROTATED_OUT"

\* A genuine receipt under a key its operator revoked never passes, on the
\* signature or on the chain, whatever checkpoint the caller trusts.
RevokedNeverPasses ==
  answer.exit = 0 /\ cmd.keyring_given /\ HaveKey(cmd, doc) /\ ~doc.attested =>
    ~(/\ cmd.keyring[doc.receipt.body.key_id].revoked
      /\ Signed(CheckedKey(cmd, doc), doc.receipt, cmd.oqs))

(***************************************************************************)
(* What the repository says and a run refutes.                              *)
(***************************************************************************)
\* The module docstring: RECEIPT_KEY_ROTATED_OUT is a genuine receipt, signed
\* under a retired key; and a forged one must never share its outcome.  The
\* signature is judged here as a machine with every library would.
RotatedOutIsGenuine ==
  answer.exit = 0 /\ answer.receipt_key = "RECEIPT_KEY_ROTATED_OUT" =>
    Signed(CheckedKey(cmd, doc), doc.receipt, TRUE)

\* The list of conformance vectors, of declared_complete_refused: the artifact
\* and the checkpoint that are accepted without a key as long as the caller
\* does not declare its trust material complete are, with the declaration,
\* refused by policy and of outcome REJECTED.
RefusedIsRejected ==
  LET undeclared == AnswerOf([cmd EXCEPT !.trust_material_complete = FALSE], doc) IN
  /\ Answered /\ answer.disposition = "REFUSED_BY_POLICY"
  /\ undeclared.mode = "CHAIN_VERIFIED_KEY_UNKNOWN" /\ cmd.checkpoint # None
  => Outcome(answer) = "REJECTED"

=============================================================================

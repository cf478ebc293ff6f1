--------------------------- MODULE ReceiptVerifier ---------------------------
(***************************************************************************)
(* main() of verify_receipt.py: one run of the single-receipt verifier, its *)
(* exit code, its printed mode and the structured result of --emit-result.  *)
(*                                                                          *)
(* Unlike verify.py it does not recompute event hashes: the slice is a      *)
(* chain when the hashes its events declare link up.  And it takes the      *)
(* library's word for an Ed25519 signature, weak keys included.             *)
(***************************************************************************)
EXTENDS Evidence

CONSTANTS
  Commands,   \* the command lines considered
  Inputs      \* the JSON documents considered

VARIABLES
  cmd, doc,            \* the inputs of this run
  pc,                  \* the part of main() that runs next
  signature_failures, receipt_key_failures, receipt_key_status,
  signature_verified, raw_signature_valid,
  checkpoint_failures, legacy_chain_failures, checkpoint_verified,
  material_failures,
  answer               \* what is printed and returned

vars == <<cmd, doc, pc, signature_failures, receipt_key_failures,
          receipt_key_status, signature_verified, raw_signature_valid,
          checkpoint_failures, legacy_chain_failures, checkpoint_verified,
          material_failures, answer>>

(***************************************************************************)
(* A command is                                                             *)
(*  [runnable : the cryptography package is there and every flag is whole,  *)
(*   oqs, trust_material_complete, pinned : BOOLEAN, pin : a key or NoKey,  *)
(*   keyring_given, keyring_readable : BOOLEAN, keyring,                    *)
(*   checkpoint : an event hash or None]                                    *)
(* and a document is                                                        *)
(*  [readable : it is a JSON object,                                        *)
(*   attested : it has an archive_attestation field,                        *)
(*   attestation : [complete, readable : BOOLEAN,                           *)
(*                  workpapers : the current workpaper hashes,              *)
(*                  chains : a set of [algorithm, root]],                   *)
(*   receipt_present : BOOLEAN, receipt, public_key : a key or NoKey,       *)
(*   sliced : it has a ledger_slice field, empty or not,                    *)
(*   slice : a sequence of [object, event_hash, previous_event_hash],       *)
(*   material_embedded, material_required : BOOLEAN].                       *)
(***************************************************************************)
Absent == [exit |-> -1, mode |-> "none", verdict |-> "none", disposition |-> "none",
           failed_checks |-> {}, receipt_key |-> "none"]

Init ==
  /\ cmd \in Commands /\ doc \in Inputs
  /\ pc = "flags"
  /\ signature_failures = {} /\ receipt_key_failures = {} /\ receipt_key_status = "none"
  /\ signature_verified = FALSE /\ raw_signature_valid = FALSE
  /\ checkpoint_failures = {} /\ legacy_chain_failures = {}
  /\ checkpoint_verified = FALSE /\ material_failures = {}
  /\ answer = Absent

given    == <<cmd, doc>>
crypto   == <<signature_failures, receipt_key_failures, receipt_key_status,
              signature_verified, raw_signature_valid>>
chain    == <<checkpoint_failures, legacy_chain_failures, checkpoint_verified>>

Go(next) == pc' = next

Return(a) == pc' = "done" /\ answer' = a

(***************************************************************************)
(* The structured result's decision table, for a result with these checks.  *)
(***************************************************************************)
\* A variant in which the caller's declaration outranks a failed signature.
ResultDeclaredFirst(c, exit, mode, valid, attempted, failed) ==
  LET refused == ~valid /\ c.trust_material_complete
  IN [exit |-> exit, mode |-> mode,
      verdict |-> IF valid THEN "CRYPTOGRAPHICALLY_VALID"
                  ELSE IF attempted /\ ~refused THEN "CRYPTOGRAPHICALLY_INVALID"
                  ELSE "NOT_EVALUATED",
      disposition |-> IF refused THEN "REFUSED_BY_POLICY" ELSE "ACCEPTED",
      failed_checks |-> failed, receipt_key |-> "none"]

Result(c, exit, mode, valid, attempted, failed) ==
  [exit |-> exit, mode |-> mode,
   verdict |-> IF valid THEN "CRYPTOGRAPHICALLY_VALID"
               ELSE IF attempted THEN "CRYPTOGRAPHICALLY_INVALID"
               ELSE "NOT_EVALUATED",
   disposition |-> IF ~valid /\ ~attempted /\ c.trust_material_complete
                   THEN "REFUSED_BY_POLICY" ELSE "ACCEPTED",
   failed_checks |-> failed, receipt_key |-> "none"]

\* The outcome a result states beside its verdict and its disposition.
Outcome(a) == IF a.exit = 0 THEN "ACCEPTED" ELSE "REJECTED"

Malformed(c) == Result(c, 2, "none", FALSE, FALSE, {"malformed_input"})

ParseFlags ==
  /\ pc = "flags"
  /\ IF cmd.runnable /\ (cmd.keyring_given => ~cmd.pinned /\ cmd.keyring_readable)
     THEN Go("read") /\ UNCHANGED answer
     ELSE Return(Malformed(cmd))
  /\ UNCHANGED <<given, crypto, chain, material_failures>>

ReadDocument ==
  /\ pc = "read"
  /\ IF ~doc.readable THEN Return(Malformed(cmd))
     ELSE Go(IF doc.attested THEN "attestation" ELSE "receipt") /\ UNCHANGED answer
  /\ UNCHANGED <<given, crypto, chain, material_failures>>

(***************************************************************************)
(* The archive-attestation document: some attested chain ends in the hash   *)
(* of the current workpaper set, whatever the order they are listed in.     *)
(***************************************************************************)
SubjectHash(algorithm, workpapers) ==
  IF algorithm \in {"sha256", "sha3-256"} THEN Hash(algorithm, workpapers) ELSE None

AttestationHolds(a) ==
  /\ a.complete
  /\ \E link \in a.chains :
       link.root # None /\ link.root = SubjectHash(link.algorithm, a.workpapers)

\* A variant that reports the document and goes on to look for a receipt.
CheckAttestationGoesOn ==
  /\ pc = "attestation"
  /\ pc' = "receipt"
  /\ answer' = IF AttestationHolds(doc.attestation)
                 THEN Result(cmd, 0, "ARCHIVE_ATTESTATION_VERIFIED", FALSE, FALSE, {})
               ELSE Result(cmd, 1, "none", FALSE, FALSE, {"archive_attestation"})
  /\ UNCHANGED <<given, crypto, chain, material_failures>>

CheckAttestation ==
  /\ pc = "attestation"
  /\ Return(IF doc.attestation.complete /\ ~doc.attestation.readable
              THEN [Absent EXCEPT !.exit = 1, !.mode = "traceback"]
            ELSE IF AttestationHolds(doc.attestation)
              THEN Result(cmd, 0, "ARCHIVE_ATTESTATION_VERIFIED", FALSE, FALSE, {})
            ELSE Result(cmd, 1, "none", FALSE, FALSE, {"archive_attestation"}))
  /\ UNCHANGED <<given, crypto, chain, material_failures>>

(***************************************************************************)
(* The receipt and the key it is checked against.                           *)
(***************************************************************************)
HaveKey(c, d) ==
  IF c.keyring_given THEN d.receipt.body.key_id \in DOMAIN c.keyring
  ELSE d.public_key # NoKey

\* A variant that prefers the key the document declares.
CheckedKeyOfTheDocument(c, d) ==
  IF c.keyring_given /\ d.public_key = NoKey
  THEN c.keyring[d.receipt.body.key_id].public_key
  ELSE d.public_key

CheckedKey(c, d) ==
  IF c.keyring_given THEN c.keyring[d.receipt.body.key_id].public_key
  ELSE d.public_key

CheckSignature ==
  /\ pc = "receipt"
  /\ IF \/ ~doc.receipt_present
        \/ ~HaveKey(cmd, doc) /\ cmd.checkpoint = None /\ ~cmd.keyring_given
     THEN Return(Malformed(cmd)) /\ UNCHANGED signature_failures
     ELSE /\ signature_failures' =
               IF ~HaveKey(cmd, doc) THEN {} ELSE
               LET key  == CheckedKey(cmd, doc)
                   code == AlgorithmCode(key, doc.receipt, cmd.oqs,
                                         LibraryAcceptsEd25519(key, doc.receipt))
               IN Report(code, code # "ok")
          /\ Go("binding") /\ UNCHANGED answer
  /\ UNCHANGED <<given, receipt_key_failures, receipt_key_status, signature_verified,
                 raw_signature_valid, chain, material_failures>>

BindingOf(c, d) ==
  IF ~HaveKey(c, d) THEN {} ELSE
  KeyBindingCodes([receipt_public_key |-> CheckedKey(c, d)], d.receipt, c.pinned, c.pin)

CheckBinding ==
  /\ pc = "binding"
  /\ signature_failures' = signature_failures \cup BindingOf(cmd, doc)
  /\ Go("keyring")
  /\ UNCHANGED <<given, receipt_key_failures, receipt_key_status, signature_verified,
                 raw_signature_valid, chain, material_failures, answer>>

\* With a keyring the signature verdict moves from the signature's failures
\* to the key's status, and back when the status is RECEIPT_SIGNATURE_INVALID.
ClassifyKey ==
  LET signature_ok == /\ HaveKey(cmd, doc)
                      /\ "RECEIPT_SIGNATURE_INVALID" \notin signature_failures
      status == KeyStatus(doc.receipt, cmd.keyring, signature_ok)
      invalid == Report(status, status = "RECEIPT_SIGNATURE_INVALID")
  IN /\ pc = "keyring"
     /\ IF ~cmd.keyring_given
        THEN UNCHANGED <<signature_failures, receipt_key_failures, receipt_key_status>>
        ELSE /\ receipt_key_status' = status
             /\ signature_failures' =
                  (signature_failures \ {"RECEIPT_SIGNATURE_INVALID"}) \cup invalid
             /\ receipt_key_failures' =
                  (StatusCodes(status) \ invalid)
                  \cup Report("RECEIPT_DOCUMENT_KEY_MISMATCH",
                         /\ signature_ok /\ doc.public_key # NoKey
                         /\ doc.public_key # CheckedKey(cmd, doc))
     /\ raw_signature_valid' = (HaveKey(cmd, doc) /\ signature_failures' = {})
     /\ signature_verified' = (raw_signature_valid' /\ receipt_key_failures' = {})
     /\ Go("chain")
     /\ UNCHANGED <<given, chain, material_failures, answer>>

(***************************************************************************)
(* The slice.                                                               *)
(***************************************************************************)
Objects(slice) == \A i \in DOMAIN slice : slice[i].object

\* _chain_hashes: what it reports; a malformed event ends the walk.
ChainCodes(slice) ==
  IF slice = <<>> THEN {"EMPTY_LEDGER_SLICE"} ELSE
  LET walked == {i \in DOMAIN slice : \A j \in 1..i : slice[j].object}
  IN Report("CHAIN_BROKEN",
       \E i \in walked :
         i > 1 /\ slice[i].previous_event_hash # slice[i - 1].event_hash)
     \cup Report("MALFORMED_LEDGER_EVENT", ~Objects(slice))

\* The hashes it returns, when it returns any.
ChainHashes(slice) == {slice[i].event_hash : i \in DOMAIN slice}

Walkable(slice) == slice # <<>> /\ Objects(slice)

EntryCodes(d) ==
  Report("RECEIPT_LEDGER_ENTRY_NOT_IN_SLICE",
         /\ Walkable(d.slice)
         /\ d.receipt.body.ledger_entry_hash \notin ChainHashes(d.slice))

CheckpointChainCodes(c, d) ==
  Report("CHECKPOINT_NOT_IN_SLICE",
         Walkable(d.slice) /\ c.checkpoint \notin ChainHashes(d.slice))

CheckCheckpointChain ==
  /\ pc = "chain"
  /\ cmd.checkpoint # None
  /\ checkpoint_failures' =
       ChainCodes(doc.slice) \cup EntryCodes(doc) \cup CheckpointChainCodes(cmd, doc)
  /\ checkpoint_verified' = (checkpoint_failures' = {})
  /\ Go("material")
  /\ UNCHANGED <<given, crypto, legacy_chain_failures, material_failures, answer>>

\* A variant that walks the chain and lets the signature decide alone.
CheckLegacyChainUnheeded ==
  /\ pc = "chain"
  /\ cmd.checkpoint = None
  /\ legacy_chain_failures' =
       IF ~doc.sliced THEN {} ELSE ChainCodes(doc.slice) \cup EntryCodes(doc)
  /\ Go("material")
  /\ UNCHANGED <<given, crypto, checkpoint_failures, checkpoint_verified,
                 material_failures, answer>>

CheckLegacyChain ==
  /\ pc = "chain"
  /\ cmd.checkpoint = None
  /\ legacy_chain_failures' =
       IF ~doc.sliced THEN {} ELSE ChainCodes(doc.slice) \cup EntryCodes(doc)
  /\ signature_verified' = (signature_verified /\ legacy_chain_failures' = {})
  /\ Go("material")
  /\ UNCHANGED <<given, signature_failures, receipt_key_failures, receipt_key_status,
                 raw_signature_valid, checkpoint_failures, checkpoint_verified,
                 material_failures, answer>>

(***************************************************************************)
(* Validation material, revocation, and the report.                         *)
(***************************************************************************)
\* A variant in which a checkpoint stands in for a revoked key.
CheckMaterialOnly ==
  /\ pc = "material"
  /\ material_failures' =
       Report("VALIDATION_MATERIAL_MISSING", ~doc.material_embedded /\ doc.material_required)
  /\ signature_verified' = (signature_verified /\ material_failures' = {})
  /\ checkpoint_verified' = (checkpoint_verified /\ material_failures' = {})
  /\ Go("report")
  /\ UNCHANGED <<given, signature_failures, receipt_key_failures, receipt_key_status,
                 raw_signature_valid, checkpoint_failures, legacy_chain_failures, answer>>

CheckMaterial ==
  /\ pc = "material"
  /\ material_failures' =
       Report("VALIDATION_MATERIAL_MISSING", ~doc.material_embedded /\ doc.material_required)
  /\ signature_verified' = (signature_verified /\ material_failures' = {})
  /\ checkpoint_verified' = (/\ checkpoint_verified /\ material_failures' = {}
                             /\ receipt_key_status # "RECEIPT_KEY_REVOKED")
  /\ Go("report")
  /\ UNCHANGED <<given, signature_failures, receipt_key_failures, receipt_key_status,
                 raw_signature_valid, checkpoint_failures, legacy_chain_failures, answer>>

\* A variant of the result from before there were keyrings.
FailedChecksBesidesTheKey ==
  Report("signature", signature_failures # {})
  \cup Report("checkpoint", checkpoint_failures # {})
  \cup Report("legacy_chain", legacy_chain_failures # {})
  \cup Report("validation_material", material_failures # {})

FailedChecks ==
  Report("signature", signature_failures # {})
  \cup Report("checkpoint", checkpoint_failures # {})
  \cup Report("legacy_chain", legacy_chain_failures # {})
  \cup Report("validation_material", material_failures # {})
  \cup Report("receipt_key", receipt_key_failures # {})

PrintResult ==
  /\ pc = "report"
  /\ LET result(exit, mode) ==
           [Result(cmd, exit, mode, raw_signature_valid, HaveKey(cmd, doc), FailedChecks)
              EXCEPT !.receipt_key = receipt_key_status]
     IN Return(IF signature_verified THEN result(0, "SIGNATURE_VERIFIED")
               ELSE IF checkpoint_verified THEN result(0, "CHAIN_VERIFIED_KEY_UNKNOWN")
               ELSE result(1, "none"))
  /\ UNCHANGED <<given, crypto, chain, material_failures>>

Next ==
  \/ ParseFlags \/ ReadDocument \/ CheckAttestation \/ CheckSignature
  \/ CheckBinding \/ ClassifyKey \/ CheckCheckpointChain \/ CheckLegacyChain
  \/ CheckMaterial \/ PrintResult

Spec == Init /\ [][Next]_vars /\ WF_vars(Next)

=============================================================================

----------------------- MODULE ReceiptVerifier_proofs -----------------------
(***************************************************************************)
(* Proofs about ReceiptVerifier, for every set of commands and documents.   *)
(***************************************************************************)
EXTENDS ReceiptPromise, TLAPS

(***************************************************************************)
(* What a run knows once each check has run, as functions of its inputs.    *)
(***************************************************************************)
Code(c, d) ==
  AlgorithmCode(CheckedKey(c, d), d.receipt, c.oqs,
                LibraryAcceptsEd25519(CheckedKey(c, d), d.receipt))

SignatureSays(c, d) == IF HaveKey(c, d) THEN Report(Code(c, d), Code(c, d) # "ok") ELSE {}

BindingSays(c, d) == SignatureSays(c, d) \cup BindingOf(c, d)

NotRefuted(c, d) == HaveKey(c, d) /\ "RECEIPT_SIGNATURE_INVALID" \notin BindingSays(c, d)

Status(c, d) ==
  IF c.keyring_given THEN KeyStatus(d.receipt, c.keyring, NotRefuted(c, d)) ELSE "none"

Invalid(c, d) == Report(Status(c, d), Status(c, d) = "RECEIPT_SIGNATURE_INVALID")

FinalSignature(c, d) ==
  IF ~c.keyring_given THEN BindingSays(c, d)
  ELSE (BindingSays(c, d) \ {"RECEIPT_SIGNATURE_INVALID"}) \cup Invalid(c, d)

FinalKey(c, d) ==
  IF ~c.keyring_given THEN {}
  ELSE (StatusCodes(Status(c, d)) \ Invalid(c, d))
       \cup Report("RECEIPT_DOCUMENT_KEY_MISMATCH",
              /\ NotRefuted(c, d) /\ d.public_key # NoKey
              /\ d.public_key # CheckedKey(c, d))

RawValid(c, d) == HaveKey(c, d) /\ FinalSignature(c, d) = {}

FinalCheckpoint(c, d) ==
  IF c.checkpoint = None THEN {}
  ELSE ChainCodes(d.slice) \cup EntryCodes(d) \cup CheckpointChainCodes(c, d)

FinalLegacy(c, d) ==
  IF c.checkpoint # None \/ ~d.sliced THEN {}
  ELSE ChainCodes(d.slice) \cup EntryCodes(d)

FinalMaterial(d) ==
  Report("VALIDATION_MATERIAL_MISSING", ~d.material_embedded /\ d.material_required)

(***************************************************************************)
(* The inductive invariant.                                                 *)
(***************************************************************************)
ReceiptStages == {"receipt", "binding", "keyring", "chain", "material", "report"}
Settled       == {"chain", "material", "report"}
Early         == {"flags", "read", "attestation", "receipt", "binding", "keyring"}

\* What has to be true of the inputs for main() to get this far.
Reached ==
  /\ pc \in ReceiptStages \cup {"read", "attestation"} => Usable(cmd)
  /\ pc \in ReceiptStages \cup {"attestation"} => doc.readable
  /\ pc = "attestation" => doc.attested
  /\ pc \in ReceiptStages => ~doc.attested
  /\ pc \in ReceiptStages \ {"receipt"} =>
       /\ doc.receipt_present
       /\ ~(~HaveKey(cmd, doc) /\ cmd.checkpoint = None /\ ~cmd.keyring_given)

\* What main() has found out so far.
Found ==
  /\ pc = "binding" => signature_failures = SignatureSays(cmd, doc)
  /\ pc = "keyring" => signature_failures = BindingSays(cmd, doc)
  /\ pc \in Early =>
       receipt_key_failures = {} /\ receipt_key_status = "none"
  /\ pc \in Settled =>
       /\ signature_failures = FinalSignature(cmd, doc)
       /\ receipt_key_failures = FinalKey(cmd, doc)
       /\ receipt_key_status = Status(cmd, doc)
       /\ raw_signature_valid = RawValid(cmd, doc)
  /\ pc \in Early \cup {"chain"} =>
       /\ checkpoint_failures = {} /\ legacy_chain_failures = {}
       /\ checkpoint_verified = FALSE
  /\ pc \in {"material", "report"} =>
       /\ checkpoint_failures = FinalCheckpoint(cmd, doc)
       /\ legacy_chain_failures = FinalLegacy(cmd, doc)
  /\ pc = "chain" =>
       signature_verified = (RawValid(cmd, doc) /\ FinalKey(cmd, doc) = {})
  /\ pc = "material" =>
       /\ signature_verified = (/\ RawValid(cmd, doc) /\ FinalKey(cmd, doc) = {}
                                /\ FinalLegacy(cmd, doc) = {})
       /\ checkpoint_verified = (/\ cmd.checkpoint # None
                                 /\ FinalCheckpoint(cmd, doc) = {})
  /\ pc = "report" =>
       /\ material_failures = FinalMaterial(doc)
       /\ signature_verified = (/\ RawValid(cmd, doc) /\ FinalKey(cmd, doc) = {}
                                /\ FinalLegacy(cmd, doc) = {}
                                /\ FinalMaterial(doc) = {})
       /\ checkpoint_verified = (/\ cmd.checkpoint # None
                                 /\ FinalCheckpoint(cmd, doc) = {}
                                 /\ FinalMaterial(doc) = {}
                                 /\ Status(cmd, doc) # "RECEIPT_KEY_REVOKED")

Said == pc = "done" => answer = AnswerOf(cmd, doc)

Given == cmd \in Commands /\ doc \in Inputs

IInv == Given /\ TypeOK /\ Reached /\ Found /\ Said

(***************************************************************************)
(* An answer is never the absence of one.                                   *)
(***************************************************************************)
LEMMA ResultsAreAnswers ==
  ASSUME NEW c, NEW exit \in {0, 1, 2}, NEW mode, NEW valid, NEW attempted, NEW failed,
         NEW status
  PROVE  /\ Result(c, exit, mode, valid, attempted, failed) # Absent
         /\ [Result(c, exit, mode, valid, attempted, failed)
               EXCEPT !.receipt_key = status] # Absent
         /\ [Absent EXCEPT !.exit = 1, !.mode = "traceback"] # Absent
<1>1. Result(c, exit, mode, valid, attempted, failed).exit = exit
  BY DEF Result
<1>2. [Result(c, exit, mode, valid, attempted, failed)
         EXCEPT !.receipt_key = status].exit = exit
  BY DEF Result
<1>3. [Absent EXCEPT !.exit = 1, !.mode = "traceback"].exit = 1
  BY DEF Absent
<1>4. Absent.exit = -1
  BY DEF Absent
<1>5. -1 # exit /\ -1 # 1
  OBVIOUS
<1> QED
  BY <1>1, <1>2, <1>3, <1>4, <1>5

(***************************************************************************)
(* Codes and conditions.                                                    *)
(***************************************************************************)
LEMMA ReportsNothing ==
  ASSUME NEW code, NEW holds
  PROVE  Report(code, holds) = {} <=> ~holds
  BY DEF Report

\* The algorithm branch reports nothing exactly of a signature the library
\* takes for one by the key.
LEMMA CodeIsSigned ==
  ASSUME NEW key, NEW receipt, NEW oqs \in BOOLEAN
  PROVE  AlgorithmCode(key, receipt, oqs, LibraryAcceptsEd25519(key, receipt)) = "ok"
           <=> Signed(key, receipt, oqs)
  BY DEF AlgorithmCode, Signed, MLDSA, HYBRID

\* Whatever it reports is one of the four codes of the signature check.
LEMMA CodeIsAnErrorOrOk ==
  ASSUME NEW key, NEW receipt, NEW oqs, NEW ed25519
  PROVE  AlgorithmCode(key, receipt, oqs, ed25519) \in
           {"ok", "RECEIPT_SIGNATURE_INVALID", "ALGORITHM_UNSUPPORTED",
            "INVALID_HYBRID_FORMAT", "RECEIPT_SIGNATURE_ALGORITHM_UNKNOWN"}
<1> DEFINE Verdict(holds) == IF holds THEN "ok" ELSE "RECEIPT_SIGNATURE_INVALID"
           alg == receipt.body.algorithm
<1>1. CASE ~Decodable(key, receipt)
  BY <1>1 DEF AlgorithmCode
<1>2. CASE Decodable(key, receipt)
  <2>1. CASE alg = "ed25519"
    BY <1>2, <2>1 DEF AlgorithmCode
  <2>2. CASE alg = "ecdsa-p256-sha256"
    BY <1>2, <2>2 DEF AlgorithmCode
  <2>3. CASE alg \in MLDSA
    BY <1>2, <2>3 DEF AlgorithmCode, MLDSA
  <2>4. CASE alg = HYBRID
    BY <1>2, <2>4 DEF AlgorithmCode, MLDSA, HYBRID
  <2>5. CASE alg \notin {"ed25519", "ecdsa-p256-sha256", HYBRID} \cup MLDSA
    BY <1>2, <2>5 DEF AlgorithmCode, MLDSA, HYBRID
  <2> QED
    BY <2>1, <2>2, <2>3, <2>4, <2>5
<1> QED
  BY <1>1, <1>2

LEMMA StatusIsOneOfFive ==
  ASSUME NEW receipt, NEW keyring, NEW ok
  PROVE  KeyStatus(receipt, keyring, ok) \in
           {"RECEIPT_KEY_UNKNOWN", "RECEIPT_SIGNATURE_INVALID", "RECEIPT_KEY_REVOKED",
            "RECEIPT_KEY_CURRENT", "RECEIPT_KEY_ROTATED_OUT"}
  BY DEF KeyStatus

LEMMA BindingIsNotASignature ==
  ASSUME NEW c, NEW d
  PROVE  BindingOf(c, d) \subseteq
           {"RECEIPT_SIGNER_PUBKEY_HASH_MISMATCH", "RECEIPT_KEY_NOT_TRUSTED"}
  BY DEF BindingOf, KeyBindingCodes, Report

\* A key was found and the signature list, before the keyring moves anything,
\* is empty exactly when the signature holds.
LEMMA NothingSaid ==
  ASSUME NEW c \in Commands, NEW d, HaveKey(c, d)
  PROVE  BindingSays(c, d) = {} <=> SignatureHolds(c, d)
<1>1. SignatureSays(c, d) = {} <=> Signed(CheckedKey(c, d), d.receipt, c.oqs)
  <2>1. c.oqs \in BOOLEAN
    BY FlagsAssumption
  <2> QED
    BY <2>1, CodeIsSigned, ReportsNothing DEF SignatureSays, Code
<1>2. BindingOf(c, d) = {} <=>
        /\ d.receipt.body.signer_pubkey_hash \in {None, PubkeyHash(CheckedKey(c, d))}
        /\ c.pinned => c.pin = CheckedKey(c, d)
  BY DEF BindingOf, KeyBindingCodes, Report
<1> QED
  BY <1>1, <1>2 DEF BindingSays, SignatureHolds

LEMMA NotRefutedIs ==
  ASSUME NEW c, NEW d
  PROVE  NotRefuted(c, d) <=> HaveKey(c, d) /\ ~Refuted(c, d)
<1>1. "RECEIPT_SIGNATURE_INVALID" \in BindingSays(c, d) <=>
        "RECEIPT_SIGNATURE_INVALID" \in SignatureSays(c, d)
  BY BindingIsNotASignature DEF BindingSays
<1>2. HaveKey(c, d) =>
        ("RECEIPT_SIGNATURE_INVALID" \in SignatureSays(c, d) <=> Refuted(c, d))
  BY DEF SignatureSays, Report, Refuted, Code
<1> QED
  BY <1>1, <1>2 DEF NotRefuted

\* classify_receipt_key answers what StatusOf says.
LEMMA StatusIs ==
  ASSUME NEW c, NEW d
  PROVE  Status(c, d) = StatusOf(c, d)
<1>1. CASE ~c.keyring_given
  BY <1>1 DEF Status, StatusOf
<1>2. CASE c.keyring_given /\ ~HaveKey(c, d)
  BY <1>2 DEF Status, StatusOf, KeyStatus, HaveKey
<1>3. CASE c.keyring_given /\ HaveKey(c, d)
  BY <1>3, NotRefutedIs DEF Status, StatusOf
<1> QED
  BY <1>1, <1>2, <1>3

\* With a keyring, the status is RECEIPT_SIGNATURE_INVALID exactly when a
\* listed key's signature is refuted.
LEMMA InvalidIs ==
  ASSUME NEW c, NEW d, c.keyring_given
  PROVE  Status(c, d) = "RECEIPT_SIGNATURE_INVALID" <=>
           HaveKey(c, d) /\ ~NotRefuted(c, d)
  BY DEF Status, KeyStatus, HaveKey

LEMMA NotRefutedOr ==
  ASSUME NEW c, NEW d, HaveKey(c, d), ~NotRefuted(c, d)
  PROVE  "RECEIPT_SIGNATURE_INVALID" \in BindingSays(c, d)
  BY DEF NotRefuted

\* The list main() reports under "signature".
LEMMA FinalSignatureIs ==
  ASSUME NEW c \in Commands, NEW d
  PROVE  FinalSignature(c, d) = {} <=> (HaveKey(c, d) => SignatureHolds(c, d))
<1>1. CASE ~HaveKey(c, d)
  <2>1. BindingSays(c, d) = {}
    BY <1>1 DEF BindingSays, SignatureSays, BindingOf
  <2>2. c.keyring_given => Invalid(c, d) = {}
    BY <1>1, InvalidIs, ReportsNothing DEF Invalid
  <2> QED
    BY <1>1, <2>1, <2>2 DEF FinalSignature
<1>2. CASE HaveKey(c, d) /\ ~c.keyring_given
  BY <1>2, NothingSaid DEF FinalSignature
<1>3. CASE HaveKey(c, d) /\ c.keyring_given /\ NotRefuted(c, d)
  <2>1. Invalid(c, d) = {}
    BY <1>3, InvalidIs, ReportsNothing DEF Invalid
  <2>2. FinalSignature(c, d) = BindingSays(c, d)
    BY <1>3, <2>1 DEF FinalSignature, NotRefuted
  <2> QED
    BY <1>3, <2>2, NothingSaid
<1>4. CASE HaveKey(c, d) /\ c.keyring_given /\ ~NotRefuted(c, d)
  <2>1. Invalid(c, d) # {}
    BY <1>4, InvalidIs, ReportsNothing DEF Invalid
  <2>2. BindingSays(c, d) # {}
    BY <1>4, NotRefutedOr
  <2>3. ~SignatureHolds(c, d)
    BY <1>4, <2>2, NothingSaid
  <2> QED
    BY <1>4, <2>1, <2>3 DEF FinalSignature
<1> QED
  BY <1>1, <1>2, <1>3, <1>4

LEMMA RawValidIs ==
  ASSUME NEW c \in Commands, NEW d
  PROVE  RawValid(c, d) <=> SignatureHolds(c, d)
  BY FinalSignatureIs DEF RawValid, SignatureHolds

\* The list main() reports under "receipt_key".
LEMMA FinalKeyIs ==
  ASSUME NEW c \in Commands, NEW d
  PROVE  FinalKey(c, d) # {} <=>
           /\ c.keyring_given
           /\ HaveKey(c, d) => ~Refuted(c, d)
           /\ ~KeyStanding(c, d)
<1>1. CASE ~c.keyring_given
  BY <1>1 DEF FinalKey
<1>2. CASE c.keyring_given /\ ~HaveKey(c, d)
  <2>1. Status(c, d) = "RECEIPT_KEY_UNKNOWN"
    BY <1>2 DEF Status, KeyStatus, HaveKey
  <2>2. "RECEIPT_KEY_UNKNOWN" \in FinalKey(c, d)
    BY <1>2, <2>1 DEF FinalKey, StatusCodes, Report, Invalid
  <2> QED
    BY <1>2, <2>2 DEF KeyStanding
<1>3. CASE c.keyring_given /\ HaveKey(c, d) /\ ~NotRefuted(c, d)
  <2>1. Status(c, d) = "RECEIPT_SIGNATURE_INVALID"
    BY <1>3, InvalidIs
  <2>2. FinalKey(c, d) = {}
    BY <1>3, <2>1 DEF FinalKey, StatusCodes, Report, Invalid
  <2> QED
    BY <1>3, <2>2, NotRefutedIs
<1>4. CASE c.keyring_given /\ HaveKey(c, d) /\ NotRefuted(c, d)
  <2>1. Invalid(c, d) = {}
    BY <1>4, InvalidIs, ReportsNothing DEF Invalid
  <2>2. StatusCodes(Status(c, d)) = {} <=>
          ~c.keyring[d.receipt.body.key_id].revoked
    BY <1>4 DEF StatusCodes, Report, Status, KeyStatus, HaveKey
  <2>3. FinalKey(c, d) = StatusCodes(Status(c, d))
          \cup Report("RECEIPT_DOCUMENT_KEY_MISMATCH",
                 d.public_key # NoKey /\ d.public_key # CheckedKey(c, d))
    BY <1>4, <2>1 DEF FinalKey
  <2> QED
    BY <1>4, <2>2, <2>3, ReportsNothing, NotRefutedIs DEF KeyStanding
<1> QED
  BY <1>1, <1>2, <1>3, <1>4

(***************************************************************************)
(* The slice.                                                               *)
(***************************************************************************)
LEMMA ChainIs ==
  ASSUME NEW d \in Inputs
  PROVE  ChainCodes(d.slice) \cup EntryCodes(d) = {} <=> ChainHolds(d)
<1> DEFINE s == d.slice
           walked == {i \in DOMAIN s : \A j \in 1..i : s[j].object}
<1>1. CASE s = <<>>
  BY <1>1 DEF ChainCodes, ChainHolds
<1>2. CASE s # <<>> /\ ~Objects(s)
  <2>1. "MALFORMED_LEDGER_EVENT" \in ChainCodes(s)
    BY <1>2 DEF ChainCodes, Report
  <2> QED
    BY <1>2, <2>1 DEF ChainHolds, Objects
<1>3. CASE s # <<>> /\ Objects(s)
  <2>1. walked = DOMAIN s
    BY <1>3, SlicesAssumption DEF Objects
  <2>2. ChainCodes(s) =
          Report("CHAIN_BROKEN",
            \E i \in DOMAIN s : i > 1 /\ s[i].previous_event_hash # s[i - 1].event_hash)
    BY <1>3, <2>1 DEF ChainCodes, Report
  <2>3. ChainCodes(s) = {} <=>
          \A i \in DOMAIN s : i > 1 => s[i].previous_event_hash = s[i - 1].event_hash
    BY <2>2, ReportsNothing
  <2>4. EntryCodes(d) = {} <=> d.receipt.body.ledger_entry_hash \in ChainHashes(s)
    BY <1>3 DEF EntryCodes, Report, Walkable
  <2> QED
    BY <1>3, <2>3, <2>4 DEF ChainHolds, Objects
<1> QED
  BY <1>1, <1>2, <1>3

LEMMA CheckpointIs ==
  ASSUME NEW c, NEW d \in Inputs, c.checkpoint # None
  PROVE  FinalCheckpoint(c, d) = {} <=> CheckpointHolds(c, d)
<1>1. ChainHolds(d) => Walkable(d.slice)
  BY DEF ChainHolds, Walkable, Objects
<1>2. Walkable(d.slice) =>
        (CheckpointChainCodes(c, d) = {} <=> c.checkpoint \in ChainHashes(d.slice))
  BY DEF CheckpointChainCodes, Report
<1> QED
  BY <1>1, <1>2, ChainIs DEF FinalCheckpoint, CheckpointHolds

LEMMA LegacyIs ==
  ASSUME NEW c, NEW d \in Inputs
  PROVE  FinalLegacy(c, d) = {} <=> (c.checkpoint = None /\ d.sliced => ChainHolds(d))
  BY ChainIs DEF FinalLegacy

LEMMA MaterialIs ==
  ASSUME NEW d
  PROVE  FinalMaterial(d) = {} <=> MaterialHolds(d)
  BY DEF FinalMaterial, MaterialHolds, Report

(***************************************************************************)
(* The report.                                                              *)
(***************************************************************************)
\* What PrintResult returns once everything has been found out.
Reported(c, d) ==
  LET failed ==
        Report("signature", FinalSignature(c, d) # {})
        \cup Report("checkpoint", FinalCheckpoint(c, d) # {})
        \cup Report("legacy_chain", FinalLegacy(c, d) # {})
        \cup Report("validation_material", FinalMaterial(d) # {})
        \cup Report("receipt_key", FinalKey(c, d) # {})
      result(exit, mode) ==
        [Result(c, exit, mode, RawValid(c, d), HaveKey(c, d), failed)
           EXCEPT !.receipt_key = Status(c, d)]
  IN IF /\ RawValid(c, d) /\ FinalKey(c, d) = {}
        /\ FinalLegacy(c, d) = {} /\ FinalMaterial(d) = {}
     THEN result(0, "SIGNATURE_VERIFIED")
     ELSE IF /\ c.checkpoint # None
             /\ FinalCheckpoint(c, d) = {} /\ FinalMaterial(d) = {}
             /\ Status(c, d) # "RECEIPT_KEY_REVOKED"
     THEN result(0, "CHAIN_VERIFIED_KEY_UNKNOWN")
     ELSE result(1, "none")

LEMMA ReportedIsPromised ==
  ASSUME NEW c \in Commands, NEW d \in Inputs
  PROVE  Reported(c, d) = ReceiptAnswer(c, d)
<1>1. SignatureVerified(c, d) <=>
        /\ RawValid(c, d) /\ FinalKey(c, d) = {}
        /\ FinalLegacy(c, d) = {} /\ FinalMaterial(d) = {}
  <2>1. SignatureHolds(c, d) => (FinalKey(c, d) = {} <=> KeyStanding(c, d))
    <3>1. SignatureHolds(c, d) => NotRefuted(c, d)
      BY NothingSaid DEF SignatureHolds, NotRefuted
    <3>2. ~c.keyring_given => KeyStanding(c, d)
      BY DEF KeyStanding
    <3> QED
      BY <3>1, <3>2, FinalKeyIs, NotRefutedIs
  <2> QED
    BY <2>1, RawValidIs, LegacyIs, MaterialIs DEF SignatureVerified
<1>2. ChainVerified(c, d) <=>
        /\ c.checkpoint # None
        /\ FinalCheckpoint(c, d) = {} /\ FinalMaterial(d) = {}
        /\ Status(c, d) # "RECEIPT_KEY_REVOKED"
  BY CheckpointIs, MaterialIs, StatusIs DEF ChainVerified
<1>3. Report("signature", FinalSignature(c, d) # {})
        = Report("signature", HaveKey(c, d) /\ ~SignatureHolds(c, d))
  BY FinalSignatureIs DEF Report
<1>4. Report("checkpoint", FinalCheckpoint(c, d) # {})
        = Report("checkpoint", c.checkpoint # None /\ ~CheckpointHolds(c, d))
  <2>1. c.checkpoint = None => FinalCheckpoint(c, d) = {}
    BY DEF FinalCheckpoint
  <2> QED
    BY <2>1, CheckpointIs DEF Report
<1>5. Report("legacy_chain", FinalLegacy(c, d) # {})
        = Report("legacy_chain", c.checkpoint = None /\ d.sliced /\ ~ChainHolds(d))
  BY LegacyIs DEF Report
<1>6. Report("validation_material", FinalMaterial(d) # {})
        = Report("validation_material", ~MaterialHolds(d))
  BY MaterialIs DEF Report
<1>7. Report("receipt_key", FinalKey(c, d) # {})
        = Report("receipt_key",
            c.keyring_given /\ (HaveKey(c, d) => ~Refuted(c, d)) /\ ~KeyStanding(c, d))
  BY FinalKeyIs DEF Report
<1> DEFINE failed ==
      Report("signature", FinalSignature(c, d) # {})
      \cup Report("checkpoint", FinalCheckpoint(c, d) # {})
      \cup Report("legacy_chain", FinalLegacy(c, d) # {})
      \cup Report("validation_material", FinalMaterial(d) # {})
      \cup Report("receipt_key", FinalKey(c, d) # {})
<1>8. failed = FailingChecks(c, d)
  BY <1>3, <1>4, <1>5, <1>6, <1>7 DEF FailingChecks
<1>9. ASSUME NEW exit, NEW mode
      PROVE  Result(c, exit, mode, RawValid(c, d), HaveKey(c, d), failed)
               = Result(c, exit, mode, SignatureHolds(c, d), HaveKey(c, d), FailingChecks(c, d))
  <2> HIDE DEF failed
  <2> QED
    BY <1>8, RawValidIs DEF Result
<1> DEFINE raw(exit, mode) == [Result(c, exit, mode, RawValid(c, d), HaveKey(c, d), failed)
                                 EXCEPT !.receipt_key = Status(c, d)]
           spec(exit, mode) == [Result(c, exit, mode, SignatureHolds(c, d), HaveKey(c, d),
                                       FailingChecks(c, d))
                                 EXCEPT !.receipt_key = StatusOf(c, d)]
<1>10. ASSUME NEW exit, NEW mode PROVE raw(exit, mode) = spec(exit, mode)
  BY <1>9, StatusIs
<1>11. CASE SignatureVerified(c, d)
  <2>1. ReceiptAnswer(c, d) = spec(0, "SIGNATURE_VERIFIED")
    BY <1>11 DEF ReceiptAnswer
  <2>2. Reported(c, d) = raw(0, "SIGNATURE_VERIFIED")
    BY <1>1, <1>11 DEF Reported
  <2> QED
    BY <1>10, <2>1, <2>2
<1>12. CASE ~SignatureVerified(c, d) /\ ChainVerified(c, d)
  <2>1. ReceiptAnswer(c, d) = spec(0, "CHAIN_VERIFIED_KEY_UNKNOWN")
    BY <1>12 DEF ReceiptAnswer
  <2>2. Reported(c, d) = raw(0, "CHAIN_VERIFIED_KEY_UNKNOWN")
    BY <1>1, <1>2, <1>12 DEF Reported
  <2> QED
    BY <1>10, <2>1, <2>2
<1>13. CASE ~SignatureVerified(c, d) /\ ~ChainVerified(c, d)
  <2>1. ReceiptAnswer(c, d) = spec(1, "none")
    BY <1>13 DEF ReceiptAnswer
  <2>2. Reported(c, d) = raw(1, "none")
    BY <1>1, <1>2, <1>13 DEF Reported
  <2> QED
    BY <1>10, <2>1, <2>2
<1> QED
  BY <1>11, <1>12, <1>13

(***************************************************************************)
(* The types of what the checks report.                                     *)
(***************************************************************************)
LEMMA SignatureTypes ==
  ASSUME NEW c, NEW d
  PROVE  /\ SignatureSays(c, d) \subseteq SignatureCodes
         /\ BindingSays(c, d) \subseteq SignatureCodes
         /\ FinalSignature(c, d) \subseteq SignatureCodes
<1>1. SignatureSays(c, d) \subseteq SignatureCodes
  BY CodeIsAnErrorOrOk DEF SignatureSays, Code, Report, SignatureCodes
<1>2. BindingSays(c, d) \subseteq SignatureCodes
  BY <1>1, BindingIsNotASignature DEF BindingSays, SignatureCodes
<1>3. Invalid(c, d) \subseteq {"RECEIPT_SIGNATURE_INVALID"}
  BY DEF Invalid, Report
<1> QED
  BY <1>1, <1>2, <1>3 DEF FinalSignature, SignatureCodes

StatusSet == {"none", "RECEIPT_KEY_UNKNOWN", "RECEIPT_SIGNATURE_INVALID",
              "RECEIPT_KEY_REVOKED", "RECEIPT_KEY_CURRENT", "RECEIPT_KEY_ROTATED_OUT"}

LEMMA StatusTypes ==
  ASSUME NEW c, NEW d
  PROVE  Status(c, d) \in StatusSet
  BY StatusIsOneOfFive DEF Status, StatusSet

LEMMA KeyTypes ==
  ASSUME NEW c, NEW d
  PROVE  FinalKey(c, d) \subseteq KeyCodes
<1>1. CASE ~c.keyring_given
  BY <1>1 DEF FinalKey
<1>2. CASE c.keyring_given
  <2>1. Status(c, d) \in StatusSet \ {"none"}
    BY <1>2, StatusIsOneOfFive DEF Status, StatusSet
  <2>2. StatusCodes(Status(c, d)) \ Invalid(c, d) \subseteq KeyCodes
    BY <2>1 DEF StatusCodes, Report, Invalid, KeyCodes, StatusSet
  <2> QED
    BY <1>2, <2>2 DEF FinalKey, Report, KeyCodes
<1> QED
  BY <1>1, <1>2

LEMMA SliceTypes ==
  ASSUME NEW c, NEW d
  PROVE  /\ FinalCheckpoint(c, d) \subseteq SliceCodes \cup {"CHECKPOINT_NOT_IN_SLICE"}
         /\ FinalLegacy(c, d) \subseteq SliceCodes
<1>1. ChainCodes(d.slice) \subseteq SliceCodes
  BY DEF ChainCodes, Report, SliceCodes
<1>2. EntryCodes(d) \subseteq SliceCodes
  BY DEF EntryCodes, Report, SliceCodes
<1>3. CheckpointChainCodes(c, d) \subseteq {"CHECKPOINT_NOT_IN_SLICE"}
  BY DEF CheckpointChainCodes, Report
<1> QED
  BY <1>1, <1>2, <1>3 DEF FinalCheckpoint, FinalLegacy

LEMMA MaterialTypes ==
  ASSUME NEW d
  PROVE  FinalMaterial(d) \subseteq {"VALIDATION_MATERIAL_MISSING"}
  BY DEF FinalMaterial, Report

(***************************************************************************)
(* The invariant is inductive: one lemma per action.                        *)
(***************************************************************************)
LEMMA InitHolds ==
  Init => IInv
<1> SUFFICES ASSUME Init PROVE IInv
  OBVIOUS
<1>1. Given
  BY DEF Init, Given
<1>2. TypeOK
  BY DEF Init, TypeOK
<1>3. Reached /\ Said
  BY DEF Init, Reached, Said, ReceiptStages
<1>4. Found
  BY DEF Init, Found, Early, Settled
<1> QED
  BY <1>1, <1>2, <1>3, <1>4 DEF IInv

LEMMA MalformedIsAnAnswer ==
  ASSUME NEW c
  PROVE  Malformed(c) # Absent
  BY ResultsAreAnswers DEF Malformed

LEMMA ParseFlagsKeeps ==
  IInv /\ ParseFlags => IInv'
<1> SUFFICES ASSUME IInv, ParseFlags PROVE IInv'
  OBVIOUS
<1> USE DEF ParseFlags, given, crypto, chain, Go, Return
<1>1. Given'
  BY DEF IInv, Given
<1>2. CASE Usable(cmd)
  <2>1. pc' = "read" /\ UNCHANGED answer
    BY <1>2 DEF Usable
  <2>2. TypeOK'
    BY <2>1 DEF IInv, TypeOK
  <2>3. Reached' /\ Said'
    BY <1>2, <2>1 DEF IInv, Reached, Said, ReceiptStages, Usable
  <2>4. Found'
    BY <2>1 DEF IInv, Found, Early, Settled
  <2> QED
    BY <1>1, <2>2, <2>3, <2>4 DEF IInv
<1>3. CASE ~Usable(cmd)
  <2>1. pc' = "done" /\ answer' = Malformed(cmd)
    BY <1>3 DEF Usable
  <2>2. TypeOK'
    BY <2>1, MalformedIsAnAnswer DEF IInv, TypeOK
  <2>3. Reached'
    BY <2>1 DEF Reached, ReceiptStages
  <2>4. Said'
    BY <1>3, <2>1 DEF Said, AnswerOf, Usable
  <2>5. Found'
    BY <2>1 DEF Found, Early, Settled
  <2> QED
    BY <1>1, <2>2, <2>3, <2>4, <2>5 DEF IInv
<1> QED
  BY <1>2, <1>3

LEMMA ReadDocumentKeeps ==
  IInv /\ ReadDocument => IInv'
<1> SUFFICES ASSUME IInv, ReadDocument PROVE IInv'
  OBVIOUS
<1> USE DEF ReadDocument, given, crypto, chain, Go, Return
<1>1. Given'
  BY DEF IInv, Given
<1>2. CASE doc.readable
  <2>1. /\ pc' = IF doc.attested THEN "attestation" ELSE "receipt"
        /\ UNCHANGED answer
    BY <1>2
  <2>2. TypeOK'
    BY <2>1 DEF IInv, TypeOK
  <2>3. Reached'
    BY <1>2, <2>1 DEF IInv, Reached, ReceiptStages, Usable
  <2>4. Said'
    BY <2>1 DEF Said
  <2>5. Found'
    BY <2>1 DEF IInv, Found, Early, Settled
  <2> QED
    BY <1>1, <2>2, <2>3, <2>4, <2>5 DEF IInv
<1>3. CASE ~doc.readable
  <2>1. pc' = "done" /\ answer' = Malformed(cmd)
    BY <1>3
  <2>2. TypeOK'
    BY <2>1, MalformedIsAnAnswer DEF IInv, TypeOK
  <2>3. Reached'
    BY <2>1 DEF Reached, ReceiptStages
  <2>4. Said'
    BY <1>3, <2>1 DEF Said, AnswerOf
  <2>5. Found'
    BY <2>1 DEF Found, Early, Settled
  <2> QED
    BY <1>1, <2>2, <2>3, <2>4, <2>5 DEF IInv
<1> QED
  BY <1>2, <1>3

LEMMA CheckAttestationKeeps ==
  IInv /\ CheckAttestation => IInv'
<1> SUFFICES ASSUME IInv, CheckAttestation PROVE IInv'
  OBVIOUS
<1>1. Given'
  BY DEF IInv, Given, CheckAttestation, given
<1>2. pc' = "done" /\ answer' = AttestationAnswer(cmd, doc.attestation)
  BY DEF CheckAttestation, Return, AttestationAnswer
<1>3. Usable(cmd) /\ doc.readable /\ doc.attested
  BY DEF IInv, Reached, CheckAttestation
<1>4. answer' # Absent
  BY <1>2, ResultsAreAnswers DEF AttestationAnswer
<1>5. TypeOK'
  BY <1>2, <1>4 DEF IInv, TypeOK, CheckAttestation, crypto, chain
<1>6. Reached' /\ Found'
  BY <1>2 DEF Reached, Found, ReceiptStages, Early, Settled
<1>7. Said'
  <2>1. AnswerOf(cmd, doc) = AttestationAnswer(cmd, doc.attestation)
    BY <1>3 DEF AnswerOf
  <2> QED
    BY <1>2, <2>1 DEF Said, CheckAttestation, given
<1> QED
  BY <1>1, <1>5, <1>6, <1>7 DEF IInv

LEMMA CheckSignatureKeeps ==
  IInv /\ CheckSignature => IInv'
<1> SUFFICES ASSUME IInv, CheckSignature PROVE IInv'
  OBVIOUS
<1> USE DEF CheckSignature, given, chain, Go, Return
<1>1. Given'
  BY DEF IInv, Given
<1>2. CASE \/ ~doc.receipt_present
           \/ ~HaveKey(cmd, doc) /\ cmd.checkpoint = None /\ ~cmd.keyring_given
  <2>1. pc' = "done" /\ answer' = Malformed(cmd) /\ UNCHANGED signature_failures
    BY <1>2
  <2>2. TypeOK'
    BY <2>1, MalformedIsAnAnswer DEF IInv, TypeOK
  <2>3. Reached' /\ Found'
    BY <2>1 DEF Reached, Found, ReceiptStages, Early, Settled
  <2>4. Said'
    <3>1. Usable(cmd) /\ doc.readable /\ ~doc.attested
      BY DEF IInv, Reached, ReceiptStages
    <3>2. AnswerOf(cmd, doc) = Malformed(cmd)
      BY <1>2, <3>1 DEF AnswerOf
    <3> QED
      BY <2>1, <3>2 DEF Said
  <2> QED
    BY <1>1, <2>2, <2>3, <2>4 DEF IInv
<1>3. CASE ~(\/ ~doc.receipt_present
             \/ ~HaveKey(cmd, doc) /\ cmd.checkpoint = None /\ ~cmd.keyring_given)
  <2>1. pc' = "binding" /\ UNCHANGED answer
    BY <1>3
  <2>2. signature_failures' = SignatureSays(cmd, doc)
    BY <1>3 DEF SignatureSays, Code
  <2>3. TypeOK'
    BY <2>1, <2>2, SignatureTypes DEF IInv, TypeOK
  <2>4. Reached'
    BY <1>3, <2>1 DEF IInv, Reached, ReceiptStages, Usable, HaveKey
  <2>5. Said'
    BY <2>1 DEF Said
  <2>6. Found'
    <3>1. SignatureSays(cmd, doc)' = SignatureSays(cmd, doc)
      BY DEF SignatureSays, Code, CheckedKey, HaveKey
    <3> QED
      BY <2>1, <2>2, <3>1 DEF IInv, Found, Early, Settled
  <2> QED
    BY <1>1, <2>3, <2>4, <2>5, <2>6 DEF IInv
<1> QED
  BY <1>2, <1>3

LEMMA CheckBindingKeeps ==
  IInv /\ CheckBinding => IInv'
<1> SUFFICES ASSUME IInv, CheckBinding PROVE IInv'
  OBVIOUS
<1> USE DEF CheckBinding, given, chain, Go
<1>1. pc' = "keyring" /\ Given'
  BY DEF IInv, Given
<1>2. signature_failures' = BindingSays(cmd, doc)
  BY DEF IInv, Found, BindingSays
<1>3. TypeOK'
  BY <1>1, <1>2, SignatureTypes DEF IInv, TypeOK
<1>4. Reached'
  BY <1>1 DEF IInv, Reached, ReceiptStages, Usable, HaveKey
<1>5. Said'
  BY <1>1 DEF Said
<1>6. Found'
  <2>1. BindingSays(cmd, doc)' = BindingSays(cmd, doc)
    BY DEF BindingSays, SignatureSays, Code, CheckedKey, HaveKey, BindingOf
  <2> QED
    BY <1>1, <1>2, <2>1 DEF IInv, Found, Early, Settled
<1> QED
  BY <1>1, <1>3, <1>4, <1>5, <1>6 DEF IInv

\* The functions of the inputs do not change when the inputs do not.
LEMMA InputsStay ==
  ASSUME UNCHANGED given
  PROVE  /\ FinalSignature(cmd, doc)' = FinalSignature(cmd, doc)
         /\ FinalKey(cmd, doc)' = FinalKey(cmd, doc)
         /\ Status(cmd, doc)' = Status(cmd, doc)
         /\ RawValid(cmd, doc)' = RawValid(cmd, doc)
         /\ FinalCheckpoint(cmd, doc)' = FinalCheckpoint(cmd, doc)
         /\ FinalLegacy(cmd, doc)' = FinalLegacy(cmd, doc)
         /\ FinalMaterial(doc)' = FinalMaterial(doc)
         /\ AnswerOf(cmd, doc)' = AnswerOf(cmd, doc)
<1>1. cmd' = cmd /\ doc' = doc
  BY DEF given
<1> QED
  BY <1>1

LEMMA ClassifyKeyKeeps ==
  IInv /\ ClassifyKey => IInv'
<1> SUFFICES ASSUME IInv, ClassifyKey PROVE IInv'
  OBVIOUS
<1>1. /\ pc = "keyring" /\ pc' = "chain" /\ Given' /\ UNCHANGED given
      /\ signature_failures = BindingSays(cmd, doc)
      /\ receipt_key_failures = {} /\ receipt_key_status = "none"
      /\ UNCHANGED <<chain, material_failures, answer>>
  BY DEF IInv, Given, Found, Early, ClassifyKey, given, Go
<1> DEFINE signature_ok == /\ HaveKey(cmd, doc)
                           /\ "RECEIPT_SIGNATURE_INVALID" \notin signature_failures
<1>2. signature_ok = NotRefuted(cmd, doc)
  BY <1>1 DEF NotRefuted
<1>3. /\ signature_failures' = FinalSignature(cmd, doc)
      /\ receipt_key_failures' = FinalKey(cmd, doc)
      /\ receipt_key_status' = Status(cmd, doc)
  <2>1. CASE ~cmd.keyring_given
    BY <1>1, <2>1 DEF ClassifyKey, FinalSignature, FinalKey, Status
  <2>2. CASE cmd.keyring_given
    <3>1. KeyStatus(doc.receipt, cmd.keyring, signature_ok) = Status(cmd, doc)
      BY <1>2, <2>2 DEF Status
    <3> QED
      BY <1>1, <1>2, <2>2, <3>1 DEF ClassifyKey, FinalSignature, FinalKey, Invalid
  <2> QED
    BY <2>1, <2>2
<1>4. /\ raw_signature_valid' = RawValid(cmd, doc)
      /\ signature_verified' = (RawValid(cmd, doc) /\ FinalKey(cmd, doc) = {})
  BY <1>3 DEF ClassifyKey, RawValid
<1>5. TypeOK'
  <2>1. {raw_signature_valid', signature_verified'} \subseteq BOOLEAN
    BY <1>4 DEF RawValid
  <2> QED
    BY <1>1, <1>3, <2>1, SignatureTypes, KeyTypes, StatusTypes
       DEF IInv, TypeOK, StatusSet, chain
<1>6. Reached'
  BY <1>1 DEF IInv, Reached, ReceiptStages, given
<1>7. Said'
  BY <1>1 DEF Said
<1>8. Found'
  BY <1>1, <1>3, <1>4, InputsStay DEF IInv, Found, Early, Settled, chain
<1> QED
  BY <1>1, <1>5, <1>6, <1>7, <1>8 DEF IInv

LEMMA CheckCheckpointChainKeeps ==
  IInv /\ CheckCheckpointChain => IInv'
<1> SUFFICES ASSUME IInv, CheckCheckpointChain PROVE IInv'
  OBVIOUS
<1>1. /\ pc = "chain" /\ pc' = "material" /\ Given' /\ UNCHANGED given
      /\ UNCHANGED <<crypto, legacy_chain_failures, material_failures, answer>>
      /\ cmd.checkpoint # None
  BY DEF IInv, Given, CheckCheckpointChain, given, Go
<1>2. /\ checkpoint_failures' = FinalCheckpoint(cmd, doc)
      /\ checkpoint_verified' = (FinalCheckpoint(cmd, doc) = {})
  BY <1>1 DEF CheckCheckpointChain, FinalCheckpoint
<1>3. legacy_chain_failures' = FinalLegacy(cmd, doc) /\ FinalLegacy(cmd, doc) = {}
  BY <1>1 DEF IInv, Found, Early, FinalLegacy
<1>4. TypeOK'
  BY <1>1, <1>2, SliceTypes DEF IInv, TypeOK, crypto
<1>5. Reached'
  BY <1>1 DEF IInv, Reached, ReceiptStages, given
<1>6. Said'
  BY <1>1 DEF Said
<1>7. Found'
  <2>1. /\ signature_failures' = FinalSignature(cmd, doc)
        /\ receipt_key_failures' = FinalKey(cmd, doc)
        /\ receipt_key_status' = Status(cmd, doc)
        /\ raw_signature_valid' = RawValid(cmd, doc)
        /\ signature_verified' = (RawValid(cmd, doc) /\ FinalKey(cmd, doc) = {})
    BY <1>1 DEF IInv, Found, Settled, crypto
  <2>2. cmd'.checkpoint # None
    BY <1>1 DEF given
  <2> QED
    BY <1>1, <1>2, <1>3, <2>1, <2>2, InputsStay DEF Found, Early, Settled
<1> QED
  BY <1>1, <1>4, <1>5, <1>6, <1>7 DEF IInv

LEMMA CheckLegacyChainKeeps ==
  IInv /\ CheckLegacyChain => IInv'
<1> SUFFICES ASSUME IInv, CheckLegacyChain PROVE IInv'
  OBVIOUS
<1>1. /\ pc = "chain" /\ pc' = "material" /\ Given' /\ UNCHANGED given
      /\ UNCHANGED <<signature_failures, receipt_key_failures, receipt_key_status,
                     raw_signature_valid, checkpoint_failures, checkpoint_verified,
                     material_failures, answer>>
      /\ cmd.checkpoint = None
  BY DEF IInv, Given, CheckLegacyChain, given, Go
<1>2. legacy_chain_failures' = FinalLegacy(cmd, doc)
  BY <1>1 DEF CheckLegacyChain, FinalLegacy
<1>3. signature_verified' = (/\ RawValid(cmd, doc) /\ FinalKey(cmd, doc) = {}
                             /\ FinalLegacy(cmd, doc) = {})
  <2>1. signature_verified = (RawValid(cmd, doc) /\ FinalKey(cmd, doc) = {})
    BY <1>1 DEF IInv, Found
  <2>2. signature_verified' = (signature_verified /\ FinalLegacy(cmd, doc) = {})
    BY <1>2 DEF CheckLegacyChain
  <2> QED
    BY <2>1, <2>2
<1>4. checkpoint_failures' = FinalCheckpoint(cmd, doc) /\ checkpoint_verified' = FALSE
  BY <1>1 DEF IInv, Found, Early, FinalCheckpoint
<1>5. TypeOK'
  <2>1. signature_verified' \in BOOLEAN
    BY <1>3
  <2> QED
    BY <1>1, <1>2, <2>1, SliceTypes DEF IInv, TypeOK
<1>6. Reached'
  BY <1>1 DEF IInv, Reached, ReceiptStages, given
<1>7. Said'
  BY <1>1 DEF Said
<1>8. Found'
  <2>1. /\ signature_failures' = FinalSignature(cmd, doc)
        /\ receipt_key_failures' = FinalKey(cmd, doc)
        /\ receipt_key_status' = Status(cmd, doc)
        /\ raw_signature_valid' = RawValid(cmd, doc)
    BY <1>1 DEF IInv, Found, Settled
  <2>2. cmd'.checkpoint = None
    BY <1>1 DEF given
  <2> QED
    BY <1>1, <1>2, <1>3, <1>4, <2>1, <2>2, InputsStay DEF Found, Early, Settled
<1> QED
  BY <1>1, <1>5, <1>6, <1>7, <1>8 DEF IInv

LEMMA CheckMaterialKeeps ==
  IInv /\ CheckMaterial => IInv'
<1> SUFFICES ASSUME IInv, CheckMaterial PROVE IInv'
  OBVIOUS
<1>1. /\ pc = "material" /\ pc' = "report" /\ Given' /\ UNCHANGED given
      /\ UNCHANGED <<signature_failures, receipt_key_failures, receipt_key_status,
                     raw_signature_valid, checkpoint_failures, legacy_chain_failures,
                     answer>>
  BY DEF IInv, Given, CheckMaterial, given, Go
<1>2. material_failures' = FinalMaterial(doc)
  BY DEF CheckMaterial, FinalMaterial
<1>3. /\ signature_verified' = (/\ RawValid(cmd, doc) /\ FinalKey(cmd, doc) = {}
                                /\ FinalLegacy(cmd, doc) = {}
                                /\ FinalMaterial(doc) = {})
      /\ checkpoint_verified' = (/\ cmd.checkpoint # None
                                 /\ FinalCheckpoint(cmd, doc) = {}
                                 /\ FinalMaterial(doc) = {}
                                 /\ Status(cmd, doc) # "RECEIPT_KEY_REVOKED")
  <2>1. /\ signature_verified = (/\ RawValid(cmd, doc) /\ FinalKey(cmd, doc) = {}
                                 /\ FinalLegacy(cmd, doc) = {})
        /\ checkpoint_verified = (/\ cmd.checkpoint # None
                                  /\ FinalCheckpoint(cmd, doc) = {})
        /\ receipt_key_status = Status(cmd, doc)
    BY <1>1 DEF IInv, Found, Settled
  <2> QED
    BY <1>2, <2>1 DEF CheckMaterial
<1>4. TypeOK'
  <2>1. {signature_verified', checkpoint_verified'} \subseteq BOOLEAN
    BY <1>3
  <2> QED
    BY <1>1, <1>2, <2>1, MaterialTypes DEF IInv, TypeOK
<1>5. Reached'
  BY <1>1 DEF IInv, Reached, ReceiptStages, given
<1>6. Said'
  BY <1>1 DEF Said
<1>7. Found'
  <2>1. /\ signature_failures' = FinalSignature(cmd, doc)
        /\ receipt_key_failures' = FinalKey(cmd, doc)
        /\ receipt_key_status' = Status(cmd, doc)
        /\ raw_signature_valid' = RawValid(cmd, doc)
        /\ checkpoint_failures' = FinalCheckpoint(cmd, doc)
        /\ legacy_chain_failures' = FinalLegacy(cmd, doc)
    BY <1>1 DEF IInv, Found, Settled
  <2>2. cmd' = cmd
    BY <1>1 DEF given
  <2> QED
    BY <1>1, <1>2, <1>3, <2>1, <2>2, InputsStay DEF Found, Early, Settled
<1> QED
  BY <1>1, <1>4, <1>5, <1>6, <1>7 DEF IInv

LEMMA PrintResultKeeps ==
  IInv /\ PrintResult => IInv'
<1> SUFFICES ASSUME IInv, PrintResult PROVE IInv'
  OBVIOUS
<1>1. pc = "report" /\ pc' = "done" /\ UNCHANGED given /\ Given'
  BY DEF IInv, Given, PrintResult, Return, given
<1>2. answer' = Reported(cmd, doc)
  <2>1. /\ FailedChecks =
             Report("signature", FinalSignature(cmd, doc) # {})
             \cup Report("checkpoint", FinalCheckpoint(cmd, doc) # {})
             \cup Report("legacy_chain", FinalLegacy(cmd, doc) # {})
             \cup Report("validation_material", FinalMaterial(doc) # {})
             \cup Report("receipt_key", FinalKey(cmd, doc) # {})
        /\ receipt_key_status = Status(cmd, doc)
        /\ raw_signature_valid = RawValid(cmd, doc)
    BY <1>1 DEF IInv, Found, Settled, FailedChecks
  <2>2. /\ signature_verified = (/\ RawValid(cmd, doc) /\ FinalKey(cmd, doc) = {}
                                 /\ FinalLegacy(cmd, doc) = {}
                                 /\ FinalMaterial(doc) = {})
        /\ checkpoint_verified = (/\ cmd.checkpoint # None
                                  /\ FinalCheckpoint(cmd, doc) = {}
                                  /\ FinalMaterial(doc) = {}
                                  /\ Status(cmd, doc) # "RECEIPT_KEY_REVOKED")
    BY <1>1 DEF IInv, Found
  <2> QED
    BY <2>1, <2>2 DEF PrintResult, Return, Reported
<1>3. answer' = AnswerOf(cmd, doc)
  <2>1. /\ Usable(cmd) /\ doc.readable /\ ~doc.attested /\ doc.receipt_present
        /\ ~(~HaveKey(cmd, doc) /\ cmd.checkpoint = None /\ ~cmd.keyring_given)
    BY <1>1 DEF IInv, Reached, ReceiptStages
  <2>2. AnswerOf(cmd, doc) = ReceiptAnswer(cmd, doc)
    BY <2>1 DEF AnswerOf
  <2>3. Reported(cmd, doc) = ReceiptAnswer(cmd, doc)
    BY ReportedIsPromised DEF IInv, Given
  <2> QED
    BY <1>2, <2>2, <2>3
<1>4. answer' # Absent
  <2>1. ReceiptAnswer(cmd, doc).exit \in {0, 1}
    BY DEF ReceiptAnswer, Result
  <2>2. Absent.exit = -1
    BY DEF Absent
  <2>3. Reported(cmd, doc) = ReceiptAnswer(cmd, doc)
    BY ReportedIsPromised DEF IInv, Given
  <2>4. -1 \notin {0, 1}
    OBVIOUS
  <2> QED
    BY <1>2, <2>1, <2>2, <2>3, <2>4
<1>5. TypeOK'
  BY <1>1, <1>4 DEF IInv, TypeOK, PrintResult, crypto, chain
<1>6. Reached' /\ Found'
  BY <1>1 DEF Reached, Found, ReceiptStages, Early, Settled
<1>7. Said'
  BY <1>1, <1>3, InputsStay DEF Said
<1> QED
  BY <1>1, <1>5, <1>6, <1>7 DEF IInv

LEMMA StutterKeeps ==
  IInv /\ UNCHANGED vars => IInv'
<1> SUFFICES ASSUME IInv, UNCHANGED vars PROVE IInv'
  OBVIOUS
<1>1. UNCHANGED given /\ pc' = pc /\ answer' = answer
  BY DEF vars, given
<1>2. Given' /\ TypeOK'
  BY DEF IInv, Given, TypeOK, vars
<1>3. Reached'
  BY DEF IInv, Reached, vars
<1>4. Found'
  BY DEF IInv, Found, vars
<1>5. Said'
  BY <1>1, InputsStay DEF IInv, Said
<1> QED
  BY <1>2, <1>3, <1>4, <1>5 DEF IInv

(***************************************************************************)
(* Theorems.                                                                *)
(***************************************************************************)

\* The invariant: at each part of main(), every list and flag is the function
\* of the inputs that the checks run so far make it, and the answer, when
\* there is one, is the promised one.
THEOREM Invariant == Spec => []IInv
<1>1. IInv /\ [Next]_vars => IInv'
  BY ParseFlagsKeeps, ReadDocumentKeeps, CheckAttestationKeeps, CheckSignatureKeeps,
     CheckBindingKeeps, ClassifyKeyKeeps, CheckCheckpointChainKeeps,
     CheckLegacyChainKeeps, CheckMaterialKeeps, PrintResultKeeps, StutterKeeps DEF Next
<1> QED
  BY InitHolds, <1>1, PTL DEF Spec

\* The variables of a run of verify_receipt.py keep their types, no failure
\* is filed under another check's list, and the run is over exactly when it
\* has answered.
THEOREM TypeCorrect == Spec => []TypeOK
<1>1. IInv => TypeOK
  BY DEF IInv
<1> QED
  BY <1>1, Invariant, PTL

\* An answer, once given, is the promised one.
LEMMA AnswerIsPromised ==
  IInv /\ answer # Absent => answer = AnswerOf(cmd, doc)
  BY DEF IInv, TypeOK, Said

\* Every run of verify_receipt.py answers, in one observable step, what
\* AnswerOf promises of its command line and document.
THEOREM Implements == Spec => AnswersAsPromised
<1>1. Init => Abstract!Init
  BY DEF Init, Abstract!Init
<1>2. ASSUME IInv, IInv', [Next]_vars
      PROVE  [Abstract!Answer]_<<cmd, doc, answer>>
  <2>1. cmd' = cmd /\ doc' = doc
    BY <1>2 DEF Next, vars, given, ParseFlags, ReadDocument, CheckAttestation,
       CheckSignature, CheckBinding, ClassifyKey, CheckCheckpointChain,
       CheckLegacyChain, CheckMaterial, PrintResult
  <2>2. answer' = answer \/ (answer = Absent /\ answer' # Absent)
    <3>1. CASE pc' = "done" /\ pc # "done"
      BY <1>2, <3>1 DEF IInv, TypeOK
    <3>2. CASE pc' # "done" /\ pc # "done"
      BY <1>2, <3>2 DEF IInv, TypeOK
    <3>3. CASE pc = "done"
      BY <1>2, <3>3 DEF Next, vars, ParseFlags, ReadDocument, CheckAttestation,
         CheckSignature, CheckBinding, ClassifyKey, CheckCheckpointChain,
         CheckLegacyChain, CheckMaterial, PrintResult
    <3> QED
      BY <3>1, <3>2, <3>3
  <2>3. answer' # Absent => answer' = AnswerOf(cmd, doc)
    <3>1. answer' # Absent => answer' = AnswerOf(cmd', doc')
      BY <1>2 DEF IInv, TypeOK, Said
    <3> QED
      BY <2>1, <3>1
  <2> QED
    BY <2>1, <2>2, <2>3 DEF Abstract!Answer
<1> QED
  BY <1>1, <1>2, Invariant, PTL DEF Spec, AnswersAsPromised, Abstract!Spec

(***************************************************************************)
(* The promised answers.                                                    *)
(***************************************************************************)
\* main() got as far as the receipt.
GotThrough(c, d) ==
  /\ Usable(c) /\ d.readable /\ ~d.attested /\ d.receipt_present
  /\ ~(~HaveKey(c, d) /\ c.checkpoint = None /\ ~c.keyring_given)

LEMMA AnswerForms ==
  ASSUME NEW c, NEW d
  PROVE  \/ GotThrough(c, d) /\ AnswerOf(c, d) = ReceiptAnswer(c, d)
         \/ d.attested /\ AnswerOf(c, d) = AttestationAnswer(c, d.attestation)
         \/ AnswerOf(c, d) = Malformed(c)
  BY DEF AnswerOf, GotThrough

LEMMA MalformedFields ==
  ASSUME NEW c
  PROVE  /\ Malformed(c).exit = 2 /\ Malformed(c).mode = "none"
         /\ Malformed(c).failed_checks = {"malformed_input"}
         /\ Malformed(c).verdict = "NOT_EVALUATED"
  BY DEF Malformed, Result

LEMMA AttestationFields ==
  ASSUME NEW c, NEW a
  PROVE  LET r == AttestationAnswer(c, a) IN
         /\ r.mode # "SIGNATURE_VERIFIED"
         /\ r.mode # "traceback" /\ r.exit # 0 => r.failed_checks = {"archive_attestation"}
         /\ r.mode # "traceback" => r.verdict = "NOT_EVALUATED"
<1> DEFINE r == AttestationAnswer(c, a)
<1>1. CASE a.complete /\ ~a.readable
  <2>1. r = [Absent EXCEPT !.exit = 1, !.mode = "traceback"]
    BY <1>1 DEF AttestationAnswer
  <2>2. r.mode = "traceback"
    BY <2>1 DEF Absent
  <2> QED
    BY <2>2
<1>2. CASE ~(a.complete /\ ~a.readable) /\ AttestationHolds(a)
  <2>1. r = Result(c, 0, "ARCHIVE_ATTESTATION_VERIFIED", FALSE, FALSE, {})
    BY <1>2 DEF AttestationAnswer
  <2>2. /\ r.mode = "ARCHIVE_ATTESTATION_VERIFIED" /\ r.exit = 0
        /\ r.verdict = "NOT_EVALUATED"
    BY <2>1 DEF Result
  <2> QED
    BY <2>2
<1>3. CASE ~(a.complete /\ ~a.readable) /\ ~AttestationHolds(a)
  <2>1. r = Result(c, 1, "none", FALSE, FALSE, {"archive_attestation"})
    BY <1>3 DEF AttestationAnswer
  <2>2. /\ r.mode = "none" /\ r.failed_checks = {"archive_attestation"}
        /\ r.verdict = "NOT_EVALUATED"
    BY <2>1 DEF Result
  <2> QED
    BY <2>2
<1> QED
  BY <1>1, <1>2, <1>3

LEMMA ReceiptFields ==
  ASSUME NEW c, NEW d
  PROVE  LET r == ReceiptAnswer(c, d) IN
         /\ r.mode = IF SignatureVerified(c, d) THEN "SIGNATURE_VERIFIED"
                     ELSE IF ChainVerified(c, d) THEN "CHAIN_VERIFIED_KEY_UNKNOWN"
                     ELSE "none"
         /\ r.exit = IF SignatureVerified(c, d) \/ ChainVerified(c, d) THEN 0 ELSE 1
         /\ r.failed_checks = FailingChecks(c, d)
         /\ r.receipt_key = StatusOf(c, d)
  BY DEF ReceiptAnswer, Result

\* A receipt that passes neither way fails a check main() names.
LEMMA SomethingFails ==
  ASSUME NEW c, NEW d, GotThrough(c, d), ~SignatureVerified(c, d), ~ChainVerified(c, d)
  PROVE  FailingChecks(c, d) # {}
<1>1. SUFFICES ASSUME FailingChecks(c, d) = {} PROVE FALSE
  OBVIOUS
<1>2. /\ HaveKey(c, d) => SignatureHolds(c, d)
      /\ c.checkpoint # None => CheckpointHolds(c, d)
      /\ c.checkpoint = None /\ d.sliced => ChainHolds(d)
      /\ MaterialHolds(d)
      /\ c.keyring_given /\ (HaveKey(c, d) => ~Refuted(c, d)) => KeyStanding(c, d)
  BY <1>1 DEF FailingChecks, Report
<1>3. SignatureHolds(c, d) => ~Refuted(c, d)
  BY DEF SignatureHolds, Refuted, Signed, AlgorithmCode, MLDSA, HYBRID
<1>4. KeyStanding(c, d)
  BY <1>2, <1>3 DEF KeyStanding
<1>5. c.checkpoint # None
  BY <1>2, <1>4 DEF GotThrough, SignatureVerified, KeyStanding
<1>6. StatusOf(c, d) # "RECEIPT_KEY_REVOKED"
  BY <1>4 DEF StatusOf, KeyStatus, KeyStanding, HaveKey
<1> QED
  BY <1>2, <1>5, <1>6 DEF ChainVerified

\* A receipt that passes on its signature fails no check but the checkpoint's.
LEMMA NothingElseFails ==
  ASSUME NEW c, NEW d, SignatureVerified(c, d)
  PROVE  FailingChecks(c, d) \subseteq {"checkpoint"}
  BY DEF FailingChecks, Report, SignatureVerified

\* Every rejection names a check that failed, and a receipt accepted on its
\* signature hides none but the checkpoint the signature outranks.
THEOREM Explained == Spec => []RejectionsAreExplained
<1>1. ASSUME IInv PROVE RejectionsAreExplained
  <2>1. SUFFICES ASSUME Answered
                 PROVE  /\ answer.exit # 0 => answer.failed_checks # {}
                        /\ answer.mode = "SIGNATURE_VERIFIED" =>
                             answer.failed_checks \subseteq {"checkpoint"}
    BY DEF RejectionsAreExplained
  <2>2. answer = AnswerOf(cmd, doc)
    BY <1>1, <2>1, AnswerIsPromised DEF Answered
  <2>3. CASE GotThrough(cmd, doc) /\ answer = ReceiptAnswer(cmd, doc)
    BY <2>3, ReceiptFields, SomethingFails, NothingElseFails
  <2>4. CASE answer = AttestationAnswer(cmd, doc.attestation)
    BY <2>1, <2>4, AttestationFields DEF Answered
  <2>5. CASE answer = Malformed(cmd)
    BY <2>5, MalformedFields
  <2> QED
    BY <2>2, <2>3, <2>4, <2>5, AnswerForms
<1> QED
  BY <1>1, Invariant, PTL

\* With a keyring, a receipt accepted on its signature was made by the
\* unrevoked key listed under the receipt's own key_id, and the status says
\* whether that key is the current one.
THEOREM KeyringDecides == Spec => []KeyringDecidesTheKey
<1>1. ASSUME IInv, answer.mode = "SIGNATURE_VERIFIED", cmd.keyring_given
      PROVE  LET entry == cmd.keyring[doc.receipt.body.key_id] IN
             /\ Signed(entry.public_key, doc.receipt, cmd.oqs)
             /\ ~entry.revoked
             /\ answer.receipt_key = IF entry.active THEN "RECEIPT_KEY_CURRENT"
                                     ELSE "RECEIPT_KEY_ROTATED_OUT"
  <2>1. answer # Absent
    BY <1>1 DEF Absent
  <2>2. answer = AnswerOf(cmd, doc)
    BY <1>1, <2>1, AnswerIsPromised
  <2>3. answer = ReceiptAnswer(cmd, doc)
    BY <1>1, <2>2, AnswerForms, MalformedFields, AttestationFields
  <2>4. SignatureVerified(cmd, doc) /\ answer.receipt_key = StatusOf(cmd, doc)
    BY <1>1, <2>3, ReceiptFields
  <2>5. SignatureHolds(cmd, doc) /\ KeyStanding(cmd, doc) /\ HaveKey(cmd, doc)
    BY <2>4 DEF SignatureVerified, SignatureHolds
  <2>6. ~Refuted(cmd, doc)
    BY <2>5 DEF SignatureHolds, Refuted, Signed, AlgorithmCode, MLDSA, HYBRID
  <2>7. Signed(cmd.keyring[doc.receipt.body.key_id].public_key, doc.receipt, cmd.oqs)
    BY <1>1, <2>5 DEF SignatureHolds, CheckedKey
  <2>8. ~cmd.keyring[doc.receipt.body.key_id].revoked
    BY <1>1, <2>5 DEF KeyStanding
  <2>9. StatusOf(cmd, doc) = IF cmd.keyring[doc.receipt.body.key_id].active
                             THEN "RECEIPT_KEY_CURRENT" ELSE "RECEIPT_KEY_ROTATED_OUT"
    BY <1>1, <2>5, <2>6, <2>8 DEF StatusOf, KeyStatus, HaveKey
  <2> QED
    BY <2>4, <2>7, <2>8, <2>9
<1> QED
  BY <1>1, Invariant, PTL DEF KeyringDecidesTheKey

\* A receipt really signed under a revoked key of the caller's keyring never
\* exits 0, whatever the slice and the checkpoint.
THEOREM RevokedIsRefused == Spec => []RevokedNeverPasses
<1>1. ASSUME IInv, answer.exit = 0, cmd.keyring_given, HaveKey(cmd, doc), ~doc.attested,
             cmd.keyring[doc.receipt.body.key_id].revoked,
             Signed(CheckedKey(cmd, doc), doc.receipt, cmd.oqs)
      PROVE  FALSE
  <2>1. answer # Absent
    BY <1>1 DEF Absent
  <2>2. answer = AnswerOf(cmd, doc)
    BY <1>1, <2>1, AnswerIsPromised
  <2>3. answer = ReceiptAnswer(cmd, doc)
    BY <1>1, <2>2, AnswerForms, MalformedFields
  <2>4. SignatureVerified(cmd, doc) \/ ChainVerified(cmd, doc)
    BY <1>1, <2>3, ReceiptFields
  <2>5. ~Refuted(cmd, doc)
    BY <1>1 DEF Refuted, Signed, AlgorithmCode, MLDSA, HYBRID
  <2>6. StatusOf(cmd, doc) = "RECEIPT_KEY_REVOKED"
    BY <1>1, <2>5 DEF StatusOf, KeyStatus, HaveKey
  <2> QED
    BY <1>1, <2>4, <2>6 DEF ChainVerified, SignatureVerified, KeyStanding
<1> QED
  BY <1>1, Invariant, PTL DEF RevokedNeverPasses

(***************************************************************************)
(* The caller's declaration about its trust material.                       *)
(***************************************************************************)
Turned(c) == [c EXCEPT !.trust_material_complete = ~@]

LEMMA TurnedReads ==
  ASSUME NEW c \in Commands
  PROVE  /\ Turned(c).runnable = c.runnable /\ Turned(c).oqs = c.oqs
         /\ Turned(c).pinned = c.pinned /\ Turned(c).pin = c.pin
         /\ Turned(c).keyring_given = c.keyring_given
         /\ Turned(c).keyring_readable = c.keyring_readable
         /\ Turned(c).keyring = c.keyring
         /\ Turned(c).checkpoint = c.checkpoint
  BY CommandsAssumption DEF Turned

\* No check reads the declaration.
LEMMA TurnedChecks ==
  ASSUME NEW c \in Commands, NEW d
  PROVE  LET t == Turned(c) IN
         /\ Usable(t) = Usable(c)
         /\ HaveKey(t, d) = HaveKey(c, d)
         /\ SignatureHolds(t, d) = SignatureHolds(c, d)
         /\ StatusOf(t, d) = StatusOf(c, d)
         /\ SignatureVerified(t, d) = SignatureVerified(c, d)
         /\ ChainVerified(t, d) = ChainVerified(c, d)
         /\ FailingChecks(t, d) = FailingChecks(c, d)
<1> DEFINE t == Turned(c)
<1>1. Usable(t) = Usable(c)
  BY TurnedReads DEF Usable
<1>2. HaveKey(t, d) = HaveKey(c, d) /\ CheckedKey(t, d) = CheckedKey(c, d)
  BY TurnedReads DEF HaveKey, CheckedKey
<1>3. SignatureHolds(t, d) = SignatureHolds(c, d)
  BY <1>2, TurnedReads DEF SignatureHolds
<1>4. Refuted(t, d) = Refuted(c, d)
  BY <1>2, TurnedReads DEF Refuted
<1>5. StatusOf(t, d) = StatusOf(c, d)
  BY <1>4, TurnedReads DEF StatusOf
<1>6. KeyStanding(t, d) = KeyStanding(c, d)
  BY <1>2, TurnedReads DEF KeyStanding
<1>7. CheckpointHolds(t, d) = CheckpointHolds(c, d)
  BY TurnedReads DEF CheckpointHolds
<1>8. SignatureVerified(t, d) = SignatureVerified(c, d)
  BY <1>3, <1>6, TurnedReads DEF SignatureVerified
<1>9. ChainVerified(t, d) = ChainVerified(c, d)
  BY <1>5, <1>7, TurnedReads DEF ChainVerified
<1>10. FailingChecks(t, d) = FailingChecks(c, d)
  BY <1>2, <1>3, <1>4, <1>6, <1>7, TurnedReads DEF FailingChecks
<1> QED
  BY <1>1, <1>2, <1>3, <1>5, <1>8, <1>9, <1>10

\* What every result of the decision table satisfies.
RefusalsWereNotEvaluated(a) ==
  a.disposition = "REFUSED_BY_POLICY" => a.verdict = "NOT_EVALUATED"

\* The decision table puts the declaration in the disposition alone.
LEMMA TurnedResult ==
  ASSUME NEW c, NEW t, NEW exit, NEW mode, NEW valid, NEW attempted, NEW failed
  PROVE  /\ BesidesPolicy(Result(t, exit, mode, valid, attempted, failed))
              = BesidesPolicy(Result(c, exit, mode, valid, attempted, failed))
         /\ RefusalsWereNotEvaluated(Result(c, exit, mode, valid, attempted, failed))
  BY DEF Result, BesidesPolicy, RefusalsWereNotEvaluated

LEMMA TurnedReceipt ==
  ASSUME NEW c \in Commands, NEW d
  PROVE  /\ BesidesPolicy(ReceiptAnswer(Turned(c), d)) = BesidesPolicy(ReceiptAnswer(c, d))
         /\ RefusalsWereNotEvaluated(ReceiptAnswer(c, d))
<1> DEFINE a == ReceiptAnswer(c, d)
           b == ReceiptAnswer(Turned(c), d)
<1>1. /\ b.mode = a.mode /\ b.exit = a.exit /\ b.failed_checks = a.failed_checks
      /\ b.receipt_key = a.receipt_key
  BY ReceiptFields, TurnedChecks
<1>2. b.verdict = a.verdict
  BY TurnedChecks DEF ReceiptAnswer, Result
<1>3. RefusalsWereNotEvaluated(a)
  BY DEF ReceiptAnswer, Result, RefusalsWereNotEvaluated
<1> HIDE DEF a, b
<1>4. BesidesPolicy(b) = BesidesPolicy(a)
  BY <1>1, <1>2 DEF BesidesPolicy
<1> QED
  BY <1>3, <1>4 DEF a, b

LEMMA TurnedAttestation ==
  ASSUME NEW c, NEW t, NEW at, ~(at.complete /\ ~at.readable)
  PROVE  /\ BesidesPolicy(AttestationAnswer(t, at)) = BesidesPolicy(AttestationAnswer(c, at))
         /\ RefusalsWereNotEvaluated(AttestationAnswer(c, at))
<1>1. CASE AttestationHolds(at)
  BY <1>1 DEF AttestationAnswer, Result, BesidesPolicy, RefusalsWereNotEvaluated
<1>2. CASE ~AttestationHolds(at)
  BY <1>2 DEF AttestationAnswer, Result, BesidesPolicy, RefusalsWereNotEvaluated
<1> QED
  BY <1>1, <1>2

LEMMA TurnedMalformed ==
  ASSUME NEW c, NEW t
  PROVE  /\ BesidesPolicy(Malformed(t)) = BesidesPolicy(Malformed(c))
         /\ RefusalsWereNotEvaluated(Malformed(c))
  BY DEF Malformed, Result, BesidesPolicy, RefusalsWereNotEvaluated

\* The disposition is REFUSED_BY_POLICY only where nothing was evaluated, and
\* the declaration changes nothing else of an answer.
THEOREM PolicyIsOnlyPolicy == Spec => []PolicyNeverMovesTheVerdict
<1>1. ASSUME IInv, Answered
      PROVE  /\ BesidesPolicy(AnswerOf(Turned(cmd), doc)) = BesidesPolicy(answer)
             /\ RefusalsWereNotEvaluated(answer)
  <2> DEFINE t == Turned(cmd)
  <2>1. answer = AnswerOf(cmd, doc) /\ cmd \in Commands
    BY <1>1, AnswerIsPromised DEF Answered, IInv, Given
  <2>2. /\ Usable(t) = Usable(cmd) /\ HaveKey(t, doc) = HaveKey(cmd, doc)
        /\ t.checkpoint = cmd.checkpoint /\ t.keyring_given = cmd.keyring_given
    BY <2>1, TurnedChecks, TurnedReads
  <2> HIDE DEF t
  <2>3. CASE GotThrough(cmd, doc)
    <3>1. AnswerOf(t, doc) = ReceiptAnswer(t, doc)
      BY <2>2, <2>3 DEF GotThrough, AnswerOf
    <3>2. answer = ReceiptAnswer(cmd, doc)
      BY <2>1, <2>3 DEF GotThrough, AnswerOf
    <3> QED
      BY <2>1, <3>1, <3>2, TurnedReceipt DEF t
  <2>4. CASE doc.attested /\ Usable(cmd) /\ doc.readable
    <3>1. AnswerOf(t, doc) = AttestationAnswer(t, doc.attestation)
      BY <2>2, <2>4 DEF AnswerOf
    <3>2. answer = AttestationAnswer(cmd, doc.attestation)
      BY <2>1, <2>4 DEF AnswerOf
    <3>3. ~(doc.attestation.complete /\ ~doc.attestation.readable)
      <4>1. [Absent EXCEPT !.exit = 1, !.mode = "traceback"].mode = "traceback"
        BY DEF Absent
      <4> QED
        BY <1>1, <3>2, <4>1 DEF Answered, AttestationAnswer
    <3> QED
      BY <3>1, <3>2, <3>3, TurnedAttestation DEF t
  <2>5. CASE ~GotThrough(cmd, doc) /\ ~(doc.attested /\ Usable(cmd) /\ doc.readable)
    <3>1. AnswerOf(t, doc) = Malformed(t) /\ answer = Malformed(cmd)
      BY <2>1, <2>2, <2>5 DEF AnswerOf, GotThrough
    <3> QED
      BY <3>1, TurnedMalformed DEF t
  <2> QED
    BY <2>3, <2>4, <2>5
<1> QED
  BY <1>1, Invariant, PTL DEF PolicyNeverMovesTheVerdict, Turned, RefusalsWereNotEvaluated

=============================================================================

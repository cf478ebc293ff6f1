-------------------------- MODULE PacketDocuments --------------------------
(***************************************************************************)
(* The checks verify.py makes on what a packet says beside its ledger slice *)
(* and its receipt's signature: the verifier digest, the ledger root        *)
(* version, the three authentication documents, the scope verdict, the      *)
(* approver's snapshot, the approval's manifestation, the anchor log and    *)
(* the settlement block.  Each operator is the set of codes its check adds. *)
(*                                                                          *)
(* An event is [event_type, action_id, at, payload, event_hash].  A field a *)
(* payload lacks is "absent", or None where a hash is expected.             *)
(***************************************************************************)
EXTENDS Evidence

(***************************************************************************)
(* A document of the packet is [state |-> ..., fields...] where state is    *)
(* "missing", "unreadable" (not JSON), "null" (the JSON null), "other" (not *)
(* a JSON object) or "object".                                              *)
(***************************************************************************)
Loaded(doc) == doc.state = "object"

\* _load_doc: a null is read without a failure and then taken for absent.
LoadCodes(code, doc) == Report(code, doc.state \in {"missing", "unreadable"})

\* The first use of a document that is no object raises, and main() does
\* not catch it.
Raises(doc) == doc.state = "other"

\* A variant that forgets that the slice holds other actions' events too.
WitnessesOfAnyAction(events, type, action) ==
  {i \in DOMAIN events : events[i].event_type = type}

\* The events of one type and one action.
Witnesses(events, type, action) ==
  {i \in DOMAIN events :
     events[i].event_type = type /\ events[i].action_id = action}

\* A variant that takes the first of them.
EarliestOf(S) == FirstOf(S)

\* The one a check reads: the last.
LastOf(S) == CHOOSE i \in S : \A j \in S : j <= i

(***************************************************************************)
(* The verifier's own digest and the ledger root's version.                 *)
(***************************************************************************)
\* verifier_body_sha256: leading # lines are no part of the body.
VerifierBodySha256(file) == Hash("body", file.body)

VerifierDigestCodes(manifest, verifier) ==
  LET declared == manifest.verifier_sha256
      hex      == declared[1] = "body"
  IN Report("VERIFIER_DIGEST_MALFORMED", declared # None /\ ~hex)
     \cup Report("VERIFIER_DIGEST_MISMATCH",
            declared # None /\ hex /\ declared # VerifierBodySha256(verifier))

RootVersion(acquisition) ==
  IF Loaded(acquisition) /\ acquisition.ledger_root_version # "absent"
  THEN acquisition.ledger_root_version ELSE "v1"

RootVersionCodes(acquisition) ==
  Report("LEDGER_ROOT_VERSION_UNKNOWN", RootVersion(acquisition) \notin {"v1", "v2"})

(***************************************************************************)
(* acquisition.json, custody.json, authentication.json.                     *)
(***************************************************************************)
AcquisitionCodes(acquisition) ==
  IF ~Loaded(acquisition) THEN LoadCodes("ACQUISITION_REPORT_MISSING", acquisition)
  ELSE Report("ACQUISITION_TOOL_UNDECLARED", "tool" \notin acquisition.declares)
       \cup Report("ACQUISITION_CLOCK_SOURCE_UNDECLARED",
                   "clock_source" \notin acquisition.declares)
       \cup Report("ACQUISITION_TIME_UNDECLARED", "acquired_at" \notin acquisition.declares)

CustodyCodes(custody, events) ==
  IF ~Loaded(custody) THEN LoadCodes("CUSTODY_DOC_MISSING", custody)
  ELSE LET log == custody.custody_events IN
       Report("CUSTODY_EMPTY", log = <<>>)
       \cup Report("CUSTODY_ORDER_INVALID",
              \E i, j \in DOMAIN log : i < j /\ log[j].at < log[i].at)
       \cup Report("CUSTODY_EVENT_UNBOUND",
              \E i \in DOMAIN log :
                EntriesNamed(events, log[i].ledger_event_hash) = {})

\* A variant that leaves the mandate out.
StatementCodesOfTheKey(authentication, acquisition, receipt) ==
  IF ~Loaded(authentication)
  THEN LoadCodes("AUTHENTICATION_STATEMENT_MISSING", authentication)
  ELSE Report("AUTHENTICATION_SIGNER_PUBKEY_HASH_MISMATCH",
              authentication.signer_pubkey_hash # receipt.body.signer_pubkey_hash)

StatementCodes(authentication, acquisition, receipt) ==
  IF ~Loaded(authentication)
  THEN LoadCodes("AUTHENTICATION_STATEMENT_MISSING", authentication)
  ELSE Report("AUTHENTICATION_HASH_ALGO_MISMATCH",
              authentication.hash_algorithm # "sha256")
       \cup Report("AUTHENTICATION_SIGNER_KEY_ID_MISMATCH",
              authentication.signer_key_id # receipt.body.key_id)
       \cup Report("AUTHENTICATION_SIGNER_PUBKEY_HASH_MISMATCH",
              authentication.signer_pubkey_hash # receipt.body.signer_pubkey_hash)
       \cup Report("AUTHENTICATION_MANDATE_HASH_MISMATCH",
              authentication.mandate_hash # receipt.body.mandate_hash)
       \cup Report("AUTHENTICATION_ANCHOR_LOG_MISMATCH",
              /\ Loaded(acquisition)
              /\ authentication.external_anchor_log_id # acquisition.log_id)

AuthenticationDocsCodes(packet) ==
  AcquisitionCodes(packet.acquisition)
  \cup CustodyCodes(packet.custody, packet.events)
  \cup StatementCodes(packet.authentication, packet.acquisition, packet.receipt)

(***************************************************************************)
(* The scope verdict: manifest headline, receipt result and ledger event.   *)
(* A result is [given : BOOLEAN, verdict, breaches, scope_hash,             *)
(* action_hash], where breaches are the names of the breached dimensions.   *)
(***************************************************************************)
ScopeHeadline(result) ==
  IF ~result.given THEN <<"not_evaluated">>
  ELSE IF result.verdict = "IN_SCOPE" THEN <<"in_scope">>
  ELSE <<"BREACH">> \o result.breaches

HeadlineCodes(manifest, receipt) ==
  LET headline == manifest.scope_conformance_headline IN
    Report("SCOPE_HEADLINE_MISSING", headline = None)
    \cup Report("SCOPE_HEADLINE_MISMATCH",
           /\ headline # None
           /\ headline # ScopeHeadline(receipt.body.scope_conformance))

\* One recorded hash: it recomputes from its recorded source, and the
\* receipt repeats it.
ScopeHashHolds(source, recorded, repeated) ==
  source # None /\ recorded = Hash("json", source) /\ repeated = recorded

\* verify_scope_conformance.
ScopeCodes(manifest, receipt, events) ==
  LET result  == receipt.body.scope_conformance
      scopes  == Witnesses(events, "ScopeEvaluated", manifest.action_id)
      payload == events[LastOf(scopes)].payload
  IN HeadlineCodes(manifest, receipt)
     \cup Report("SCOPE_EVENT_MISSING", result.given /\ scopes = {})
     \cup Report("SCOPE_RESULT_MISSING", ~result.given /\ scopes # {})
     \cup IF ~result.given \/ scopes = {} THEN {} ELSE
          Report("SCOPE_VERDICT_MISMATCH", payload.verdict # result.verdict)
          \cup Report("SCOPE_DIMENSIONS_MISMATCH",
                 payload.breach_dimensions # result.breaches)
          \cup Report("SCOPE_HASH_MISMATCH",
                 \/ ~ScopeHashHolds(payload.intent_scope, payload.scope_hash,
                                    result.scope_hash)
                 \/ ~ScopeHashHolds(payload.executed_action, payload.action_hash,
                                    result.action_hash))

(***************************************************************************)
(* What the approver saw, and the approval.                                 *)
(***************************************************************************)
\* A variant that only asks that some snapshot of the slice has this hash.
SnapshotCodesOfAnyAction(manifest, receipt, events) ==
  LET claimed == receipt.body.approver_snapshot_hash IN
    Report("APPROVER_SNAPSHOT_HASH_MISMATCH",
      /\ claimed # None
      /\ \A i \in DOMAIN events : Hash("json", events[i].payload) # claimed)

\* verify_approver_snapshot.
SnapshotCodes(manifest, receipt, events) ==
  LET claimed == receipt.body.approver_snapshot_hash
      shots   == Witnesses(events, "ApproverSnapshotCaptured", manifest.action_id)
  IN IF claimed = None THEN {}
     ELSE IF shots = {} THEN {"APPROVER_SNAPSHOT_EVENT_MISSING"}
     ELSE Report("APPROVER_SNAPSHOT_HASH_MISMATCH",
            Hash("json", events[LastOf(shots)].payload) # claimed)

APPROVAL_SIGNATURE_MEANINGS == {"review", "approval", "responsibility", "authorship"}

\* A variant that leaves the manifestation's action unchecked.
ManifestationCodesOfTheVersion(receipt, events) ==
  LET named == EntriesNamed(events, receipt.body.approval_event_hash) IN
    Report("APPROVAL_PAYLOAD_VERSION_UNKNOWN",
      /\ receipt.body.approval_event_hash # None /\ named # {}
      /\ events[LastOf(named)].payload.payload_version
           \notin {"absent", "v1", "v2"})

\* verify_approval_manifestation.
ManifestationCodes(receipt, events) ==
  LET named   == EntriesNamed(events, receipt.body.approval_event_hash)
      payload == events[LastOf(named)].payload
  IN IF \/ receipt.body.approval_event_hash = None
        \/ named = {}
        \/ payload.payload_version \in {"absent", "v1"} THEN {}
     ELSE IF payload.payload_version # "v2" THEN {"APPROVAL_PAYLOAD_VERSION_UNKNOWN"}
     ELSE IF "absent" \in {payload.signature_meaning, payload.signer_printed_name}
       THEN {"APPROVAL_MANIFESTATION_FIELD_MISSING"}
     ELSE Report("APPROVAL_SIGNATURE_MEANING_INVALID",
                 payload.signature_meaning \notin APPROVAL_SIGNATURE_MEANINGS)
          \cup Report("APPROVAL_MANIFESTATION_INCONSISTENT",
                 payload.action_hash # receipt.body.action_hash)

(***************************************************************************)
(* The caller's anchor log: [given, readable : BOOLEAN, lines], each line   *)
(* [kind : "blank" (or not JSON), "other" (not an object) or "entry",       *)
(*  root_hash, root_version, status].                                       *)
(***************************************************************************)
Witnessing(acquisition, line) ==
  /\ line.kind = "entry"
  /\ line.root_hash = acquisition.ledger_root_hash
  /\ (IF line.root_version = "absent" THEN "v1" ELSE line.root_version)
       = RootVersion(acquisition)
  /\ line.status = "OK"

RootNamed(acquisition) ==
  Loaded(acquisition) /\ acquisition.ledger_root_hash # None

\* A variant in which only the last line of the log counts.
HeadAnchorCodesOfTheLastLine(acquisition, anchors) ==
  IF ~anchors.given THEN {}
  ELSE IF ~RootNamed(acquisition) THEN {"ANCHOR_CHECK_NO_LEDGER_ROOT_HASH"}
  ELSE IF ~anchors.readable THEN {"ANCHOR_LOG_UNREADABLE"}
  ELSE Report("ANCHOR_ENTRY_NOT_FOUND",
         ~ \E i \in DOMAIN anchors.lines :
             i = Len(anchors.lines) /\ Witnessing(acquisition, anchors.lines[i]))

HeadAnchorCodes(acquisition, anchors) ==
  IF ~anchors.given THEN {}
  ELSE IF ~RootNamed(acquisition) THEN {"ANCHOR_CHECK_NO_LEDGER_ROOT_HASH"}
  ELSE IF ~anchors.readable THEN {"ANCHOR_LOG_UNREADABLE"}
  ELSE Report("ANCHOR_ENTRY_NOT_FOUND",
         ~ \E i \in DOMAIN anchors.lines : Witnessing(acquisition, anchors.lines[i]))

\* A line that is JSON but no object raises when the scan reaches it.
AnchorScanRaises(acquisition, anchors) ==
  /\ anchors.given /\ RootNamed(acquisition) /\ anchors.readable
  /\ \E i \in DOMAIN anchors.lines :
       /\ anchors.lines[i].kind = "other"
       /\ \A j \in 1..(i - 1) : ~Witnessing(acquisition, anchors.lines[j])

(***************************************************************************)
(* The settlement block: [status : "absent" (no block), ..., extra :        *)
(* BOOLEAN (fields beside status), anchor_object : BOOLEAN, anchor,         *)
(* anchor_hash].                                                            *)
(***************************************************************************)
SettlementCodes(manifest) ==
  LET block == manifest.settlement_anchor IN
  CASE block.status = "absent" -> {"SETTLEMENT_FIELD_MISSING"}
    [] block.status = "SETTLEMENT_UNANCHORED" ->
         Report("SETTLEMENT_ANCHOR_INVALID", block.extra)
    [] block.status = "anchored" /\ block.anchor_object ->
         Report("SETTLEMENT_ANCHOR_HASH_MISMATCH",
                block.anchor_hash # Hash("json", block.anchor))
    [] OTHER -> {"SETTLEMENT_ANCHOR_INVALID"}

(***************************************************************************)
(* The checks together, under the names PacketVerifier calls them by.       *)
(***************************************************************************)
DocumentCodes(packet, anchors, verifier) ==
  [verifier_digest       |-> VerifierDigestCodes(packet.manifest, verifier),
   ledger_root_version   |-> RootVersionCodes(packet.acquisition),
   authentication_docs   |-> AuthenticationDocsCodes(packet),
   scope_conformance     |-> ScopeCodes(packet.manifest, packet.receipt, packet.events),
   approver_snapshot     |-> SnapshotCodes(packet.manifest, packet.receipt, packet.events),
   approval_manifestation |-> ManifestationCodes(packet.receipt, packet.events),
   ledger_head_anchor    |-> HeadAnchorCodes(packet.acquisition, anchors),
   settlement_anchor     |-> SettlementCodes(packet.manifest)]

DocumentsRaise(packet, anchors) ==
  \/ \E doc \in {packet.acquisition.state, packet.custody.state,
                 packet.authentication.state} : doc = "other"
  \/ AnchorScanRaises(packet.acquisition, anchors)

\* The documents' share of the verdict: every check passes and none raises.
DocumentsAgree(packet, anchors, verifier) ==
  LET codes == DocumentCodes(packet, anchors, verifier) IN
  /\ ~DocumentsRaise(packet, anchors)
  /\ \A d \in DOMAIN codes : codes[d] = {}

=============================================================================

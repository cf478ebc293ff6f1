--------------------------- MODULE DisputePromise ---------------------------
(***************************************************************************)
(* What a packet that verifies says about the gateway's ledger, and what an *)
(* honest exporter can rely on.                                             *)
(***************************************************************************)
EXTENDS DisputeLedger

Drafts == [drafted : BOOLEAN, scope : 0..MaxLedger, snapshot : 0..MaxLedger,
           approval : 0..MaxLedger]

\* Events stand at their positions, and a draft only reads what was there.
TypeOK ==
  /\ Len(ledger) <= MaxLedger
  /\ \A i \in DOMAIN ledger : /\ ledger[i].at = i
                              /\ ledger[i].action_id \in Actions
                              /\ ledger[i].event_hash = EventHashAt(i)
  /\ drafts \in [Actions -> Drafts]
  /\ entries \in [Actions -> 0..Len(ledger)]
  /\ \A a \in Actions : entries[a] # 0 =>
       /\ drafts[a].drafted
       /\ \A i \in {drafts[a].scope, drafts[a].snapshot} :
            i = 0 \/ ledger[i].action_id = a
  /\ export.made => export.from \in 1..export.to /\ export.to \in DOMAIN ledger
  /\ accepted \in BOOLEAN /\ witnessed \in BOOLEAN
  /\ accepted => export.made
  /\ \A i \in DOMAIN anchors : anchors[i].status \in Statuses

Span == export.from..export.to
InSpan(type) == Positions(type, export.about) \cap Span

(***************************************************************************)
(* A packet that verifies tells what the ledger last recorded for its very  *)
(* action within the span it ships: the scope verdict, in the headline and  *)
(* in the signed receipt alike, and silence about scope only when nothing   *)
(* is recorded there; and the approver's snapshot, if it carries one        *)
(* (verify_scope_conformance, verify_approver_snapshot).  Drafts go stale   *)
(* before they are signed, records of other actions lie in between, and the *)
(* headline may be edited.                                                  *)
(***************************************************************************)
TheLastRecordsCount ==
  LET draft     == drafts[export.signed]
      scopes    == InSpan("ScopeEvaluated")
      snapshots == InSpan("ApproverSnapshotCaptured")
  IN accepted =>
       /\ draft.scope = 0 <=> scopes = {}
       /\ scopes # {} =>
            /\ ledger[draft.scope].payload = ledger[Max(scopes)].payload
            /\ Packet(export).manifest.scope_conformance_headline =
                 ScopeHeadline(ScopeResult(Max(scopes)))
       /\ draft.snapshot # 0 =>
            /\ snapshots # {}
            /\ ledger[draft.snapshot].payload = ledger[Max(snapshots)].payload

(***************************************************************************)
(* A v2 approval within the span of a packet that verifies was given for    *)
(* the action the packet is about, though the gateway handles several       *)
(* approvals at once: verify_approval_manifestation's action hash.          *)
(***************************************************************************)
ApprovalsStayWithTheirAction ==
  LET draft == drafts[export.signed] IN
  accepted /\ draft.approval \in Span =>
    (ledger[draft.approval].payload.payload_version = "v2" =>
       ledger[draft.approval].action_id = export.about)

(***************************************************************************)
(* A packet that verifies is of one action: receipt, manifest and           *)
(* authentication statement are all about it, and its custody record, if it *)
(* is an object, stays within the span: the binding of verify_receipt and   *)
(* verify_authentication_docs.                                              *)
(***************************************************************************)
ThePacketIsOneActions ==
  accepted =>
    /\ export.signed = export.about
    /\ Packet(export).authentication.mandate_hash = MandateHash(export.about)
    /\ Loaded(Packet(export).custody) =>
         \A i \in DOMAIN Packet(export).custody.custody_events :
           Packet(export).custody.custody_events[i].at \in Span

(***************************************************************************)
(* A packet exported as it should be verifies, however the other actions'   *)
(* events lie between its own: the action's own receipt, unedited, over the *)
(* span from its first to its last event, drafted from what the ledger last *)
(* recorded.  With --anchors it verifies as soon as an attempt succeeded,   *)
(* and not before.                                                          *)
(***************************************************************************)
Faithful ==
  LET a     == export.about
      draft == drafts[a]
  IN /\ export.made /\ export.signed = a
     /\ <<export.from, export.to>> = WholeSpan(a)
     /\ export.edit \in {"none", "settled"}
     /\ draft.scope = Latest("ScopeEvaluated", a)
     /\ draft.snapshot \in {0, Latest("ApproverSnapshotCaptured", a)}
     /\ draft.approval \in {0} \cup Positions("ApprovalGranted", a)
     /\ draft.approval # 0 =>
          ledger[draft.approval].payload.payload_version # "v3"

HonestPacketsPass ==
  Faithful =>
    /\ accepted
    /\ witnessed => \E i \in DOMAIN anchors : anchors[i].status = "OK"
    /\ anchors # <<>> /\ anchors[Len(anchors)].status = "OK" => witnessed

(***************************************************************************)
(* The anchor log only grows, and a line more never takes back what earlier *)
(* lines witnessed: a retry that fails after a success changes nothing      *)
(* (verify_ledger_head_anchor reads every line).                            *)
(***************************************************************************)
AnchoringNeverTakesBack ==
  [][witnessed => witnessed']_vars

(***************************************************************************)
(* verify_approval_manifestation, where the named approval is not in the    *)
(* slice: "Every OTHER check in this verifier that binds a receipt field to *)
(* a ledger event ... already fails this case by a different name".         *)
(***************************************************************************)
ApprovalIsWitnessed ==
  accepted => LET approval == drafts[export.signed].approval
              IN approval = 0 \/ approval \in Span

=============================================================================

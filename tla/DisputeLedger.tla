--------------------------- MODULE DisputeLedger ---------------------------
(***************************************************************************)
(* Where dispute packets come from and how verify.py judges them: a gateway *)
(* records the events of several actions in one ledger, drafts and signs a  *)
(* receipt for each, and somebody exports a packet about one action; later  *)
(* the ledger's root is anchored outside.                                   *)
(*                                                                          *)
(* The gateway is not in the repository.  Its events and receipts are those *)
(* generate_demo_packet.py builds and verify.py expects; their order, the   *)
(* draft that may be out of date when it is signed, and what an exporter may *)
(* choose are modelled from what verify.py says it guards against.          *)
(*                                                                          *)
(* Ledger events are kept without their chain: the chain is PacketVerifier's*)
(* subject, and an unbroken slice of an intact ledger is exactly a span of  *)
(* it.  The hash of the n-th event is <<"event_hash", n>>.                  *)
(***************************************************************************)
EXTENDS PacketDocuments, FiniteSetsExt

CONSTANTS
  Actions,         \* the actions the gateway handles
  SigningKey,      \* the gateway's key, which the verifier's caller pinned
  ApprovalVersions,\* payload versions the approver clients write: "v3" for
                   \* any that verify.py does not know
  MaxLedger,       \* bound: events in the ledger
  MaxRecords,      \* bound: events of one type an action may have
  MaxAnchors,      \* bound: anchoring attempts
  MaxDepartures,   \* bound: ways an export departs from the honest one
  Edits            \* what an exporter may change beside the signed receipt

ASSUME LedgerAssumption ==
  /\ SigningKey \in Keys \ WeakKeys
  /\ ApprovalVersions \subseteq {"absent", "v1", "v2", "v3"}
  /\ MaxLedger \in Nat /\ MaxRecords \in Nat /\ MaxAnchors \in Nat /\ MaxDepartures \in Nat

VARIABLES
  ledger,   \* the events, oldest first
  drafts,   \* per action: the positions its receipt was drafted from, 0 for none
  entries,  \* per action: the position its signed receipt names, 0 for none
  export,   \* what was exported, None before
  anchors,  \* the external anchor log
  accepted, \* verify.py accepts the packet
  witnessed \* the last run of verify.py --anchors accepted it

vars == <<ledger, drafts, entries, export, anchors, accepted, witnessed>>

packet == <<export, anchors, accepted, witnessed>>

NoDraft  == [drafted |-> FALSE, scope |-> 0, snapshot |-> 0, approval |-> 0]
NoExport == [made |-> FALSE, about |-> "none", signed |-> "none", from |-> 0,
             to |-> 0, edit |-> "none"]

Init ==
  /\ ledger = <<>>
  /\ drafts = [a \in Actions |-> NoDraft]
  /\ entries = [a \in Actions |-> 0]
  /\ export = NoExport
  /\ anchors = <<>>
  /\ accepted = FALSE
  /\ witnessed = FALSE

(***************************************************************************)
(* Events                                                                   *)
(***************************************************************************)
EventHashAt(n) == IF n = 0 THEN None ELSE <<"event_hash", n>>

ActionHash(a) == Hash("json", <<"action", a>>)
ScopeHash(a)  == Hash("json", <<"scope", a>>)

Positions(type, a) ==
  {i \in DOMAIN ledger : ledger[i].event_type = type /\ ledger[i].action_id = a}

Latest(type, a) == Max({0} \cup Positions(type, a))

\* The fields of every payload; each event sets its own.
Blank == [action_packet_hash |-> None, verdict |-> "absent",
          breach_dimensions |-> <<>>, intent_scope |-> None,
          executed_action |-> None, scope_hash |-> None, action_hash |-> None,
          seen |-> 0, payload_version |-> "absent",
          signature_meaning |-> "absent", signer_printed_name |-> "absent"]

SubmittedPayload(a) == [Blank EXCEPT !.action_packet_hash = ActionHash(a)]

ScopePayload(a, breached) ==
  [Blank EXCEPT !.verdict = IF breached THEN "BREACH" ELSE "IN_SCOPE",
                !.breach_dimensions = IF breached THEN <<"amount">> ELSE <<>>,
                !.intent_scope = <<"scope", a>>, !.executed_action = <<"action", a>>,
                !.scope_hash = ScopeHash(a), !.action_hash = ActionHash(a)]

\* What is frozen is the action and the evaluation it was shown with.
SnapshotPayload(a) ==
  [Blank EXCEPT !.executed_action = <<"action", a>>,
                !.seen = Latest("ScopeEvaluated", a)]

ApprovalPayload(a, version) ==
  IF version = "v2"
  THEN [Blank EXCEPT !.payload_version = "v2", !.action_hash = ActionHash(a),
                     !.signature_meaning = "approval",
                     !.signer_printed_name = "approver"]
  ELSE [Blank EXCEPT !.payload_version = version]

Statuses == {"OK", "FAILED"}   \* of an anchoring attempt

(***************************************************************************)
(* What was exported.                                                       *)
(***************************************************************************)
ScopeResult(n) ==
  IF n = 0
  THEN [given |-> FALSE, verdict |-> "absent", breaches |-> <<>>,
        scope_hash |-> None, action_hash |-> None]
  ELSE LET payload == ledger[n].payload IN
       [given |-> TRUE, verdict |-> payload.verdict,
        breaches |-> payload.breach_dimensions,
        scope_hash |-> payload.scope_hash, action_hash |-> payload.action_hash]

MandateHash(a) == Hash("json", <<"mandate", a>>)

Receipt(a) ==
  LET draft == drafts[a]
      body  == [algorithm |-> "ed25519", key_id |-> "key-1",
                signer_pubkey_hash |-> PubkeyHash(SigningKey),
                ledger_entry_hash |-> EventHashAt(entries[a]),
                action_hash |-> ActionHash(a), decision |-> "ALLOW",
                mandate_hash |-> MandateHash(a),
                scope_conformance |-> ScopeResult(draft.scope),
                approver_snapshot_hash |->
                  IF draft.snapshot = 0 THEN None
                  ELSE Hash("json", ledger[draft.snapshot].payload),
                approval_event_hash |-> EventHashAt(draft.approval)]
  IN [body |-> body,
      signature |-> [readable |-> TRUE, paired |-> TRUE, weak_r |-> FALSE,
                     classical |-> SigningKey, pq |-> SigningKey, over |-> body]]

\* Authentication and custody documents of a span, for a receipt.
Statement(a) ==
  [state |-> "object", hash_algorithm |-> "sha256", signer_key_id |-> "key-1",
   signer_pubkey_hash |-> PubkeyHash(SigningKey), mandate_hash |-> MandateHash(a),
   external_anchor_log_id |-> "log"]

Custody(events) ==
  [state |-> "object",
   custody_events |-> [i \in DOMAIN events |->
     [at |-> events[i].at, ledger_event_hash |-> events[i].event_hash]]]

Acquisition ==
  [state |-> "object", declares |-> {"tool", "clock_source", "acquired_at"},
   log_id |-> "log", ledger_root_hash |-> Hash("root", Len(ledger)),
   ledger_root_version |-> "v2"]

\* The settlement block of the manifest.
Settlement(a, settled) ==
  [status |-> IF settled THEN "anchored" ELSE "SETTLEMENT_UNANCHORED",
   extra |-> settled, anchor_object |-> settled,
   anchor |-> IF settled THEN <<"rail", a>> ELSE None,
   anchor_hash |-> IF settled THEN Hash("json", <<"rail", a>>) ELSE None]

Verifier == [body |-> "verify.py"]   \* the file the packet ships

Packet(e) ==
  LET events  == SubSeq(ledger, e.from, e.to)
      receipt == Receipt(e.signed)
      spare   == IF e.edit = "custody_of_the_ledger" THEN ledger ELSE events
      other   == IF e.edit = "statement_of_another"
                 THEN CHOOSE a \in Actions : a # e.about ELSE e.signed
  IN [manifest |->
        [action_id |-> e.about, receipt_public_key |-> SigningKey,
         scope_conformance_headline |->
           IF e.edit = "headline" THEN <<"in_scope">>
           ELSE ScopeHeadline(receipt.body.scope_conformance),
         verifier_sha256 |-> VerifierBodySha256(Verifier),
         settlement_anchor |-> Settlement(e.signed, e.edit = "settled")],
      receipt |-> receipt, events |-> events, acquisition |-> Acquisition,
      custody |-> IF e.edit = "custody_is_null" THEN [state |-> "null"]
                  ELSE Custody(spare),
      authentication |-> Statement(other)]

(***************************************************************************)
(* verify.py on that packet, with the gateway's key pinned and, when        *)
(* `anchored`, with --anchors and those lines of the log.                   *)
(***************************************************************************)
AnchorLog(anchored, lines) ==
  [given |-> anchored, readable |-> TRUE, lines |-> lines]

Verifies(e, anchored, lines) ==
  LET p == Packet(e) IN
  /\ ReceiptCodes(p.manifest, p.receipt, p.events, SigningKey, TRUE) = {}
  /\ KeyBindingCodes(p.manifest, p.receipt, TRUE, SigningKey) = {}
  /\ DocumentsAgree(p, AnchorLog(anchored, lines), Verifier)

(***************************************************************************)
(* The gateway.  Nothing is recorded once a packet is out: one packet and   *)
(* what is anchored after it are considered.                                *)
(***************************************************************************)
Record(type, a, payload) ==
  /\ ~export.made
  /\ Len(ledger) < MaxLedger
  /\ Cardinality(Positions(type, a)) < MaxRecords
  /\ ledger' = Append(ledger,
       [event_type |-> type, action_id |-> a, payload |-> payload,
        at |-> Len(ledger) + 1, event_hash |-> EventHashAt(Len(ledger) + 1)])

Submitted(a) == Positions("ActionSubmitted", a) # {}

Submit(a) ==
  /\ ~Submitted(a)
  /\ Record("ActionSubmitted", a, SubmittedPayload(a))
  /\ UNCHANGED <<drafts, entries, packet>>

\* An action may be evaluated again, after its receipt too.
EvaluateScope(a, breached) ==
  /\ Submitted(a)
  /\ Record("ScopeEvaluated", a, ScopePayload(a, breached))
  /\ UNCHANGED <<drafts, entries, packet>>

\* What the approver is shown at decision time is frozen.
CaptureSnapshot(a) ==
  /\ Submitted(a)
  /\ Record("ApproverSnapshotCaptured", a, SnapshotPayload(a))
  /\ UNCHANGED <<drafts, entries, packet>>

Approve(a, version) ==
  /\ Submitted(a)
  /\ Record("ApprovalGranted", a, ApprovalPayload(a, version))
  /\ UNCHANGED <<drafts, entries, packet>>

\* The receipt is drafted from the ledger as it is now.  Which approval it
\* will name is the gateway's business: it may be another action's.
DraftReceipt(a) ==
  /\ ~export.made
  /\ Submitted(a) /\ ~drafts[a].drafted
  /\ \E approval \in {0} \cup {i \in DOMAIN ledger :
                                 ledger[i].event_type = "ApprovalGranted"} :
       drafts' = [drafts EXCEPT ![a] =
         [drafted |-> TRUE, scope |-> Latest("ScopeEvaluated", a),
          snapshot |-> Latest("ApproverSnapshotCaptured", a),
          approval |-> approval]]
  /\ UNCHANGED <<ledger, entries, packet>>

\* A variant that signs a receipt nobody drafted.
FinalizeUndrafted(a) ==
  /\ entries[a] = 0
  /\ Record("Finalized", a, SubmittedPayload(a))
  /\ entries' = [entries EXCEPT ![a] = Len(ledger) + 1]
  /\ UNCHANGED <<drafts, packet>>

\* The final event, and the receipt signed over it and the draft.
Finalize(a) ==
  /\ drafts[a].drafted /\ entries[a] = 0
  /\ Record("Finalized", a, SubmittedPayload(a))
  /\ entries' = [entries EXCEPT ![a] = Len(ledger) + 1]
  /\ UNCHANGED <<drafts, packet>>

(***************************************************************************)
(* The exporter: a packet about one action, some signed receipt, a span of  *)
(* the ledger with an event of that action in it, and an edit: one of the   *)
(* unsigned documents is changed, or (no change at all) the action was      *)
(* settled on a rail.  The exporter departs from the plain export in at     *)
(* most MaxDepartures ways.                                                 *)
(***************************************************************************)
WholeSpan(a) ==
  LET mine == {i \in DOMAIN ledger : ledger[i].action_id = a}
  IN <<Min(mine), Max(mine)>>

Departures(about, signed, from, to, edit) ==
  {d \in {"receipt", "span", "edit"} :
     CASE d = "receipt" -> signed # about
       [] d = "span"    -> <<from, to>> # WholeSpan(about)
       [] d = "edit"    -> edit # "none"}

ExportPacket(about, signed, from, to, edit) ==
  /\ ~export.made
  /\ entries[signed] # 0
  /\ from <= to
  /\ \E i \in from..to : ledger[i].action_id = about
  /\ Cardinality(Departures(about, signed, from, to, edit)) <= MaxDepartures
  /\ export' = [made |-> TRUE, about |-> about, signed |-> signed,
                from |-> from, to |-> to, edit |-> edit]
  /\ accepted' = Verifies(export', FALSE, <<>>)
  /\ UNCHANGED <<ledger, drafts, entries, anchors, witnessed>>

\* The operator's anchoring job: each attempt leaves a line in the log, and
\* the caller runs verify.py --anchors again, on a packet it accepts without.
AnchorHead(status) ==
  /\ accepted
  /\ Len(anchors) < MaxAnchors
  /\ anchors' = Append(anchors,
       [kind |-> "entry", root_hash |-> Hash("root", Len(ledger)),
        root_version |-> "v2", status |-> status])
  /\ witnessed' = Verifies(export, TRUE, anchors')
  /\ UNCHANGED <<ledger, drafts, entries, export, accepted>>

Next ==
  \/ \E a \in Actions : \/ Submit(a) \/ CaptureSnapshot(a)
                        \/ DraftReceipt(a) \/ Finalize(a)
                        \/ \E breached \in BOOLEAN : EvaluateScope(a, breached)
                        \/ \E version \in ApprovalVersions : Approve(a, version)
  \/ \E about, signed \in Actions, from, to \in DOMAIN ledger, edit \in Edits :
       ExportPacket(about, signed, from, to, edit)
  \/ \E status \in Statuses : AnchorHead(status)

Spec == Init /\ [][Next]_vars

=============================================================================

------------------------------ MODULE DemoData ------------------------------
(***************************************************************************)
(* tamper_demo/demo_data.js: the packet the demo page is shipped with, as   *)
(* verify_min.js reads it.  Its hashes are those of what they are the       *)
(* hashes of, and its receipt is signed by the key its manifest declares.   *)
(*                                                                          *)
(* Of the fields that only describe an event, the type stands for all.  In  *)
(* a payload's details, an object's field names are their places in the     *)
(* order both languages write them in.                                      *)
(***************************************************************************)
EXTENDS CanonicalJson, EvidenceSamples
LOCAL INSTANCE SequencesExt

CONSTANTS
  DemoKey,          \* the manifest's receipt_public_key_hex
  DemoAction,       \* the one action_id
  DemoActionHash    \* action_packet_hash and action_hash, everywhere

Str(s) == <<"string", s>>
Fields(values) == <<"object", [k \in {<<i>> : i \in DOMAIN values} |-> values[k[1]]]>>

\* payload.executed_action, payload.intent_scope and the rest of the payload
\* of ScopeEvaluated.
ExecutedAction(amount) ==
  Fields(<<Str("refund-demo-001"), Str("refund_request"), Str(amount)>>)
IntentScope ==
  Fields(<<<<"array", <<Str("refund_request")>>>>, Str("5000.00"), Str("demo-tenant")>>)
ScopeDetails(amount) ==
  Fields(<<Str("action hash"), <<"array", <<>>>>, ExecutedAction(amount), IntentScope,
           Str("scope hash"), Str("IN_SCOPE")>>)

\* payload.decision of Finalized.
Decision == Fields(<<Str("ALLOW")>>)

\* Every value in these payloads, with `amounts` in place of the one shipped.
DemoJson(amounts) ==
  {<<"null">>, <<"array", <<>>>>, <<"array", <<Str("refund_request")>>>>,
   IntentScope, Decision}
  \cup {Str(s) : s \in amounts \cup {"refund-demo-001", "refund_request", "5000.00",
                   "demo-tenant", "action hash", "scope hash", "IN_SCOPE", "ALLOW"}}
  \cup {ExecutedAction(a) : a \in amounts} \cup {ScopeDetails(a) : a \in amounts}

\* An event as the gateway hashed it: over what canonical_dumps writes.
LoggedAs(type, action, action_hash, details, prev) ==
  LET payload == [action_packet_hash |-> action_hash, receipt_hash |-> None,
                  details |-> PyForm[details]]
  IN [EventOf(type, action, payload, prev) EXCEPT !.payload.details = details]

\* The events of an action, and another of a type, with an action hash and
\* details, at the end of their chain.
Then(events, e) ==
  Append(events,
         LoggedAs(e[1], DemoAction, e[2], e[3],
                  IF events = <<>> THEN None ELSE Last(events).event_hash))

\* DEMO_PACKET.events: one action's submission, scope evaluation and end.
DemoEvents ==
  FoldLeft(Then, <<>>,
           <<<<"ActionSubmitted", DemoActionHash, <<"null">>>>,
             <<"ScopeEvaluated", None, ScopeDetails("1200.00")>>,
             <<"Finalized", DemoActionHash, Decision>>>>)

\* DEMO_PACKET.manifest.
DemoManifest ==
  [schema_ok |-> TRUE, event_count |-> 3, chain_start |-> None,
   action_id |-> DemoAction, receipt_public_key |-> DemoKey]

\* DEMO_PACKET.receipt, bound to the last event.
DemoReceiptBody(finalized) ==
  [algorithm |-> "ed25519", key_id |-> "demo-key-1",
   signer_pubkey_hash |-> Hash("pubkey", DemoKey),
   ledger_entry_hash |-> finalized.event_hash, action_hash |-> DemoActionHash,
   decision |-> "ALLOW"]

\* DEMO_PACKET, in the three editors.
DemoPacket(events) ==
  [parses |-> TRUE, manifest_object |-> TRUE, receipt_object |-> TRUE,
   events_array |-> TRUE, manifest |-> DemoManifest,
   receipt |-> Sign(DemoReceiptBody(events[3]), DemoKey), events |-> events]
DEMO_PACKET == DemoPacket(DemoEvents)

=============================================================================

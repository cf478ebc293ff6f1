---------------------------- MODULE MCTamperDemo ----------------------------
(***************************************************************************)
(* A small instance: the packet the page is shipped with, the edits its     *)
(* reader is invited to make, and what else may be pasted into the editors: *)
(* another packet, of two events, and what may be made of that.             *)
(***************************************************************************)
EXTENDS TamperPromise, DemoData, TLC, FiniteSetsExt

CONSTANTS K1, K2, Weak, ActA, ActB, H1

\* Details a user types in place of those the gateway wrote.
Null == <<"null">>
Digits(n) == <<"number", n, "digits">>
A == <<97>>               \* "a"
B == <<98>>               \* "b"
High == <<57344>>         \* U+E000
Beyond == <<55357, 56832>> \* U+1F600
Object(s, v, t, w) == <<"object", s :> v @@ t :> w>>
Amount(v) == Object(A, v, B, <<"array", <<Null, v>>>>)

MCSafe == 4
Numbers == {Digits(1), <<"number", 1, "decimal">>, Digits(2), <<"fraction", 1>>,
            Digits(MCSafe), Digits(MCSafe + 1)}
MCJson ==
  {Null, Object(High, Null, Beyond, Digits(1))}
  \cup Numbers \cup {<<"array", <<Null, v>>>> : v \in Numbers}
  \cup {Amount(v) : v \in Numbers}
  \cup DemoJson({"1200.00", "12000.00"})

MCDepth[v \in MCJson] ==
  IF Parts(v) = {} THEN 0 ELSE 1 + Max({MCDepth[part] : part \in Parts(v)})

\* An event of the gateway, which hashes what canonical_dumps writes.
Logged(action, action_hash, details, prev) ==
  LoggedAs("event", action, action_hash, details, prev)

Retyped(e, details) == [e EXCEPT !.payload.details = details]

Body(e) == [algorithm |-> "ed25519", key_id |-> None, signer_pubkey_hash |-> None,
            ledger_entry_hash |-> e.event_hash, action_hash |-> H1, decision |-> "ALLOW"]

Manifest(events, key) ==
  [schema_ok |-> TRUE, event_count |-> Len(events), chain_start |-> Start,
   action_id |-> ActA, receipt_public_key |-> key]

Text(events, receipt, key) ==
  [parses |-> TRUE, manifest_object |-> TRUE, receipt_object |-> TRUE,
   events_array |-> TRUE, manifest |-> Manifest(events, key),
   receipt |-> receipt, events |-> events]

\* An event with a field left out, hashed as if the field were null, and a null.
Bare(e) == [e EXCEPT !.material = FALSE]
NoEvent(e) == [e EXCEPT !.object = FALSE, !.event_hash = None, !.action_id = None]

\* Texts of the events g1, g2 and others, with g1's receipt or g2's.
TextsOf(g1, g2, g3, large, mixed, receipt, receipt2) ==
  LET demo == Text(<<g1, g2>>, receipt, K1) IN
  <<demo,
    [demo EXCEPT !.parses = FALSE],
    [demo EXCEPT !.receipt_object = FALSE],
    [demo EXCEPT !.events = <<g1>>, !.manifest.chain_start = None],
    [demo EXCEPT !.manifest.receipt_public_key = NoKey],
    [demo EXCEPT !.receipt = Sign(receipt.body, K2)],
    [demo EXCEPT !.receipt = Sign(receipt.body, K2), !.manifest.receipt_public_key = Weak],
    [demo EXCEPT !.receipt = Sign([receipt.body EXCEPT !.algorithm = "ml-dsa-65"], K1)],
    [demo EXCEPT !.receipt.tsa_anchored = TRUE],
    [demo EXCEPT !.receipt = receipt2],
    Text(<<>>, receipt, K1),
    Text(<<g1, g3>>, receipt, K1),
    Text(<<Bare(g1)>>, receipt, K1),
    Text(<<NoEvent(g1), g2>>, receipt, K1),
    Text(<<g1, NoEvent(g2)>>, receipt2, K1),
    Text(<<Retyped(g1, Amount(Digits(2))), g2>>, receipt, K1),
    Text(<<Retyped(g1, Amount(<<"number", 1, "decimal">>)), g2>>, receipt, K1),
    Text(<<Retyped(g1, Amount(<<"fraction", 1>>)), g2>>, receipt, K1),
    Text(<<g1, large>>, receipt, K1),
    Text(<<g1, Retyped(large, Digits(MCSafe + 1))>>, receipt, K1),
    Text(<<g1, mixed>>, receipt, K1)>>

\* What the gateway may log after an event, and the texts of an event g1 and
\* what may be next.
Mixed == Object(High, Null, Beyond, Digits(1))
After(e) == [v \in {Null, Digits(MCSafe), Mixed} |-> Logged(ActB, None, v, e.event_hash)]
From(g1, next) ==
  TextsOf(g1, next[Null], After(next[Null])[Null], next[Digits(MCSafe)], next[Mixed],
          Sign(Body(g1), K1), Sign(Body(next[Null]), K1))
Following(g1) == From(g1, After(g1))

\* The demo packet, with the amount of the executed action changed, without
\* its scope evaluation, with the last two events swapped, with another
\* decision in its receipt, with the receipt signed again.
DemoTexts(demo) ==
  LET e == demo.events IN
  <<demo,
    [demo EXCEPT !.events[2] = Retyped(e[2], ScopeDetails("12000.00"))],
    [demo EXCEPT !.events = <<e[1], e[3]>>, !.manifest.event_count = 2],
    [demo EXCEPT !.events = <<e[1], e[3], e[2]>>],
    [demo EXCEPT !.receipt.body.decision = "DENY"],
    [demo EXCEPT !.receipt = Sign([@.body EXCEPT !.decision = "DENY"], K2)]>>

\* Two definitions: TLC works the first out once, a constant's at every use.
Tried == DemoTexts(DEMO_PACKET) \o Following(Logged(ActA, H1, Amount(Digits(1)), Start))
MCTexts == Tried
MCOriginal == 1

=============================================================================

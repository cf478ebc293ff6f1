---------------------------- MODULE TamperPromise ----------------------------
(***************************************************************************)
(* What the demo page shows, and how it relates to the text in its editors  *)
(* and to what verify.py says of the same packet.                           *)
(***************************************************************************)
EXTENDS TamperDemo

Judged == badge \in {"VERIFIED", "VERIFICATION FAILED"}

\* What the page calls verified, without an order of checks: every event is
\* hashed as it says and linked to the one before, the slice is the one the
\* manifest describes, and the receipt is signed by the manifest's key and
\* belongs to an event of the manifest's action.
MinVerified(t) ==
  LET events == t.events
      m      == t.manifest
      named  == {i \in DOMAIN events :
                   events[i].event_hash = t.receipt.body.ledger_entry_hash}
  IN
  /\ m.schema_ok /\ m.event_count = Len(events) /\ events # <<>>
  /\ \A i \in DOMAIN events :
       LET e == events[i]
           w == Written(e)
       IN
       /\ ~Malformed(e)
       /\ e.payload_hash = PayloadHash(w.payload)
       /\ e.event_id = EventId(w)
       /\ e.event_hash = EventHash(w)
       /\ e.previous_event_hash = IF i = 1 THEN m.chain_start ELSE events[i - 1].event_hash
  /\ m.action_id \in {events[i].action_id : i \in DOMAIN events}
  /\ t.receipt.body.algorithm = "ed25519"
  /\ m.receipt_public_key # NoKey
  /\ \/ LibraryAcceptsEd25519(m.receipt_public_key, t.receipt) /\ ~t.receipt.tsa_anchored
     \/ m.receipt_public_key \in WeakKeys
     \/ t.receipt.signature.weak_r
  /\ \E i \in named : events[i].action_id = m.action_id /\ \A j \in named : i <= j

VerifiedTexts == {t \in DOMAIN Texts : MinVerified(Texts[t])}

\* Texts verifyPacket cannot get through: their verification never ends in a
\* verdict.
Unjudgeable(t) == /\ Texts[t].parses
                  /\ HeaderRejects(Texts[t]) \/ ReceiptRejects(Texts[t])

BadgeFor(t) ==
  IF ~Texts[t].parses THEN "INVALID JSON"
  ELSE IF t \in VerifiedTexts THEN "VERIFIED" ELSE "VERIFICATION FAILED"

\* Every run is one of the edits made, each of its own, inside its loop.
TypeOK ==
  /\ text \in DOMAIN Texts /\ shown \in DOMAIN Texts
  /\ edits \in 0..MaxEdits
  /\ \A r \in runs : /\ r.id \in 0..edits
                     /\ r.text \in DOMAIN Texts /\ Texts[r.text].parses
                     /\ r.at \in 0..Len(Texts[r.text].events)
                     /\ \A s \in runs : r.id = s.id => r = s
  /\ badge \in {"Verifying", "INVALID JSON", "VERIFIED", "VERIFICATION FAILED"}
  /\ overlapped \in BOOLEAN

\* A verdict on the badge is the verdict on one text the editors held, whole:
\* however the steps of the runs interleave, no check of one run ends in the
\* verdict of another, and the list beside it is empty exactly when it says
\* VERIFIED.
ShownIsItsVerdict ==
  badge # "Verifying" => /\ badge = BadgeFor(shown)
                         /\ list = {} <=> badge = "VERIFIED"

\* While nobody edits during a verification, the badge that is left is the
\* verdict on the text in the editors.
InOrderTheBadgeIsTheTexts ==
  ~overlapped /\ runs = {} /\ ~Unjudgeable(text) => badge = BadgeFor(text)

\* What both languages write the same way: integers in digits that are doubles,
\* and no object with a key beyond U+FFFF beside one from U+E000 on.
PlainData[v \in Json] ==
  \/ v[1] \in {"null", "boolean", "string"}
  \/ v[1] = "number" /\ v[3] = "digits" /\ v[2] \in -MaxSafe..MaxSafe
  \/ v[1] = "array" /\ \A i \in DOMAIN v[2] : PlainData[v[2][i]]
  \/ /\ v[1] = "object" /\ \A s \in DOMAIN v[2] : PlainData[v[2][s]]
     /\ ~ \E s, t \in DOMAIN v[2] :
           /\ \E i \in DOMAIN s : s[i] \in Surrogates
           /\ \E j \in DOMAIN t : t[j] >= 57344

\* The events as verify.py's canonical_dumps writes them.
InPython(events) ==
  [i \in DOMAIN events |-> [events[i] EXCEPT !.payload.details = PyForm[@]]]

\* The texts both programs read the same way: plain data in the payloads, every
\* field there, a signature in clean hex with no anchor stapled on, in the one
\* algorithm the port knows, under a key and R verify.py does not refuse.
ReadAlike ==
  {n \in DOMAIN Texts :
     LET t == Texts[n] IN
     /\ \A i \in DOMAIN t.events :
          LET e == t.events[i]
          IN e.material /\ e.object /\ PlainData[e.payload.details]
     /\ t.receipt.body.algorithm = "ed25519"
     /\ t.receipt.signature.readable /\ ~t.receipt.tsa_anchored
     /\ ~t.receipt.signature.weak_r /\ t.manifest.receipt_public_key \notin WeakKeys}

\* Those on which verify.py's own verify_events and verify_receipt report none
\* of the codes the port has.
PassedByVerifyPy ==
  {n \in ReadAlike :
     LET t == Texts[n]
         m == t.manifest
         events == InPython(t.events)
     IN /\ EventsCodes(m, events) = {}
        /\ ReceiptCodes(m, t.receipt, events, m.receipt_public_key, FALSE)
             \cap {"RECEIPT_SIGNATURE_INVALID", "RECEIPT_LEDGER_ENTRY_NOT_IN_SLICE",
                   "RECEIPT_BOUND_TO_DIFFERENT_ACTION"} = {}}

\* The port agrees with the program it ports.  Of a text both read the same
\* way, the page says VERIFIED exactly when verify.py reports none of the codes
\* the port has: what the one hashes is what the other hashes, whatever a user
\* makes of a payload.
AgreesWithVerifyPy ==
  Judged /\ shown \in ReadAlike => (badge = "VERIFIED" <=> shown \in PassedByVerifyPy)

\* A verification that can end in a verdict is followed by one on the badge:
\* "Verifying" does not stay on the page, whatever else the user types.
AVerdictFollows ==
  (\E r \in runs : ~r.checks.throws) ~> badge # "Verifying"

(***************************************************************************)
(* What the repository says and a run refutes.                              *)
(***************************************************************************)
\* The page's subtitle: edit any field and verification re-runs live; once it
\* is over, the badge is about the text that is there.
TheBadgeIsTheTexts ==
  runs = {} /\ ~Unjudgeable(text) => badge = BadgeFor(text)

=============================================================================

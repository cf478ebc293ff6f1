----------------------------- MODULE MinVerifier -----------------------------
(***************************************************************************)
(* The checks of tamper_demo/verify_min.js, the JavaScript port of a part   *)
(* of verify.py, on the evidence of module Evidence.                        *)
(*                                                                          *)
(* A text is what the demo page's three editors hold:                       *)
(*   [parses, manifest_object, receipt_object, events_array : BOOLEAN,      *)
(*    manifest, receipt, events : as in Evidence]                           *)
(* An event also says whether it is an `object` at all (null is not), and a *)
(* receipt whether it is `tsa_anchored`: a tsa_anchor was stapled to it     *)
(* after it was signed.  A missing field is hashed as a null, so an event's *)
(* `material` flag is never read, and hexToBytes reads any text as bytes,   *)
(* so neither is a signature's `readable` flag.  An event's payload has      *)
(* `details`, a JSON value: what a user edits by hand.                      *)
(***************************************************************************)
EXTENDS Evidence, CanonicalJson

\* An event as canonicalDumps writes it, and the events it throws on, inside
\* the loop's try.
Written(e) == [e EXCEPT !.payload.details = JsForm[@]]
Malformed(e) == ~e.object \/ Written(e).payload.details = Throws

\* What verifyEvents throws on before its loop, outside the loop's try.
HeaderRejects(t) ==
  \/ ~t.manifest_object
  \/ ~t.events_array
  \/ t.events # <<>> /\ ~t.events[1].object

\* A variant that starts the previous-hash comparison one event late.
MinEventCodesFromTheThird(events, i) ==
  LET e == events[i]
      w == Written(e)
  IN IF Malformed(e) THEN {"MALFORMED_EVENT"}
     ELSE Report("PAYLOAD_HASH_MISMATCH", e.payload_hash # PayloadHash(w.payload))
          \cup Report("EVENT_ID_MISMATCH", e.event_id # EventId(w))
          \cup Report("EVENT_HASH_MISMATCH", e.event_hash # EventHash(w))
          \cup Report("CHAIN_BROKEN",
                 i > 2 /\ e.previous_event_hash # events[i - 1].event_hash)

\* The body of verifyEvents' loop; after MALFORMED_EVENT it returns.
MinEventCodes(events, i) ==
  LET e == events[i]
      w == Written(e)
  IN IF Malformed(e) THEN {"MALFORMED_EVENT"}
     ELSE Report("PAYLOAD_HASH_MISMATCH", e.payload_hash # PayloadHash(w.payload))
          \cup Report("EVENT_ID_MISMATCH", e.event_id # EventId(w))
          \cup Report("EVENT_HASH_MISMATCH", e.event_hash # EventHash(w))
          \cup Report("CHAIN_BROKEN",
                 i > 1 /\ e.previous_event_hash # events[i - 1].event_hash)

\* A variant that swallows the exception of a key that cannot be imported.
MinSignatureHoldsUnlessRefuted(key, receipt) ==
  \/ key \in {NoKey} \cup WeakKeys
  \/ receipt.signature.weak_r
  \/ Made("classical", key, receipt) /\ ~receipt.tsa_anchored

\* crypto.subtle.verify over the receipt minus its signature: a tsa_anchor
\* stays in what is verified, and was not in what was signed.
MinSignatureHolds(key, receipt) ==
  /\ key # NoKey
  /\ \/ key \in WeakKeys
     \/ receipt.signature.weak_r
     \/ Made("classical", key, receipt) /\ ~receipt.tsa_anchored

MinSignatureCodes(manifest, receipt) ==
  IF receipt.body.algorithm # "ed25519"
  THEN {"RECEIPT_SIGNATURE_ALGORITHM_UNSUPPORTED_IN_DEMO"}
  ELSE Report("RECEIPT_SIGNATURE_INVALID",
              ~MinSignatureHolds(manifest.receipt_public_key, receipt))

\* events.find, which throws on an event that is no object.
Found(receipt, events) ==
  {i \in EntriesNamed(events, receipt.body.ledger_entry_hash) : events[i].object}

ReceiptRejects(t) ==
  \/ ~t.receipt_object
  \/ \E i \in DOMAIN t.events :
       ~t.events[i].object /\ \A j \in Found(t.receipt, t.events) : i < j

MinBindingCodes(manifest, receipt, events) ==
  LET found == Found(receipt, events) IN
  IF found = {} THEN {"RECEIPT_LEDGER_ENTRY_NOT_IN_SLICE"}
  ELSE Report("RECEIPT_BOUND_TO_DIFFERENT_ACTION",
              events[FirstOf(found)].action_id # manifest.action_id)

MinReceiptCodes(t) ==
  MinSignatureCodes(t.manifest, t.receipt)
  \cup MinBindingCodes(t.manifest, t.receipt, t.events)

=============================================================================

--------------------------- MODULE EvidenceSamples ---------------------------
(***************************************************************************)
(* Well-made evidence to build instances from: hashed events and signed     *)
(* receipts.                                                                *)
(***************************************************************************)
EXTENDS Evidence

Start == <<"genesis", "genesis">>

Note(action_hash, receipt_hash) ==
  [action_packet_hash |-> action_hash, receipt_hash |-> receipt_hash]

\* A well-hashed event of a type.
EventOf(type, action, payload, prev) ==
  LET unhashed == [object |-> TRUE, material |-> TRUE, event_type |-> type,
                   action_id |-> action,
                   payload |-> payload, payload_hash |-> PayloadHash(payload),
                   previous_event_hash |-> prev, event_id |-> None, event_hash |-> None]
      named == [unhashed EXCEPT !.event_id = EventId(unhashed)]
  IN [named EXCEPT !.event_hash = EventHash(named)]

Event(action, payload, prev) == EventOf("event", action, payload, prev)

Sign(body, key) ==
  [body |-> body, tsa_anchored |-> FALSE,
   signature |-> [readable |-> TRUE, paired |-> TRUE, weak_r |-> FALSE,
                  classical |-> key, pq |-> key, over |-> body]]

=============================================================================

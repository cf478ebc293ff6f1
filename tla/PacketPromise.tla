---------------------------- MODULE PacketPromise ----------------------------
(***************************************************************************)
(* The properties of a run of verify.py on a dispute packet.                *)
(***************************************************************************)
EXTENDS PacketVerifier

CONSTANTS
  Ledger,    \* the operator's real ledger: a sequence of events
  Genesis    \* the previous_event_hash its first event carries

ASSUME PacketsAssumption ==
  \A p \in Packets : /\ Len(p.events) \in Nat
                     /\ DOMAIN p.events = 1..Len(p.events)
                     /\ Len(p.events) = 0 => p.events = <<>>
                     /\ p.documents \in [Documents -> {"passes", "fails", "raises"}]

ASSUME CommandsAssumption ==
  \A c \in Commands :
    /\ c = [f \in DOMAIN c |-> c[f]]
    /\ {"runnable", "oqs", "archive_export", "pinned", "pin", "keyring_given",
        "keyring_readable", "keyring", "checkpoint", "sth_key", "tsa_roots",
        "asn1"}
         \subseteq DOMAIN c

ASSUME LedgerAssumption ==
  /\ Len(Ledger) \in Nat
  /\ DOMAIN Ledger = 1..Len(Ledger)
  /\ ChainFrom(Genesis, Ledger)
  /\ Genesis[1] # "event_hash"

(***************************************************************************)
(* Properties of a run.                                                     *)
(***************************************************************************)
Statuses == {"none", "RECEIPT_KEY_UNKNOWN", "RECEIPT_SIGNATURE_INVALID",
             "RECEIPT_KEY_REVOKED", "RECEIPT_KEY_CURRENT",
             "RECEIPT_KEY_ROTATED_OUT"}

Codes ==
  {"MANIFEST_SCHEMA_MISMATCH", "EVENT_COUNT_MISMATCH", "EMPTY_LEDGER_SLICE",
   "CHAIN_START_MISMATCH", "PAYLOAD_HASH_MISMATCH", "EVENT_ID_MISMATCH",
   "EVENT_HASH_MISMATCH", "CHAIN_BROKEN", "MALFORMED_EVENT",
   "ACTION_NOT_IN_SLICE", "RECEIPT_LEDGER_ENTRY_NOT_IN_SLICE",
   "RECEIPT_BOUND_TO_DIFFERENT_ACTION", "RECEIPT_ACTION_HASH_MISMATCH",
   "RECEIPT_KEY_NOT_TRUSTED", "RECEIPT_KEY_REVOKED",
   "RECEIPT_MANIFEST_KEY_MISMATCH", "CHECKPOINT_NOT_IN_SLICE",
   "CHECKPOINT_BEFORE_RECEIPT_ENTRY", "CHECKPOINT_RECEIPT_NOT_COMMITTED"}
  \cup CHECKPOINT_CAN_STAND_IN_FOR \cup Documents

\* Every variable holds a value main() can give it, and the run is over
\* exactly when a verdict has been printed.
TypeOK ==
  /\ pc \in Calls
  /\ failures \subseteq Codes /\ receipt_failures \subseteq Codes
  /\ receipt_key_status \in Statuses
  /\ keyless \in BOOLEAN
  /\ verdict \in Verdicts
  /\ pc = "done" <=> verdict # "running"

\* The run answers as promised: whatever order main() makes its checks in,
\* and wherever one of them returns early, the verdict printed is the one
\* VerdictOf gives.
Abstract == INSTANCE EvidenceVerdict WITH Unanswered <- "running"
AnswersAsPromised == Abstract!Spec

Accepted == ExitCode(verdict) = 0 /\ verdict # "VERIFIED (archive export)"

\* Two events agree on everything their hashes cover.
SaysTheSame(e, f) ==
  /\ Material(e) = Material(f)
  /\ e.event_id = f.event_id
  /\ e.event_hash = f.event_hash

\* Position j of the slice and position k of the ledger, and everything
\* before them, say the same.
SameHistory(events, j, k) ==
  /\ j <= k
  /\ \A d \in 0..(j - 1) : SaysTheSame(events[j - d], Ledger[k - d])

\* Tamper evidence.  In an accepted packet or archive export an event whose
\* hash is that of a real ledger event is that event, and so is everything
\* before it in the slice: nothing was altered, inserted, dropped or
\* reordered there.
HistoryIsTheLedgers ==
  ExitCode(verdict) = 0 =>
    \A j \in DOMAIN packet.events, k \in DOMAIN Ledger :
      packet.events[j].event_hash = Ledger[k].event_hash =>
        SameHistory(packet.events, j, k)

\* A keyless verdict rests on the ledger.  When the checkpoint the caller
\* trusts is a real ledger event, and the receipt names an algorithm this
\* machine evaluates, the real ledger records this very receipt, for the
\* manifest's action, at or before the checkpoint.
ChainOnlyRestsOnTheLedger ==
  /\ verdict = "VERIFIED (chain only)"
  /\ ~ReturnsEarly(packet.manifest.receipt_public_key, packet.receipt, cmd.oqs)
  => \A k \in DOMAIN Ledger :
       Ledger[k].event_hash = cmd.checkpoint =>
         \E m \in 1..k :
           /\ Ledger[m].payload.receipt_hash = ReceiptHash(packet.receipt)
           /\ Ledger[m].action_id = packet.manifest.action_id

\* The command line with less trust material in it.
WithoutPin(c)        == [c EXCEPT !.pinned = FALSE]
WithoutKeyring(c)    == [c EXCEPT !.keyring_given = FALSE]
WithoutCheckpoint(c) == [c EXCEPT !.checkpoint = None]
WithoutTsa(c)        == [c EXCEPT !.tsa_roots = {}]
WithoutScitt(c)      == [c EXCEPT !.sth_key = NoKey]

\* Trust material only ever narrows what is verified: a packet VERIFIED
\* against a pin, a keyring or a checkpoint is VERIFIED without them too, an
\* archive export against a timestamp root or a log's key likewise, and a
\* chain-only verdict is one the same packet cannot get from its key.
TrustMaterialOnlyNarrows ==
  /\ verdict = "VERIFIED" =>
       /\ VerdictOf(WithoutPin(cmd), packet) = "VERIFIED"
       /\ VerdictOf(WithoutKeyring(cmd), packet) = "VERIFIED"
       /\ VerdictOf(WithoutCheckpoint(cmd), packet) = "VERIFIED"
  /\ verdict = "VERIFIED (chain only)" =>
       VerdictOf(WithoutCheckpoint(cmd), packet) = "VERIFICATION FAILED"
  /\ verdict = "VERIFIED (archive export)" =>
       /\ VerdictOf(WithoutTsa(cmd), packet) = "VERIFIED (archive export)"
       /\ VerdictOf(WithoutScitt(cmd), packet) = "VERIFIED (archive export)"

\* Rotation is not forgery.  In a run that is not refused, the status printed
\* for the caller's keyring is CURRENT or ROTATED_OUT, and then the holder of
\* the key the keyring lists under the receipt's key_id signed this receipt;
\* no status is printed without a keyring.
StatusNamesTheSigner ==
  Accepted =>
    IF cmd.keyring_given
    THEN /\ receipt_key_status \in {"RECEIPT_KEY_CURRENT", "RECEIPT_KEY_ROTATED_OUT"}
         /\ Authentic(cmd.keyring[packet.receipt.body.key_id].public_key,
                      packet.receipt, cmd.oqs)
         /\ cmd.keyring[packet.receipt.body.key_id].active <=>
              receipt_key_status = "RECEIPT_KEY_CURRENT"
    ELSE receipt_key_status = "none"

\* What the module docstring says of --checkpoint: the packet passes on the
\* chain alone if an event under the checkpoint records the receipt's hash,
\* and every other check still runs.
ChainOnlyIsBoundAndCommitted ==
  verdict = "VERIFIED (chain only)" => Bound(packet) /\ Committed(cmd, packet)

=============================================================================

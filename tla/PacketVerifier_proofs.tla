----------------------- MODULE PacketVerifier_proofs -----------------------
(***************************************************************************)
(* Proofs about PacketVerifier, for every set of commands and packets and   *)
(* every ledger.                                                            *)
(***************************************************************************)
EXTENDS PacketPromise, NatLemmas

(***************************************************************************)
(* Chains.                                                                  *)
(***************************************************************************)

\* Two well-hashed events with one hash agree on everything it covers: this
\* is collision freedom, read off the free constructor EventHash.
LEMMA EqualHashesEqualEvents ==
  ASSUME NEW e, NEW f, WellHashed(e), WellHashed(f), e.event_hash = f.event_hash
  PROVE  SaysTheSame(e, f)
<1>1. <<Material(e), e.event_id>> = <<Material(f), f.event_id>>
  BY DEF WellHashed, EventHash, Hash
<1> QED
  BY <1>1 DEF SaysTheSame

\* The hash of an event covers the hash of the one before it.
LEMMA EqualMaterialEqualPrevious ==
  ASSUME NEW e, NEW f, SaysTheSame(e, f)
  PROVE  e.previous_event_hash = f.previous_event_hash
  BY DEF SaysTheSame, Material

\* Walking back d steps from two events with one hash, in a chain and in the
\* ledger, leads to two events with one hash again; the ledger does not end
\* first, because no event of the slice hashes to Genesis.
LEMMA WalkBack ==
  ASSUME NEW start, NEW events, Len(events) \in Nat,
         DOMAIN events = 1..Len(events), ChainFrom(start, events),
         NEW j \in DOMAIN events, NEW k \in DOMAIN Ledger,
         events[j].event_hash = Ledger[k].event_hash
  PROVE  \A d \in 0..(j - 1) :
           d < k /\ events[j - d].event_hash = Ledger[k - d].event_hash
<1>1. j \in Nat \ {0} /\ k \in Nat \ {0}
  BY LedgerAssumption
<1> DEFINE Bad == {d \in 0..(j - 1) :
                     ~(d < k /\ events[j - d].event_hash = Ledger[k - d].event_hash)}
<1>2. SUFFICES ASSUME Bad # {} PROVE FALSE
  OBVIOUS
<1>3. PICK d \in Bad : \A c \in Bad : d <= c
  <2>1. Bad \subseteq Nat
    BY <1>1
  <2> HIDE DEF Bad
  <2> QED
    BY <1>2, <2>1, LeastElement
<1>4. d \in Nat /\ d # 0 /\ d <= j - 1
  BY <1>1, <1>3
<1>5. d - 1 < k /\ events[j - (d - 1)].event_hash = Ledger[k - (d - 1)].event_hash
  BY <1>1, <1>3, <1>4
<1> DEFINE a == j - (d - 1)
           b == k - (d - 1)
<1>6. /\ a \in DOMAIN events /\ a # 1 /\ a - 1 = j - d /\ j - d \in DOMAIN events
      /\ b \in DOMAIN Ledger /\ b - 1 = k - d
  BY <1>1, <1>4, <1>5, LedgerAssumption
<1>7. WellHashed(events[a]) /\ WellHashed(Ledger[b])
  BY <1>6, LedgerAssumption DEF ChainFrom
<1>8. events[a].previous_event_hash = Ledger[b].previous_event_hash
  BY <1>5, <1>7, EqualHashesEqualEvents, EqualMaterialEqualPrevious
<1>9. events[a].previous_event_hash = events[j - d].event_hash
  BY <1>6 DEF ChainFrom
<1>10. b # 1
  <2>1. events[j - d].event_hash = EventHash(events[j - d])
    BY <1>6 DEF ChainFrom, WellHashed
  <2>2. EventHash(events[j - d])[1] = "event_hash"
    BY DEF EventHash, Hash
  <2>3. b = 1 => Ledger[b].previous_event_hash = Genesis
    BY <1>6, LedgerAssumption DEF ChainFrom
  <2> QED
    BY <1>8, <1>9, <2>1, <2>2, <2>3, LedgerAssumption
<1>11. Ledger[b].previous_event_hash = Ledger[k - d].event_hash
  BY <1>6, <1>10, LedgerAssumption DEF ChainFrom
<1>12. d < k
  BY <1>1, <1>4, <1>6, <1>10, LedgerAssumption
<1> QED
  BY <1>3, <1>8, <1>9, <1>11, <1>12

\* A chain that holds the hash of a ledger event holds the ledger's own
\* history from there back.
LEMMA SharedHistory ==
  ASSUME NEW start, NEW events, Len(events) \in Nat,
         DOMAIN events = 1..Len(events), ChainFrom(start, events),
         NEW j \in DOMAIN events, NEW k \in DOMAIN Ledger,
         events[j].event_hash = Ledger[k].event_hash
  PROVE  SameHistory(events, j, k)
<1>1. j \in Nat \ {0} /\ k \in Nat \ {0}
  BY LedgerAssumption
<1>2. \A d \in 0..(j - 1) :
        d < k /\ events[j - d].event_hash = Ledger[k - d].event_hash
  BY WalkBack
<1>3. j <= k
  <2>1. j - 1 \in 0..(j - 1)
    BY <1>1
  <2> QED
    BY <1>1, <1>2, <2>1
<1>4. ASSUME NEW d \in 0..(j - 1)
      PROVE  SaysTheSame(events[j - d], Ledger[k - d])
  <2>1. j - d \in DOMAIN events /\ k - d \in DOMAIN Ledger
    BY <1>1, <1>2, LedgerAssumption
  <2>2. WellHashed(events[j - d]) /\ WellHashed(Ledger[k - d])
    BY <2>1, LedgerAssumption DEF ChainFrom
  <2> QED
    BY <1>2, <2>2, EqualHashesEqualEvents
<1> QED
  BY <1>3, <1>4 DEF SameHistory

(***************************************************************************)
(* Codes and conditions: when a check reports nothing.                      *)
(***************************************************************************)
\* A code is reported exactly when its condition holds.
LEMMA ReportsNothing ==
  ASSUME NEW code, NEW holds
  PROVE  Report(code, holds) = {} <=> ~holds
  BY DEF Report

\* Every event is read to the end unless some event is incomplete.
LEMMA WalkedAll ==
  ASSUME NEW events, Len(events) \in Nat, DOMAIN events = 1..Len(events),
         \A i \in Walked(events) : Complete(events[i])
  PROVE  /\ \A i \in DOMAIN events : Complete(events[i])
         /\ Walked(events) = DOMAIN events
<1> DEFINE Bad == {i \in DOMAIN events : ~Complete(events[i])}
<1>1. ASSUME Bad # {} PROVE FALSE
  <2>1. Bad \subseteq Nat
    OBVIOUS
  <2>2. PICK i \in Bad : \A j \in Bad : i <= j
    <3> HIDE DEF Bad
    <3> QED
      BY <1>1, <2>1, LeastElement
  <2>3. \A j \in 1..(i - 1) : Complete(events[j])
    BY <2>2
  <2> QED
    BY <2>2, <2>3 DEF Walked
<1> QED
  BY <1>1 DEF Walked

\* The loop body reports nothing of an event exactly when its hashes are
\* right and it is chained to the event before it.
LEMMA EventReportsNothing ==
  ASSUME NEW events, NEW i \in DOMAIN events
  PROVE  EventCodes(events, i) = {} <=>
           /\ WellHashed(events[i])
           /\ i > 1 => events[i].previous_event_hash = events[i - 1].event_hash
<1> DEFINE e == events[i]
<1>1. EventCodes(events, i) = {} <=>
        /\ ~(e.material /\ e.payload_hash # PayloadHash(e.payload))
        /\ ~(e.material /\ e.event_id # None /\ e.event_id # EventId(e))
        /\ ~(Complete(e) /\ e.event_hash # EventHash(e))
        /\ ~(Complete(e) /\ i > 1 /\ e.previous_event_hash # events[i - 1].event_hash)
        /\ ~ ~Complete(e)
  BY DEF EventCodes, Report
<1> QED
  BY <1>1 DEF WellHashed, Complete

\* The header checks and the loop report nothing exactly of an unbroken chain
\* that the manifest describes.
LEMMA SliceReportsNothing ==
  ASSUME NEW m, NEW ev, Len(ev) \in Nat, DOMAIN ev = 1..Len(ev),
         Len(ev) = 0 => ev = <<>>
  PROVE  LET Walk == UNION {EventCodes(ev, i) : i \in Walked(ev)} IN
         /\ HeaderCodes(m, ev) = {} /\ Walk = {} <=>
              /\ m.schema_ok /\ m.event_count = Len(ev) /\ ev # <<>>
              /\ ChainFrom(m.chain_start, ev)
         /\ Walk = {} => \A i \in DOMAIN ev : Complete(ev[i])
<1> DEFINE Walk == UNION {EventCodes(ev, i) : i \in Walked(ev)}
<1>1. HeaderCodes(m, ev) = {} <=>
        /\ m.schema_ok /\ m.event_count = Len(ev) /\ ev # <<>>
        /\ ev[1].previous_event_hash = m.chain_start
  BY DEF HeaderCodes, Report
<1>2. Walk = {} <=> \A i \in Walked(ev) : EventCodes(ev, i) = {}
  OBVIOUS
<1>3. Walk = {} <=>
        \A i \in DOMAIN ev :
          /\ WellHashed(ev[i])
          /\ i > 1 => ev[i].previous_event_hash = ev[i - 1].event_hash
  <2>1. Walked(ev) \subseteq DOMAIN ev
    BY DEF Walked
  <2>2. ASSUME Walk = {}
        PROVE  Walked(ev) = DOMAIN ev
    <3>1. \A i \in Walked(ev) : Complete(ev[i])
      BY <1>2, <2>1, <2>2, EventReportsNothing DEF WellHashed
    <3> QED
      BY <3>1, WalkedAll
  <2> HIDE DEF Walk
  <2> QED
    BY <1>2, <2>1, <2>2, EventReportsNothing
<1>4. Walk = {} => \A i \in DOMAIN ev : Complete(ev[i])
  BY <1>3 DEF WellHashed
<1>5. ev # <<>> => 1 \in DOMAIN ev
  OBVIOUS
<1> HIDE DEF Walk
<1>6. ev # <<>> => ((ev[1].previous_event_hash = m.chain_start /\ Walk = {})
                      <=> ChainFrom(m.chain_start, ev))
  BY <1>3, <1>5 DEF ChainFrom
<1> QED
  BY <1>1, <1>4, <1>6 DEF Walk

\* verify_events reports nothing exactly of an intact slice.
LEMMA EventsReportNothing ==
  ASSUME NEW p \in Packets
  PROVE  EventsCodes(p.manifest, p.events) = {} <=> Intact(p)
<1> DEFINE ev == p.events
           m  == p.manifest
           Walk == UNION {EventCodes(ev, i) : i \in Walked(ev)}
<1>1. Len(ev) \in Nat /\ DOMAIN ev = 1..Len(ev) /\ (Len(ev) = 0 => ev = <<>>)
  BY PacketsAssumption
<1>2. /\ HeaderCodes(m, ev) = {} /\ Walk = {} <=>
           /\ m.schema_ok /\ m.event_count = Len(ev) /\ ev # <<>>
           /\ ChainFrom(m.chain_start, ev)
      /\ Walk = {} => \A i \in DOMAIN ev : Complete(ev[i])
  <2> HIDE DEF ev, m
  <2> QED
    BY <1>1, SliceReportsNothing
<1>3. ActionCodes(m, ev) = {} <=> \E i \in DOMAIN ev : ev[i].action_id = m.action_id
  BY DEF ActionCodes, Report
<1>4. EventsCodes(m, ev) =
        HeaderCodes(m, ev) \cup Walk \cup
        IF ev # <<>> /\ \A i \in DOMAIN ev : Complete(ev[i]) THEN ActionCodes(m, ev) ELSE {}
  BY DEF EventsCodes
<1> HIDE DEF Walk
<1> QED
  BY <1>2, <1>3, <1>4 DEF Intact

\* verify_archive_export reports nothing, and does not raise, exactly on the
\* promised result.
LEMMA ArchiveReportsNothing ==
  ASSUME NEW c, NEW p \in Packets
  PROVE  ArchiveCodes(c, p.archive, p.manifest, p.events, p.attestation) = {}
           <=> ArchiveVerified(c, p)
<1> DEFINE a  == p.attestation
           ev == p.events
           m  == [schema_ok |-> p.archive, event_count |-> p.manifest.event_count,
                  chain_start |-> p.manifest.chain_start]
<1>1. Len(ev) \in Nat /\ DOMAIN ev = 1..Len(ev) /\ (Len(ev) = 0 => ev = <<>>)
  BY PacketsAssumption
<1>2. ArchiveSliceCodes(p.archive, p.manifest, ev) = {} <=>
        /\ p.archive /\ p.manifest.event_count = Len(ev) /\ ev # <<>>
        /\ ChainFrom(p.manifest.chain_start, ev)
  <2>1. ArchiveSliceCodes(p.archive, p.manifest, ev) = {} <=>
          /\ HeaderCodes(m, ev) = {}
          /\ (UNION {EventCodes(ev, i) : i \in Walked(ev)}) = {}
    BY DEF ArchiveSliceCodes
  <2>2. /\ m.schema_ok = p.archive /\ m.event_count = p.manifest.event_count
        /\ m.chain_start = p.manifest.chain_start
    OBVIOUS
  <2> HIDE DEF m, ev
  <2> QED
    BY <1>1, <2>1, <2>2, SliceReportsNothing
<1>3. TsaCodes(c, a) = {} <=> TimestampedUnder(c.tsa_roots, a)
  BY DEF TsaCodes, TokenCodes, TimestampedUnder, FirstChain, Report
<1>4. ReceiptOfLogCodes(c, a) = {} <=> LoggedUnder(c.sth_key, a)
  BY DEF ReceiptOfLogCodes, ScittCodes, LoggedUnder, FirstChain, Report
<1> HIDE DEF a, ev
<1>5. ArchiveCodes(c, p.archive, p.manifest, ev, a) = {} <=>
        /\ a.readable
        /\ ArchiveSliceCodes(p.archive, p.manifest, ev) = {}
        /\ CurrentSubject(a) = a.subject
        /\ AsksForTsa(c) => TsaCodes(c, a) = {}
        /\ AsksForScitt(c) => ReceiptOfLogCodes(c, a) = {}
  BY DEF ArchiveCodes, Report
<1> QED
  BY <1>2, <1>3, <1>4, <1>5 DEF ArchiveVerified, a, ev

\* The algorithm branch reports nothing exactly of an authentic receipt, and
\* an authentic receipt never leaves verify_receipt early.
LEMMA SignatureReportsNothing ==
  ASSUME NEW key, NEW receipt, NEW oqs
  PROVE  /\ SignatureCode(key, receipt, oqs) = "ok" <=> Authentic(key, receipt, oqs)
         /\ Authentic(key, receipt, oqs) => ~ReturnsEarly(key, receipt, oqs)
<1> DEFINE alg == receipt.body.algorithm
<1>1. Ed25519Verify(key, receipt) <=> StrictlyMade(key, receipt)
  BY DEF Ed25519Verify, StrictlyMade, LibraryAcceptsEd25519
<1>2. CASE ~Decodable(key, receipt)
  BY <1>2 DEF SignatureCode, AlgorithmCode, Authentic
<1>3. CASE Decodable(key, receipt)
  <2> USE <1>1, <1>3 DEF SignatureCode, AlgorithmCode, Authentic, ReturnsEarly, MLDSA, HYBRID
  <2>1. CASE alg = "ed25519"
    BY <2>1
  <2>2. CASE alg = "ecdsa-p256-sha256"
    BY <2>2
  <2>3. CASE alg \in MLDSA
    BY <2>3
  <2>4. CASE alg = HYBRID
    BY <2>4
  <2>5. CASE alg \notin {"ed25519", "ecdsa-p256-sha256", HYBRID} \cup MLDSA
    BY <2>5
  <2> QED
    BY <2>1, <2>2, <2>3, <2>4, <2>5
<1> QED
  BY <1>2, <1>3

\* The entry look-up reports nothing exactly of a receipt bound to its event.
LEMMA BindingReportsNothing ==
  ASSUME NEW p
  PROVE  BindingCodes(p.manifest, p.receipt, p.events) = {} <=> Bound(p)
  BY DEF BindingCodes, Bound, Entries, Report

\* verify_receipt reports nothing exactly of an authentic, bound receipt.
LEMMA ReceiptReportsNothing ==
  ASSUME NEW p, NEW key, NEW oqs
  PROVE  ReceiptCodes(p.manifest, p.receipt, p.events, key, oqs) = {}
           <=> Authentic(key, p.receipt, oqs) /\ Bound(p)
<1>1. Report(SignatureCode(key, p.receipt, oqs), SignatureCode(key, p.receipt, oqs) # "ok")
        = {} <=> Authentic(key, p.receipt, oqs)
  BY SignatureReportsNothing, ReportsNothing
<1> QED
  BY <1>1, SignatureReportsNothing, BindingReportsNothing DEF ReceiptCodes

\* Whether RECEIPT_SIGNATURE_INVALID is among the codes of verify_receipt
\* depends on the algorithm branch alone.
LEMMA InvalidIsASignatureCode ==
  ASSUME NEW manifest, NEW receipt, NEW events, NEW key, NEW oqs
  PROVE  "RECEIPT_SIGNATURE_INVALID" \in ReceiptCodes(manifest, receipt, events, key, oqs)
           <=> SignatureCode(key, receipt, oqs) = "RECEIPT_SIGNATURE_INVALID"
<1>1. "RECEIPT_SIGNATURE_INVALID" \notin BindingCodes(manifest, receipt, events)
  BY DEF BindingCodes, Report
<1> QED
  BY <1>1 DEF ReceiptCodes, Report

\* verify_receipt_key_binding reports nothing exactly when the signed key
\* hash and the pin agree with the manifest's key.
LEMMA KeyBindingReportsNothing ==
  ASSUME NEW c, NEW p
  PROVE  KeyBindingCodes(p.manifest, p.receipt, c.pinned, c.pin) = {}
           <=> SignerNamed(p) /\ PinAgrees(c, p)
  BY DEF KeyBindingCodes, SignerNamed, PinAgrees, Report

\* verify_receipt_with_keyring reports nothing exactly when the keyring
\* vouches for the manifest's key and the receipt is authentic under it.
LEMMA KeyringReportsNothing ==
  ASSUME NEW c, NEW p
  PROVE  KeyringCodes(p.manifest, p.receipt, p.events, c.keyring, c.oqs) = {}
           <=> /\ KeyringVouches(c, p) /\ Bound(p)
               /\ Authentic(p.manifest.receipt_public_key, p.receipt, c.oqs)
<1> DEFINE key    == KeyringKey(p.manifest, p.receipt, c.keyring)
           codes  == ReceiptCodes(p.manifest, p.receipt, p.events, key, c.oqs)
           ok     == "RECEIPT_SIGNATURE_INVALID" \notin codes
           status == KeyringStatus(p.manifest, p.receipt, p.events, c.keyring, c.oqs)
           kid    == p.receipt.body.key_id
<1>1. KeyringCodes(p.manifest, p.receipt, p.events, c.keyring, c.oqs) = {} <=>
        /\ codes \subseteq {"RECEIPT_SIGNATURE_INVALID"}
        /\ status \in {"RECEIPT_KEY_CURRENT", "RECEIPT_KEY_ROTATED_OUT"}
        /\ ~(kid \in DOMAIN c.keyring /\ ok /\ p.manifest.receipt_public_key # key)
  BY DEF KeyringCodes, StatusCodes, Report
<1>2. status \in {"RECEIPT_KEY_CURRENT", "RECEIPT_KEY_ROTATED_OUT"} <=>
        kid \in DOMAIN c.keyring /\ ok /\ ~c.keyring[kid].revoked
  BY DEF KeyringStatus, KeyStatus
<1>3. kid \in DOMAIN c.keyring => key = c.keyring[kid].public_key
  BY DEF KeyringKey
<1>4. ok /\ codes \subseteq {"RECEIPT_SIGNATURE_INVALID"} <=> codes = {}
  OBVIOUS
<1>5. codes = {} <=> Authentic(key, p.receipt, c.oqs) /\ Bound(p)
  BY ReceiptReportsNothing
<1> HIDE DEF key, codes, status, kid
<1> QED
  BY <1>1, <1>2, <1>3, <1>4, <1>5 DEF KeyringVouches, kid

(***************************************************************************)
(* The checkpoint, and what joins main()'s list at it.                      *)
(***************************************************************************)

\* The first position of a non-empty set of positions is one of them, and no
\* other is before it.
LEMMA FirstOfIsLeast ==
  ASSUME NEW S, S \subseteq Nat, S # {}
  PROVE  FirstOf(S) \in S /\ \A i \in S : FirstOf(S) <= i
  BY LeastElement DEF FirstOf

\* Every entry named in a packet's slice is a position of the slice.
LEMMA EntriesArePositions ==
  ASSUME NEW p \in Packets, NEW hash
  PROVE  /\ EntriesNamed(p.events, hash) \subseteq Nat
         /\ EntriesNamed(p.events, hash) \subseteq DOMAIN p.events
  BY PacketsAssumption DEF EntriesNamed

\* verify_checkpoint reports nothing exactly when the checkpoint covers the
\* receipt's entry and, where the content is needed, the ledger records it.
LEMMA CheckpointReportsNothing ==
  ASSUME NEW c, NEW p \in Packets, NEW need \in BOOLEAN
  PROVE  CheckpointCodes(p.manifest, p.receipt, p.events, c.checkpoint, need) = {}
           <=> /\ Covered(c, p)
               /\ need /\ Entries(p) # {} => Committed(c, p)
<1> DEFINE points == EntriesNamed(p.events, c.checkpoint)
           entries == Entries(p)
<1>1. points # {} => FirstOf(points) \in Nat
  BY FirstOfIsLeast, EntriesArePositions
<1>2. entries # {} => FirstOf(entries) \in Nat
  BY FirstOfIsLeast, EntriesArePositions DEF Entries
<1>3. points = Points(c, p) /\ entries = EntriesNamed(p.events, p.receipt.body.ledger_entry_hash)
  BY DEF Points, Entries
<1>4. CheckpointCodes(p.manifest, p.receipt, p.events, c.checkpoint, need) = {}
        <=> /\ points # {}
            /\ entries # {} => /\ ~(FirstOf(points) < FirstOf(entries))
                               /\ ~(need /\ ~Recorded(p.manifest, p.receipt, p.events,
                                               FirstOf(entries), FirstOf(points)))
  BY <1>3 DEF CheckpointCodes, Report
<1> HIDE DEF points, entries
<1>5. (points # {} /\ entries # {}) =>
         (~(FirstOf(points) < FirstOf(entries)) <=> FirstOf(entries) <= FirstOf(points))
  BY <1>1, <1>2
<1> QED
  BY <1>3, <1>4, <1>5 DEF Covered, Committed, entries

\* The codes about the receipt and its key, what becomes of them at the
\* checkpoint, and whether the signature is set aside there.
ReceiptAndKeyCodes(c, p) ==
  SignatureAndEntryCodes(c, p)
  \cup KeyBindingCodes(p.manifest, p.receipt, c.pinned, c.pin)

KeyFailures(c, p) == ReceiptAndKeyCodes(c, p) \cap CHECKPOINT_CAN_STAND_IN_FOR

CheckpointFailures(c, p) ==
  CheckpointCodes(p.manifest, p.receipt, p.events, c.checkpoint, KeyFailures(c, p) # {})

Waived(c, p) ==
  /\ c.checkpoint # None
  /\ KeyFailures(c, p) # {}
  /\ ~CallerSuppliedKey(c)
  /\ CheckpointFailures(c, p) = {}

Settled(c, p) ==
  IF c.checkpoint = None THEN ReceiptAndKeyCodes(c, p)
  ELSE (ReceiptAndKeyCodes(c, p) \ KeyFailures(c, p))
       \cup (IF Waived(c, p) THEN {} ELSE KeyFailures(c, p))
       \cup CheckpointFailures(c, p)

\* The receipt and key checks report nothing exactly under the conditions of
\* an ordinary result.
LEMMA NothingAboutTheReceipt ==
  ASSUME NEW c, NEW p
  PROVE  ReceiptAndKeyCodes(c, p) = {} <=>
           /\ Authentic(p.manifest.receipt_public_key, p.receipt, c.oqs)
           /\ Bound(p) /\ SignerNamed(p) /\ PinAgrees(c, p)
           /\ c.keyring_given => KeyringVouches(c, p)
<1>1. ReceiptAndKeyCodes(c, p) = {} <=>
        SignatureAndEntryCodes(c, p) = {} /\ SignerNamed(p) /\ PinAgrees(c, p)
  BY KeyBindingReportsNothing DEF ReceiptAndKeyCodes
<1> QED
  BY <1>1, KeyringReportsNothing, ReceiptReportsNothing DEF SignatureAndEntryCodes

\* The ordinary result: nothing joins the list and nothing is set aside.
LEMMA SettledVerified ==
  ASSUME NEW c, NEW p \in Packets
  PROVE  (Settled(c, p) = {} /\ ~Waived(c, p) /\ Intact(p) /\ DocumentsPass(p))
           <=> Verified(c, p)
<1>1. KeyFailures(c, p) = {} =>
        (CheckpointFailures(c, p) = {} <=> Covered(c, p))
  BY CheckpointReportsNothing DEF CheckpointFailures
<1>2. Settled(c, p) = {} /\ ~Waived(c, p) <=>
        /\ ReceiptAndKeyCodes(c, p) = {}
        /\ c.checkpoint # None => Covered(c, p)
  <2>1. CASE c.checkpoint = None
    BY <2>1 DEF Settled, Waived
  <2>2. CASE c.checkpoint # None
    BY <1>1, <2>2 DEF Settled, Waived, KeyFailures
  <2> QED
    BY <2>1, <2>2
<1> QED
  BY <1>2, NothingAboutTheReceipt DEF Verified

\* Without a keyring, every code of the algorithm branch is one a checkpoint
\* can stand in for, and no code of the entry look-up is.
LEMMA WhatACheckpointStandsInFor ==
  ASSUME NEW p, NEW key, NEW oqs
  PROVE  /\ Report(SignatureCode(key, p.receipt, oqs), SignatureCode(key, p.receipt, oqs) # "ok")
              \subseteq CHECKPOINT_CAN_STAND_IN_FOR
         /\ BindingCodes(p.manifest, p.receipt, p.events)
              \cap CHECKPOINT_CAN_STAND_IN_FOR = {}
<1>1. SignatureCode(key, p.receipt, oqs) # "ok" =>
        SignatureCode(key, p.receipt, oqs) \in CHECKPOINT_CAN_STAND_IN_FOR
  BY DEF SignatureCode, AlgorithmCode, CHECKPOINT_CAN_STAND_IN_FOR
<1> QED
  BY <1>1 DEF Report, BindingCodes, CHECKPOINT_CAN_STAND_IN_FOR

\* The keyless result: the codes set aside are all there is.
LEMMA SettledChainOnly ==
  ASSUME NEW c, NEW p \in Packets
  PROVE  (Settled(c, p) = {} /\ Waived(c, p) /\ Intact(p) /\ DocumentsPass(p))
           <=> ChainOnly(c, p)
<1> DEFINE key   == p.manifest.receipt_public_key
           early == ReturnsEarly(key, p.receipt, c.oqs)
           KeyRC == KeyBindingCodes(p.manifest, p.receipt, c.pinned, c.pin)
           RC    == ReceiptAndKeyCodes(c, p)
           CF    == CheckpointFailures(c, p)
<1>1. Settled(c, p) = {} /\ Waived(c, p) <=>
        /\ c.checkpoint # None /\ ~CallerSuppliedKey(c)
        /\ RC # {} /\ RC \subseteq CHECKPOINT_CAN_STAND_IN_FOR /\ CF = {}
  BY DEF Settled, Waived, KeyFailures
<1>2. ASSUME ~CallerSuppliedKey(c)
      PROVE  RC = ReceiptCodes(p.manifest, p.receipt, p.events, key, c.oqs) \cup KeyRC
  BY <1>2 DEF CallerSuppliedKey, ReceiptAndKeyCodes, SignatureAndEntryCodes
<1>3. KeyRC \subseteq CHECKPOINT_CAN_STAND_IN_FOR <=> PinAgrees(c, p)
  BY DEF KeyBindingCodes, CHECKPOINT_CAN_STAND_IN_FOR, PinAgrees, Report
<1>4. ReceiptCodes(p.manifest, p.receipt, p.events, key, c.oqs)
        \subseteq CHECKPOINT_CAN_STAND_IN_FOR <=> early \/ Bound(p)
  BY WhatACheckpointStandsInFor, BindingReportsNothing DEF ReceiptCodes
<1>5. ASSUME ~CallerSuppliedKey(c)
      PROVE  RC \subseteq CHECKPOINT_CAN_STAND_IN_FOR <=>
               PinAgrees(c, p) /\ (early \/ Bound(p))
  BY <1>2, <1>3, <1>4, <1>5
<1>6. ASSUME ~CallerSuppliedKey(c), PinAgrees(c, p), early \/ Bound(p)
      PROVE  RC # {} <=> ~(Authentic(key, p.receipt, c.oqs) /\ SignerNamed(p))
  <2>1. ~c.keyring_given
    BY <1>6 DEF CallerSuppliedKey
  <2> QED
    BY <2>1, <1>6, NothingAboutTheReceipt, SignatureReportsNothing
<1>7. ASSUME RC # {}, RC \subseteq CHECKPOINT_CAN_STAND_IN_FOR
      PROVE  CF = {} <=> Covered(c, p) /\ (Entries(p) # {} => Committed(c, p))
  <2>1. KeyFailures(c, p) # {}
    BY <1>7 DEF KeyFailures
  <2> QED
    BY <2>1, CheckpointReportsNothing DEF CheckpointFailures
<1>8. Bound(p) => Entries(p) # {}
  BY DEF Bound
<1> HIDE DEF key, early, KeyRC, RC, CF
<1> QED
  BY <1>1, <1>5, <1>6, <1>7, <1>8 DEF ChainOnly, key, early

(***************************************************************************)
(* The order of main()'s calls.                                             *)
(***************************************************************************)
Rank ==
  [args |-> 0, base |-> 1, mode |-> 2, load |-> 3, verifier_digest |-> 4,
   ledger_root_version |-> 5, events |-> 6, receipt |-> 7, key_binding |-> 8,
   checkpoint |-> 9, continuity_checkpoint |-> 10, authentication_docs |-> 11,
   scope_conformance |-> 12, approver_snapshot |-> 13,
   approval_manifestation |-> 14, ledger_head_anchor |-> 15,
   settlement_anchor |-> 16, report |-> 17]

Open == DOMAIN After \cup {"report"}

\* Call s has returned when the next call is c.
Past(c, s) == Rank[s] < Rank[c]

\* Nothing has returned at first and, once the report is next, everything
\* else has; a call that returns adds itself, and only itself.
LEMMA CallsInOrder ==
  /\ \A s \in Open : ~Past("args", s)
  /\ \A s \in DOMAIN After : Past("report", s) /\ s # "report"
  /\ \A c \in DOMAIN After : \A s \in Open : Past(After[c], s) <=> Past(c, s) \/ s = c
  /\ \A c \in DOMAIN After : After[c] \in Open
<1>1. /\ DOMAIN After = {"args", "base", "mode", "load", "verifier_digest",
             "ledger_root_version", "events", "receipt", "key_binding",
             "checkpoint", "continuity_checkpoint", "authentication_docs",
             "scope_conformance", "approver_snapshot", "approval_manifestation",
             "ledger_head_anchor", "settlement_anchor"}
  BY DEF After
<1>2. \A s \in Open : Rank[s] \in 0..17
  BY <1>1 DEF Open, Rank
<1>3. \A c \in DOMAIN After : After[c] \in Open /\ Rank[After[c]] = Rank[c] + 1
  BY <1>1 DEF After, Rank, Open
<1>4. \A c, s \in Open : Rank[c] = Rank[s] => c = s
  BY <1>1 DEF Open, Rank
<1>5. Rank["args"] = 0 /\ Rank["report"] = 17 /\ "report" \notin DOMAIN After
  BY <1>1 DEF Rank
<1> HIDE DEF Rank
<1>6. ASSUME NEW c \in DOMAIN After, NEW s \in Open
      PROVE  Past(After[c], s) <=> Past(c, s) \/ s = c
  BY <1>2, <1>3, <1>4 DEF Past, Open
<1>7. ASSUME NEW s \in DOMAIN After PROVE Past("report", s) /\ s # "report"
  BY <1>2, <1>4, <1>5 DEF Past, Open
<1>8. \A s \in Open : ~Past("args", s)
  BY <1>2, <1>5 DEF Past
<1> QED
  BY <1>3, <1>6, <1>7, <1>8

(***************************************************************************)
(* The inductive invariant: what a run knows at each call is a function of  *)
(* its inputs and of the calls that have returned.                          *)
(***************************************************************************)
Guards ==
  /\ Past(pc, "args") => Usable(cmd)
  /\ Past(pc, "base") => packet.base = "directory"
  /\ Past(pc, "mode") => ~ArchiveMode(cmd, packet)
  /\ Past(pc, "load") => packet.readable
  /\ \A d \in Documents : Past(pc, d) => packet.documents[d] # "raises"

FailuresSoFar ==
  failures =
    {d \in Documents : Past(pc, d) /\ packet.documents[d] = "fails"}
    \cup (IF Past(pc, "events") THEN EventsCodes(packet.manifest, packet.events) ELSE {})
    \cup (IF Past(pc, "checkpoint") THEN Settled(cmd, packet) ELSE {})

ReceiptSoFar ==
  receipt_failures =
    (IF Past(pc, "receipt") THEN SignatureAndEntryCodes(cmd, packet) ELSE {})
    \cup (IF Past(pc, "key_binding")
          THEN KeyBindingCodes(packet.manifest, packet.receipt, cmd.pinned, cmd.pin)
          ELSE {})

StatusOf(c, p) ==
  IF c.keyring_given
  THEN KeyringStatus(p.manifest, p.receipt, p.events, c.keyring, c.oqs)
  ELSE "none"

StatusSoFar ==
  receipt_key_status = IF Past(pc, "receipt") THEN StatusOf(cmd, packet) ELSE "none"

KeylessSoFar == keyless <=> Past(pc, "checkpoint") /\ Waived(cmd, packet)

Running ==
  Guards /\ FailuresSoFar /\ ReceiptSoFar /\ StatusSoFar /\ KeylessSoFar

Finished ==
  /\ verdict = VerdictOf(cmd, packet)
  /\ Accepted => receipt_key_status = StatusOf(cmd, packet)

IInv ==
  /\ TypeOK
  /\ cmd \in Commands /\ packet \in Packets
  /\ pc # "done" => Running
  /\ pc = "done" => Finished

\* Every check reports known codes, and every status is a known one.
LEMMA ReportsKnownCodes ==
  ASSUME NEW c, NEW p
  PROVE  /\ EventsCodes(p.manifest, p.events) \subseteq Codes
         /\ SignatureAndEntryCodes(c, p) \subseteq Codes
         /\ KeyBindingCodes(p.manifest, p.receipt, c.pinned, c.pin) \subseteq Codes
         /\ \A need : CheckpointCodes(p.manifest, p.receipt, p.events, c.checkpoint, need)
                        \subseteq Codes
         /\ StatusOf(c, p) \in Statuses
<1> USE DEF Report
<1>1. EventsCodes(p.manifest, p.events) \subseteq Codes
  <2>1. \A i : EventCodes(p.events, i) \subseteq Codes
    BY DEF EventCodes, Codes
  <2>2. HeaderCodes(p.manifest, p.events) \subseteq Codes
    BY DEF HeaderCodes, Codes
  <2>3. ActionCodes(p.manifest, p.events) \subseteq Codes
    BY DEF ActionCodes, Codes
  <2> QED
    BY <2>1, <2>2, <2>3 DEF EventsCodes
<1>2. \A key : ReceiptCodes(p.manifest, p.receipt, p.events, key, c.oqs) \subseteq Codes
  <2>1. \A key : Report(SignatureCode(key, p.receipt, c.oqs),
                        SignatureCode(key, p.receipt, c.oqs) # "ok") \subseteq Codes
    BY WhatACheckpointStandsInFor DEF Codes
  <2>2. BindingCodes(p.manifest, p.receipt, p.events) \subseteq Codes
    BY DEF BindingCodes, Codes
  <2> QED
    BY <2>1, <2>2 DEF ReceiptCodes
<1>3. KeyringStatus(p.manifest, p.receipt, p.events, c.keyring, c.oqs)
        \in Statuses \ {"none"}
  BY DEF KeyringStatus, KeyStatus, Statuses
<1>4. KeyringCodes(p.manifest, p.receipt, p.events, c.keyring, c.oqs) \subseteq Codes
  <2>1. StatusCodes(KeyringStatus(p.manifest, p.receipt, p.events, c.keyring, c.oqs))
          \subseteq Codes
    BY <1>3 DEF StatusCodes, Statuses, Codes, CHECKPOINT_CAN_STAND_IN_FOR
  <2> QED
    BY <1>2, <2>1 DEF KeyringCodes, Codes
<1>5. KeyBindingCodes(p.manifest, p.receipt, c.pinned, c.pin) \subseteq Codes
  BY DEF KeyBindingCodes, Codes, CHECKPOINT_CAN_STAND_IN_FOR
<1>6. \A need : CheckpointCodes(p.manifest, p.receipt, p.events, c.checkpoint, need)
                  \subseteq Codes
  BY DEF CheckpointCodes, Codes
<1> QED
  BY <1>1, <1>2, <1>3, <1>4, <1>5, <1>6 DEF SignatureAndEntryCodes, StatusOf, Statuses

\* What is settled at the checkpoint are known codes.
LEMMA SettledAreCodes ==
  ASSUME NEW c, NEW p
  PROVE  Settled(c, p) \subseteq Codes
  BY ReportsKnownCodes DEF Settled, ReceiptAndKeyCodes, KeyFailures, CheckpointFailures

\* At the report, the verdict of the accumulated lists is the promised one.
LEMMA ReportKeepsThePromise ==
  ASSUME NEW c, NEW p \in Packets,
         Usable(c), p.base = "directory", ~ArchiveMode(c, p), p.readable,
         \A d \in Documents : p.documents[d] # "raises",
         NEW F, F = {d \in Documents : p.documents[d] = "fails"}
                    \cup EventsCodes(p.manifest, p.events) \cup Settled(c, p)
  PROVE  VerdictOf(c, p) = IF F # {} THEN "VERIFICATION FAILED"
                           ELSE IF Waived(c, p) THEN "VERIFIED (chain only)"
                           ELSE "VERIFIED"
<1>1. F = {} <=> DocumentsPass(p) /\ Intact(p) /\ Settled(c, p) = {}
  <2>1. \A d \in Documents : p.documents[d] \in {"passes", "fails"}
    BY PacketsAssumption
  <2> QED
    BY <2>1, EventsReportNothing DEF DocumentsPass
<1>2. F = {} /\ ~Waived(c, p) <=> Verified(c, p)
  BY <1>1, SettledVerified
<1>3. F = {} /\ Waived(c, p) <=> ChainOnly(c, p)
  BY <1>1, SettledChainOnly
<1> QED
  BY <1>2, <1>3 DEF VerdictOf

\* The first state: nothing has returned and nothing is on the lists.
LEMMA InitInvariant == Init => IInv
<1> SUFFICES ASSUME Init PROVE IInv
  OBVIOUS
<1>1. pc = "args" /\ pc # "done"
  BY DEF Init
<1>2. \A s \in Open : ~Past(pc, s)
  BY <1>1, CallsInOrder
<1>3. /\ {"args", "base", "mode", "load", "events", "receipt", "key_binding",
          "checkpoint"} \subseteq Open
      /\ Documents \subseteq Open
  BY DEF Open, After, Documents, EarlyDocuments, LateDocuments
<1>4. TypeOK
  BY DEF Init, TypeOK, Calls, After, Codes, Statuses, Verdicts
<1>5. Running
  BY <1>2, <1>3 DEF Init, Running, Guards, FailuresSoFar, ReceiptSoFar,
                    StatusSoFar, KeylessSoFar
<1> QED
  BY <1>1, <1>4, <1>5 DEF IInv, Init

\* A call that returns: what is past afterwards, and that the run goes on.
LEMMA ReturnStep ==
  ASSUME pc \in DOMAIN After, Return
  PROVE  /\ pc' \in Open /\ pc' # "done" /\ pc' \in Calls
         /\ \A s \in Open : Past(pc', s) <=> Past(pc, s) \/ s = pc
<1>1. "done" \notin Open
  BY DEF Open, After
<1> QED
  BY <1>1, CallsInOrder DEF Return, Open, Calls

\* The names of main()'s calls that the invariant speaks of.
LEMMA CallNames ==
  /\ {"args", "base", "mode", "load", "events", "receipt", "key_binding",
      "checkpoint"} \subseteq DOMAIN After
  /\ Documents \subseteq DOMAIN After
  /\ DOMAIN After \subseteq Open /\ "done" \notin Open /\ "report" \in Open
  /\ {"args", "base", "mode", "load", "events", "receipt", "key_binding",
      "checkpoint", "report"} \cap Documents = {}
  BY DEF Open, After, Documents, EarlyDocuments, LateDocuments

\* A call that returns and touches no list keeps the invariant if what it
\* checked is so.
LEMMA PassingStep ==
  ASSUME IInv, pc \in {"args", "base", "mode", "load"}, Return,
         UNCHANGED <<given, checked, verdict>>,
         pc = "args" => Usable(cmd),
         pc = "base" => packet.base = "directory",
         pc = "mode" => ~ArchiveMode(cmd, packet),
         pc = "load" => packet.readable
  PROVE  IInv'
<1>1. /\ pc' \in Open /\ pc' # "done" /\ pc' \in Calls
      /\ \A s \in Open : Past(pc', s) <=> Past(pc, s) \/ s = pc
  BY ReturnStep, CallNames
<1>2. pc # "done" /\ Running /\ TypeOK
  BY CallNames DEF IInv
<1> USE DEF given, checked
<1>3. TypeOK'
  BY <1>1, <1>2 DEF TypeOK
<1>4. Guards'
  BY <1>1, <1>2, CallNames DEF Guards, Running
<1>5. \A s \in DOMAIN After : s \notin {"args", "base", "mode", "load"} =>
        (Past(pc', s) <=> Past(pc, s))
  BY <1>1, CallNames
<1>6. FailuresSoFar'
  <2>1. \A d \in Documents : Past(pc', d) <=> Past(pc, d)
    BY <1>5, CallNames
  <2> QED
    BY <2>1, <1>2, <1>5, CallNames DEF FailuresSoFar, Running
<1>7. ReceiptSoFar' /\ StatusSoFar' /\ KeylessSoFar'
  BY <1>2, <1>5, CallNames DEF ReceiptSoFar, StatusSoFar, KeylessSoFar, Running
<1> QED
  BY <1>1, <1>3, <1>4, <1>6, <1>7 DEF IInv, Running

\* The verdicts that exit with 0.
LEMMA AcceptedExits ==
  ASSUME NEW answer, ExitCode(answer) = 0
  PROVE  answer \in {"VERIFIED", "VERIFIED (chain only)", "VERIFIED (archive export)"}
<1>1. 1 # 0 /\ 2 # 0
  BY SMT
<1> QED
  BY <1>1, Zenon DEF ExitCode

\* A call that ends the run keeps the invariant if what it says is the
\* promised verdict.
LEMMA EndingStep ==
  ASSUME IInv, pc # "done", NEW v, Say(v), v \in Verdicts, v # "running",
         UNCHANGED <<given, checked>>,
         v = VerdictOf(cmd, packet),
         v \in {"VERIFIED", "VERIFIED (chain only)"} => Past(pc, "receipt")
  PROVE  IInv'
<1> USE DEF given, checked
<1>1. TypeOK'
  BY DEF IInv, TypeOK, Say, Calls
<1>2. VerdictOf(cmd, packet)' = VerdictOf(cmd, packet)
  OBVIOUS
<1>3. Accepted' => v \in {"VERIFIED", "VERIFIED (chain only)"}
  <2>1. verdict' = v
    BY DEF Say
  <2>2. ExitCode(verdict)' = ExitCode(v)
    BY <2>1 DEF ExitCode
  <2> QED
    BY <2>1, <2>2, AcceptedExits DEF Accepted
<1>4. StatusOf(cmd, packet)' = StatusOf(cmd, packet)
  OBVIOUS
<1>5. Finished'
  BY <1>2, <1>3, <1>4 DEF Finished, Say, IInv, Running, StatusSoFar
<1> QED
  BY <1>1, <1>5 DEF IInv, Say

\* A call that returns and extends a list keeps the invariant if the lists
\* stay what the calls that have returned make them.
LEMMA CheckingStep ==
  ASSUME IInv, pc \in {"events", "receipt", "key_binding", "checkpoint"}, Return,
         UNCHANGED <<given, verdict>>, keyless' \in BOOLEAN,
         FailuresSoFar', ReceiptSoFar', StatusSoFar', KeylessSoFar'
  PROVE  IInv'
<1>1. /\ pc' \in Open /\ pc' # "done" /\ pc' \in Calls
      /\ \A s \in Open : Past(pc', s) <=> Past(pc, s) \/ s = pc
  BY ReturnStep, CallNames
<1>2. Running /\ TypeOK
  BY CallNames DEF IInv
<1>3. Guards'
  BY <1>1, <1>2, CallNames DEF Guards, Running, given
<1>4. TypeOK'
  <2>1. failures' \subseteq Codes
    BY ReportsKnownCodes, SettledAreCodes DEF FailuresSoFar, given, Codes
  <2>2. receipt_failures' \subseteq Codes
    BY ReportsKnownCodes DEF ReceiptSoFar, given
  <2>3. receipt_key_status' \in Statuses
    BY ReportsKnownCodes DEF StatusSoFar, given, Statuses
  <2> QED
    BY <1>1, <1>2, <2>1, <2>2, <2>3, CallNames DEF TypeOK
<1> QED
  BY <1>1, <1>3, <1>4 DEF IInv, Running, given

\* Every step of the run keeps the invariant.
LEMMA NextInvariant == IInv /\ [Next]_vars => IInv'
<1> SUFFICES ASSUME IInv, [Next]_vars PROVE IInv'
  OBVIOUS
<1>1. CASE UNCHANGED vars
  BY <1>1 DEF vars, IInv, TypeOK, Running, Guards, FailuresSoFar, ReceiptSoFar,
              StatusSoFar, KeylessSoFar, Finished, Accepted
<1>2. CASE ParseArgs
  <2>1. CASE Usable(cmd)
    BY <1>2, <2>1, PassingStep DEF ParseArgs
  <2>2. CASE ~Usable(cmd)
    <3>1. VerdictOf(cmd, packet) = "UNABLE_TO_RUN"
      BY <2>2 DEF VerdictOf
    <3> QED
      BY <1>2, <2>2, <3>1, EndingStep DEF ParseArgs, Verdicts
  <2> QED
    BY <2>1, <2>2
<1>3. ASSUME pc \in {"base", "mode", "load", "report"} \cup Documents
      PROVE  /\ Running /\ Usable(cmd)
             /\ pc # "base" => packet.base = "directory"
             /\ pc \notin {"base", "mode"} => ~ArchiveMode(cmd, packet)
             /\ pc \notin {"base", "mode", "load"} => packet.readable
  <2>1. /\ Past(pc, "args")
        /\ pc # "base" => Past(pc, "base")
        /\ pc \notin {"base", "mode"} => Past(pc, "mode")
        /\ pc \notin {"base", "mode", "load"} => Past(pc, "load")
    BY <1>3 DEF Past, Rank, Documents, EarlyDocuments, LateDocuments
  <2> QED
    BY <1>3, <2>1, CallNames DEF IInv, Running, Guards
<1>4. CASE ResolvePacketBase
  <2>1. CASE packet.base = "directory"
    BY <1>4, <2>1, PassingStep DEF ResolvePacketBase
  <2>2. CASE packet.base # "directory"
    <3>1. VerdictOf(cmd, packet) = "UNREADABLE"
      BY <1>3, <1>4, <2>2 DEF VerdictOf, ResolvePacketBase
    <3> QED
      BY <1>4, <2>2, <3>1, EndingStep DEF ResolvePacketBase, Verdicts
  <2> QED
    BY <2>1, <2>2
<1>5. CASE SelectMode
  <2>1. CASE ~ArchiveMode(cmd, packet)
    BY <1>5, <2>1, PassingStep DEF SelectMode
  <2>2. CASE ArchiveMode(cmd, packet)
    <3>1. ArchiveCodes(cmd, packet.archive, packet.manifest, packet.events,
                       packet.attestation) = {} <=> ArchiveVerified(cmd, packet)
      BY ArchiveReportsNothing DEF IInv
    <3>2. PICK v \in {"UNABLE_TO_RUN", "TRACEBACK", "VERIFIED (archive export)",
                     "VERIFICATION FAILED"} :
            Say(v) /\ v = VerdictOf(cmd, packet)
      BY <1>3, <1>5, <2>2, <3>1 DEF SelectMode, VerdictOf
    <3> QED
      BY <1>5, <3>2, EndingStep DEF SelectMode, Verdicts
  <2> QED
    BY <2>1, <2>2
<1>6. CASE LoadPacket
  <2>1. CASE packet.readable
    BY <1>6, <2>1, PassingStep DEF LoadPacket
  <2>2. CASE ~packet.readable
    <3>1. VerdictOf(cmd, packet) = "UNREADABLE"
      BY <1>3, <1>6, <2>2 DEF VerdictOf, LoadPacket
    <3> QED
      BY <1>6, <2>2, <3>1, EndingStep DEF LoadPacket, Verdicts
  <2> QED
    BY <2>1, <2>2
<1>7. CASE CheckDocument
  <2>1. CASE packet.documents[pc] = "raises"
    <3>1. VerdictOf(cmd, packet) = "TRACEBACK"
      BY <1>3, <1>7, <2>1, CallNames DEF VerdictOf, CheckDocument
    <3> QED
      BY <1>7, <2>1, <3>1, EndingStep, CallNames DEF CheckDocument, Verdicts, given, checked
  <2>2. CASE packet.documents[pc] # "raises"
    <3>1. /\ pc' \in Open /\ pc' # "done" /\ pc' \in Calls
          /\ \A s \in Open : Past(pc', s) <=> Past(pc, s) \/ s = pc
      BY <1>7, <2>2, ReturnStep, CallNames DEF CheckDocument
    <3>2. Running /\ TypeOK
      BY <1>3, <1>7 DEF CheckDocument, IInv
    <3> USE DEF given, CheckDocument
    <3>3. TypeOK'
      <4>1. Report(pc, packet.documents[pc] = "fails") \subseteq Codes
        BY <1>7 DEF Report, Codes
      <4> QED
        BY <1>7, <2>2, <3>1, <3>2, <4>1, CallNames DEF TypeOK
    <3>4. Guards'
      BY <1>7, <2>2, <3>1, <3>2, CallNames DEF Guards, Running
    <3>5. FailuresSoFar'
      <4>1. {d \in Documents : Past(pc', d) /\ packet.documents[d] = "fails"}
              = {d \in Documents : Past(pc, d) /\ packet.documents[d] = "fails"}
                \cup Report(pc, packet.documents[pc] = "fails")
        BY <1>7, <3>1, CallNames DEF Report
      <4> QED
        BY <1>7, <2>2, <3>1, <3>2, <4>1, CallNames DEF FailuresSoFar, Running
    <3>6. ReceiptSoFar' /\ StatusSoFar' /\ KeylessSoFar'
      BY <1>7, <2>2, <3>1, <3>2, CallNames
         DEF ReceiptSoFar, StatusSoFar, KeylessSoFar, Running
    <3> QED
      BY <1>7, <3>1, <3>3, <3>4, <3>5, <3>6 DEF IInv, Running
  <2> QED
    BY <2>1, <2>2

<1>8. ASSUME pc \in {"events", "receipt", "key_binding", "checkpoint"}, Return
      PROVE  /\ Running /\ keyless \in BOOLEAN
             /\ \A s \in Open : Past(pc', s) <=> Past(pc, s) \/ s = pc
             /\ \A s \in Documents : Past(pc', s) <=> Past(pc, s)
  BY <1>8, ReturnStep, CallNames DEF IInv, TypeOK
<1>9. CASE CheckEvents
  <2> USE <1>8, <1>9, CallNames DEF CheckEvents, given
  <2>1. FailuresSoFar'
    BY DEF FailuresSoFar, Running
  <2>2. ReceiptSoFar' /\ StatusSoFar' /\ KeylessSoFar'
    BY DEF ReceiptSoFar, StatusSoFar, KeylessSoFar, Running
  <2> QED
    BY <2>1, <2>2, CheckingStep
<1>10. CASE CheckReceipt
  <2> USE <1>8, <1>10, CallNames DEF CheckReceipt, given
  <2>1. FailuresSoFar' /\ KeylessSoFar'
    BY DEF FailuresSoFar, KeylessSoFar, Running
  <2>2. ~Past(pc, "key_binding")
    BY DEF Past, Rank
  <2>3. ReceiptSoFar' /\ StatusSoFar'
    BY <2>2 DEF ReceiptSoFar, StatusSoFar, StatusOf
  <2> QED
    BY <2>1, <2>3, CheckingStep
<1>11. CASE CheckKeyBinding
  <2> USE <1>8, <1>11, CallNames DEF CheckKeyBinding, given
  <2>1. FailuresSoFar' /\ KeylessSoFar' /\ StatusSoFar'
    BY DEF FailuresSoFar, KeylessSoFar, StatusSoFar, Running
  <2>2. ReceiptSoFar'
    BY DEF ReceiptSoFar, Running
  <2> QED
    BY <2>1, <2>2, CheckingStep
<1>12. ASSUME pc = "checkpoint"
       PROVE  receipt_failures = ReceiptAndKeyCodes(cmd, packet)
  <2>1. Past(pc, "receipt") /\ Past(pc, "key_binding")
    BY <1>12 DEF Past, Rank
  <2> QED
    BY <1>12, <2>1, CallNames DEF IInv, Running, ReceiptSoFar, ReceiptAndKeyCodes
<1>13. CASE SettleWithoutCheckpoint
  <2> USE <1>8, <1>12, <1>13, CallNames DEF SettleWithoutCheckpoint, given
  <2>1. ~Past(pc, "checkpoint")
    BY DEF Past, Rank
  <2>2. FailuresSoFar' /\ KeylessSoFar'
    BY <2>1 DEF FailuresSoFar, KeylessSoFar, Running, Settled, Waived
  <2>3. ReceiptSoFar' /\ StatusSoFar'
    BY DEF ReceiptSoFar, StatusSoFar, Running
  <2> QED
    BY <2>2, <2>3, CheckingStep
<1>14. CASE SettleWithCheckpoint
  <2> USE <1>8, <1>12, <1>14, CallNames DEF SettleWithCheckpoint, given
  <2>1. ~Past(pc, "checkpoint")
    BY DEF Past, Rank
  <2>2. /\ failures' = failures \cup Settled(cmd, packet)
        /\ keyless' = Waived(cmd, packet)
    BY DEF Settled, Waived, KeyFailures, CheckpointFailures
  <2>3. FailuresSoFar' /\ KeylessSoFar' /\ keyless' \in BOOLEAN
    BY <2>1, <2>2 DEF FailuresSoFar, KeylessSoFar, Running, Waived
  <2>4. ReceiptSoFar' /\ StatusSoFar'
    BY DEF ReceiptSoFar, StatusSoFar, Running
  <2> QED
    BY <2>3, <2>4, CheckingStep
<1>15. CASE PrintVerdict
  <2>1. pc = "report" /\ \A s \in DOMAIN After : Past(pc, s)
    BY <1>15, CallsInOrder DEF PrintVerdict
  <2>2. /\ Running /\ Guards /\ keyless = Waived(cmd, packet)
        /\ failures = {d \in Documents : packet.documents[d] = "fails"}
                      \cup EventsCodes(packet.manifest, packet.events)
                      \cup Settled(cmd, packet)
    BY <1>3, <2>1, CallNames DEF Running, FailuresSoFar, KeylessSoFar, IInv, TypeOK, Waived
  <2> DEFINE v == IF failures # {} THEN "VERIFICATION FAILED"
                  ELSE IF keyless THEN "VERIFIED (chain only)" ELSE "VERIFIED"
  <2>3. v = VerdictOf(cmd, packet)
    BY <1>3, <2>1, <2>2, ReportKeepsThePromise, CallNames DEF IInv, Guards
  <2>4. Say(v) /\ v \in Verdicts /\ v # "running"
    BY <1>15 DEF PrintVerdict, Verdicts
  <2> HIDE DEF v
  <2> QED
    BY <1>15, <2>1, <2>3, <2>4, EndingStep, CallNames DEF PrintVerdict
<1> QED
  BY <1>1, <1>2, <1>4, <1>5, <1>6, <1>7, <1>9, <1>10, <1>11, <1>13, <1>14, <1>15
     DEF Next

\* The inductive invariant holds of every run.
THEOREM Invariant == Spec => []IInv
<1> QED
  BY InitInvariant, NextInvariant, PTL DEF Spec

\* An accepted run is one of the two promised results.
LEMMA AcceptedIsPromised ==
  ASSUME IInv, Accepted
  PROVE  /\ verdict = VerdictOf(cmd, packet)
         /\ \/ verdict = "VERIFIED" /\ Verified(cmd, packet)
            \/ verdict = "VERIFIED (chain only)" /\ ChainOnly(cmd, packet)
         /\ receipt_key_status = StatusOf(cmd, packet)
<1>1. verdict # "running"
  BY AcceptedExits DEF Accepted
<1>2. pc = "done" /\ verdict \in Verdicts
  BY <1>1 DEF IInv, TypeOK
<1>3. Finished
  BY <1>2 DEF IInv
<1>4. verdict \in {"VERIFIED", "VERIFIED (chain only)"}
  BY AcceptedExits DEF Accepted
<1>5. /\ verdict = VerdictOf(cmd, packet)
      /\ receipt_key_status = StatusOf(cmd, packet)
  BY <1>3 DEF Finished
<1> QED
  BY <1>4, <1>5 DEF VerdictOf

\* Whatever exits with 0 rests on a slice that is an unbroken chain.
LEMMA AcceptedIsAChain ==
  ASSUME IInv, ExitCode(verdict) = 0
  PROVE  ChainFrom(packet.manifest.chain_start, packet.events)
<1>1. CASE Accepted
  BY <1>1, AcceptedIsPromised DEF Verified, ChainOnly, Intact
<1>2. CASE verdict = "VERIFIED (archive export)"
  <2>1. pc = "done"
    BY <1>2 DEF IInv, TypeOK
  <2>2. VerdictOf(cmd, packet) = "VERIFIED (archive export)"
    BY <1>2, <2>1 DEF IInv, Finished
  <2>3. ArchiveVerified(cmd, packet)
    BY <2>2 DEF VerdictOf
  <2> QED
    BY <2>3 DEF ArchiveVerified
<1> QED
  BY <1>1, <1>2 DEF Accepted

(***************************************************************************)
(* The theorems.                                                            *)
(***************************************************************************)

\* Every variable of every run holds a value main() can give it.
THEOREM TypeCorrect == Spec => []TypeOK
<1>1. IInv => TypeOK
  BY DEF IInv
<1> QED
  BY <1>1, Invariant, PTL

\* Every run prints, in one observable step, the promised verdict: the order
\* of the checks and the early returns make no difference.
THEOREM Implements == Spec => AnswersAsPromised
<1>1. Init => Abstract!Init
  BY DEF Init, Abstract!Init
<1>2. IInv /\ IInv' /\ [Next]_vars => [Abstract!Answer]_<<cmd, packet, verdict>>
  <2> SUFFICES ASSUME IInv, IInv', [Next]_vars, verdict' # verdict
               PROVE  Abstract!Answer
    <3>1. ASSUME [Next]_vars PROVE UNCHANGED <<cmd, packet>>
      BY <3>1 DEF vars, Next, ParseArgs, ResolvePacketBase, SelectMode, LoadPacket,
                  CheckDocument, CheckEvents, CheckReceipt, CheckKeyBinding,
                  SettleWithoutCheckpoint, SettleWithCheckpoint, PrintVerdict, given
    <3> QED
      BY <3>1
  <2>1. pc # "done" /\ pc' = "done" /\ UNCHANGED <<cmd, packet>>
    BY CallNames DEF vars, Next, ParseArgs, ResolvePacketBase, SelectMode, LoadPacket,
           CheckDocument, CheckEvents, CheckReceipt, CheckKeyBinding,
           SettleWithoutCheckpoint, SettleWithCheckpoint, PrintVerdict, given, Say
  <2>2. verdict = "running" /\ verdict' # "running"
    BY <2>1 DEF IInv, TypeOK
  <2>3. verdict' = VerdictOf(cmd, packet)
    <3>1. Finished'
      BY <2>1 DEF IInv
    <3> QED
      BY <3>1, <2>1 DEF Finished
  <2> QED
    BY <2>1, <2>2, <2>3 DEF Abstract!Answer
<1> QED
  BY <1>1, <1>2, Invariant, PTL DEF Spec, AnswersAsPromised, Abstract!Spec

\* An accepted packet or archive export that shares an event hash with the real ledger shares
\* the ledger's whole history up to that event.
THEOREM TamperEvidence == Spec => []HistoryIsTheLedgers
<1>1. ASSUME IInv, ExitCode(verdict) = 0,
             NEW j \in DOMAIN packet.events, NEW k \in DOMAIN Ledger,
             packet.events[j].event_hash = Ledger[k].event_hash
      PROVE  SameHistory(packet.events, j, k)
  <2>1. ChainFrom(packet.manifest.chain_start, packet.events)
    BY <1>1, AcceptedIsAChain
  <2>2. packet \in Packets
    BY <1>1 DEF IInv
  <2> QED
    BY <1>1, <2>1, <2>2, PacketsAssumption, SharedHistory
<1>2. IInv => HistoryIsTheLedgers
  BY <1>1 DEF HistoryIsTheLedgers
<1> QED
  BY <1>2, Invariant, PTL

\* A keyless verdict under a real checkpoint rests on a real ledger event
\* that records the receipt.
THEOREM ChainOnlyIsGrounded == Spec => []ChainOnlyRestsOnTheLedger
<1>1. ASSUME IInv, verdict = "VERIFIED (chain only)",
             ~ReturnsEarly(packet.manifest.receipt_public_key, packet.receipt, cmd.oqs),
             NEW k \in DOMAIN Ledger, Ledger[k].event_hash = cmd.checkpoint
      PROVE  \E m \in 1..k :
               /\ Ledger[m].payload.receipt_hash = ReceiptHash(packet.receipt)
               /\ Ledger[m].action_id = packet.manifest.action_id
  <2> DEFINE ev    == packet.events
             point == FirstOf(Points(cmd, packet))
             entry == FirstOf(Entries(packet))
  <2>1. packet \in Packets /\ ChainOnly(cmd, packet)
    BY <1>1, AcceptedIsPromised DEF Accepted, ExitCode, IInv
  <2>2. Intact(packet) /\ Covered(cmd, packet) /\ Committed(cmd, packet)
    BY <1>1, <2>1 DEF ChainOnly
  <2>3. /\ point \in DOMAIN ev /\ ev[point].event_hash = cmd.checkpoint
        /\ entry \in DOMAIN ev
        /\ Len(ev) \in Nat /\ DOMAIN ev = 1..Len(ev)
    BY <2>1, <2>2, FirstOfIsLeast, EntriesArePositions, PacketsAssumption
       DEF Covered, Committed, Points, Entries, EntriesNamed
  <2>4. SameHistory(ev, point, k)
    BY <1>1, <2>2, <2>3, SharedHistory DEF Intact
  <2>5. PICK i \in entry..point :
               /\ ev[i].payload.receipt_hash = ReceiptHash(packet.receipt)
               /\ ev[i].action_id = packet.manifest.action_id
    BY <2>2 DEF Committed, Recorded
  <2> DEFINE d == point - i
             m == k - d
  <2>6. point \in Nat /\ entry \in Nat \ {0} /\ k \in Nat /\ i \in Nat /\ point <= k
    BY <2>3, <2>4, LedgerAssumption DEF SameHistory
  <2> HIDE DEF point, entry
  <2>7. d \in 0..(point - 1) /\ i = point - d /\ m \in 1..k
    BY <2>5, <2>6
  <2>8. SaysTheSame(ev[i], Ledger[m])
    BY <2>4, <2>7 DEF SameHistory
  <2> QED
    BY <2>5, <2>7, <2>8 DEF SaysTheSame, Material
<1>2. IInv => ChainOnlyRestsOnTheLedger
  BY <1>1 DEF ChainOnlyRestsOnTheLedger
<1> QED
  BY <1>2, Invariant, PTL

\* In an accepted run the status of a keyring's key is CURRENT or ROTATED_OUT
\* and its holder signed the receipt.
THEOREM StatusIsTheSigners == Spec => []StatusNamesTheSigner
<1>1. ASSUME IInv, Accepted
      PROVE  IF cmd.keyring_given
             THEN LET key == cmd.keyring[packet.receipt.body.key_id] IN
               /\ receipt_key_status \in {"RECEIPT_KEY_CURRENT", "RECEIPT_KEY_ROTATED_OUT"}
               /\ Authentic(key.public_key, packet.receipt, cmd.oqs)
               /\ key.active <=> receipt_key_status = "RECEIPT_KEY_CURRENT"
             ELSE receipt_key_status = "none"
  <2>1. receipt_key_status = StatusOf(cmd, packet)
    BY <1>1, AcceptedIsPromised
  <2>2. CASE ~cmd.keyring_given
    BY <2>1, <2>2 DEF StatusOf
  <2>3. CASE cmd.keyring_given
    <3> DEFINE p   == packet
               kid == p.receipt.body.key_id
               key == KeyringKey(p.manifest, p.receipt, cmd.keyring)
    <3>1. Verified(cmd, packet)
      BY <1>1, <2>3, AcceptedIsPromised DEF ChainOnly, CallerSuppliedKey
    <3>2. /\ kid \in DOMAIN cmd.keyring /\ ~cmd.keyring[kid].revoked
          /\ cmd.keyring[kid].public_key = p.manifest.receipt_public_key
          /\ Authentic(p.manifest.receipt_public_key, p.receipt, cmd.oqs)
          /\ Bound(p)
      BY <2>3, <3>1 DEF Verified, KeyringVouches
    <3>3. key = p.manifest.receipt_public_key
      BY <3>2 DEF KeyringKey
    <3>4. "RECEIPT_SIGNATURE_INVALID" \notin
            ReceiptCodes(p.manifest, p.receipt, p.events, key, cmd.oqs)
      BY <3>2, <3>3, ReceiptReportsNothing
    <3>5. StatusOf(cmd, packet) = IF cmd.keyring[kid].active
             THEN "RECEIPT_KEY_CURRENT" ELSE "RECEIPT_KEY_ROTATED_OUT"
      BY <2>3, <3>2, <3>4 DEF StatusOf, KeyringStatus, KeyStatus
    <3> QED
      BY <2>1, <2>3, <3>2, <3>5
  <2> QED
    BY <2>2, <2>3
<1>2. IInv => StatusNamesTheSigner
  BY <1>1 DEF StatusNamesTheSigner
<1> QED
  BY <1>2, Invariant, PTL

\* What is VERIFIED against a pin, a keyring or a checkpoint is VERIFIED
\* without it, and a chain-only packet is refused without its checkpoint.
THEOREM TrustNarrows == Spec => []TrustMaterialOnlyNarrows
<1>1. ASSUME NEW c \in Commands
      PROVE  /\ \A f \in DOMAIN c \ {"pinned"} : WithoutPin(c)[f] = c[f]
             /\ ~WithoutPin(c).pinned
             /\ \A f \in DOMAIN c \ {"keyring_given"} : WithoutKeyring(c)[f] = c[f]
             /\ ~WithoutKeyring(c).keyring_given
             /\ \A f \in DOMAIN c \ {"checkpoint"} : WithoutCheckpoint(c)[f] = c[f]
             /\ WithoutCheckpoint(c).checkpoint = None
             /\ \A f \in DOMAIN c \ {"tsa_roots"} : WithoutTsa(c)[f] = c[f]
             /\ WithoutTsa(c).tsa_roots = {}
             /\ \A f \in DOMAIN c \ {"sth_key"} : WithoutScitt(c)[f] = c[f]
             /\ WithoutScitt(c).sth_key = NoKey
             /\ {"runnable", "oqs", "archive_export", "pinned", "pin", "keyring_given",
                 "keyring_readable", "keyring", "checkpoint", "sth_key", "tsa_roots",
                 "asn1"} \subseteq DOMAIN c
  BY CommandsAssumption DEF WithoutPin, WithoutKeyring, WithoutCheckpoint,
                            WithoutTsa, WithoutScitt
<1>2. ASSUME NEW c \in Commands, NEW p \in Packets, VerdictOf(c, p) = "VERIFIED"
      PROVE  /\ VerdictOf(WithoutPin(c), p) = "VERIFIED"
             /\ VerdictOf(WithoutKeyring(c), p) = "VERIFIED"
             /\ VerdictOf(WithoutCheckpoint(c), p) = "VERIFIED"
  <2>1. /\ Usable(c) /\ p.base = "directory" /\ ~ArchiveMode(c, p) /\ p.readable
        /\ ~ \E d \in Documents : p.documents[d] = "raises"
        /\ Verified(c, p)
    BY <1>2 DEF VerdictOf
  <2>2. ASSUME NEW d \in {WithoutPin(c), WithoutKeyring(c), WithoutCheckpoint(c)}
        PROVE  Usable(d) /\ ~ArchiveMode(d, p) /\ Verified(d, p)
    BY <1>1, <2>1 DEF Usable, PinNamed, ArchiveMode, Verified, PinAgrees,
                      KeyringVouches, Covered, Points
  <2> HIDE DEF WithoutPin, WithoutKeyring, WithoutCheckpoint
  <2> QED
    BY <2>1, <2>2 DEF VerdictOf
<1>3. ASSUME NEW c \in Commands, NEW p \in Packets,
             VerdictOf(c, p) = "VERIFIED (chain only)"
      PROVE  VerdictOf(WithoutCheckpoint(c), p) = "VERIFICATION FAILED"
  <2>1. /\ Usable(c) /\ p.base = "directory" /\ ~ArchiveMode(c, p) /\ p.readable
        /\ ~ \E d \in Documents : p.documents[d] = "raises"
        /\ ChainOnly(c, p)
    BY <1>3 DEF VerdictOf
  <2> DEFINE d == WithoutCheckpoint(c)
  <2>2. Usable(d) /\ ~ArchiveMode(d, p)
    BY <1>1, <2>1 DEF Usable, PinNamed, ArchiveMode
  <2>3. d.checkpoint = None /\ d.oqs = c.oqs
    BY <1>1
  <2>4. ~Verified(d, p) /\ ~ChainOnly(d, p)
    BY <2>1, <2>3 DEF ChainOnly, Verified
  <2> HIDE DEF d
  <2> QED
    BY <2>1, <2>2, <2>4 DEF VerdictOf, d
<1>4. ASSUME IInv
      PROVE  verdict \in {"VERIFIED", "VERIFIED (chain only)", "VERIFIED (archive export)"}
               => verdict = VerdictOf(cmd, packet)
  <2>1. verdict # "running" => pc = "done"
    BY <1>4 DEF IInv, TypeOK
  <2> QED
    BY <1>4, <2>1 DEF IInv, Finished
<1>5. ASSUME NEW c \in Commands, NEW p \in Packets,
             VerdictOf(c, p) = "VERIFIED (archive export)"
      PROVE  /\ VerdictOf(WithoutTsa(c), p) = "VERIFIED (archive export)"
             /\ VerdictOf(WithoutScitt(c), p) = "VERIFIED (archive export)"
  <2>1. /\ Usable(c) /\ p.base = "directory" /\ ArchiveMode(c, p)
        /\ c.checkpoint = None /\ ~ArchiveRaises(c, p.attestation)
        /\ ArchiveVerified(c, p)
    BY <1>5 DEF VerdictOf
  <2>2. ASSUME NEW d \in {WithoutTsa(c), WithoutScitt(c)}
        PROVE  /\ Usable(d) /\ ArchiveMode(d, p) /\ d.checkpoint = None
               /\ AsksForTsa(d) => AsksForTsa(c) /\ d.tsa_roots = c.tsa_roots
               /\ AsksForScitt(d) => AsksForScitt(c) /\ d.sth_key = c.sth_key
               /\ d.asn1 = c.asn1
    BY <1>1, <2>1 DEF Usable, PinNamed, ArchiveMode, AsksForTsa, AsksForScitt
  <2>3. ASSUME NEW d \in {WithoutTsa(c), WithoutScitt(c)}
        PROVE  ~ArchiveRaises(d, p.attestation) /\ ArchiveVerified(d, p)
    <3> HIDE DEF WithoutTsa, WithoutScitt
    <3> QED
      BY <2>1, <2>2 DEF ArchiveRaises, ArchiveVerified
  <2> HIDE DEF WithoutTsa, WithoutScitt
  <2> QED
    BY <2>1, <2>2, <2>3 DEF VerdictOf
<1>6. IInv => TrustMaterialOnlyNarrows
  <2> SUFFICES ASSUME IInv PROVE TrustMaterialOnlyNarrows
    OBVIOUS
  <2>1. cmd \in Commands /\ packet \in Packets
    BY DEF IInv
  <2>2. CASE verdict = "VERIFIED"
    <3>1. VerdictOf(cmd, packet) = "VERIFIED"
      BY <1>4, <2>2
    <3> QED
      BY <1>2, <2>1, <2>2, <3>1 DEF TrustMaterialOnlyNarrows
  <2>3. CASE verdict = "VERIFIED (chain only)"
    <3>1. VerdictOf(cmd, packet) = "VERIFIED (chain only)"
      BY <1>4, <2>3
    <3> QED
      BY <1>3, <2>1, <2>3, <3>1 DEF TrustMaterialOnlyNarrows
  <2>4. CASE verdict = "VERIFIED (archive export)"
    <3>1. VerdictOf(cmd, packet) = "VERIFIED (archive export)"
      BY <1>4, <2>4
    <3> QED
      BY <1>5, <2>1, <2>4, <3>1 DEF TrustMaterialOnlyNarrows
  <2> QED
    BY <2>2, <2>3, <2>4 DEF TrustMaterialOnlyNarrows
<1> QED
  BY <1>6, Invariant, PTL

=============================================================================

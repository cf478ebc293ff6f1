------------------------ MODULE DisputeLedger_proofs ------------------------
(***************************************************************************)
(* Proofs about DisputeLedger, for every set of actions, every length of    *)
(* the ledger and any number of anchoring attempts.                         *)
(***************************************************************************)
EXTENDS DisputePromise, SequenceTheorems, NatLemmas

(***************************************************************************)
(* The inductive invariant.                                                 *)
(***************************************************************************)
Events == {ledger[i] : i \in DOMAIN ledger}

\* What the events a check reads carry.
Records ==
  /\ ledger \in Seq(Events)
  /\ \A i \in DOMAIN ledger :
       LET event == ledger[i] IN
       /\ event.event_type = "ScopeEvaluated" =>
            \E breached \in BOOLEAN : event.payload = ScopePayload(event.action_id, breached)
       /\ event.event_type = "ApprovalGranted" =>
            \E version \in ApprovalVersions :
              event.payload = ApprovalPayload(event.action_id, version)
       /\ event.event_type = "Finalized" =>
            event.payload = SubmittedPayload(event.action_id)

\* A draft and a receipt name records of their action, and an approval of any.
Named ==
  \A a \in Actions :
    /\ drafts[a].scope \in {0} \cup Positions("ScopeEvaluated", a)
    /\ drafts[a].snapshot \in {0} \cup Positions("ApproverSnapshotCaptured", a)
    /\ drafts[a].approval # 0 =>
         /\ drafts[a].approval \in DOMAIN ledger
         /\ ledger[drafts[a].approval].event_type = "ApprovalGranted"
    /\ entries[a] \in {0} \cup Positions("Finalized", a)

\* An export is of a signed receipt and a span of the ledger.
Spans(e) ==
  /\ e.about \in Actions /\ e.signed \in Actions /\ entries[e.signed] # 0
  /\ e.from \in DOMAIN ledger /\ e.to \in DOMAIN ledger /\ e.from <= e.to

Exported ==
  /\ export.made => Spans(export)
  /\ accepted <=> export.made /\ Verifies(export, FALSE, <<>>)

\* Every line of the anchor log is about the ledger the packet was cut from.
Lines == [kind : {"entry"}, root_hash : {Hash("root", Len(ledger))},
          root_version : {"v2"}, status : Statuses]

Anchored ==
  /\ anchors \in Seq(Lines)
  /\ anchors # <<>> => accepted
  /\ witnessed <=> anchors # <<>> /\ Verifies(export, TRUE, anchors)

IInv == TypeOK /\ Records /\ Named /\ Exported /\ Anchored

(***************************************************************************)
(* The greatest and the least of a set of positions.                        *)
(***************************************************************************)
\* A non-empty set of numbers up to a bound has a greatest element.
LEMMA GreatestElement ==
  ASSUME NEW n \in Nat, NEW T, T \subseteq 0..n, T # {}
  PROVE  \E x \in T : \A y \in T : y <= x
<1> DEFINE U == {n - x : x \in T}
<1>1. U \subseteq Nat /\ U # {}
  <2>1. \A x \in T : n - x \in Nat
    OBVIOUS
  <2>2. PICK x \in T : TRUE
    OBVIOUS
  <2>3. n - x \in U
    BY <2>2
  <2> QED
    BY <2>1, <2>3
<1>2. PICK u \in U : \A v \in U : u <= v
  BY <1>1, LeastElement
<1>3. PICK x \in T : u = n - x
  BY <1>2
<1>4. \A y \in T : y <= x
  <2> TAKE y \in T
  <2>1. n - y \in U
    OBVIOUS
  <2>2. n - x <= n - y
    BY <1>2, <1>3, <2>1
  <2> QED
    BY <2>2
<1> QED
  BY <1>4

\* Max and LastOf both are that element, and Min the least.
LEMMA Extremes ==
  ASSUME NEW n \in Nat, NEW T, T \subseteq 0..n, T # {}
  PROVE  /\ Max(T) \in T /\ \A y \in T : y <= Max(T)
         /\ LastOf(T) \in T /\ \A y \in T : y <= LastOf(T)
         /\ Min(T) \in T /\ \A y \in T : Min(T) <= y
<1>1. PICK x \in T : \A y \in T : y <= x
  BY GreatestElement
<1>2. \A y \in T : x >= y
  BY <1>1
<1>3. Max(T) \in T /\ \A y \in T : Max(T) >= y
  BY <1>2 DEF Max
<1>4. LastOf(T) \in T /\ \A y \in T : y <= LastOf(T)
  BY <1>1 DEF LastOf
<1>5. T \subseteq Nat
  OBVIOUS
<1>6. Min(T) \in T /\ \A y \in T : Min(T) <= y
  BY <1>5, LeastElement DEF Min
<1> QED
  BY <1>3, <1>4, <1>5, <1>6

\* The last record of a type is one of that type, or 0 where there is none.
LEMMA LatestIsNamed ==
  ASSUME TypeOK, Records, NEW type, NEW a
  PROVE  /\ Latest(type, a) \in {0} \cup Positions(type, a)
         /\ \A i \in Positions(type, a) : i <= Latest(type, a)
         /\ Positions(type, a) \subseteq 1..Len(ledger)
<1>1. Len(ledger) \in Nat /\ DOMAIN ledger = 1..Len(ledger)
  BY LenProperties DEF Records
<1>2. Positions(type, a) \subseteq 1..Len(ledger)
  BY <1>1 DEF Positions
<1> DEFINE T == {0} \cup Positions(type, a)
<1>3. T \subseteq 0..Len(ledger) /\ T # {}
  BY <1>1, <1>2
<1>4. Max(T) \in T /\ \A y \in T : y <= Max(T)
  BY <1>1, <1>3, Extremes
<1> QED
  BY <1>2, <1>4 DEF Latest

(***************************************************************************)
(* The events of a span, as the slice of the packet has them.               *)
(***************************************************************************)
Slice(e) == SubSeq(ledger, e.from, e.to)

\* The i-th event of the slice is the one i - 1 positions after the first.
LEMMA SliceOfLedger ==
  ASSUME Records, NEW e, Spans(e)
  PROVE  /\ e.from \in Nat \ {0} /\ e.to \in Nat /\ e.from <= e.to
         /\ e.to <= Len(ledger) /\ Len(ledger) \in Nat
         /\ DOMAIN ledger = 1..Len(ledger)
         /\ DOMAIN Slice(e) = 1..(e.to - e.from + 1)
         /\ \A i \in 1..(e.to - e.from + 1) : Slice(e)[i] = ledger[e.from + i - 1]
<1>1. Len(ledger) \in Nat /\ DOMAIN ledger = 1..Len(ledger)
  BY LenProperties DEF Records
<1>2. e.from \in Nat \ {0} /\ e.to \in Nat /\ e.from <= e.to /\ e.to <= Len(ledger)
  BY <1>1 DEF Spans
<1>3. \A i \in e.from..e.to : ledger[i] \in Events
  BY <1>1, <1>2 DEF Events
<1>4. /\ Slice(e) \in Seq(Events)
      /\ Len(Slice(e)) = e.to - e.from + 1
      /\ \A i \in 1..(e.to - e.from + 1) : Slice(e)[i] = ledger[e.from + i - 1]
  BY <1>2, <1>3, SubSeqProperties DEF Slice
<1>5. DOMAIN Slice(e) = 1..Len(Slice(e))
  BY <1>4, LenProperties
<1> QED
  BY <1>1, <1>2, <1>4, <1>5

\* A hash of the ledger names the one event it is the hash of, if the slice
\* has it.
LEMMA EventNamed ==
  ASSUME TypeOK, Records, NEW e, Spans(e), NEW k \in Nat
  PROVE  EntriesNamed(Slice(e), EventHashAt(k)) =
           IF k \in e.from..e.to THEN {k - e.from + 1} ELSE {}
<1> DEFINE n == e.to - e.from + 1
<1>1. /\ e.from \in Nat \ {0} /\ e.to \in Nat /\ e.from <= e.to
      /\ e.to <= Len(ledger) /\ DOMAIN ledger = 1..Len(ledger) /\ DOMAIN Slice(e) = 1..n
      /\ \A i \in 1..n : Slice(e)[i] = ledger[e.from + i - 1]
  BY SliceOfLedger
<1>2. \A i \in 1..n : Slice(e)[i].event_hash = EventHashAt(e.from + i - 1)
  BY <1>1 DEF TypeOK
<1>3. \A m \in Nat \ {0} : EventHashAt(m) = EventHashAt(k) <=> m = k
  BY DEF EventHashAt, None
<1>4. \A i \in 1..n : Slice(e)[i].event_hash = EventHashAt(k) <=> e.from + i - 1 = k
  <2> TAKE i \in 1..n
  <2>1. e.from + i - 1 \in Nat \ {0}
    BY <1>1
  <2> QED
    BY <1>2, <1>3, <2>1
<1>5. EntriesNamed(Slice(e), EventHashAt(k)) = {i \in 1..n : e.from + i - 1 = k}
  BY <1>1, <1>4 DEF EntriesNamed
<1> QED
  BY <1>1, <1>5

\* The records of a type within the span.
Within(type, e) == Positions(type, e.about) \cap (e.from..e.to)

\* The events of the slice a check looks at are those within the span, and the
\* last of them is the last there.
LEMMA LastWithin ==
  ASSUME TypeOK, Records, NEW e, Spans(e), NEW type
  PROVE  /\ Witnesses(Slice(e), type, e.about) = {} <=> Within(type, e) = {}
         /\ Within(type, e) # {} =>
              /\ Max(Within(type, e)) \in Within(type, e)
              /\ Slice(e)[LastOf(Witnesses(Slice(e), type, e.about))] =
                   ledger[Max(Within(type, e))]
<1> DEFINE n == e.to - e.from + 1
           W == Witnesses(Slice(e), type, e.about)
           P == Within(type, e)
<1>1. /\ e.from \in Nat \ {0} /\ e.to \in Nat /\ e.from <= e.to
      /\ e.to <= Len(ledger) /\ Len(ledger) \in Nat
      /\ DOMAIN ledger = 1..Len(ledger) /\ DOMAIN Slice(e) = 1..n
      /\ \A i \in 1..n : Slice(e)[i] = ledger[e.from + i - 1]
  BY SliceOfLedger
<1>2. W \subseteq 1..n /\ \A i \in 1..n : i \in W <=> e.from + i - 1 \in P
  BY <1>1 DEF Witnesses, Within, Positions
<1>3. P \subseteq e.from..e.to
  BY DEF Within
<1> HIDE DEF W, P
<1>4. \A k \in P : k - e.from + 1 \in W
  <2> TAKE k \in P
  <2>1. k - e.from + 1 \in 1..n /\ e.from + (k - e.from + 1) - 1 = k
    BY <1>1, <1>3
  <2> QED
    BY <1>2, <2>1
<1>5. W = {} <=> P = {}
  BY <1>2, <1>4
<1>6. ASSUME P # {}
      PROVE  Max(P) \in P /\ Slice(e)[LastOf(W)] = ledger[Max(P)]
  <2>0. n \in Nat /\ e.from..e.to \subseteq 0..e.to
    BY <1>1
  <2>1. P \subseteq 0..e.to /\ W \subseteq 0..n /\ W # {} /\ n \in Nat
    <3>1. P \subseteq 0..e.to
      BY <1>3, <2>0
    <3>2. W \subseteq 1..n /\ 1..n \subseteq 0..n
      BY <1>2, <2>0
    <3> HIDE DEF n
    <3> QED
      BY <1>5, <1>6, <2>0, <3>1, <3>2
  <2>2. Max(P) \in P /\ \A y \in P : y <= Max(P)
    BY <1>1, <1>6, <2>1, Extremes
  <2>3. LastOf(W) \in W /\ \A y \in W : y <= LastOf(W)
    BY <2>1, Extremes
  <2>4. e.from + LastOf(W) - 1 \in P
    BY <1>2, <2>3
  <2>5. Max(P) - e.from + 1 <= LastOf(W)
    BY <1>4, <2>2, <2>3
  <2>6. e.from + LastOf(W) - 1 <= Max(P)
    BY <2>2, <2>4
  <2>7. Max(P) = e.from + LastOf(W) - 1
    <3>1. e.from \in Int /\ 1..n \subseteq Int /\ e.from..e.to \subseteq Int
      BY <1>1
    <3>2. Max(P) \in e.from..e.to
      BY <1>3, <2>2
    <3>3. LastOf(W) \in 1..n
      BY <1>2, <2>3
    <3>4. Max(P) \in Int /\ LastOf(W) \in Int
      BY <3>1, <3>2, <3>3
    <3> QED
      BY <2>5, <2>6, <3>1, <3>4
  <2>8. LastOf(W) \in 1..n
    BY <1>2, <2>3
  <2> QED
    BY <1>1, <2>2, <2>7, <2>8
<1> QED
  BY <1>5, <1>6 DEF W, P

(***************************************************************************)
(* What each check says of an exported packet.                              *)
(***************************************************************************)
LEMMA ReceiptParts ==
  ASSUME NEW a
  PROVE  /\ Receipt(a).body.algorithm = "ed25519" /\ Receipt(a).body.key_id = "key-1"
         /\ Receipt(a).body.signer_pubkey_hash = PubkeyHash(SigningKey)
         /\ Receipt(a).body.ledger_entry_hash = EventHashAt(entries[a])
         /\ Receipt(a).body.action_hash = ActionHash(a)
         /\ Receipt(a).body.mandate_hash = MandateHash(a)
         /\ Receipt(a).body.scope_conformance = ScopeResult(drafts[a].scope)
         /\ Receipt(a).body.approver_snapshot_hash =
              IF drafts[a].snapshot = 0 THEN None
              ELSE Hash("json", ledger[drafts[a].snapshot].payload)
         /\ Receipt(a).body.approval_event_hash = EventHashAt(drafts[a].approval)
         /\ Receipt(a).signature = [readable |-> TRUE, paired |-> TRUE, weak_r |-> FALSE,
              classical |-> SigningKey, pq |-> SigningKey, over |-> Receipt(a).body]
  BY DEF Receipt

LEMMA PacketParts ==
  ASSUME NEW e
  PROVE  /\ Packet(e).manifest.action_id = e.about
         /\ Packet(e).manifest.receipt_public_key = SigningKey
         /\ Packet(e).manifest.scope_conformance_headline =
              IF e.edit = "headline" THEN <<"in_scope">>
              ELSE ScopeHeadline(ScopeResult(drafts[e.signed].scope))
         /\ Packet(e).manifest.verifier_sha256 = VerifierBodySha256(Verifier)
         /\ Packet(e).manifest.settlement_anchor = Settlement(e.signed, e.edit = "settled")
         /\ Packet(e).receipt = Receipt(e.signed) /\ Packet(e).events = Slice(e)
         /\ Packet(e).acquisition = Acquisition
         /\ Packet(e).custody =
              IF e.edit = "custody_is_null" THEN [state |-> "null"]
              ELSE Custody(IF e.edit = "custody_of_the_ledger" THEN ledger ELSE Slice(e))
         /\ \E other : Packet(e).authentication = Statement(other)
  BY ReceiptParts DEF Packet, Slice

\* The gateway's signature is authentic, and its key is bound to the manifest
\* and pinned.
LEMMA SignaturePasses ==
  ASSUME NEW e
  PROVE  /\ SignatureCode(SigningKey, Packet(e).receipt, TRUE) = "ok"
         /\ ~ReturnsEarly(SigningKey, Packet(e).receipt, TRUE)
         /\ KeyBindingCodes(Packet(e).manifest, Packet(e).receipt, TRUE, SigningKey) = {}
<1> DEFINE r == Receipt(e.signed)
<1>1. SigningKey # NoKey /\ SigningKey \notin WeakKeys
  BY LedgerAssumption, KeysAssumption
<1>0. /\ r.body.algorithm = "ed25519"
      /\ r.signature = [readable |-> TRUE, paired |-> TRUE, weak_r |-> FALSE,
           classical |-> SigningKey, pq |-> SigningKey, over |-> r.body]
  BY ReceiptParts
<1> HIDE DEF r
<1>2. /\ r.signature.readable /\ ~r.signature.weak_r
      /\ r.body.algorithm = "ed25519" /\ Made("classical", SigningKey, r)
  BY <1>0 DEF Made
<1>3. Ed25519Verify(SigningKey, r) /\ Decodable(SigningKey, r)
  BY <1>1, <1>2 DEF Ed25519Verify, LibraryAcceptsEd25519, Decodable
<1>4. SignatureCode(SigningKey, r, TRUE) = "ok"
  BY <1>2, <1>3 DEF SignatureCode, AlgorithmCode, MLDSA, HYBRID
<1>5. ~ReturnsEarly(SigningKey, r, TRUE)
  BY <1>2, <1>3, <1>4 DEF ReturnsEarly, HYBRID
<1>6. KeyBindingCodes(Packet(e).manifest, r, TRUE, SigningKey) = {}
  BY PacketParts, ReceiptParts DEF KeyBindingCodes, Report, r
<1> QED
  BY <1>4, <1>5, <1>6, PacketParts DEF r

\* The entry look-up passes exactly when the receipt is of the packet's action
\* and its entry is within the span.
LEMMA BindingPasses ==
  ASSUME TypeOK, Records, Named, NEW e, Spans(e)
  PROVE  ReceiptCodes(Packet(e).manifest, Packet(e).receipt, Packet(e).events,
                      SigningKey, TRUE) = {}
           <=> e.signed = e.about /\ entries[e.signed] \in e.from..e.to
<1> DEFINE a == e.signed
           m == Packet(e).manifest
           n == e.to - e.from + 1
           named == EntriesNamed(Slice(e), Receipt(a).body.ledger_entry_hash)
           k == entries[a]
<1>1. /\ a \in Actions /\ k # 0 /\ k \in Positions("Finalized", a)
      /\ Receipt(a).body.ledger_entry_hash = EventHashAt(k)
      /\ Receipt(a).body.action_hash = ActionHash(a)
  BY ReceiptParts DEF Named, Spans
<1>2. k \in DOMAIN ledger /\ ledger[k].action_id = a /\ ledger[k].payload = SubmittedPayload(a)
  BY <1>1 DEF Positions, Records
<1>3. /\ e.from \in Nat \ {0} /\ e.to \in Nat /\ e.from <= e.to
      /\ DOMAIN ledger = 1..Len(ledger) /\ Len(ledger) \in Nat
      /\ \A i \in 1..n : Slice(e)[i] = ledger[e.from + i - 1]
  BY SliceOfLedger
<1>4. named = IF k \in e.from..e.to THEN {k - e.from + 1} ELSE {}
  <2>1. k \in Nat
    BY <1>2, <1>3
  <2>2. EntriesNamed(Slice(e), EventHashAt(k)) =
          IF k \in e.from..e.to THEN {k - e.from + 1} ELSE {}
    BY <2>1, EventNamed
  <2> QED
    BY <1>1, <2>2
<1>5. SubmittedPayload(a).action_packet_hash = ActionHash(a)
  BY DEF SubmittedPayload, Blank
<1>6. k \in e.from..e.to => named # {} /\ Slice(e)[FirstOf(named)] = ledger[k]
  <2> HAVE k \in e.from..e.to
  <2>1. named = {k - e.from + 1}
    BY <1>4
  <2>2. FirstOf({k - e.from + 1}) = k - e.from + 1
    BY <1>3 DEF FirstOf
  <2>3. k - e.from + 1 \in 1..n /\ e.from + (k - e.from + 1) - 1 = k
    BY <1>3
  <2> QED
    BY <1>3, <2>1, <2>2, <2>3
<1>7. BindingCodes(m, Receipt(a), Slice(e)) = {} <=> a = e.about /\ k \in e.from..e.to
  <2>1. m.action_id = e.about
    BY PacketParts
  <2>2. CASE k \notin e.from..e.to
    <3>1. named = {}
      BY <1>4, <2>2
    <3> QED
      BY <2>2, <3>1 DEF BindingCodes
  <2>3. CASE k \in e.from..e.to
    <3>1. named # {} /\ Slice(e)[FirstOf(named)] = ledger[k]
      BY <1>6, <2>3
    <3> HIDE DEF k, m
    <3>2. BindingCodes(m, Receipt(a), Slice(e)) =
            Report("RECEIPT_BOUND_TO_DIFFERENT_ACTION", ledger[k].action_id # m.action_id)
            \cup Report("RECEIPT_ACTION_HASH_MISMATCH",
                   /\ ledger[k].payload.action_packet_hash # None
                   /\ ledger[k].payload.action_packet_hash # Receipt(a).body.action_hash)
      BY <3>1 DEF BindingCodes
    <3> QED
      BY <1>1, <1>2, <1>5, <2>1, <2>3, <3>2 DEF Report
  <2> QED
    BY <2>2, <2>3
<1>8. ReceiptCodes(m, Receipt(a), Slice(e), SigningKey, TRUE) = BindingCodes(m, Receipt(a), Slice(e))
  BY SignaturePasses, PacketParts DEF ReceiptCodes, Report
<1> QED
  BY <1>7, <1>8, PacketParts

\* The documents that are never changed pass, and none of them raises.
LEMMA PlainDocumentsPass ==
  ASSUME NEW e
  PROVE  /\ VerifierDigestCodes(Packet(e).manifest, Verifier) = {}
         /\ RootVersion(Acquisition) = "v2"
         /\ RootVersionCodes(Acquisition) = {} /\ AcquisitionCodes(Acquisition) = {}
         /\ SettlementCodes(Packet(e).manifest) = {}
         /\ Acquisition.state = "object" /\ Packet(e).custody.state # "other"
         /\ Packet(e).authentication.state = "object"
<1>1. VerifierDigestCodes(Packet(e).manifest, Verifier) = {}
  BY PacketParts DEF VerifierDigestCodes, VerifierBodySha256, Hash, Report
<1>2. /\ Acquisition.state = "object" /\ Acquisition.ledger_root_version = "v2"
      /\ Acquisition.declares = {"tool", "clock_source", "acquired_at"}
  BY DEF Acquisition
<1>3. /\ RootVersion(Acquisition) = "v2"
      /\ RootVersionCodes(Acquisition) = {} /\ AcquisitionCodes(Acquisition) = {}
  BY <1>2 DEF RootVersion, RootVersionCodes, AcquisitionCodes, Loaded, Report
<1>4. SettlementCodes(Packet(e).manifest) = {}
  <2> DEFINE block == Packet(e).manifest.settlement_anchor
  <2>1. block = Settlement(e.signed, e.edit = "settled")
    BY PacketParts
  <2>2. CASE e.edit = "settled"
    <3>1. block = Settlement(e.signed, TRUE)
      BY <2>1, <2>2
    <3>2. /\ block.status = "anchored" /\ block.anchor_object
          /\ block.anchor_hash = Hash("json", block.anchor)
      BY <3>1 DEF Settlement
    <3> QED
      BY <3>2 DEF SettlementCodes, Report
  <2>3. CASE e.edit # "settled"
    <3>1. block = Settlement(e.signed, FALSE)
      BY <2>1, <2>3
    <3>2. block.status = "SETTLEMENT_UNANCHORED" /\ ~block.extra
      BY <3>1 DEF Settlement
    <3> QED
      BY <3>2 DEF SettlementCodes, Report
  <2> QED
    BY <2>2, <2>3
<1>5. Packet(e).custody.state # "other"
  <2>1. \A events : Custody(events).state = "object"
    BY DEF Custody
  <2> QED
    BY <2>1, PacketParts
<1>6. Packet(e).authentication.state = "object"
  <2>1. \A other : Statement(other).state = "object"
    BY DEF Statement
  <2> QED
    BY <2>1, PacketParts
<1> QED
  BY <1>1, <1>2, <1>3, <1>4, <1>5, <1>6

\* The authentication statement passes exactly when its mandate is the
\* receipt's.
LEMMA StatementPasses ==
  ASSUME NEW e
  PROVE  StatementCodes(Packet(e).authentication, Acquisition, Packet(e).receipt) = {}
           <=> Packet(e).authentication.mandate_hash = MandateHash(e.signed)
<1>1. PICK other : Packet(e).authentication = Statement(other)
  BY PacketParts
<1>2. /\ Statement(other).state = "object" /\ Statement(other).hash_algorithm = "sha256"
      /\ Statement(other).signer_key_id = "key-1"
      /\ Statement(other).signer_pubkey_hash = PubkeyHash(SigningKey)
      /\ Statement(other).external_anchor_log_id = "log" /\ Acquisition.log_id = "log"
  BY DEF Statement, Acquisition
<1>3. /\ Packet(e).receipt = Receipt(e.signed)
      /\ Receipt(e.signed).body.key_id = "key-1"
      /\ Receipt(e.signed).body.signer_pubkey_hash = PubkeyHash(SigningKey)
      /\ Receipt(e.signed).body.mandate_hash = MandateHash(e.signed)
  BY PacketParts, ReceiptParts
<1> QED
  BY <1>1, <1>2, <1>3 DEF StatementCodes, Loaded, Report

\* The custody record passes exactly when, if it is there, it stays within the
\* span; the one of the span does.
CustodyWithin(e) ==
  Loaded(Packet(e).custody) =>
    \A i \in DOMAIN Packet(e).custody.custody_events :
      Packet(e).custody.custody_events[i].at \in e.from..e.to

LEMMA CustodyPasses ==
  ASSUME TypeOK, Records, NEW e, Spans(e)
  PROVE  /\ CustodyCodes(Packet(e).custody, Slice(e)) = {} <=> CustodyWithin(e)
         /\ e.edit # "custody_of_the_ledger" => CustodyWithin(e)
<1> DEFINE spare == IF e.edit = "custody_of_the_ledger" THEN ledger ELSE Slice(e)
           log == Custody(spare).custody_events
           n == e.to - e.from + 1
           N == IF e.edit = "custody_of_the_ledger" THEN Len(ledger) ELSE n
           base == IF e.edit = "custody_of_the_ledger" THEN 0 ELSE e.from - 1
<1>1. /\ e.from \in Nat \ {0} /\ e.to \in Nat /\ e.from <= e.to
      /\ e.to <= Len(ledger) /\ Len(ledger) \in Nat
      /\ DOMAIN ledger = 1..Len(ledger) /\ DOMAIN Slice(e) = 1..n
      /\ \A i \in 1..n : Slice(e)[i] = ledger[e.from + i - 1]
  BY SliceOfLedger
<1>2. N \in Nat \ {0} /\ base \in Nat /\ DOMAIN spare = 1..N /\ base + N <= Len(ledger)
  BY <1>1
<1>3. \A i \in 1..N : spare[i] = ledger[base + i]
  <2>1. CASE e.edit = "custody_of_the_ledger"
    BY <1>1, <2>1
  <2>2. CASE e.edit # "custody_of_the_ledger"
    <3>1. \A i \in 1..n : (e.from - 1) + i = e.from + i - 1
      BY <1>1
    <3> QED
      BY <1>1, <2>2, <3>1
  <2> QED
    BY <2>1, <2>2
<1>4. log = [i \in DOMAIN spare |-> [at |-> spare[i].at, ledger_event_hash |-> spare[i].event_hash]]
  BY DEF Custody
<1>a. e.edit # "custody_of_the_ledger" => base = e.from - 1 /\ N = n
  OBVIOUS
<1>b. \E d : Custody(spare) = [state |-> "object", custody_events |-> log]
  BY <1>4 DEF Custody
<1>c. Packet(e).custody = IF e.edit = "custody_is_null" THEN [state |-> "null"] ELSE Custody(spare)
  BY PacketParts
<1> HIDE DEF spare, log, N, base
<1>5. \A i \in 1..N : base + i \in 1..Len(ledger) /\ base + i \in Nat
  BY <1>1, <1>2
<1>6. /\ DOMAIN log = 1..N
      /\ \A i \in 1..N : log[i].at = base + i /\ log[i].ledger_event_hash = EventHashAt(base + i)
  <2>1. \A i \in 1..N : ledger[base + i].at = base + i /\ ledger[base + i].event_hash = EventHashAt(base + i)
    BY <1>1, <1>5 DEF TypeOK
  <2> QED
    BY <1>2, <1>3, <1>4, <2>1
<1>7. \A i \in 1..N :
        EntriesNamed(Slice(e), log[i].ledger_event_hash) = {} <=> log[i].at \notin e.from..e.to
  <2> TAKE i \in 1..N
  <2>1. PICK k \in Nat : k = base + i
    BY <1>5
  <2>2. EntriesNamed(Slice(e), EventHashAt(k)) =
          IF k \in e.from..e.to THEN {k - e.from + 1} ELSE {}
    BY EventNamed
  <2> QED
    BY <1>6, <2>1, <2>2
<1>8. log # <<>>
  BY <1>2, <1>6
<1>9. ~ \E i, j \in DOMAIN log : i < j /\ log[j].at < log[i].at
  <2>1. \A i, j \in 1..N : i < j => ~(base + j < base + i)
    BY <1>2
  <2> QED
    BY <1>6, <2>1
<1>10. CASE e.edit = "custody_is_null"
  <2>1. Packet(e).custody.state = "null"
    BY <1>c, <1>10
  <2> QED
    BY <2>1 DEF CustodyCodes, CustodyWithin, Loaded, LoadCodes, Report
<1>11. CASE e.edit # "custody_is_null"
  <2>1. Packet(e).custody.state = "object" /\ Packet(e).custody.custody_events = log
    BY <1>b, <1>c, <1>11
  <2>2. CustodyCodes(Packet(e).custody, Slice(e)) = {} <=>
          \A i \in DOMAIN log : EntriesNamed(Slice(e), log[i].ledger_event_hash) # {}
    BY <1>8, <1>9, <2>1 DEF CustodyCodes, Loaded, Report
  <2>3. CustodyWithin(e) <=> \A i \in DOMAIN log : log[i].at \in e.from..e.to
    BY <2>1 DEF CustodyWithin, Loaded
  <2>4. e.edit # "custody_of_the_ledger" => \A i \in DOMAIN log : log[i].at \in e.from..e.to
    <3> HAVE e.edit # "custody_of_the_ledger"
    <3>1. base = e.from - 1 /\ N = e.to - e.from + 1
      BY <1>a
    <3>2. \A i \in 1..N : base + i \in e.from..e.to
      BY <1>1, <3>1
    <3> QED
      BY <1>6, <3>2
  <2> QED
    BY <1>6, <1>7, <2>2, <2>3, <2>4
<1> QED
  BY <1>10, <1>11

\* What a scope evaluation, and the result copied from one, say.
LEMMA ScopeSays ==
  ASSUME NEW a, NEW breached \in BOOLEAN
  PROVE  LET payload == ScopePayload(a, breached) IN
         /\ payload.verdict = IF breached THEN "BREACH" ELSE "IN_SCOPE"
         /\ payload.breach_dimensions = IF breached THEN <<"amount">> ELSE <<>>
         /\ payload.intent_scope = <<"scope", a>> /\ payload.executed_action = <<"action", a>>
         /\ payload.scope_hash = ScopeHash(a) /\ payload.action_hash = ActionHash(a)
  BY DEF ScopePayload, Blank

LEMMA ResultSays ==
  ASSUME NEW n
  PROVE  /\ n = 0 => ScopeResult(n).given = FALSE
         /\ n # 0 => /\ ScopeResult(n).given = TRUE
                     /\ ScopeResult(n).verdict = ledger[n].payload.verdict
                     /\ ScopeResult(n).breaches = ledger[n].payload.breach_dimensions
                     /\ ScopeResult(n).scope_hash = ledger[n].payload.scope_hash
                     /\ ScopeResult(n).action_hash = ledger[n].payload.action_hash
  BY DEF ScopeResult

\* A sequence of one element, and what is put before another sequence.
LEMMA OneElement ==
  ASSUME NEW S, NEW x \in S
  PROVE  <<x>> \in Seq(S) /\ \A s \in Seq(S) : (<<x>> \o s)[1] = x
  OBVIOUS

\* A headline is never a null.
LEMMA HeadlineIsText ==
  ASSUME Records, Named, NEW a \in Actions
  PROVE  ScopeHeadline(ScopeResult(drafts[a].scope)) # None
<1> DEFINE n == drafts[a].scope
           result == ScopeResult(n)
<1>1. CASE n = 0
  <2>1. result.given = FALSE
    BY <1>1, ResultSays
  <2>2. <<"not_evaluated">> # None
    BY DEF None
  <2> QED
    BY <2>1, <2>2 DEF ScopeHeadline
<1>2. CASE n # 0
  <2>1. PICK breached \in BOOLEAN : ledger[n].payload = ScopePayload(a, breached)
    BY <1>2 DEF Named, Records, Positions
  <2>2. result.given /\ result.breaches \in Seq({"BREACH", "amount"})
    <3>1. result.given /\ result.breaches = ledger[n].payload.breach_dimensions
      BY <1>2, ResultSays
    <3>2. ledger[n].payload.breach_dimensions \in {<<>>, <<"amount">>}
      BY <2>1, ScopeSays
    <3>3. <<>> \in Seq({"BREACH", "amount"}) /\ <<"amount">> \in Seq({"BREACH", "amount"})
      BY EmptySeq, OneElement
    <3> QED
      BY <3>1, <3>2, <3>3
  <2> HIDE DEF result
  <2>3. (<<"BREACH">> \o result.breaches)[1] = "BREACH"
    BY <2>2, OneElement
  <2>4. None[1] = "none"
    BY DEF None
  <2>5. <<"BREACH">> \o result.breaches # None
    BY <2>3, <2>4
  <2>6. <<"in_scope">> # None
    BY DEF None
  <2> QED
    BY <2>2, <2>5, <2>6 DEF ScopeHeadline, result
<1> QED
  BY <1>1, <1>2

\* verify_scope_conformance passes exactly when the headline is the receipt's
\* result, which is the one last recorded within the span, or there is none in
\* either place.
ScopeAgrees(e) ==
  LET n == drafts[e.signed].scope
      scopes == Within("ScopeEvaluated", e)
  IN /\ Packet(e).manifest.scope_conformance_headline = ScopeHeadline(ScopeResult(n))
     /\ n = 0 <=> scopes = {}
     /\ n # 0 => ledger[n].payload = ledger[Max(scopes)].payload

LEMMA ScopePasses ==
  ASSUME TypeOK, Records, Named, NEW e, Spans(e), e.signed = e.about
  PROVE  ScopeCodes(Packet(e).manifest, Packet(e).receipt, Slice(e)) = {} <=> ScopeAgrees(e)
<1> DEFINE a == e.about
           n == drafts[a].scope
           m == Packet(e).manifest
           r == Packet(e).receipt
           result == ScopeResult(n)
           scopes == Within("ScopeEvaluated", e)
           seen == Witnesses(Slice(e), "ScopeEvaluated", m.action_id)
           payload == Slice(e)[LastOf(seen)].payload
<1>1. a \in Actions /\ m.action_id = a /\ r.body.scope_conformance = result
  <2>1. r = Receipt(a) /\ m.action_id = a
    BY PacketParts
  <2>2. Receipt(a).body.scope_conformance = result
    BY ReceiptParts
  <2> QED
    BY <2>1, <2>2 DEF Spans
<1>2. /\ seen = {} <=> scopes = {}
      /\ scopes # {} => Max(scopes) \in scopes /\ payload = ledger[Max(scopes)].payload
  BY <1>1, LastWithin
<1>3. /\ result.given <=> n # 0
      /\ n # 0 => /\ result.verdict = ledger[n].payload.verdict
                  /\ result.breaches = ledger[n].payload.breach_dimensions
                  /\ result.scope_hash = ledger[n].payload.scope_hash
                  /\ result.action_hash = ledger[n].payload.action_hash
  BY ResultSays
<1>4. n # 0 => \E breached \in BOOLEAN : ledger[n].payload = ScopePayload(a, breached)
  BY <1>1 DEF Named, Records, Positions
<1>5. scopes # {} => \E breached \in BOOLEAN : payload = ScopePayload(a, breached)
  BY <1>2 DEF Within, Records, Positions
<1>6. m.scope_conformance_headline # None
  <2>1. ScopeHeadline(result) # None
    BY <1>1, HeadlineIsText
  <2>2. <<"in_scope">> # None
    BY DEF None
  <2> QED
    BY <2>1, <2>2, PacketParts
<1> HIDE DEF a, n, m, r, result, scopes, seen, payload
<1>7. HeadlineCodes(m, r) = {} <=> m.scope_conformance_headline = ScopeHeadline(result)
  BY <1>1, <1>6 DEF HeadlineCodes, Report
<1>8. ASSUME n # 0, scopes # {}
      PROVE  /\ payload.verdict = result.verdict /\ payload.breach_dimensions = result.breaches
                 <=> payload = ledger[n].payload
             /\ payload = ledger[n].payload =>
                  /\ payload.verdict = result.verdict
                  /\ payload.breach_dimensions = result.breaches
             /\ ScopeHashHolds(payload.intent_scope, payload.scope_hash, result.scope_hash)
             /\ ScopeHashHolds(payload.executed_action, payload.action_hash, result.action_hash)
  <2>1. PICK b \in BOOLEAN : ledger[n].payload = ScopePayload(a, b)
    BY <1>4, <1>8
  <2>2. PICK c \in BOOLEAN : payload = ScopePayload(a, c)
    BY <1>5, <1>8
  <2>3. /\ result.verdict = IF b THEN "BREACH" ELSE "IN_SCOPE"
        /\ result.breaches = IF b THEN <<"amount">> ELSE <<>>
        /\ result.scope_hash = ScopeHash(a) /\ result.action_hash = ActionHash(a)
    BY <1>3, <1>8, <2>1, ScopeSays
  <2>4. /\ payload.verdict = IF c THEN "BREACH" ELSE "IN_SCOPE"
        /\ payload.breach_dimensions = IF c THEN <<"amount">> ELSE <<>>
        /\ payload.intent_scope = <<"scope", a>> /\ payload.executed_action = <<"action", a>>
        /\ payload.scope_hash = ScopeHash(a) /\ payload.action_hash = ActionHash(a)
    BY <2>2, ScopeSays
  <2>5. <<"scope", a>> # None /\ <<"action", a>> # None
    BY DEF None
  <2>6. /\ ScopeHashHolds(payload.intent_scope, payload.scope_hash, result.scope_hash)
        /\ ScopeHashHolds(payload.executed_action, payload.action_hash, result.action_hash)
    BY <2>3, <2>4, <2>5 DEF ScopeHashHolds, ScopeHash, ActionHash
  <2>7. payload.verdict = result.verdict => b = c
    BY <2>3, <2>4
  <2>8. b = c => payload = ledger[n].payload
    BY <2>1, <2>2
  <2>9. payload = ledger[n].payload =>
          payload.verdict = result.verdict /\ payload.breach_dimensions = result.breaches
    BY <1>3, <1>8
  <2> QED
    BY <2>6, <2>7, <2>8, <2>9
<1>9. ScopeCodes(m, r, Slice(e)) = {} <=>
        /\ HeadlineCodes(m, r) = {}
        /\ ~(result.given /\ seen = {}) /\ ~(~result.given /\ seen # {})
        /\ ~(~result.given \/ seen = {}) =>
             /\ payload.verdict = result.verdict
             /\ payload.breach_dimensions = result.breaches
             /\ ScopeHashHolds(payload.intent_scope, payload.scope_hash, result.scope_hash)
             /\ ScopeHashHolds(payload.executed_action, payload.action_hash, result.action_hash)
  BY <1>1 DEF ScopeCodes, Report, seen, payload
<1>10. ScopeAgrees(e) <=>
         /\ m.scope_conformance_headline = ScopeHeadline(result)
         /\ n = 0 <=> scopes = {}
         /\ n # 0 => ledger[n].payload = ledger[Max(scopes)].payload
  BY DEF ScopeAgrees, m, result, scopes, n, a
<1>11. ScopeCodes(m, r, Slice(e)) = {} <=> ScopeAgrees(e)
  BY <1>2, <1>3, <1>7, <1>8, <1>9, <1>10
<1> QED
  BY <1>11 DEF m, r

\* verify_approver_snapshot passes exactly when a snapshot the receipt names is
\* what was last frozen within the span.
SnapshotAgrees(e) ==
  LET n == drafts[e.signed].snapshot
      shots == Within("ApproverSnapshotCaptured", e)
  IN n # 0 => shots # {} /\ ledger[n].payload = ledger[Max(shots)].payload

LEMMA SnapshotPasses ==
  ASSUME TypeOK, Records, NEW e, Spans(e)
  PROVE  SnapshotCodes(Packet(e).manifest, Packet(e).receipt, Slice(e)) = {}
           <=> SnapshotAgrees(e)
<1> DEFINE n == drafts[e.signed].snapshot
           m == Packet(e).manifest
           r == Packet(e).receipt
           shots == Within("ApproverSnapshotCaptured", e)
           seen == Witnesses(Slice(e), "ApproverSnapshotCaptured", m.action_id)
           payload == Slice(e)[LastOf(seen)].payload
<1>1. /\ m.action_id = e.about
      /\ r.body.approver_snapshot_hash =
           IF n = 0 THEN None ELSE Hash("json", ledger[n].payload)
  <2>1. r = Receipt(e.signed) /\ m.action_id = e.about
    BY PacketParts
  <2>2. Receipt(e.signed).body.approver_snapshot_hash =
          IF n = 0 THEN None ELSE Hash("json", ledger[n].payload)
    BY ReceiptParts
  <2> QED
    BY <2>1, <2>2
<1>2. /\ seen = {} <=> shots = {}
      /\ shots # {} => payload = ledger[Max(shots)].payload
  BY <1>1, LastWithin
<1> HIDE DEF n, m, r, shots, seen, payload
<1>3. SnapshotCodes(m, r, Slice(e)) = {} <=>
        \/ r.body.approver_snapshot_hash = None
        \/ seen # {} /\ Hash("json", payload) = r.body.approver_snapshot_hash
  BY DEF SnapshotCodes, Report, seen, payload
<1>4. \A x, y : Hash("json", x) # None /\ (Hash("json", x) = Hash("json", y) => x = y)
  BY DEF Hash, None
<1>5. SnapshotAgrees(e) <=> (n # 0 => shots # {} /\ ledger[n].payload = ledger[Max(shots)].payload)
  BY DEF SnapshotAgrees, n, shots
<1>6. SnapshotCodes(m, r, Slice(e)) = {} <=> SnapshotAgrees(e)
  BY <1>1, <1>2, <1>3, <1>4, <1>5
<1> QED
  BY <1>6 DEF m, r

\* verify_approval_manifestation passes exactly when an approval within the
\* span that the receipt names is of a known version and, from v2 on, was given
\* for the receipt's action.
ApprovalAgrees(e) ==
  LET n == drafts[e.signed].approval IN
  n \in e.from..e.to =>
    /\ ledger[n].payload.payload_version \in {"absent", "v1", "v2"}
    /\ ledger[n].payload.payload_version = "v2" => ledger[n].action_id = e.signed

LEMMA ApprovalSays ==
  ASSUME NEW a, NEW version
  PROVE  /\ ApprovalPayload(a, version).payload_version = version
         /\ version = "v2" =>
              /\ ApprovalPayload(a, version).action_hash = ActionHash(a)
              /\ ApprovalPayload(a, version).signature_meaning = "approval"
              /\ ApprovalPayload(a, version).signer_printed_name = "approver"
  BY DEF ApprovalPayload, Blank

LEMMA ApprovalPasses ==
  ASSUME TypeOK, Records, Named, NEW e, Spans(e)
  PROVE  ManifestationCodes(Packet(e).receipt, Slice(e)) = {} <=> ApprovalAgrees(e)
<1> DEFINE n == drafts[e.signed].approval
           r == Packet(e).receipt
           named == EntriesNamed(Slice(e), r.body.approval_event_hash)
           payload == Slice(e)[LastOf(named)].payload
           w == e.to - e.from + 1
<1>1. e.signed \in Actions /\ r.body.approval_event_hash = EventHashAt(n)
      /\ r.body.action_hash = ActionHash(e.signed)
  <2>1. r = Receipt(e.signed)
    BY PacketParts
  <2>2. /\ Receipt(e.signed).body.approval_event_hash = EventHashAt(n)
        /\ Receipt(e.signed).body.action_hash = ActionHash(e.signed)
    BY ReceiptParts
  <2> QED
    BY <2>1, <2>2 DEF Spans
<1>2. /\ e.from \in Nat \ {0} /\ e.to \in Nat /\ e.from <= e.to /\ e.to <= Len(ledger)
      /\ DOMAIN ledger = 1..Len(ledger) /\ Len(ledger) \in Nat
      /\ \A i \in 1..w : Slice(e)[i] = ledger[e.from + i - 1]
  BY SliceOfLedger
<1>3. n \in Nat /\ (n # 0 => n \in DOMAIN ledger /\ ledger[n].event_type = "ApprovalGranted")
  <2>1. n # 0 => n \in DOMAIN ledger /\ ledger[n].event_type = "ApprovalGranted"
    BY <1>1 DEF Named
  <2> QED
    BY <1>2, <2>1
<1>4. named = IF n \in e.from..e.to THEN {n - e.from + 1} ELSE {}
  <2>1. \A k \in Nat : EntriesNamed(Slice(e), EventHashAt(k)) =
          IF k \in e.from..e.to THEN {k - e.from + 1} ELSE {}
    BY EventNamed
  <2> QED
    BY <1>1, <1>3, <2>1
<1>5. CASE n \notin e.from..e.to
  <2>1. named = {}
    BY <1>4, <1>5
  <2> QED
    BY <1>5, <2>1 DEF ManifestationCodes, ApprovalAgrees
<1>6. CASE n \in e.from..e.to
  <2>1. named = {n - e.from + 1}
    BY <1>4, <1>6
  <2>2. LastOf({n - e.from + 1}) = n - e.from + 1
    BY <1>2, <1>3 DEF LastOf
  <2>3. n - e.from + 1 \in 1..w /\ e.from + (n - e.from + 1) - 1 = n /\ n # 0
    BY <1>2, <1>3, <1>6
  <2>4. payload = ledger[n].payload /\ named # {}
    BY <1>2, <2>1, <2>2, <2>3
  <2>5. PICK version \in ApprovalVersions : ledger[n].payload = ApprovalPayload(ledger[n].action_id, version)
    BY <1>3, <2>3 DEF Records
  <2>6. r.body.approval_event_hash # None
    BY <1>1, <2>3 DEF EventHashAt, None
  <2>7. ApprovalAgrees(e) <=>
          /\ ledger[n].payload.payload_version \in {"absent", "v1", "v2"}
          /\ ledger[n].payload.payload_version = "v2" => ledger[n].action_id = e.signed
    BY <1>6 DEF ApprovalAgrees
  <2> HIDE DEF payload, named, n, r
  <2>8. ManifestationCodes(r, Slice(e)) =
          IF payload.payload_version \in {"absent", "v1"} THEN {}
          ELSE IF payload.payload_version # "v2" THEN {"APPROVAL_PAYLOAD_VERSION_UNKNOWN"}
          ELSE IF "absent" \in {payload.signature_meaning, payload.signer_printed_name}
            THEN {"APPROVAL_MANIFESTATION_FIELD_MISSING"}
          ELSE Report("APPROVAL_SIGNATURE_MEANING_INVALID",
                      payload.signature_meaning \notin APPROVAL_SIGNATURE_MEANINGS)
               \cup Report("APPROVAL_MANIFESTATION_INCONSISTENT",
                      payload.action_hash # r.body.action_hash)
    BY <2>4, <2>6 DEF ManifestationCodes, payload, named
  <2>9. \A x, y : ActionHash(x) = ActionHash(y) => x = y
    BY DEF ActionHash, Hash
  <2>10. payload.payload_version = version
    BY <2>4, <2>5, ApprovalSays
  <2>11. CASE version = "v2"
    <3>1. /\ payload.action_hash = ActionHash(ledger[n].action_id)
          /\ payload.signature_meaning = "approval" /\ payload.signer_printed_name = "approver"
      BY <2>4, <2>5, <2>11, ApprovalSays
    <3>2. ManifestationCodes(r, Slice(e)) =
            Report("APPROVAL_MANIFESTATION_INCONSISTENT",
                   payload.action_hash # r.body.action_hash)
      BY <2>8, <2>10, <2>11, <3>1 DEF Report, APPROVAL_SIGNATURE_MEANINGS
    <3>3. ManifestationCodes(r, Slice(e)) = {} <=> ledger[n].action_id = e.signed
      BY <1>1, <2>9, <3>1, <3>2 DEF Report
    <3> QED
      BY <2>4, <2>7, <2>10, <2>11, <3>3 DEF r
  <2>12. CASE version # "v2"
    <3>1. ManifestationCodes(r, Slice(e)) = {} <=> version \in {"absent", "v1"}
      BY <2>8, <2>10, <2>12
    <3> QED
      BY <2>4, <2>7, <2>10, <2>12, <3>1 DEF r
  <2> QED
    BY <2>11, <2>12
<1> QED
  BY <1>5, <1>6

\* The scan of the anchor log passes exactly when it is not asked for or some
\* attempt succeeded, and never raises.
LEMMA AnchorsPass ==
  ASSUME NEW anchored \in BOOLEAN, NEW lines \in Seq(Lines)
  PROVE  /\ HeadAnchorCodes(Acquisition, AnchorLog(anchored, lines)) = {} <=>
              (anchored => \E i \in DOMAIN lines : lines[i].status = "OK")
         /\ ~AnchorScanRaises(Acquisition, AnchorLog(anchored, lines))
<1> DEFINE log == AnchorLog(anchored, lines)
<1>1. log.given = anchored /\ log.readable = TRUE /\ log.lines = lines
  BY DEF AnchorLog
<1>2. /\ Acquisition.state = "object" /\ Acquisition.ledger_root_hash = Hash("root", Len(ledger))
      /\ RootVersion(Acquisition) = "v2"
  BY PlainDocumentsPass DEF Acquisition
<1>3. RootNamed(Acquisition)
  BY <1>2 DEF RootNamed, Loaded, Hash, None
<1>4. \A i \in DOMAIN lines :
        /\ lines[i].kind = "entry" /\ lines[i].root_version = "v2"
        /\ lines[i].root_hash = Hash("root", Len(ledger))
  <2> TAKE i \in DOMAIN lines
  <2>1. lines[i] \in Lines
    BY LenProperties
  <2> QED
    BY <2>1 DEF Lines
<1>5. \A i \in DOMAIN lines : Witnessing(Acquisition, lines[i]) <=> lines[i].status = "OK"
  BY <1>2, <1>4 DEF Witnessing
<1> HIDE DEF log
<1> QED
  BY <1>1, <1>3, <1>4, <1>5 DEF HeadAnchorCodes, AnchorScanRaises, Report, log

(***************************************************************************)
(* What it takes for verify.py to accept an export.                         *)
(***************************************************************************)
Agrees(e) ==
  /\ e.signed = e.about /\ entries[e.signed] \in e.from..e.to
  /\ Packet(e).authentication.mandate_hash = MandateHash(e.signed)
  /\ CustodyWithin(e) /\ ScopeAgrees(e) /\ SnapshotAgrees(e) /\ ApprovalAgrees(e)

LEMMA DocumentsAgreeMeans ==
  ASSUME NEW p, NEW log
  PROVE  DocumentsAgree(p, log, Verifier) <=>
           /\ ~DocumentsRaise(p, log)
           /\ VerifierDigestCodes(p.manifest, Verifier) = {}
           /\ RootVersionCodes(p.acquisition) = {}
           /\ AuthenticationDocsCodes(p) = {}
           /\ ScopeCodes(p.manifest, p.receipt, p.events) = {}
           /\ SnapshotCodes(p.manifest, p.receipt, p.events) = {}
           /\ ManifestationCodes(p.receipt, p.events) = {}
           /\ HeadAnchorCodes(p.acquisition, log) = {}
           /\ SettlementCodes(p.manifest) = {}
  BY DEF DocumentsAgree, DocumentCodes

LEMMA VerifiesMeans ==
  ASSUME TypeOK, Records, Named, NEW e, Spans(e),
         NEW anchored \in BOOLEAN, NEW lines \in Seq(Lines)
  PROVE  Verifies(e, anchored, lines) <=>
           Agrees(e) /\ (anchored => \E i \in DOMAIN lines : lines[i].status = "OK")
<1> DEFINE p == Packet(e)
           log == AnchorLog(anchored, lines)
           witness == anchored => \E i \in DOMAIN lines : lines[i].status = "OK"
<1>1. p.events = Slice(e) /\ p.acquisition = Acquisition
  BY PacketParts
<1>2. KeyBindingCodes(p.manifest, p.receipt, TRUE, SigningKey) = {}
  BY SignaturePasses
<1>3. ReceiptCodes(p.manifest, p.receipt, p.events, SigningKey, TRUE) = {}
        <=> e.signed = e.about /\ entries[e.signed] \in e.from..e.to
  BY BindingPasses
<1>4. /\ VerifierDigestCodes(p.manifest, Verifier) = {}
      /\ RootVersionCodes(p.acquisition) = {} /\ SettlementCodes(p.manifest) = {}
      /\ AcquisitionCodes(p.acquisition) = {}
      /\ p.acquisition.state # "other" /\ p.custody.state # "other"
      /\ p.authentication.state # "other"
  BY <1>1, PlainDocumentsPass
<1>5. /\ HeadAnchorCodes(p.acquisition, log) = {} <=> witness
      /\ ~AnchorScanRaises(p.acquisition, log)
  BY <1>1, AnchorsPass
<1>6. CustodyCodes(p.custody, p.events) = {} <=> CustodyWithin(e)
  BY <1>1, CustodyPasses
<1>7. StatementCodes(p.authentication, p.acquisition, p.receipt) = {} <=>
        Packet(e).authentication.mandate_hash = MandateHash(e.signed)
  BY <1>1, StatementPasses
<1>8. SnapshotCodes(p.manifest, p.receipt, p.events) = {} <=> SnapshotAgrees(e)
  BY <1>1, SnapshotPasses
<1>9. ManifestationCodes(p.receipt, p.events) = {} <=> ApprovalAgrees(e)
  BY <1>1, ApprovalPasses
<1>10. e.signed = e.about =>
         (ScopeCodes(p.manifest, p.receipt, p.events) = {} <=> ScopeAgrees(e))
  BY <1>1, ScopePasses
<1>11. ~DocumentsRaise(p, log)
  BY <1>4, <1>5 DEF DocumentsRaise
<1>12. AuthenticationDocsCodes(p) = {} <=>
         Packet(e).authentication.mandate_hash = MandateHash(e.signed) /\ CustodyWithin(e)
  BY <1>4, <1>6, <1>7 DEF AuthenticationDocsCodes
<1>13. Verifies(e, anchored, lines) <=>
         /\ ReceiptCodes(p.manifest, p.receipt, p.events, SigningKey, TRUE) = {}
         /\ KeyBindingCodes(p.manifest, p.receipt, TRUE, SigningKey) = {}
         /\ DocumentsAgree(p, log, Verifier)
  BY DEF Verifies
<1> HIDE DEF p, log, witness
<1>14. DocumentsAgree(p, log, Verifier) <=>
         /\ Packet(e).authentication.mandate_hash = MandateHash(e.signed)
         /\ CustodyWithin(e) /\ SnapshotAgrees(e) /\ ApprovalAgrees(e) /\ witness
         /\ ScopeCodes(p.manifest, p.receipt, p.events) = {}
  BY <1>4, <1>5, <1>8, <1>9, <1>11, <1>12, DocumentsAgreeMeans
<1>15. Verifies(e, anchored, lines) <=> Agrees(e) /\ witness
  BY <1>2, <1>3, <1>10, <1>13, <1>14 DEF Agrees
<1> QED
  BY <1>15 DEF witness

(***************************************************************************)
(* The invariant is inductive.                                              *)
(***************************************************************************)
LEMMA InitInvariant == Init => IInv
<1> SUFFICES ASSUME Init PROVE IInv
  OBVIOUS
<1> USE DEF Init
<1>1. Len(ledger) = 0 /\ DOMAIN ledger = {} /\ DOMAIN anchors = {} /\ MaxLedger \in Nat
  BY LedgerAssumption
<1>2. drafts \in [Actions -> Drafts] /\ entries \in [Actions -> 0..Len(ledger)]
  BY <1>1 DEF NoDraft, Drafts
<1>3. TypeOK
  <2>1. Len(ledger) <= MaxLedger
    BY <1>1
  <2>2. \A a \in Actions : entries[a] = 0
    OBVIOUS
  <2>3. ~export.made
    BY DEF NoExport
  <2>4. accepted = FALSE /\ witnessed = FALSE
    OBVIOUS
  <2> QED
    BY <1>1, <1>2, <2>1, <2>2, <2>3, <2>4 DEF TypeOK
<1>4. Records
  BY <1>1, EmptySeq DEF Records
<1>5. Named
  BY DEF Named, NoDraft
<1>6. Exported
  BY DEF Exported, NoExport
<1>7. Anchored
  BY EmptySeq DEF Anchored
<1> QED
  BY <1>3, <1>4, <1>5, <1>6, <1>7 DEF IInv

\* Before the export nothing is accepted, anchored or witnessed.
LEMMA NothingOutYet ==
  ASSUME IInv, ~export.made
  PROVE  accepted = FALSE /\ anchors = <<>> /\ witnessed = FALSE
  BY DEF IInv, TypeOK, Exported, Anchored

\* So what the gateway does keeps the invariants of the export and its anchors.
LEMMA StillNothingOut ==
  ASSUME IInv, ~export.made, UNCHANGED packet
  PROVE  Exported' /\ Anchored'
<1>1. /\ accepted' = FALSE /\ anchors' = <<>> /\ witnessed' = FALSE /\ ~export'.made
  BY NothingOutYet DEF packet
<1>2. anchors' \in Seq(Lines')
  BY <1>1, EmptySeq
<1> QED
  BY <1>1, <1>2 DEF Exported, Anchored

\* An event is added behind the others, and no record is lost.
LEMMA RecordGrows ==
  ASSUME TypeOK, Records, NEW type, NEW a, NEW payload, Record(type, a, payload)
  PROVE  /\ Len(ledger) \in Nat /\ DOMAIN ledger = 1..Len(ledger)
         /\ Len(ledger') = Len(ledger) + 1 /\ Len(ledger') <= MaxLedger
         /\ DOMAIN ledger' = 1..(Len(ledger) + 1)
         /\ \A i \in DOMAIN ledger : ledger'[i] = ledger[i]
         /\ ledger'[Len(ledger) + 1] =
              [event_type |-> type, action_id |-> a, payload |-> payload,
               at |-> Len(ledger) + 1, event_hash |-> EventHashAt(Len(ledger) + 1)]
         /\ ledger' \in Seq(Events')
         /\ \A t, b : Positions(t, b) \subseteq Positions(t, b)'
         /\ Len(ledger) + 1 \in Positions(type, a)'
<1> DEFINE x == [event_type |-> type, action_id |-> a, payload |-> payload,
                 at |-> Len(ledger) + 1, event_hash |-> EventHashAt(Len(ledger) + 1)]
<1>1. ledger' = Append(ledger, x) /\ Len(ledger) < MaxLedger
  BY DEF Record
<1>2. x.event_type = type /\ x.action_id = a
  OBVIOUS
<1> HIDE DEF x
<1>3. Len(ledger) \in Nat /\ DOMAIN ledger = 1..Len(ledger) /\ MaxLedger \in Nat
  BY LenProperties, LedgerAssumption DEF Records
<1>4. ledger \in Seq(Events \cup {x}) /\ x \in Events \cup {x}
  BY SeqMonotonic DEF Records
<1>5. /\ ledger' \in Seq(Events \cup {x}) /\ Len(ledger') = Len(ledger) + 1
      /\ \A i \in 1..Len(ledger) : ledger'[i] = ledger[i]
      /\ ledger'[Len(ledger) + 1] = x
  BY <1>1, <1>4, AppendProperties
<1>6. DOMAIN ledger' = 1..(Len(ledger) + 1)
  BY <1>5, LenProperties
<1>7. ledger' \in Seq(Events')
  <2>1. \A i \in 1..Len(ledger') : ledger'[i] \in Events'
    BY <1>5, <1>6 DEF Events
  <2>2. ledger' \in [1..Len(ledger') -> Events \cup {x}]
    BY <1>5, LenProperties
  <2>3. ledger' \in [1..Len(ledger') -> Events']
    BY <2>1, <2>2
  <2> QED
    BY <1>3, <1>5, <2>3, SeqDef
<1>8. \A t, b : Positions(t, b) \subseteq Positions(t, b)'
  BY <1>3, <1>5, <1>6 DEF Positions
<1>9. Len(ledger) + 1 \in Positions(type, a)'
  BY <1>2, <1>3, <1>5, <1>6 DEF Positions
<1> QED
  BY <1>1, <1>3, <1>5, <1>6, <1>7, <1>8, <1>9 DEF x

\* A recorded event keeps the invariant, with or without a receipt signed over
\* it.
LEMMA RecordStep ==
  ASSUME IInv, NEW type, NEW a \in Actions, NEW payload, Record(type, a, payload),
         type = "ScopeEvaluated" =>
           \E breached \in BOOLEAN : payload = ScopePayload(a, breached),
         type = "ApprovalGranted" =>
           \E version \in ApprovalVersions : payload = ApprovalPayload(a, version),
         type = "Finalized" => payload = SubmittedPayload(a),
         UNCHANGED <<drafts, packet>>,
         \/ entries' = entries
         \/ /\ type = "Finalized" /\ drafts[a].drafted
            /\ entries' = [entries EXCEPT ![a] = Len(ledger) + 1]
  PROVE  IInv'
<1> DEFINE n == Len(ledger) + 1
<1>1. TypeOK /\ Records /\ Named /\ ~export.made
  BY DEF IInv, Record
<1>2. /\ Len(ledger) \in Nat /\ DOMAIN ledger = 1..Len(ledger)
      /\ Len(ledger') = n /\ n <= MaxLedger
      /\ DOMAIN ledger' = 1..n /\ n \in DOMAIN ledger' /\ n # 0
      /\ \A i \in DOMAIN ledger : ledger'[i] = ledger[i] /\ i \in DOMAIN ledger'
      /\ \A i \in DOMAIN ledger' : i \in DOMAIN ledger \/ i = n
      /\ ledger'[n] = [event_type |-> type, action_id |-> a, payload |-> payload,
                       at |-> n, event_hash |-> EventHashAt(n)]
      /\ ledger' \in Seq(Events')
      /\ \A t, b : Positions(t, b) \subseteq Positions(t, b)'
      /\ n \in Positions(type, a)'
  BY <1>1, RecordGrows
<1>3. Exported' /\ Anchored'
  BY <1>1, StillNothingOut
<1>4. drafts' = drafts /\ export' = export /\ accepted' = accepted /\ witnessed' = witnessed
      /\ anchors' = anchors
  BY DEF packet
<1>5. entries' \in [Actions -> 0..Len(ledger')] /\ entries' \in [Actions -> 0..n]
  <2>1. entries \in [Actions -> 0..Len(ledger)] /\ 0..Len(ledger) \subseteq 0..n /\ n \in 0..n
    BY <1>1, <1>2 DEF TypeOK
  <2>2. entries' \in [Actions -> 0..n]
    BY <2>1
  <2> QED
    BY <1>2, <2>2
<1>6. \A b \in Actions : entries'[b] = entries[b] \/ (b = a /\ drafts[a].drafted
                             /\ entries'[b] = n /\ type = "Finalized")
  BY <1>1 DEF TypeOK
<1> HIDE DEF n
<1>7. Records'
  <2>1. \A i \in DOMAIN ledger' : i = n \/ (i \in DOMAIN ledger /\ ledger'[i] = ledger[i])
    BY <1>2
  <2>2. /\ ledger'[n].event_type = type /\ ledger'[n].action_id = a
        /\ ledger'[n].payload = payload
    BY <1>2
  <2> QED
    BY <1>1, <1>2, <2>1, <2>2 DEF Records
<1>8. Named'
  <2> SUFFICES ASSUME NEW b \in Actions
               PROVE  /\ drafts[b].scope \in {0} \cup Positions("ScopeEvaluated", b)'
                      /\ drafts[b].snapshot \in {0} \cup Positions("ApproverSnapshotCaptured", b)'
                      /\ drafts[b].approval # 0 =>
                           /\ drafts[b].approval \in DOMAIN ledger'
                           /\ ledger'[drafts[b].approval].event_type = "ApprovalGranted"
                      /\ entries'[b] \in {0} \cup Positions("Finalized", b)'
    BY <1>4 DEF Named
  <2>1. /\ drafts[b].scope \in {0} \cup Positions("ScopeEvaluated", b)
        /\ drafts[b].snapshot \in {0} \cup Positions("ApproverSnapshotCaptured", b)
        /\ drafts[b].approval # 0 =>
             /\ drafts[b].approval \in DOMAIN ledger
             /\ ledger[drafts[b].approval].event_type = "ApprovalGranted"
        /\ entries[b] \in {0} \cup Positions("Finalized", b)
    BY <1>1 DEF Named
  <2>2. /\ Positions("ScopeEvaluated", b) \subseteq Positions("ScopeEvaluated", b)'
        /\ Positions("ApproverSnapshotCaptured", b) \subseteq Positions("ApproverSnapshotCaptured", b)'
        /\ Positions("Finalized", b) \subseteq Positions("Finalized", b)'
    BY <1>2
  <2>3. entries'[b] \in {0} \cup Positions("Finalized", b)'
    BY <1>2, <1>6, <2>1, <2>2
  <2> QED
    BY <1>2, <2>1, <2>2, <2>3
<1>9. TypeOK'
  <2>1. \A i \in DOMAIN ledger' : /\ ledger'[i].at = i
                                  /\ ledger'[i].action_id \in Actions
                                  /\ ledger'[i].event_hash = EventHashAt(i)
    <3>1. \A i \in DOMAIN ledger : /\ ledger'[i].at = i
                                   /\ ledger'[i].action_id \in Actions
                                   /\ ledger'[i].event_hash = EventHashAt(i)
      BY <1>1, <1>2 DEF TypeOK
    <3>2. /\ ledger'[n].at = n /\ ledger'[n].action_id \in Actions
          /\ ledger'[n].event_hash = EventHashAt(n)
      BY <1>2
    <3> QED
      BY <1>2, <3>1, <3>2
  <2>2. \A b \in Actions : entries'[b] # 0 =>
          /\ drafts[b].drafted
          /\ \A i \in {drafts[b].scope, drafts[b].snapshot} : i = 0 \/ ledger'[i].action_id = b
    <3> SUFFICES ASSUME NEW b \in Actions, entries'[b] # 0
                 PROVE  /\ drafts[b].drafted
                        /\ \A i \in {drafts[b].scope, drafts[b].snapshot} :
                             i = 0 \/ ledger'[i].action_id = b
      OBVIOUS
    <3>1. drafts[b].drafted
      BY <1>1, <1>6 DEF TypeOK
    <3>2. \A i \in {drafts[b].scope, drafts[b].snapshot} :
            i = 0 \/ (i \in DOMAIN ledger /\ ledger[i].action_id = b)
      BY <1>1 DEF Named, Positions
    <3> QED
      BY <1>2, <3>1, <3>2
  <2>3. ~export'.made /\ accepted' = FALSE /\ witnessed' = FALSE /\ anchors' = <<>>
    BY <1>1, <1>4, NothingOutYet
  <2> QED
    BY <1>1, <1>2, <1>4, <1>5, <2>1, <2>2, <2>3 DEF TypeOK
<1> QED
  BY <1>3, <1>7, <1>8, <1>9 DEF IInv

\* A draft names what is recorded so far.
LEMMA DraftStep ==
  ASSUME IInv, NEW a \in Actions, DraftReceipt(a)
  PROVE  IInv'
<1>1. TypeOK /\ Records /\ Named /\ ~export.made /\ ~drafts[a].drafted
  BY DEF IInv, DraftReceipt
<1>2. /\ ledger' = ledger /\ entries' = entries
      /\ export' = export /\ accepted' = accepted /\ witnessed' = witnessed
      /\ anchors' = anchors
  BY DEF DraftReceipt, packet
<1>3. Exported' /\ Anchored'
  BY <1>1, StillNothingOut DEF DraftReceipt
<1>4. PICK approval \in {0} \cup {i \in DOMAIN ledger :
                                   ledger[i].event_type = "ApprovalGranted"} :
        drafts' = [drafts EXCEPT ![a] =
          [drafted |-> TRUE, scope |-> Latest("ScopeEvaluated", a),
           snapshot |-> Latest("ApproverSnapshotCaptured", a), approval |-> approval]]
  BY DEF DraftReceipt
<1> DEFINE scope == Latest("ScopeEvaluated", a)
           snapshot == Latest("ApproverSnapshotCaptured", a)
<1>5. /\ scope \in {0} \cup Positions("ScopeEvaluated", a)
      /\ snapshot \in {0} \cup Positions("ApproverSnapshotCaptured", a)
  BY <1>1, LatestIsNamed
<1>6. Len(ledger) \in Nat /\ DOMAIN ledger = 1..Len(ledger) /\ Len(ledger) <= MaxLedger
      /\ MaxLedger \in Nat
  BY <1>1, LenProperties, LedgerAssumption DEF Records, TypeOK
<1>7. scope \in 0..MaxLedger /\ snapshot \in 0..MaxLedger /\ approval \in 0..MaxLedger
  <2>1. {0} \cup DOMAIN ledger \subseteq 0..MaxLedger
    BY <1>6
  <2>2. \A t : Positions(t, a) \subseteq DOMAIN ledger
    BY DEF Positions
  <2> QED
    BY <1>4, <1>5, <2>1, <2>2
<1> HIDE DEF scope, snapshot
<1>8. /\ drafts \in [Actions -> Drafts]
      /\ drafts' = [drafts EXCEPT ![a] = [drafted |-> TRUE, scope |-> scope,
                                         snapshot |-> snapshot, approval |-> approval]]
  BY <1>1, <1>4 DEF TypeOK, scope, snapshot
<1>9. /\ drafts' \in [Actions -> Drafts]
      /\ \A b \in Actions \ {a} : drafts'[b] = drafts[b]
      /\ drafts'[a].drafted /\ drafts'[a].scope = scope /\ drafts'[a].snapshot = snapshot
      /\ drafts'[a].approval = approval
  <2>1. [drafted |-> TRUE, scope |-> scope, snapshot |-> snapshot, approval |-> approval] \in Drafts
    BY <1>7 DEF Drafts
  <2> QED
    BY <1>8, <2>1
<1>10. \A t, b : Positions(t, b)' = Positions(t, b)
  BY <1>2 DEF Positions
<1>11. Named'
  <2> SUFFICES ASSUME NEW b \in Actions
               PROVE  /\ drafts'[b].scope \in {0} \cup Positions("ScopeEvaluated", b)
                      /\ drafts'[b].snapshot \in {0} \cup Positions("ApproverSnapshotCaptured", b)
                      /\ drafts'[b].approval # 0 =>
                           /\ drafts'[b].approval \in DOMAIN ledger
                           /\ ledger[drafts'[b].approval].event_type = "ApprovalGranted"
                      /\ entries[b] \in {0} \cup Positions("Finalized", b)
    BY <1>2, <1>10 DEF Named
  <2> QED
    BY <1>1, <1>4, <1>5, <1>9 DEF Named
<1>12. Records'
  BY <1>1, <1>2 DEF Records, Events
<1>13. entries[a] = 0
  BY <1>1 DEF TypeOK
<1>14. TypeOK'
  <2>1. \A b \in Actions : entries[b] # 0 =>
          /\ drafts'[b].drafted
          /\ \A i \in {drafts'[b].scope, drafts'[b].snapshot} : i = 0 \/ ledger[i].action_id = b
    BY <1>1, <1>9, <1>13 DEF TypeOK
  <2> QED
    BY <1>1, <1>2, <1>9, <2>1 DEF TypeOK
<1> QED
  BY <1>3, <1>11, <1>12, <1>14 DEF IInv

\* Nothing the packet is made of changes after the export, nor when it is made.
LEMMA SameVerdict ==
  ASSUME UNCHANGED <<ledger, drafts, entries>>, NEW e, NEW anchored, NEW lines
  PROVE  Verifies(e, anchored, lines)' <=> Verifies(e, anchored, lines)
<1>1. ledger' = ledger /\ drafts' = drafts /\ entries' = entries
  OBVIOUS
<1>2. \A n : ScopeResult(n)' = ScopeResult(n)
  BY <1>1 DEF ScopeResult
<1>3. \A a : Receipt(a)' = Receipt(a)
  BY <1>1, <1>2 DEF Receipt
<1>4. Acquisition' = Acquisition
  BY <1>1 DEF Acquisition
<1>5. Packet(e)' = Packet(e)
  BY <1>1, <1>3, <1>4 DEF Packet
<1> QED
  BY <1>5 DEF Verifies

\* The invariant and the verdict on the export in the next state, when nothing
\* but the packet changes.
LEMMA PacketStep ==
  ASSUME IInv, UNCHANGED <<ledger, drafts, entries>>
  PROVE  /\ Records' /\ Named'
         /\ \A e : Spans(e)' <=> Spans(e)
         /\ Lines' = Lines
<1>1. ledger' = ledger /\ drafts' = drafts /\ entries' = entries
  OBVIOUS
<1>2. Records'
  BY <1>1 DEF IInv, Records, Events
<1>3. \A t, b : Positions(t, b)' = Positions(t, b)
  BY <1>1 DEF Positions
<1>4. Named'
  BY <1>1, <1>3 DEF IInv, Named
<1> QED
  BY <1>1, <1>2, <1>4 DEF Spans, Lines

LEMMA ExportStep ==
  ASSUME IInv, NEW about \in Actions, NEW signed \in Actions, NEW from \in DOMAIN ledger,
         NEW to \in DOMAIN ledger, NEW edit, ExportPacket(about, signed, from, to, edit)
  PROVE  IInv'
<1>1. /\ ~export.made /\ entries[signed] # 0 /\ from <= to
      /\ export' = [made |-> TRUE, about |-> about, signed |-> signed,
                    from |-> from, to |-> to, edit |-> edit]
      /\ accepted' = Verifies(export', FALSE, <<>>)
      /\ ledger' = ledger /\ drafts' = drafts /\ entries' = entries
      /\ anchors' = anchors /\ witnessed' = witnessed
  BY DEF ExportPacket
<1>2. anchors' = <<>> /\ witnessed' = FALSE
  BY <1>1, NothingOutYet
<1>3. Records' /\ Named' /\ Spans(export')
  BY <1>1, PacketStep DEF Spans
<1>4. Exported'
  <2>1. \A e : Verifies(e, FALSE, <<>>)' <=> Verifies(e, FALSE, <<>>)
    BY <1>1, SameVerdict
  <2>2. PICK e : e = export'
    OBVIOUS
  <2>3. Verifies(e, FALSE, <<>>)' <=> Verifies(e, FALSE, <<>>)
    BY <2>1
  <2>4. accepted' <=> Verifies(e, FALSE, <<>>)'
    BY <1>1, <2>2, <2>3
  <2>5. Spans(export)'
    BY <1>1, <1>3 DEF Spans
  <2> QED
    BY <1>1, <2>2, <2>4, <2>5 DEF Exported
<1>5. Anchored'
  BY <1>2, EmptySeq DEF Anchored
<1>6. TypeOK'
  <2>1. TypeOK /\ Len(ledger) \in Nat /\ DOMAIN ledger = 1..Len(ledger)
    BY LenProperties DEF IInv, Records
  <2>2. export'.from \in 1..export'.to /\ export'.to \in DOMAIN ledger /\ export'.made
    BY <1>1, <2>1
  <2>3. accepted' \in BOOLEAN
    BY <1>1 DEF Verifies
  <2> QED
    BY <1>1, <1>2, <2>1, <2>2, <2>3 DEF TypeOK
<1> QED
  BY <1>3, <1>4, <1>5, <1>6 DEF IInv

LEMMA AnchorStep ==
  ASSUME IInv, NEW status \in Statuses, AnchorHead(status)
  PROVE  IInv'
<1> DEFINE line == [kind |-> "entry", root_hash |-> Hash("root", Len(ledger)),
                    root_version |-> "v2", status |-> status]
<1>1. /\ accepted /\ anchors' = Append(anchors, line)
      /\ witnessed' = Verifies(export, TRUE, anchors')
      /\ ledger' = ledger /\ drafts' = drafts /\ entries' = entries
      /\ export' = export /\ accepted' = accepted
  BY DEF AnchorHead
<1>2. line \in Lines
  BY DEF Lines
<1> HIDE DEF line
<1>3. Records' /\ Named' /\ Lines' = Lines /\ (Spans(export) => Spans(export)')
  BY <1>1, PacketStep DEF Spans
<1>4. /\ anchors' \in Seq(Lines) /\ anchors' # <<>>
      /\ DOMAIN anchors' = 1..Len(anchors')
  <2>1. anchors \in Seq(Lines)
    BY DEF IInv, Anchored
  <2>2. anchors' \in Seq(Lines) /\ anchors' # <<>>
    BY <1>1, <1>2, <2>1, AppendProperties
  <2> QED
    BY <2>2, LenProperties
<1>5. PICK e, lines : e = export /\ lines = anchors'
  OBVIOUS
<1>6. /\ Verifies(e, FALSE, <<>>)' <=> Verifies(e, FALSE, <<>>)
      /\ Verifies(e, TRUE, lines)' <=> Verifies(e, TRUE, lines)
  BY <1>1, SameVerdict
<1>7. Exported'
  <2>1. /\ export.made => Spans(export)
        /\ accepted <=> export.made /\ Verifies(e, FALSE, <<>>)
    BY <1>5 DEF IInv, Exported
  <2>2. accepted' <=> export.made /\ Verifies(e, FALSE, <<>>)'
    BY <1>1, <1>6, <2>1
  <2> QED
    BY <1>1, <1>3, <1>5, <2>1, <2>2 DEF Exported
<1>8. Anchored'
  <2>1. witnessed' <=> Verifies(e, TRUE, lines)'
    BY <1>1, <1>5, <1>6
  <2> QED
    BY <1>1, <1>3, <1>4, <1>5, <2>1 DEF Anchored
<1>9. TypeOK'
  <2>1. TypeOK
    BY DEF IInv
  <2>2. \A i \in DOMAIN anchors' : anchors'[i].status \in Statuses
    <3>1. \A i \in DOMAIN anchors' : anchors'[i] \in Lines
      BY <1>4, LenProperties
    <3> QED
      BY <3>1 DEF Lines
  <2>3. witnessed' \in BOOLEAN
    BY <1>1 DEF Verifies
  <2> QED
    BY <1>1, <2>1, <2>2, <2>3 DEF TypeOK
<1> QED
  BY <1>3, <1>7, <1>8, <1>9 DEF IInv

LEMMA NextInvariant == IInv /\ [Next]_vars => IInv'
<1> SUFFICES ASSUME IInv, [Next]_vars PROVE IInv'
  OBVIOUS
<1>1. CASE UNCHANGED vars
  <2>1. /\ ledger' = ledger /\ drafts' = drafts /\ entries' = entries
        /\ export' = export /\ anchors' = anchors
        /\ accepted' = accepted /\ witnessed' = witnessed
    BY <1>1 DEF vars
  <2>2. Records' /\ Named' /\ Lines' = Lines /\ (Spans(export) => Spans(export)')
    BY <2>1, PacketStep DEF Spans
  <2>3. PICK e, lines : e = export /\ lines = anchors
    OBVIOUS
  <2>4. /\ Verifies(e, FALSE, <<>>)' <=> Verifies(e, FALSE, <<>>)
        /\ Verifies(e, TRUE, lines)' <=> Verifies(e, TRUE, lines)
    BY <2>1, SameVerdict
  <2>5. /\ Verifies(export, FALSE, <<>>)' <=> Verifies(export, FALSE, <<>>)
        /\ Verifies(export, TRUE, anchors)' <=> Verifies(export, TRUE, anchors)
    BY <2>1, <2>3, <2>4
  <2>6. TypeOK'
    BY <2>1 DEF IInv, TypeOK
  <2> QED
    BY <2>1, <2>2, <2>5, <2>6 DEF IInv, Exported, Anchored
<1>2. ASSUME NEW a \in Actions, Submit(a)
      PROVE  IInv'
  BY <1>2, RecordStep DEF Submit
<1>3. ASSUME NEW a \in Actions, CaptureSnapshot(a)
      PROVE  IInv'
  BY <1>3, RecordStep DEF CaptureSnapshot
<1>4. ASSUME NEW a \in Actions, DraftReceipt(a)
      PROVE  IInv'
  BY <1>4, DraftStep
<1>5. ASSUME NEW a \in Actions, Finalize(a)
      PROVE  IInv'
  BY <1>5, RecordStep DEF Finalize
<1>6. ASSUME NEW a \in Actions, NEW breached \in BOOLEAN, EvaluateScope(a, breached)
      PROVE  IInv'
  BY <1>6, RecordStep DEF EvaluateScope
<1>7. ASSUME NEW a \in Actions, NEW version \in ApprovalVersions, Approve(a, version)
      PROVE  IInv'
  BY <1>7, RecordStep DEF Approve
<1>8. ASSUME NEW about \in Actions, NEW signed \in Actions, NEW from \in DOMAIN ledger,
             NEW to \in DOMAIN ledger, NEW edit \in Edits,
             ExportPacket(about, signed, from, to, edit)
      PROVE  IInv'
  BY <1>8, ExportStep
<1>9. ASSUME NEW status \in Statuses, AnchorHead(status)
      PROVE  IInv'
  BY <1>9, AnchorStep
<1> QED
  BY <1>1, <1>2, <1>3, <1>4, <1>5, <1>6, <1>7, <1>8, <1>9 DEF Next

\* The inductive invariant holds in every reachable state: what was exported
\* was drafted, signed and recorded by the gateway, and the verdicts are those
\* of verify.py on it.
THEOREM Invariant == Spec => []IInv
<1> QED
  BY InitInvariant, NextInvariant, PTL DEF Spec

\* Events stand at their positions, a draft only reads what was there, and a
\* receipt is signed only over a draft.
THEOREM TypeCorrect == Spec => []TypeOK
<1>1. IInv => TypeOK
  BY DEF IInv
<1> QED
  BY <1>1, Invariant, PTL

(***************************************************************************)
(* What verifies tells what was recorded.                                   *)
(***************************************************************************)
\* An accepted packet has everything it takes.
LEMMA AcceptedAgrees ==
  ASSUME IInv, accepted
  PROVE  /\ export.made /\ Spans(export) /\ Agrees(export)
         /\ export.signed = export.about /\ export.signed \in Actions
<1>1. TypeOK /\ Records /\ Named /\ Spans(export) /\ export.made /\ Verifies(export, FALSE, <<>>)
  BY DEF IInv, Exported
<1>2. <<>> \in Seq(Lines)
  BY EmptySeq
<1>3. Agrees(export)
  BY <1>1, <1>2, VerifiesMeans
<1> QED
  BY <1>1, <1>3 DEF Agrees, Spans

\* A packet that verifies tells the scope verdict and the snapshot last
\* recorded for its action within its span: verify_scope_conformance and
\* verify_approver_snapshot.
THEOREM LastRecordsCount == Spec => []TheLastRecordsCount
<1>1. IInv => TheLastRecordsCount
  <2> SUFFICES ASSUME IInv, accepted PROVE TheLastRecordsCount
    BY DEF TheLastRecordsCount
  <2> DEFINE n == drafts[export.signed].scope
             scopes == InSpan("ScopeEvaluated")
             shots == InSpan("ApproverSnapshotCaptured")
  <2>1. ScopeAgrees(export) /\ SnapshotAgrees(export)
    BY AcceptedAgrees DEF Agrees
  <2>2. scopes = Within("ScopeEvaluated", export) /\ shots = Within("ApproverSnapshotCaptured", export)
    BY DEF InSpan, Span, Within
  <2>3. /\ Packet(export).manifest.scope_conformance_headline = ScopeHeadline(ScopeResult(n))
        /\ n = 0 <=> scopes = {}
        /\ n # 0 => ledger[n].payload = ledger[Max(scopes)].payload
    BY <2>1, <2>2 DEF ScopeAgrees
  <2>4. scopes # {} => ScopeResult(n) = ScopeResult(Max(scopes))
    <3> HAVE scopes # {}
    <3>1. Max(scopes) \in scopes
      BY <2>2, AcceptedAgrees, LastWithin DEF IInv
    <3>2. Max(scopes) # 0
      BY <2>2, <3>1, AcceptedAgrees, SliceOfLedger DEF IInv, Within
    <3> QED
      BY <2>3, <3>2 DEF ScopeResult
  <2>5. LET snapshot == drafts[export.signed].snapshot IN
        snapshot # 0 => /\ shots # {}
                        /\ ledger[snapshot].payload = ledger[Max(shots)].payload
    BY <2>1, <2>2 DEF SnapshotAgrees
  <2> QED
    BY <2>3, <2>4, <2>5 DEF TheLastRecordsCount
<1> QED
  BY <1>1, Invariant, PTL

\* A v2 approval within the span of a packet that verifies was given for the
\* packet's action: verify_approval_manifestation.
THEOREM ApprovalsStay == Spec => []ApprovalsStayWithTheirAction
<1>1. IInv => ApprovalsStayWithTheirAction
  <2> SUFFICES ASSUME IInv, accepted PROVE ApprovalsStayWithTheirAction
    BY DEF ApprovalsStayWithTheirAction
  <2>1. ApprovalAgrees(export) /\ export.signed = export.about
    BY AcceptedAgrees DEF Agrees
  <2> QED
    BY <2>1 DEF ApprovalAgrees, ApprovalsStayWithTheirAction, Span
<1> QED
  BY <1>1, Invariant, PTL

\* A packet that verifies is of one action, in its receipt, its manifest, its
\* authentication statement and its custody record: verify_receipt and
\* verify_authentication_docs.
THEOREM OneAction == Spec => []ThePacketIsOneActions
<1>1. IInv => ThePacketIsOneActions
  <2> SUFFICES ASSUME IInv, accepted PROVE ThePacketIsOneActions
    BY DEF ThePacketIsOneActions
  <2>1. /\ export.signed = export.about /\ CustodyWithin(export)
        /\ Packet(export).authentication.mandate_hash = MandateHash(export.signed)
    BY AcceptedAgrees DEF Agrees
  <2> QED
    BY <2>1 DEF ThePacketIsOneActions, CustodyWithin, Span
<1> QED
  BY <1>1, Invariant, PTL

(***************************************************************************)
(* What is exported as it should be verifies.                               *)
(***************************************************************************)
\* The whole span of an action holds all its records.
LEMMA WholeSpanHolds ==
  ASSUME TypeOK, Records, NEW e, Spans(e), <<e.from, e.to>> = WholeSpan(e.about), NEW type
  PROVE  Within(type, e) = Positions(type, e.about)
<1> DEFINE mine == {i \in DOMAIN ledger : ledger[i].action_id = e.about}
<1>1. Len(ledger) \in Nat /\ DOMAIN ledger = 1..Len(ledger)
  BY LenProperties DEF Records
<1>2. mine \subseteq 0..Len(ledger)
  BY <1>1
<1>3. Positions(type, e.about) \subseteq mine
  BY DEF Positions
<1>4. e.from = Min(mine) /\ e.to = Max(mine)
  BY DEF WholeSpan
<1> HIDE DEF mine
<1>5. \A i \in mine : i \in e.from..e.to
  <2> TAKE i \in mine
  <2>1. Min(mine) <= i /\ i <= Max(mine)
    BY <1>1, <1>2, Extremes
  <2>2. i \in Int
    BY <1>2
  <2> QED
    BY <1>4, <2>1, <2>2
<1> QED
  BY <1>3, <1>5 DEF Within

\* The latest record of a type is the greatest position, or 0.
LEMMA LatestIsMax ==
  ASSUME TypeOK, Records, NEW type, NEW a
  PROVE  /\ Latest(type, a) = 0 <=> Positions(type, a) = {}
         /\ Positions(type, a) # {} => Latest(type, a) = Max(Positions(type, a))
<1> DEFINE P == Positions(type, a)
           n == Latest(type, a)
<1>1. /\ n \in {0} \cup P /\ (\A i \in P : i <= n) /\ P \subseteq 1..Len(ledger)
      /\ Len(ledger) \in Nat
  BY LatestIsNamed, LenProperties DEF Records
<1> HIDE DEF P, n
<1>2. ASSUME P # {}
      PROVE  n = Max(P) /\ n # 0
  <2>1. P \subseteq 0..Len(ledger)
    BY <1>1
  <2>2. Max(P) \in P /\ \A y \in P : y <= Max(P)
    BY <1>1, <1>2, <2>1, Extremes
  <2>3. Max(P) \in Nat \ {0} /\ Max(P) <= n
    <3>1. 1..Len(ledger) \subseteq Nat \ {0}
      BY <1>1
    <3> QED
      BY <1>1, <2>2, <3>1
  <2>4. n \in P /\ n \in Nat
    BY <1>1, <2>3
  <2> QED
    BY <2>2, <2>3, <2>4
<1>3. P = {} => n = 0
  BY <1>1
<1> QED
  BY <1>2, <1>3 DEF P, n

\* Without an edit of a document the headline and the statement are the
\* receipt's.
LEMMA UneditedParts ==
  ASSUME NEW e, e.edit \in {"none", "settled"}
  PROVE  /\ Packet(e).manifest.scope_conformance_headline =
              ScopeHeadline(ScopeResult(drafts[e.signed].scope))
         /\ Packet(e).authentication.mandate_hash = MandateHash(e.signed)
<1>1. Packet(e).authentication = Statement(e.signed)
  BY DEF Packet
<1>2. Statement(e.signed).mandate_hash = MandateHash(e.signed)
  BY DEF Statement
<1> QED
  BY <1>1, <1>2, PacketParts

\* A faithful export has everything it takes.
LEMMA FaithfulAgrees ==
  ASSUME IInv, Faithful
  PROVE  Spans(export) /\ Agrees(export)
<1> DEFINE a == export.about
<1>1. /\ export.made /\ Spans(export) /\ export.signed = a /\ a \in Actions
      /\ <<export.from, export.to>> = WholeSpan(a)
      /\ TypeOK /\ Records /\ Named
  BY DEF IInv, Exported, Faithful, Spans
<1>2. \A type : Within(type, export) = Positions(type, a)
  BY <1>1, WholeSpanHolds
<1>3. /\ export.edit \in {"none", "settled"}
      /\ drafts[a].scope = Latest("ScopeEvaluated", a)
      /\ drafts[a].snapshot \in {0, Latest("ApproverSnapshotCaptured", a)}
      /\ drafts[a].approval \in {0} \cup Positions("ApprovalGranted", a)
      /\ drafts[a].approval # 0 =>
           ledger[drafts[a].approval].payload.payload_version # "v3"
  BY DEF Faithful
<1>4. \A type :
        /\ Latest(type, a) = 0 <=> Within(type, export) = {}
        /\ Latest(type, a) # 0 => Latest(type, a) = Max(Within(type, export))
  BY <1>1, <1>2, LatestIsMax
<1>5. ScopeAgrees(export)
  <2> DEFINE scopes == Within("ScopeEvaluated", export)
             n == drafts[a].scope
  <2>1. (n = 0 <=> scopes = {}) /\ (n # 0 => n = Max(scopes))
    <3>1. /\ Latest("ScopeEvaluated", a) = 0 <=> scopes = {}
          /\ Latest("ScopeEvaluated", a) # 0 => Latest("ScopeEvaluated", a) = Max(scopes)
      BY <1>4
    <3> HIDE DEF scopes
    <3> QED
      BY <1>3, <3>1
  <2>2. Packet(export).manifest.scope_conformance_headline = ScopeHeadline(ScopeResult(n))
    BY <1>1, <1>3, UneditedParts
  <2> HIDE DEF scopes, n
  <2>3. n # 0 => ledger[n].payload = ledger[Max(scopes)].payload
    BY <2>1
  <2> QED
    BY <1>1, <2>1, <2>2, <2>3 DEF ScopeAgrees, scopes, n
<1>6. SnapshotAgrees(export)
  <2> DEFINE shots == Within("ApproverSnapshotCaptured", export)
             n == drafts[a].snapshot
  <2>1. n # 0 => shots # {} /\ n = Max(shots)
    <3>1. /\ Latest("ApproverSnapshotCaptured", a) = 0 <=> shots = {}
          /\ Latest("ApproverSnapshotCaptured", a) # 0 => Latest("ApproverSnapshotCaptured", a) = Max(shots)
      BY <1>4
    <3> HIDE DEF shots
    <3> QED
      BY <1>3, <3>1
  <2> HIDE DEF shots, n
  <2>2. n # 0 => shots # {} /\ ledger[n].payload = ledger[Max(shots)].payload
    BY <2>1
  <2> QED
    BY <1>1, <2>2 DEF SnapshotAgrees, shots, n
<1>7. ApprovalAgrees(export)
  <2> SUFFICES ASSUME drafts[a].approval \in export.from..export.to
               PROVE  /\ ledger[drafts[a].approval].payload.payload_version \in {"absent", "v1", "v2"}
                      /\ ledger[drafts[a].approval].action_id = a
    BY <1>1 DEF ApprovalAgrees
  <2>1. drafts[a].approval # 0
    BY <1>1, SliceOfLedger
  <2>2. drafts[a].approval \in Positions("ApprovalGranted", a)
    BY <1>3, <2>1
  <2>3. PICK version \in ApprovalVersions :
          ledger[drafts[a].approval].payload = ApprovalPayload(a, version)
    BY <1>1, <2>2 DEF Positions, Records
  <2>4. version = ledger[drafts[a].approval].payload.payload_version
    BY <2>3, ApprovalSays
  <2> QED
    BY <1>3, <2>1, <2>2, <2>4, LedgerAssumption DEF Positions
<1>8. entries[a] \in export.from..export.to
  <2>1. entries[a] \in Positions("Finalized", a)
    BY <1>1 DEF Spans, Named
  <2> QED
    BY <1>2, <2>1 DEF Within
<1>9. CustodyWithin(export)
  BY <1>1, <1>3, CustodyPasses
<1>10. Packet(export).authentication.mandate_hash = MandateHash(export.signed)
  BY <1>3, UneditedParts
<1> QED
  BY <1>1, <1>5, <1>6, <1>7, <1>8, <1>9, <1>10 DEF Agrees

\* What is witnessed: an accepted packet after a successful attempt.
LEMMA WitnessedMeans ==
  ASSUME IInv, accepted
  PROVE  witnessed <=> \E i \in DOMAIN anchors : anchors[i].status = "OK"
<1>1. /\ TypeOK /\ Records /\ Named /\ Spans(export) /\ Agrees(export)
      /\ anchors \in Seq(Lines) /\ (witnessed <=> anchors # <<>> /\ Verifies(export, TRUE, anchors))
  BY AcceptedAgrees DEF IInv, Anchored
<1>2. Verifies(export, TRUE, anchors) <=> \E i \in DOMAIN anchors : anchors[i].status = "OK"
  BY <1>1, VerifiesMeans
<1>3. anchors = <<>> => DOMAIN anchors = {}
  OBVIOUS
<1> QED
  BY <1>1, <1>2, <1>3

\* A packet exported as it should be verifies, and with --anchors as soon as an
\* attempt succeeded and not before.
THEOREM HonestPackets == Spec => []HonestPacketsPass
<1>1. IInv => HonestPacketsPass
  <2> SUFFICES ASSUME IInv, Faithful PROVE HonestPacketsPass
    BY DEF HonestPacketsPass
  <2>1. /\ TypeOK /\ Records /\ Named /\ Spans(export) /\ Agrees(export) /\ export.made
    BY FaithfulAgrees DEF IInv, Faithful
  <2>2. <<>> \in Seq(Lines)
    BY EmptySeq
  <2>3. accepted
    BY <2>1, <2>2, VerifiesMeans DEF IInv, Exported
  <2>4. witnessed <=> \E i \in DOMAIN anchors : anchors[i].status = "OK"
    BY <2>3, WitnessedMeans
  <2>5. anchors # <<>> => Len(anchors) \in DOMAIN anchors
    <3>1. anchors \in Seq(Lines)
      BY DEF IInv, Anchored
    <3> QED
      BY <3>1, EmptySeq, LenProperties
  <2> QED
    BY <2>3, <2>4, <2>5 DEF HonestPacketsPass
<1> QED
  BY <1>1, Invariant, PTL

\* A line more in the anchor log never takes back what earlier lines witnessed:
\* verify_ledger_head_anchor reads them all.
THEOREM AnchoringHolds == Spec => AnchoringNeverTakesBack
<1>1. IInv /\ [Next]_vars => [witnessed => witnessed']_vars
  <2> SUFFICES ASSUME IInv, [Next]_vars, witnessed PROVE witnessed'
    OBVIOUS
  <2>1. accepted /\ export.made
    BY DEF IInv, Anchored, Exported
  <2>2. CASE \E status \in Statuses : AnchorHead(status)
    <3>1. PICK status \in Statuses : AnchorHead(status)
      BY <2>2
    <3>2. PICK i \in DOMAIN anchors : anchors[i].status = "OK"
      BY <2>1, WitnessedMeans
    <3>3. PICK line : anchors' = Append(anchors, line) /\ line \in Lines
      BY <3>1 DEF AnchorHead, Lines
    <3>4. anchors \in Seq(Lines)
      BY DEF IInv, Anchored
    <3>5. i \in DOMAIN anchors' /\ anchors'[i].status = "OK"
      <4>1. /\ anchors' \in Seq(Lines) /\ Len(anchors') = Len(anchors) + 1
            /\ \A j \in 1..Len(anchors) : anchors'[j] = anchors[j]
        BY <3>3, <3>4, AppendProperties
      <4>2. DOMAIN anchors = 1..Len(anchors) /\ DOMAIN anchors' = 1..Len(anchors')
            /\ Len(anchors) \in Nat
        BY <3>4, <4>1, LenProperties
      <4> QED
        BY <3>2, <4>1, <4>2
    <3>6. witnessed' <=> \E j \in DOMAIN anchors' : anchors'[j].status = "OK"
      <4>1. PICK lines : lines = anchors'
        OBVIOUS
      <4>2. lines \in Seq(Lines)
        BY <3>3, <3>4, <4>1, AppendProperties
      <4>3. /\ TypeOK /\ Records /\ Named /\ Spans(export) /\ Agrees(export)
        BY <2>1, AcceptedAgrees DEF IInv
      <4>4. Verifies(export, TRUE, lines) <=> \E j \in DOMAIN lines : lines[j].status = "OK"
        BY <4>2, <4>3, VerifiesMeans
      <4> QED
        BY <3>1, <4>1, <4>4 DEF AnchorHead
    <3> QED
      BY <3>5, <3>6
  <2>3. CASE ~ \E status \in Statuses : AnchorHead(status)
    <3>1. witnessed' = witnessed
      BY <2>1, <2>3 DEF Next, vars, Record, Submit, EvaluateScope, CaptureSnapshot,
        Approve, DraftReceipt, Finalize, ExportPacket
    <3> QED
      BY <3>1
  <2> QED
    BY <2>2, <2>3
<1> QED
  BY <1>1, Invariant, PTL DEF Spec, AnchoringNeverTakesBack

=============================================================================

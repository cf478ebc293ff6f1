-------------------------- MODULE MCPacketVerifier --------------------------
(***************************************************************************)
(* A small instance: a real ledger of four events, packets exported from it *)
(* and altered copies of them, archive exports with the attestation of      *)
(* another set, size or authority, and the command lines a caller may type. *)
(***************************************************************************)
EXTENDS PacketPromise, EvidenceSamples, TLC

CONSTANTS K1, K2, Weak, Kid1, Kid2, ActA, ActB, H1, H2, Tsa1, Tsa2, P1, P2

Body(alg, kid, key, entry, decision) ==
  [algorithm |-> alg, key_id |-> kid, signer_pubkey_hash |-> Hash("pubkey", key),
   ledger_entry_hash |-> entry, action_hash |-> H1, decision |-> decision]

\* The ledger: another action's event, the receipt's entry, the event that
\* records the receipt, another action's event.
G1 == Event(ActB, Note(None, None), Start)
G2 == Event(ActA, Note(H1, None), G1.event_hash)
RealBody == Body("ed25519", Kid1, K1, G2.event_hash, "ALLOW")
G3 == Event(ActA, Note(None, Hash("receipt", RealBody)), G2.event_hash)
G4 == Event(ActB, Note(None, None), G3.event_hash)
MCLedger == <<G1, G2, G3, G4>>

Real == Sign(RealBody, K1)

(***************************************************************************)
(* Receipts: the real one; one with a changed decision under the old        *)
(* signature; one signed again by another holder; broken signatures; other  *)
(* algorithms; one whose entry is another event.                            *)
(***************************************************************************)
Denied == [RealBody EXCEPT !.decision = "DENY"]
Hybrid == Sign([RealBody EXCEPT !.algorithm = HYBRID], K1)
Receipts ==
  {Real,
   [Real EXCEPT !.body = Denied],
   Sign([Denied EXCEPT !.signer_pubkey_hash = Hash("pubkey", K2)], K2),
   Sign([RealBody EXCEPT !.key_id = Kid2, !.signer_pubkey_hash = None], K2),
   [Real EXCEPT !.signature.readable = FALSE],
   [Real EXCEPT !.signature.classical = NoKey, !.signature.weak_r = TRUE],
   Hybrid,
   [Hybrid EXCEPT !.signature.paired = FALSE],
   [Hybrid EXCEPT !.signature.pq = K2],
   [Hybrid EXCEPT !.signature.classical = K2],
   Sign([RealBody EXCEPT !.algorithm = "rot13"], K1),
   Sign([RealBody EXCEPT !.algorithm = "ml-dsa-65", !.key_id = None], K1),
   Sign([RealBody EXCEPT !.algorithm = "ml-dsa-65", !.ledger_entry_hash = G4.event_hash], K1),
   Sign([RealBody EXCEPT !.algorithm = "ecdsa-p256-sha256"], K2),
   Sign([RealBody EXCEPT !.ledger_entry_hash = G1.event_hash], K1),
   Sign([RealBody EXCEPT !.action_hash = H2], K1)}

\* An event that records a receipt, in place of G3.
Recording(receipt) == Event(ActA, Note(None, ReceiptHash(receipt)), G2.event_hash)
OtherReceipt == [Real EXCEPT !.body = Denied]
X1 == Event(ActA, Note(H2, None), Start)
X2 == Event(ActA, Note(H2, None), G1.event_hash)

(***************************************************************************)
(* Slices: the real exports, and copies with an event altered, altered and  *)
(* hashed again, chained again to the end, dropped, swapped or cut short.   *)
(***************************************************************************)
Slices ==
  {<<G2, G3>>, <<G1, G2, G3, G4>>, <<G2, G3, G4>>, <<G2>>, <<G1, G3, G4>>,
   <<G3, G2>>, <<>>,
   <<G2, [G3 EXCEPT !.payload = Note(None, ReceiptHash(OtherReceipt))]>>,
   <<G2, Recording(OtherReceipt)>>,
   <<G2, Recording(OtherReceipt), G4>>,
   <<X2, G3>>,
   <<X1, G2, G3>>,
   <<[G2 EXCEPT !.payload = Note(H2, None), !.payload_hash = PayloadHash(Note(H2, None))], G3>>,
   <<G2, [G3 EXCEPT !.event_id = Hash("event_id", Material(G2))]>>,
   <<[G2 EXCEPT !.event_hash = None], G3>>,
   <<G2, G3, [G4 EXCEPT !.material = FALSE]>>}

Manifest(events, key) ==
  [schema_ok |-> TRUE, event_count |-> Len(events),
   chain_start |-> IF events = <<>> THEN Start ELSE events[1].previous_event_hash,
   action_id |-> ActA, receipt_public_key |-> key]

Pass == [d \in Documents |-> "passes"]

NoAttestation ==
  [readable |-> FALSE, papers |-> <<>>, subject |-> NoSubject, chains |-> <<>>]

Packet(events, receipt, key) ==
  [base |-> "directory", archive |-> FALSE, readable |-> TRUE,
   manifest |-> Manifest(events, key), receipt |-> receipt, events |-> events,
   documents |-> Pass, attestation |-> NoAttestation]

Export == Packet(<<G2, G3>>, Real, K1)

(***************************************************************************)
(* Archive exports: attested as they are; with a workpaper lost, doubled,   *)
(* in another order, without a hash or with no hex for one; with the record *)
(* of another set; with the chains in another order, only one of them, or   *)
(* two of a kind; and with one thing wrong inside a chain.                  *)
(***************************************************************************)
Attested(papers) == CurrentSubject([papers |-> papers])

TokenOf(subject, authority) ==
  [anchor_type |-> "rfc3161_tsa", complete |-> TRUE,
   token |-> [parses |-> TRUE, sound |-> TRUE, imprint |-> subject.sha256,
              root |-> authority]]

LoggedOf(subject, key, size) ==
  [anchor_type |-> "sth_inclusion", complete |-> TRUE,
   proof |-> [leaf |-> Hash("leaf", subject.sha3_256), climbs |-> TRUE,
              sth_root |-> Hash("root", size), sth_tree_size |-> size],
   sth |-> [root_hash |-> Hash("root", size), tree_size |-> size, signed_by |-> key]]

Attestation(papers, subject, chains) ==
  [readable |-> TRUE, papers |-> papers, subject |-> subject, chains |-> chains]

Both   == Attested(<<P1, P2>>)
Token  == TokenOf(Both, Tsa1)
Logged == LoggedOf(Both, K1, 2)
RealAttestation == Attestation(<<P1, P2>>, Both, <<Token, Logged>>)

Attestations ==
  {[RealAttestation EXCEPT !.papers = papers] :
     papers \in {<<P1, P2>>, <<P2, P1>>, <<P1>>, <<P1, P2, P2>>, <<P1, None, P2>>,
                <<P1, NotHex>>, <<>>}}
  \cup {Attestation(<<P1>>, Attested(<<P1>>), <<Token, Logged>>),
        Attestation(<<P1, P2>>, NoSubject, <<>>),
        Attestation(<<>>, NoSubject, <<>>),
        Attestation(<<P1, P2>>, [Both EXCEPT !.sha256 = NotHex], <<Token, Logged>>)}
  \cup {[RealAttestation EXCEPT !.chains = chains] :
          chains \in {<<Logged, Token>>, <<Token>>, <<Logged>>,
                     <<TokenOf(Both, Tsa2), Token, Logged>>,
                     <<Token, LoggedOf(Both, K2, 1), Logged>>}}
  \cup {[RealAttestation EXCEPT !.chains[1] = chain] :
          chain \in {[Token EXCEPT !.complete = FALSE], [Token EXCEPT !.token.parses = FALSE],
                    [Token EXCEPT !.token.sound = FALSE], TokenOf(Attested(<<P1>>), Tsa1)}}
  \cup {[RealAttestation EXCEPT !.chains[2] = chain] :
          chain \in {[Logged EXCEPT !.complete = FALSE], [Logged EXCEPT !.proof.climbs = FALSE],
                    [Logged EXCEPT !.proof.sth_tree_size = 1],
                    [Logged EXCEPT !.sth.root_hash = Hash("root", 1)],
                    LoggedOf(Attested(<<P1>>), K1, 2)}}

Archived(events, attestation) ==
  [Packet(events, Real, K1) EXCEPT !.archive = TRUE, !.manifest.schema_ok = FALSE,
                                   !.attestation = attestation]

MCPackets ==
  {Packet(s, r, K1) : s \in Slices, r \in {Real, OtherReceipt}}
  \cup {Packet(s, r, k) : s \in {<<G2, G3>>, <<G2, Recording(OtherReceipt), G4>>},
                          r \in Receipts, k \in {K1, K2, Weak, NoKey}}
  \cup {Packet(<<G2, Recording(r)>>, r, K1) : r \in Receipts}
  \cup {[Export EXCEPT !.documents[d] = o] : d \in Documents, o \in {"fails", "raises"}}
  \cup {[Export EXCEPT !.base = b] : b \in {"unsafe_zip", "missing"}}
  \cup {Archived(s, RealAttestation) : s \in Slices}
  \cup {Archived(<<G1, G2, G3>>, a) : a \in Attestations \cup {NoAttestation}}
  \cup {[Export EXCEPT !.attestation = RealAttestation],
        [Archived(<<G2, G3>>, RealAttestation) EXCEPT !.manifest.event_count = 3],
        [Archived(<<G2, G3>>, RealAttestation) EXCEPT !.manifest.chain_start = Start]}
  \cup {[Export EXCEPT !.readable = FALSE],
        [Export EXCEPT !.manifest.schema_ok = FALSE],
        [Export EXCEPT !.manifest.event_count = 3],
        [Export EXCEPT !.manifest.chain_start = Start],
        [Export EXCEPT !.manifest.action_id = ActB]}

(***************************************************************************)
(* Command lines.                                                           *)
(***************************************************************************)
Entry(key, revoked, active) == [public_key |-> key, revoked |-> revoked, active |-> active]
Rings ==
  {Kid1 :> Entry(K1, FALSE, TRUE),
   Kid1 :> Entry(K1, FALSE, FALSE) @@ Kid2 :> Entry(K2, FALSE, TRUE),
   Kid1 :> Entry(K1, TRUE, FALSE) @@ Kid2 :> Entry(K2, FALSE, TRUE),
   Kid2 :> Entry(K2, FALSE, TRUE),
   Kid1 :> Entry(K2, FALSE, TRUE)}

Plain ==
  [runnable |-> TRUE, oqs |-> TRUE, archive_export |-> FALSE,
   pinned |-> FALSE, pin |-> NoKey,
   keyring_given |-> FALSE, keyring_readable |-> TRUE, keyring |-> <<>>,
   checkpoint |-> None, sth_key |-> NoKey, tsa_roots |-> {}, asn1 |-> TRUE]

Trusting ==
  {Plain}
  \cup {[Plain EXCEPT !.pinned = TRUE, !.pin = k] : k \in {K1, K2, NoKey}}
  \cup {[Plain EXCEPT !.keyring_given = TRUE, !.keyring = r] : r \in Rings}
  \cup {[Plain EXCEPT !.keyring_given = TRUE, !.keyring = Kid1 :> Entry(K1, FALSE, TRUE),
                      !.pinned = TRUE, !.pin = k] : k \in {K1, NoKey}}

Checkpoints == {None, G1.event_hash, G2.event_hash, G3.event_hash,
                Recording(OtherReceipt).event_hash}

MCCommands ==
  {[c EXCEPT !.checkpoint = h] : c \in Trusting, h \in Checkpoints}
  \cup {[Plain EXCEPT !.checkpoint = h, !.oqs = FALSE] : h \in Checkpoints}
  \cup {[Plain EXCEPT !.runnable = FALSE],
        [Plain EXCEPT !.archive_export = TRUE],
        [Plain EXCEPT !.tsa_roots = {Tsa1}, !.asn1 = FALSE],
        [Plain EXCEPT !.keyring_given = TRUE, !.keyring_readable = FALSE]}
  \cup {[Plain EXCEPT !.sth_key = k, !.tsa_roots = r] :
          k \in {NoKey, K1, K2}, r \in {{}, {Tsa1}, {Tsa1, Tsa2}}}

=============================================================================

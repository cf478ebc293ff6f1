-------------------------- MODULE MCReceiptVerifier --------------------------
(***************************************************************************)
(* A small instance: a slice of three events, receipts signed, altered or   *)
(* signed by someone else, and the command lines a caller may type.         *)
(***************************************************************************)
EXTENDS ReceiptPromise, EvidenceSamples, TLC

CONSTANTS K1, K2, Weak, Kid1, Kid2

Link(h, prev) == [object |-> TRUE, event_hash |-> h, previous_event_hash |-> prev]
Ev(name) == Hash("event_hash", name)

E1 == Link(Ev("e1"), Ev("e0"))
E2 == Link(Ev("e2"), Ev("e1"))
E3 == Link(Ev("e3"), Ev("e2"))
NoHash == Link(None, Ev("e2"))
NotAnObject == [object |-> FALSE, event_hash |-> None, previous_event_hash |-> None]

\* Whole, cut, out of order, empty, with an event that is no object
\* and one that declares no hash.
Slices == {<<>>, <<E1, E2, E3>>, <<E2>>, <<E3>>, <<E1, E3, E2>>,
           <<E1, NotAnObject, E3>>, <<E3, NotAnObject>>, <<E2, NoHash>>}

Body(alg, kid, key, entry) ==
  [algorithm |-> alg, key_id |-> kid, signer_pubkey_hash |-> Hash("pubkey", key),
   ledger_entry_hash |-> entry, decision |-> "ALLOW"]

RealBody == Body("ed25519", Kid1, K1, Ev("e2"))
Real == Sign(RealBody, K1)
Hybrid == Sign(Body(HYBRID, Kid1, K1, Ev("e2")), K1)

Receipts ==
  {Real,
   [Real EXCEPT !.body.decision = "DENY"],
   Sign([RealBody EXCEPT !.signer_pubkey_hash = None], K2),
   Sign(RealBody, K2),
   [Real EXCEPT !.signature.readable = FALSE],
   [Real EXCEPT !.signature.classical = NoKey, !.signature.weak_r = TRUE],
   Sign([RealBody EXCEPT !.key_id = None, !.ledger_entry_hash = None], K1),
   Sign([RealBody EXCEPT !.algorithm = "rot13"], K1),
   Sign([RealBody EXCEPT !.algorithm = "ecdsa-p256-sha256"], K1),
   Sign([RealBody EXCEPT !.algorithm = "ml-dsa-65"], K1),
   Sign([RealBody EXCEPT !.algorithm = "ml-dsa-65"], K2),
   Hybrid,
   [Hybrid EXCEPT !.signature.paired = FALSE],
   [Hybrid EXCEPT !.signature.pq = K2]}

NoAttestation == [complete |-> FALSE, readable |-> TRUE, workpapers |-> {}, chains |-> {}]

Document(receipt, key, slice) ==
  [readable |-> TRUE, attested |-> FALSE, attestation |-> NoAttestation,
   receipt_present |-> TRUE, receipt |-> receipt, public_key |-> key,
   sliced |-> slice # <<>>, slice |-> slice,
   material_embedded |-> TRUE, material_required |-> FALSE]

Plainly == Document(Real, K1, <<>>)

Attested(complete, readable, workpapers, chains) ==
  [Plainly EXCEPT !.attested = TRUE, !.attestation =
     [complete |-> complete, readable |-> readable,
      workpapers |-> workpapers, chains |-> chains]]

ChainLink(algorithm, root) == [algorithm |-> algorithm, root |-> root]
Papers == {"w1", "w2"}

MCInputs ==
  {Document(r, k, s) : r \in Receipts, k \in {K1, K2, NoKey},
                       s \in {<<>>, <<E1, E2, E3>>, <<E3>>}}
  \cup {Document(Real, k, s) : k \in {K1, NoKey}, s \in Slices}
  \cup {[Document(Real, K1, s) EXCEPT !.material_embedded = FALSE,
                                      !.material_required = q] :
          s \in {<<>>, <<E1, E2, E3>>}, q \in BOOLEAN}
  \cup {[Plainly EXCEPT !.readable = FALSE], [Plainly EXCEPT !.receipt_present = FALSE],
        [Plainly EXCEPT !.sliced = TRUE],
        Document(Real, Weak, <<>>),
        Attested(FALSE, TRUE, {}, {}),
        Attested(TRUE, FALSE, Papers, {})}
  \cup {Attested(TRUE, TRUE, w, {ChainLink(alg, root)}) :
          w \in {Papers, {"w1"}}, alg \in {"sha256", "sha3-256", "md5"},
          root \in {None, Hash("sha256", Papers), Hash("sha3-256", Papers)}}
  \cup {Attested(TRUE, TRUE, Papers,
          {ChainLink("sha256", Hash("sha256", {"w1"})),
           ChainLink("sha3-256", Hash("sha3-256", Papers))})}

Entry(key, revoked, active) == [public_key |-> key, revoked |-> revoked, active |-> active]
Rings ==
  {Kid1 :> Entry(K1, FALSE, TRUE),
   Kid1 :> Entry(K1, FALSE, FALSE) @@ Kid2 :> Entry(K2, FALSE, TRUE),
   Kid1 :> Entry(K1, TRUE, FALSE) @@ Kid2 :> Entry(K2, FALSE, TRUE),
   Kid2 :> Entry(K2, FALSE, TRUE),
   Kid1 :> Entry(K2, FALSE, TRUE),
   Kid1 :> Entry(Weak, FALSE, FALSE)}

Plain ==
  [runnable |-> TRUE, oqs |-> TRUE, trust_material_complete |-> FALSE,
   pinned |-> FALSE, pin |-> NoKey, keyring_given |-> FALSE, keyring_readable |-> TRUE,
   keyring |-> <<>>, checkpoint |-> None]

Trusting ==
  {Plain}
  \cup {[Plain EXCEPT !.pinned = TRUE, !.pin = k] : k \in {K1, K2, NoKey}}
  \cup {[Plain EXCEPT !.keyring_given = TRUE, !.keyring = r] : r \in Rings}
  \cup {[Plain EXCEPT !.oqs = FALSE],
        [Plain EXCEPT !.oqs = FALSE, !.keyring_given = TRUE,
                      !.keyring = Kid1 :> Entry(K1, FALSE, FALSE)],
        [Plain EXCEPT !.oqs = FALSE, !.keyring_given = TRUE,
                      !.keyring = Kid1 :> Entry(K1, TRUE, FALSE)]}

MCCommands ==
  {[c EXCEPT !.checkpoint = h, !.trust_material_complete = b] :
     c \in Trusting, h \in {None, Ev("e0"), Ev("e1"), Ev("e3")}, b \in BOOLEAN}
  \cup {[Plain EXCEPT !.runnable = FALSE],
        [Plain EXCEPT !.keyring_given = TRUE, !.keyring_readable = FALSE],
        [Plain EXCEPT !.keyring_given = TRUE, !.keyring = Kid1 :> Entry(K1, FALSE, TRUE),
                      !.pinned = TRUE, !.pin = K1]}

=============================================================================

---------------------------- MODULE MCBrowserApp ----------------------------
(***************************************************************************)
(* A small instance: a packet the operator signed, one signed again by      *)
(* someone else, one a check of verify.py raises on, an archive export and  *)
(* a share pack; the operator's keyring, and a site that serves another.    *)
(***************************************************************************)
EXTENDS BrowserPromise, EvidenceSamples, TLC

CONSTANTS OurKey, ForgerKey, Kid, Act, ActHash,
          Good, Forged, Raising, Archive, Share, Own, Sites

G1 == Event(Act, Note(ActHash, None), Start)

SignedBody(key) ==
  [algorithm |-> "ed25519", key_id |-> Kid, signer_pubkey_hash |-> Hash("pubkey", key),
   ledger_entry_hash |-> G1.event_hash, action_hash |-> ActHash, decision |-> "ALLOW"]

SignedBy(key) ==
  [base |-> "directory", archive |-> FALSE, readable |-> TRUE,
   manifest |-> [schema_ok |-> TRUE, event_count |-> 1, chain_start |-> Start,
                 action_id |-> Act, receipt_public_key |-> key],
   receipt |-> Sign(SignedBody(key), key), events |-> <<G1>>,
   documents |-> [d \in Documents |-> "passes"],
   attestation |-> [readable |-> TRUE, papers |-> <<>>, subject |-> NoSubject, chains |-> <<>>]]

File(packet) == [kind |-> "packet", packet |-> packet, pack_ok |-> TRUE, seal_key |-> NoKey]

MCContent ==
  [f \in Files |->
     CASE f = Good    -> File(SignedBy(OurKey))
       [] f = Forged  -> File(SignedBy(ForgerKey))
       [] f = Raising -> File([SignedBy(OurKey) EXCEPT !.documents["settlement_anchor"] = "raises"])
       [] f = Archive -> File([SignedBy(ForgerKey) EXCEPT !.archive = TRUE,
                                                          !.manifest.schema_ok = FALSE])
       [] f = Share   -> [File(SignedBy(OurKey)) EXCEPT !.kind = "share_pack", !.seal_key = OurKey]]

MCKeyring ==
  [r \in {Own, Sites} |->
     [readable |-> TRUE,
      entries |-> Kid :> [public_key |-> IF r = Own THEN OurKey ELSE ForgerKey,
                          revoked |-> FALSE, active |-> TRUE]]]

=============================================================================

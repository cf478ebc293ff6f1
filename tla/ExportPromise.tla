--------------------------- MODULE ExportPromise ---------------------------
(***************************************************************************)
(* What an accepted tenant export shows, with the operator's key pinned.    *)
(***************************************************************************)
EXTENDS TenantExport

\* Events are numbered as recorded, and only a sealed archive is accepted.
TypeOK ==
  /\ Len(ledger) <= MaxLedger
  /\ \A n \in DOMAIN ledger :
       ledger[n].n = n /\ \E k \in Kinds : InScope(ledger[n], k.tenant_id, k.action_id)
  /\ archive.made => archive.payload.tree_size \in DOMAIN ledger
  /\ accepted \in BOOLEAN /\ changed \in BOOLEAN
  /\ accepted \/ changed => archive.made

Rows == archive.files.events

(***************************************************************************)
(* Every event of an accepted export stands where its row says: the event   *)
(* the operator's ledger holds at that index, in the tree the seal names,   *)
(* however rows, indices and audit paths of other leaves and other tree     *)
(* sizes were mixed up (root_from_path).                                    *)
(***************************************************************************)
EventsStandWhereTheySay ==
  accepted => \A i \in DOMAIN Rows :
    /\ Rows[i].leaf_index < archive.payload.tree_size
    /\ Rows[i].event.content = ledger[Rows[i].leaf_index + 1]

(***************************************************************************)
(* An accepted export holds events of its tenant only - a share pack, of    *)
(* its action only - and its receipts are of those events.                  *)
(***************************************************************************)
NothingOfAnother ==
  LET manifest == archive.files.manifest IN
  accepted =>
    /\ \A i \in DOMAIN Rows :
         InScope(Rows[i].event.content, manifest.tenant_id, manifest.action_id)
    /\ \A i \in DOMAIN archive.files.receipts : \E n \in DOMAIN ledger :
         /\ InScope(ledger[n], manifest.tenant_id, manifest.action_id)
         /\ archive.files.receipts[i].ledger_entry_hash = EventHash(ledger[n])

(***************************************************************************)
(* An accepted archive is the one the operator sealed, file for file: no    *)
(* change without the operator's key goes unnoticed, whether or not the     *)
(* digests are brought into line and the seal is made again.                *)
(***************************************************************************)
AcceptedIsSealed == accepted => ~changed

(***************************************************************************)
(* The export as it should be is accepted: of any tenant or action, from    *)
(* the tree at any size, with the ledger grown since.                       *)
(***************************************************************************)
AsItShouldBe ==
  LET manifest == archive.files.manifest
      receipts == archive.files.receipts
  IN /\ archive.made /\ ~changed /\ manifest.schema_version = Schema
     /\ Len(receipts) = 1
     /\ \E k \in DOMAIN Rows : receipts[1] = ReceiptFor(Rows[k].event)
     /\ Rows = TrueRows(archive.payload.tree_size, manifest.tenant_id, manifest.action_id)

HonestExportsPass == accepted \/ ~AsItShouldBe

=============================================================================

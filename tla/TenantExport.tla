---------------------------- MODULE TenantExport ----------------------------
(***************************************************************************)
(* verify_tenant_export.py and the archives it judges: an operator keeps one *)
(* ledger for all its tenants, exports one tenant's events (or, as a share  *)
(* pack, one action's) with their place in the ledger's tree, and seals the *)
(* archive; somebody without the operator's key may then change it.  The    *)
(* operator's exporter may be wrong: a row may be another event, or name    *)
(* another place, and a receipt may belong to an event that is left out.    *)
(***************************************************************************)
EXTENDS LedgerTree, FiniteSets

CONSTANTS
  Kinds,        \* the [tenant_id, action_id] an event may have
  OperatorKey,  \* the seal key the verifier's caller pinned
  StrangerKey,  \* a key of somebody else
  ReceiptKey,   \* the key receipts are signed with
  NoAction,     \* an export of the whole tenant names no action
  MaxLedger,    \* bound: events in the ledger
  MaxPerKind    \* bound: events of one tenant's action

ASSUME ExportAssumption == OperatorKey # StrangerKey /\ {MaxLedger, MaxPerKind} \subseteq Nat

VARIABLES
  ledger,   \* every tenant's events, oldest first
  archive,  \* the sealed archive
  changed,  \* somebody without the operator's key has changed it
  accepted  \* verify_tenant_export.py, with the operator's key pinned, accepts it

vars == <<ledger, archive, changed, accepted>>

NoArchive == [made |-> FALSE]

Init ==
  /\ ledger = <<>>
  /\ archive = NoArchive
  /\ changed = FALSE /\ accepted = FALSE

(***************************************************************************)
(* Events and rows.  An event's hashes recompute from what it says exactly  *)
(* when event_hash is the hash of its content.                              *)
(***************************************************************************)
EventHash(content) == <<"event_hash", content>>

\* What the n-th event says.
Content(kind, n) ==
  [tenant_id |-> kind.tenant_id, action_id |-> kind.action_id, n |-> n]

Event(n) == [content |-> ledger[n], event_hash |-> EventHash(ledger[n])]

\* The leaves of the ledger's tree when it held `size` events.
Leaves(size) == [n \in 1..size |-> EventHash(ledger[n])]

Row(n, index, path) == [event |-> Event(n), leaf_index |-> index, audit_path |-> path]

TrueRow(n, size) == Row(n, n - 1, AuditPath(Leaves(size), n - 1))

\* The events of an export's scope, in ledger order.
InScope(content, tenant, action) ==
  content.tenant_id = tenant /\ (action = NoAction \/ content.action_id = action)

ScopeOf(size, tenant, action) ==
  {n \in 1..size : InScope(ledger[n], tenant, action)}

\* The n-th smallest of a set of positions, as a sequence.
InOrder(S) ==
  [k \in 1..Cardinality(S) |->
     CHOOSE n \in S : Cardinality({m \in S : m < n}) = k - 1]

TrueRows(size, tenant, action) ==
  LET positions == InOrder(ScopeOf(size, tenant, action))
  IN [k \in DOMAIN positions |-> TrueRow(positions[k], size)]

\* A receipt: the event it names, the key that made it, the key id it names.
ReceiptFor(event) ==
  [key_id |-> "receipt_key", made_by |-> ReceiptKey, ledger_entry_hash |-> event.event_hash]

(***************************************************************************)
(* The seal: a payload signed with the seal key.  A digest of a file stands *)
(* for the file.                                                            *)
(***************************************************************************)
Files == {"manifest", "events", "receipts", "keys"}

\* The schema the verifier knows, and one of another version of the exporter.
Schema      == "v1"
OtherSchema == "other"

Manifest(schema, tenant, action) ==
  [schema_version |-> schema, tenant_id |-> tenant, action_id |-> action]

PayloadOf(files, size, root) ==
  [schema |-> files.manifest.schema_version,
   digests |-> files, tenant_id |-> files.manifest.tenant_id,
   action_id |-> files.manifest.action_id, event_count |-> Len(files.events),
   tree_size |-> size, root |-> root]

Sealed(files, payload, key) ==
  [made |-> TRUE, files |-> files, payload |-> payload,
   seal_key |-> key, signed |-> [payload |-> payload, by |-> key]]

(***************************************************************************)
(* verify_archive.                                                          *)
(***************************************************************************)
SchemaHolds(a) == a.files.manifest.schema_version = Schema /\ a.payload.schema = Schema

SealHolds(a, pinned) ==
  /\ a.seal_key = pinned
  /\ a.signed = [payload |-> a.payload, by |-> a.seal_key]

\* A variant whose list of digested files stops short of the keys.
DigestsHoldButKeys(a) ==
  \A name \in Files \ {"keys"} : a.payload.digests[name] = a.files[name]

DigestsHold(a) == \A name \in Files : a.payload.digests[name] = a.files[name]

ManifestHolds(a) ==
  /\ a.payload.tenant_id = a.files.manifest.tenant_id
  /\ a.payload.action_id = a.files.manifest.action_id
  /\ a.payload.event_count = Len(a.files.events)

\* A variant that looks at the action of the first row only.
ScopeHoldsForTheFirst(a) ==
  \/ a.files.manifest.action_id = NoAction
  \/ a.files.events = <<>>
  \/ a.files.events[1].event.content.action_id = a.files.manifest.action_id

\* _scope_failures finds nothing.
ScopeHolds(a) ==
  \/ a.files.manifest.action_id = NoAction
  \/ \A i \in DOMAIN a.files.events :
       a.files.events[i].event.content.action_id = a.files.manifest.action_id

RowHolds(a, row) ==
  /\ row.event.event_hash = EventHash(row.event.content)
  /\ row.event.content.tenant_id = a.files.manifest.tenant_id
  /\ PathHolds(Leaf(row.event.event_hash), row.leaf_index, a.payload.tree_size,
               row.audit_path, a.payload.root)

ReceiptHolds(a, receipt) ==
  /\ receipt.key_id \in DOMAIN a.files.keys
  /\ receipt.made_by = a.files.keys[receipt.key_id]
  /\ \E i \in DOMAIN a.files.events :
       a.files.events[i].event.event_hash = receipt.ledger_entry_hash

Accepts(a, pinned) ==
  /\ SchemaHolds(a) /\ SealHolds(a, pinned)
  /\ DigestsHold(a) /\ ManifestHolds(a) /\ ScopeHolds(a)
  /\ \A i \in DOMAIN a.files.events : RowHolds(a, a.files.events[i])
  /\ \A i \in DOMAIN a.files.receipts : ReceiptHolds(a, a.files.receipts[i])

(***************************************************************************)
(* The operator                                                             *)
(***************************************************************************)
\* A variant that gives an event the number of the one before it.
AppendEventNumberedLow(kind) ==
  /\ Len(ledger) < MaxLedger
  /\ Cardinality(ScopeOf(Len(ledger), kind.tenant_id, kind.action_id)) < MaxPerKind
  /\ ~archive.made
  /\ ledger' = Append(ledger, Content(kind, Len(ledger)))
  /\ UNCHANGED <<archive, changed, accepted>>

AppendEvent(kind) ==
  /\ Len(ledger) < MaxLedger
  /\ Cardinality(ScopeOf(Len(ledger), kind.tenant_id, kind.action_id)) < MaxPerKind
  /\ ~archive.made
  /\ ledger' = Append(ledger, Content(kind, Len(ledger) + 1))
  /\ UNCHANGED <<archive, changed, accepted>>

Issue(manifest, size, rows, receipts) ==
  LET files == [manifest |-> manifest, events |-> rows, receipts |-> receipts,
                keys |-> [id \in {"receipt_key"} |-> ReceiptKey]]
      sealed == Sealed(files, PayloadOf(files, size, MerkleRoot(Leaves(size))),
                       OperatorKey)
  IN /\ ~archive.made
     /\ archive' = sealed
     /\ accepted' = Accepts(sealed, OperatorKey)
     /\ UNCHANGED <<ledger, changed>>

\* The whole scope, from the tree as it is or as it once was, with a receipt
\* of its last event.
SealWhole(schema, tenant, action, size) ==
  LET rows == TrueRows(size, tenant, action) IN
  /\ rows # <<>>
  /\ Issue(Manifest(schema, tenant, action), size, rows,
           <<ReceiptFor(rows[Len(rows)].event)>>)

\* The export as it should be, and that of another version of the exporter.
SealExport(tenant, action, size)       == SealWhole(Schema, tenant, action, size)
SealOtherVersion(tenant, action, size) == SealWhole(OtherSchema, tenant, action, size)

\* The audit paths an exporter may confuse: of any leaf, in any earlier tree.
AuditPaths == UNION {{AuditPath(Leaves(size), n - 1) : n \in 1..size} :
                       size \in DOMAIN ledger}

\* An export of one event of its scope, at some place.
SealMisplacedRow(n, index, path) ==
  Issue(Manifest(Schema, ledger[n].tenant_id, ledger[n].action_id), Len(ledger),
        <<Row(n, index, path)>>, <<>>)

\* An export with an event more, at its true place.
SealStrayEvent(tenant, action, n) ==
  Issue(Manifest(Schema, tenant, action), Len(ledger),
        Append(TrueRows(Len(ledger), tenant, action), TrueRow(n, Len(ledger))), <<>>)

\* An export with the receipt of an event that may be outside it.
SealStrayReceipt(tenant, action, n) ==
  Issue(Manifest(Schema, tenant, action), Len(ledger),
        TrueRows(Len(ledger), tenant, action), <<ReceiptFor(Event(n))>>)

(***************************************************************************)
(* Somebody without the operator's key changes one file, and may bring the  *)
(* seal's payload into line, and may sign it with a key of their own.       *)
(***************************************************************************)
Changed(files, name) ==
  CASE name = "manifest" -> [files EXCEPT !.manifest.action_id = NoAction]
    [] name = "events"   -> [files EXCEPT !.events = SubSeq(@, 1, Len(@) - 1)]
    [] name = "receipts" -> [files EXCEPT !.receipts = <<>>]
    [] name = "keys"     -> [files EXCEPT !.keys = [id \in {"receipt_key", "other"} |->
                                                      ReceiptKey]]

Change(name, effort) ==
  LET files   == Changed(archive.files, name)
      payload == IF effort = "file" THEN archive.payload
                 ELSE PayloadOf(files, archive.payload.tree_size, archive.payload.root)
      altered == [archive EXCEPT !.files = files, !.payload = payload]
      forged  == IF effort = "resealed" THEN Sealed(files, payload, StrangerKey)
                 ELSE altered
  IN /\ accepted /\ ~changed
     /\ files # archive.files
     /\ archive' = forged /\ changed' = TRUE
     /\ accepted' = Accepts(forged, OperatorKey)
     /\ UNCHANGED ledger

Scopes == {<<k.tenant_id, NoAction>> : k \in Kinds}
          \cup {<<k.tenant_id, k.action_id>> : k \in Kinds}

Operate ==
  \/ \E kind \in Kinds : AppendEvent(kind)
  \/ \E s \in Scopes :
       \/ \E size \in DOMAIN ledger : \/ SealExport(s[1], s[2], size)
                                      \/ SealOtherVersion(s[1], s[2], size)
       \/ \E n \in DOMAIN ledger : \/ SealStrayEvent(s[1], s[2], n)
                                   \/ SealStrayReceipt(s[1], s[2], n)
  \/ \E n, m \in DOMAIN ledger, path \in AuditPaths : SealMisplacedRow(n, m - 1, path)

Next ==
  \/ ~archive.made /\ Operate
  \/ \E name \in Files, effort \in {"file", "digest", "resealed"} :
       Change(name, effort)

Spec == Init /\ [][Next]_vars

=============================================================================

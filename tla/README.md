# A TLA+ development of actaseal-verify

The repository holds programs that judge evidence offline: dispute packets, receipts, tenant exports, file
seals. Each of them ends in a verdict somebody will rely on, so the questions are what an accepted piece of
evidence shows, whether correct evidence is accepted, and whether the programs keep their word when things
happen in an order nobody tried. The modules here model the programs, TLC checks them on small instances, and
TLAPS proves their safety properties for instances of every size.

Contents: [the system](#the-system) - [modules](#modules-and-how-they-follow-the-code) - [runs](#runs) -
[fairness](#fairness) - [proofs](#proofs) - [what the runs refute](#what-the-runs-refute) -
[abstractions](#abstractions) - [not modelled](#not-modelled) - [plan](#plan)

## The system

A gateway (not in the repository) records the events of many actions in one hash-chained ledger, signs a
receipt per action, and later exports evidence about it. Everything here reads such exports.

| part | state it keeps | operations | talks to |
|---|---|---|---|
| `verify.py`, run of `main()` | failure list, receipt failures, key status, keyless flag | options, packet loading, one check after another, verdict | the files of a packet; the checks below |
| `verify.py`, document checks | none (they append to the failure list) | verifier digest, root version, acquisition, custody, authentication, scope, snapshot, approval, anchors, settlement | manifest, receipt, slice, documents, anchor log |
| `verify.py`, continuity checkpoint | none | inclusion climb, consistency proof, signed tree head | checkpoint and proof documents |
| `verify.py`, archive export with RFC 3161 and SCITT checks | failure list | slice, workpaper set, token, transparency receipt | `main()`, third-party parsers |
| `verify_receipt.py` | four failure lists and four booleans, some frozen early and overridden later | options, signature, keyring, chain or checkpoint, material, verdict, `--emit-result` | one JSON document |
| `verify_tenant_export.py` | failure list | `verify_archive`: seal, digests, audit path of every row, receipts, scope | one zip archive |
| `verify_seal.py` | result record | hash sealed files, chain link, signature, timestamp | a directory of live logs; `verify_rfc3161_token` |
| `verify_with_telemetry.py` | captured output | runs `verify.main`, optional ping | `verify.py` |
| `browser/app.js`, `glue.py` | Pyodide, form, buttons, fetched keyring, `/work`, result box | boot, pick, paste, fetch keyring, run, demo | `verify.py` and `verify_tenant_export.py` inside Pyodide |
| `tamper_demo/` | three editors, badge, failure list | edit, reset, verify | WebCrypto |
| `generate_demo_packet.py`, conformance generators, scripts | files | write demo and conformance data | git, network |

What is hard here, and what makes each part right:

* *Early returns and late overrides.* The verifiers are long sequences of checks in which one check relies on
  what another said, returns early, or sets aside a failure a third one reported. Right means: the verdict
  depends on the evidence and the trust material only, and is the one the documentation promises.
* *Trust material in combination.* A pin, a keyring and a checkpoint each set some failures aside. Right
  means: together they accept no more than each does.
* *Interleaved ledgers.* Packets span events of other actions; drafts go out of date; anchoring fails and is
  retried; trees grow after an export. Right means: an accepted packet tells what the ledger recorded of its
  action, and an honest one is accepted.
* *Overlapping asynchronous work* in both pages, over one shared `/work` or one shared badge. Right means:
  what is shown belongs to what was asked, and every question gets an answer.
* *Tree arithmetic.* Right means: for trees of every size, what is proved to be in the tree stands where it
  says.

`PROJECT.json` lists every part and every such hazard with its line and the properties aimed at it.

## Modules and how they follow the code

| module | models | shape |
|---|---|---|
| `Evidence` | hashes, events, receipts, signatures; `verify_events`, `verify_receipt`, `classify_receipt_key`, key binding, checkpoint of `verify.py` | operators that return the set of failure codes, in the code's order of early returns |
| `ArchiveEvidence` | `verify_archive_export`, `verify_rfc3161_token`, `verify_scitt_receipt` | the same, and what raises |
| `PacketVerifier` | `main()` of `verify.py` | one action per call `main()` makes; `pc` is the next call |
| `PacketVerdict` | what a run should answer, by evidence rather than by order of checks | `VerdictOf(command, packet)` |
| `EvidenceVerdict` | the abstract verifier: one step from unanswered to the verdict | refined by both verifiers |
| `PacketPromise` | the properties of a run | |
| `PacketVerifier_proofs`, `NatLemmas` | proofs, and induction over sets of naturals for all of them | |
| `ReceiptVerifier`, `ReceiptPromise`, `ReceiptVerifier_proofs` | `main()` of `verify_receipt.py`, its answers and properties, proofs | one action per block of `main()`; the booleans and lists keep their names |
| `PacketDocuments` | the document checks of `verify.py` | operators; what raises is told apart from what fails |
| `DisputeLedger`, `DisputePromise`, `DisputeLedger_proofs` | a gateway, an exporter and `verify.py`, its promises, proofs | actions `Submit`, `EvaluateScope`, `CaptureSnapshot`, `Approve`, `DraftReceipt`, `Finalize`, `ExportPacket`, `AnchorHead` |
| `LedgerTree` | split point, Merkle root, audit path, `root_from_path` | recursive functions, one per loop or recursion of the code |
| `TenantExport`, `ExportPromise` | an operator who seals exports, somebody who changes them, `verify_archive` | actions `AppendEvent`, `SealExport`, four `Seal...` of faulty exports, `Change` |
| `ContinuityLog`, `ContinuityPromise` | an operator who signs heads of a growing log, somebody who mixes what it gave out, `verify_continuity_checkpoint` | actions `AppendReceipt`, `GiveBundle`, `GiveMixedInclusion`, `GiveMixedConsistency` |
| `LedgerTrees_proofs` | proofs about the tree, and about the exports and the bundles over it | |
| `SealedFiles` | a directory of logs, and the loop of `verify_seal` over the files of a seal | one action per system call of the loop, interleaved with the machine's |
| `FileSeal`, `SealPromise`, `FileSeal_proofs` | the sealing agent, what may be handed to `verify_seal.py`, and the rest of its run, its promises, proofs | `MakeSeal`, `StartRun`, `ConcludeRun`, `RefuseInput`, `Raise` |
| `CanonicalJson` | `canonicalDumps` of `verify_min.js` and `canonical_dumps` of `verify.py` | a text of either is a tuple: kinds, numbers as written, keys in order |
| `DemoData` | `demo_data.js`, the packet the page is shipped with | constant definitions |
| `MinVerifier`, `TamperDemo`, `TamperPromise`, `TamperDemo_proofs` | `verify_min.js` and the page around it, its properties, proofs | a run is a record in `runs`; each turn between two awaits is one action |
| `BrowserApp`, `BrowserPromise`, `BrowserApp_proofs` | `app.js` with `glue.py`, its promises, proofs | a run is a record in `running`, at one of its awaits; `/work` is a variable |
| `EvidenceSamples`, `MC...` | instances for TLC | |

How they compose: `PacketVerifier`, `MinVerifier`, `ReceiptVerifier` and `PacketDocuments` are all built from
`Evidence`, `PacketVerifier` from `ArchiveEvidence` besides; `DisputeLedger` runs `Evidence` and `PacketDocuments` on the packets it exports; `TamperDemo`
compares `MinVerifier` with `Evidence`, each with its own language's `CanonicalJson`; `TenantExport` and `ContinuityLog` stand on the one
`LedgerTree`; `FileSeal` extends `SealedFiles`; and `BrowserApp` calls `PacketVerdict!VerdictOf` where `app.js` calls
`verify.py`. The last is sound because `PacketVerifier_proofs!Implements` proves that a run of `main()` answers
exactly `VerdictOf`.

### verify.py

`packet.documents` of `PacketVerifier` says of each document check whether it passes, fails or raises, so that
the order of `main()` and the exception path (nothing in `main()` catches it: a traceback with exit code 1,
which the caller cannot tell from a failed verification by its exit code) are explored for every combination
that matters. What the checks say is `PacketDocuments`' subject.

`SelectMode` makes the whole of `verify_archive_export`, since nothing of it is visible before its verdict. An
attestation holds the content hashes of the workpapers as the index lists them, the subject its record is about,
and its chains; a set of workpapers is a bag of hashes, because the code sorts them and keeps what is there
twice. What the caller brings is a set of timestamp authorities and a log's key, each of which may be missing.

A hash is a tuple of its domain and its input: equal hashes have equal inputs. A signature records which key
made it over which body, so that "verifies" is a comparison and a forger can do anything but sign for another
key. Weak Ed25519 keys and R values (452-465 of `verify.py`) verify anything in a plain library and are refused
by this one.

### The gateway and its exporter

The gateway writes the events and the receipts the way `generate_demo_packet.py` builds them. It may draft a
receipt, go on recording, and sign the draft later; it may name the approval of another action. The exporter
may choose another span, another action's receipt, or edit a document. One such departure per export
(`MaxDepartures`) keeps what is found attributable. `Faithful` in `DisputePromise` is the export without one.

### Tenant exports

`SealExport` may use any earlier tree size, since the ledger grows while exports are made. `SealMisplacedRow`
combines an event, an index and an audit path that need not belong together; `SealOtherVersion`
is of a schema the verifier does not know; `Change` replaces one file after the seal and, with more effort, its
digest, or the whole seal under another key.

### Continuity checkpoints

The operator signs a head of its log now and then and gives out bundles: a receipt, a head, an inclusion proof,
and perhaps a proof that an older head is of the same log. Entries of a log are receipt hashes; a log *forked at
f* has other entries after its first f. `GiveMixedInclusion` takes receipt, head, path and key from different
places, `GiveMixedConsistency` takes sizes, roots and proof from two logs and loses or doubles a node of the
proof. `ConsistencyProof` is the proof RFC 9162 has a log give out (2.1.4.1), which leaves the old root out where
the old tree is a whole subtree of the new one; `CompletedProof` has it in front, as the RFC's check (2.1.4.2) puts
it there before it starts. `_verify_consistency_nodes` does not, so a correct bundle is accepted with the second and,
where the two differ, refused with the first (`HonestBundlesPass`, `RFCProofsPass`).

### File seals

The verifier of a directory of live logs makes four kinds of system call per file (`os.path.isfile`,
`os.path.islink`, `open`, `read`), each an action of `SealedFiles`; between any two the machine may write a
record, move a log away, put a file or a link in its place, or cut it short. A file is an inode, so an open log
can be renamed or lose its name and is still read. `facts` records, for each listed path, what has been true
of it since the run began; it is history. The documents that are read after the loop (previous seal, signature,
timestamp, the hash the seal states) are chosen in `ConcludeRun`, because nothing looks at them before: a whole
seal as its maker would have it, and all those with one part exchanged.

### The pages

An await is where another click or edit takes its turn, and nothing else is. `overlapped` (`overlap` in `BrowserApp`) records that a
verification started while another was under way, so that a property can say what holds of runs one at a time
and another what the overlap breaks. `shown`, and some fields of `result`, are history for the same reason.

## Runs

| run | question | instance |
|---|---|---|
| `packet_verifier` | does each run answer as promised, and what does an accepted packet show? | a ledger of four events, 16 slices (real, altered, altered and hashed again, cut, swapped), 16 receipts, 4 declared keys, every document outcome; all combinations of five keyrings, pins and five checkpoints; archive exports over the 16 slices and with 26 attestations (workpapers lost, doubled, reordered, without a hash; other subjects; chains missing, reordered, doubled, wrong in one part), with and without timestamp roots and log keys |
| `packet_verifier_docstring` | violation, see below | same |
| `receipt_verifier` | the same of `verify_receipt.py`, with policy, revocation and explanations | 14 receipts, 8 slices, attestations, 6 keyrings, pins, 4 checkpoints, the policy flag |
| `receipt_rotated_out` | violation | same |
| `receipt_refused` | violation | same |
| `pages` | the demo: does the badge show a verdict on one text, the right one, and does one follow? The app: do runs give the command line's verdict, is PINNED the user's key, does every click get a result? | the demo: 27 texts, the shipped packet and five edits a reader may try, another packet and twenty variants of it, four with a payload retyped by hand and two with an honest payload at the edge of what both languages read alike; `MaxEdits = 2`: up to three verifications overlap. The app: three files, one key to paste (`Pasted`), `MaxClicks = 2`: two overlapping runs, the form changing at every await |
| `tamper_demo_stale` | violation | the demo, same |
| `browser_overlap` | violation | the app, five files, same sessions |
| `dispute_ledger` | what does an accepted packet tell of the ledger; are honest ones accepted? | two actions, `MaxLedger = 5`, `MaxRecords = 2`, `MaxAnchors = 2`, `MaxDepartures = 1`, six edits |
| `dispute_approval` | violation | approvals of version 1 too |
| `documents` | what does an accepted export or continuity bundle show; are correct ones accepted? Is what `verify_seal.py` reports true of a directory that changes meanwhile, and what does a verified seal show? | exports: three kinds of event over two tenants, `MaxLedger = 5`, `MaxPerKind = 2`; bundles: `MaxLog = 6`, forks at every size; seals: two paths, three files, up to two records each, `MaxChanges = 3`, a chain of `MaxSeals = 2` |
| `continuity_rfc` | violation | same |

`pages` and `documents` each put components side by side that have no state in common, so that their interleavings
say nothing about either. A behaviour of `documents` moves one of the three, from the start of all. In `pages` both
pages are open: the user turns to one of them when the other is at rest and untouched, and each does by itself what
its fairness asks for (the demo's verification of its own packet, the boot of the app), whatever the other is at. So
every behaviour of either page is there, and no fair step is ever kept waiting by the other page.

Why the bounds are enough to be interesting:

* Four ledger events hold every order of entry, recording event and checkpoint with a stranger on each side,
  and equal positions too. The theorems remove the bound, as those of the other parts remove theirs.
* Three verifications (two edits) are the fewest in which the newest run neither starts first nor ends last
  of all; two clicks are all an overlap of two runs under one `/work` needs.
* Payloads hold numbers as digits, with a point, as fractions, at the largest exact integer and beyond it, alone
  and inside objects and arrays, and keys that sort differently by code unit and by code point. `MaxSafe = 4`
  stands for 2^53: up to twice that, doubles are the even integers, for 4 as for 2^53.
* Five events are needed for a span with another action's event between two of one action that also has
  scope, snapshot or approval. Two records of a type make "the last one" differ from "the first one".
* Five leaves are the smallest tree in which the last leaf is two levels above the others and
  `root_from_path` takes its inner loop more than once. A log of six has, besides, every shape of a consistency
  proof: an old tree inside the left half, across it, a whole subtree, and of one leaf. Logs that grow further repeat
  them, and heads are mixed at the largest size only, since a smaller one is a head of the larger log too.
* Three changes are the fewest that take a log away, put a link there and put the log back, so that each test
  of a path sees something else, or that write to a log, rename it and put a new one in its place while it is
  read. Three files let a path lead to one no seal knows. Two records are the fewest that make "read in pieces"
  differ from "read". Two seals make one link. The machine leaves runs on forged seals alone and one document is
  exchanged at a time: the loop sees the file list only, and the parts it never looks at cannot affect it.

Symmetry is used in `dispute_ledger`, on the two actions, and in `documents`, on paths and files; no property
names one of them. No liveness property is checked in either. The configurations have `CHECK_DEADLOCK FALSE` because the systems do stop: a run of a
verifier ends, and a session of a page or a ledger ends at its bound. Each property has a mutant in `PROJECT.json`, a plausible bug of the code
under which TLC finds the property violated; the one for `HonestPacketsPass` is a bug the code once had
(`tests/test_verify_demo_packet.py`, 72-86).

## Fairness

`PacketVerifier` and `ReceiptVerifier` have weak fairness of `Next`: a sequential program that was started
goes on. `TamperDemo` has it for each run: every WebCrypto promise settles. `BrowserApp` has it for each run
and for boot: a file read, a fetch and a Pyodide load settle, with a value or with an error (`GetFails`), and
the next turn is taken then. Nothing is assumed of the user, who may stop, or of the order in which promises
settle. The ledger modules are checked for safety only: nobody promises that a gateway goes on.

## Proofs

Every invariant and action property that a passing run checks is a theorem, with the one exception named at the end.
A run shows it on its instance; the theorem has no bound: every ledger, log, set of files, sequence of texts, number
of clicks, and so on, that meets the named assumptions.

### One run of a verifier

`PacketVerifier_proofs`, for every ledger, set of packets and set of command lines:

| theorem | says |
|---|---|
| `TypeCorrect` | the type invariant |
| `Implements` | a run answers once, and `VerdictOf` of its inputs |
| `TamperEvidence` | an accepted slice, of a packet or of an archive export, that shares an event hash with the real ledger shares the history up to it |
| `ChainOnlyIsGrounded` | a keyless verdict under a real checkpoint rests on a ledger event that records this receipt |
| `StatusIsTheSigners` | the key status printed is that of the key whose holder signed |
| `TrustNarrows` | a pin, a keyring or a checkpoint accepts no more packets; a timestamp root or a log key no more archive exports |

and `ReceiptVerifier_proofs`, for every set of documents and command lines: `TypeCorrect`, `Implements`,
`Explained`, `KeyringDecides`, `RevokedIsRefused`, `PolicyIsOnlyPolicy`.

None of the properties is inductive: in the middle of a run, nothing in
them says what the failure list holds. The inductive invariant `IInv` is indexed by the stage of the run: at
each call, each list and each boolean equals an operator of the command line and the evidence, namely what the
calls that have returned must have left there. One lemma per action shows that it is kept. At the end of
the run, `IInv` gives the answer as an operator of the inputs; lemmas about the checks
(`EventsReportNothing`, `ArchiveReportsNothing`, `CheckpointReportsNothing` and the like: what it means for a check to have reported
nothing) turn that into `VerdictOf` or `AnswerOf`, and `Implements` follows by step simulation. The other theorems then
talk about `VerdictOf` and `AnswerOf` and need no run. `TamperEvidence` goes back along the chain: two equal event hashes
have equal material, which includes the previous hash (`WalkBack`, by induction on the distance,
through `NatLemmas!LeastElement`).

### The pages

| theorem of `TamperDemo_proofs` | says, for every sequence of texts and number of edits |
|---|---|
| `TypeCorrect` | every run of `verifyPacket` is one edit's, inside its own loop |
| `BadgeIsOneTextsVerdict` | however the runs overlap, the badge is the verdict on one whole text, and the list beside it fits |
| `InOrderBadge` | while nobody edits during a verification, the badge is the verdict on the text in the editors |
| `PageAgreesWithVerifyPy` | of a text both programs read the same way the page says VERIFIED exactly when `verify.py` reports none of the codes the port has |

| theorem of `BrowserApp_proofs` | says, for every set of files and keyrings and number of clicks |
|---|---|
| `TypeCorrect` | runs are told apart by their click, and after `boot()` the buttons are those of the form |
| `OneRunAnswersAsTheCommandLine` | runs that do not overlap show the command line's verdict on the file they were started for |
| `PinnedUnderTheUsersKey` | PINNED is a signature by a key the user pasted or of a keyring the user picked, with any overlap |

In `TamperDemo_proofs` the invariant is about each run for itself: its failures are empty exactly when the checks
behind it in the loop have all passed (`RunOK`). At its end all are behind it but the receipt's, and
`Verdict` says that checks which all pass are a text that is verified. That no run writes another's verdict needs
nothing about their order; `InOrderBadge` needs that without an overlap, what runs is about the text that is there.

`PageAgreesWithVerifyPy` comes down to `OneForm`: a payload that is `PlainData` has one canonical text in both
languages, nested however deep and with keys of any length. It takes three steps.

* *The order of keys.* `Before` is a strict total order (`NotBeforeItself`, `BeforeWhatIsAfter`, `OneIsBefore`), and a
  strict total order gives each element of a finite set a rank of its own (`RanksAreTaken`), so that `Sorted`
  does list each key (`SortedIs`). Keys that do not mix code points beyond U+FFFF with units from U+E000 on come in
  the same order by unit and by code point (`OneOrder`).
* *Unfolding.* `JsForm`, `PyForm` and `PlainData` are recursive functions over nested values. What each makes of a value
  depends on what it makes of the parts (`SamePartsSameForm`), so that functions obeying the equations are
  built up by depth (`FormsExist`).
* *One form*, by strong induction on the depth.

From there, `LoopReportsNothing` and `PortedReceiptVerdict` say when the loop and the receipt check of `verify.py` report
nothing, and `PortedVerdict` that this is what `MinVerified` asks for.

In `BrowserApp_proofs` the strengthening is `OneAtATime`: without an overlap there is one run at most, and from its
second await on, `/work` holds the packet it is about. `PinnedUnderTheUsersKey` needs no order of the runs
at all, since the keys a run uses are read in the turn that calls Python; it follows from what `VerdictOf` asks of a packet
with a pinned status, which `Implements` ties to `main()`.

### The gateway and its packets

| theorem of `DisputeLedger_proofs` | says, for every set of actions and length of the ledger |
|---|---|
| `TypeCorrect` | events stand at their positions, drafts read what was there, receipts are signed over drafts |
| `LastRecordsCount` | a packet that verifies tells the scope and the snapshot last recorded for its action within its span |
| `ApprovalsStay` | a v2 approval within the span was given for the packet's action |
| `OneAction` | receipt, manifest, authentication and custody are of one action |
| `HonestPackets` | a packet exported as it should be verifies, and with `--anchors` from the first success on |
| `AnchoringHolds` | a line more in the anchor log takes nothing back (an action property) |

The inductive invariant adds to the types what each record carries (`Records`), that a draft names records of
its own action, or any action's approval (`Named`), that an export is of a signed receipt and a span (`Exported`),
and that every line of the anchor log is about the one ledger head (`Anchored`). From there the theorems are about
one packet: an accepted one has passed every check, so the position a receipt names by its hash and the last one the code
finds in the slice are the same (`GreatestElement` gives the last one its existence). `HonestPackets` takes the
checks one by one and shows that none reports anything.

### The file seal

| theorem of `FileSeal_proofs` | says, for every set of paths and files, number of changes and of seals |
|---|---|
| `TypeCorrect` | a file is open only while it is read; a listed path is to be checked or reported on |
| `ReportsWereTrue` | every line of the answer was true of its path during the run, whatever happened between the calls |
| `VerifiedSealsAreTheAgents` | with the agent's key pinned, what verifies is the agent's, and so is the seal before it |
| `TimesAreTheSeals` | a printed time was given to this seal by a trusted authority, no earlier than the seal and its predecessor |
| `HonestSealsPass` | an agent's seal over files that are as they were is accepted |

The hard one is `ReportsWereTrue`, against a machine that may act between any two calls. `NowIsNoted` says that
the history `facts` has what is true now; `SeenSoFar`, indexed by the call that is next, says what the calls made
so far on this path prove of its past; and `PrefixRead` that what was read of a log that only grows is a prefix
of it, wherever its name has gone meanwhile. `Still` is the same for a machine that does nothing.

### The Merkle trees

| theorem of `LedgerTrees_proofs` | says, for ledgers and logs of any length |
|---|---|
| `ExportTypeOK` | shape of ledger, archive and verdict |
| `EventsStand` | an event of an accepted export is the one the ledger holds at the index its row names |
| `NothingOfOthers` | an accepted export holds nothing of another tenant or action |
| `OnlyTheSealedIsAccepted` | an archive changed without the operator's key is refused |
| `TrueExportsPass` | a correct export, of any scope at any tree size, is accepted |
| `ReceiptIsInTheLog` | the receipt of an accepted bundle is in the log whose head was signed, where the proof says |
| `HeadsAreOfOneLog` | heads that pass the consistency check, on any nodes, are of one log |
| `TrueBundlesPass` | a correct bundle is accepted without a consistency proof; with the RFC's proof, as it is or completed, exactly when it is the completed one |

The two inductive invariants are `ExportIInv` (the seal names a size and a root the ledger had; an archive is as it was sealed
until it is changed, and refused from then on) and `LogIInv` (whatever its parts, the head of a bundle was signed for
some log, its sizes are numbers and its paths are sequences; the verdict is the one on this bundle). With them,
the theorems are about the operators of `LedgerTree` and `ContinuityLog`, and those are the work:

* *Unfolding.* A recursive function is `CHOOSE` of a function that obeys its equation; the equation may be used
  only when there is one. For each of them a lemma (`DoublingExists`, `ForestExists`, `ShiftingExists`,
  `ClimbingExists`, `SiblingsExist`, `TrailsExist`, `HalvingExists`) builds one up to each size, by
  `NatLemmas!Induction` on the set of sizes for which there is one.
* *The shape of the tree.* The code climbs from below, halving two indices; the tree is defined from above, by the
  largest power of two. `SplitHalves` and `OneLevelUp` bring the two together: the tree over n leaves is the tree over
  the n/2 (rounded up) nodes one level up.
* *The climb.* `PathIsSound` and `PathIsComplete` go up one level at a time, by strong induction on the size of the
  tree. A node in the middle takes one turn of the loop; the last node of an odd row is taken up as it is, and
  the inner loop (`Shifted`) skips all such levels in one turn (`TurnFromALastNode`).
* *Consistency proofs.* `NodesAreSound` and `NodesAreComplete` go down through the split points, by strong induction
  too: `SplitIsShared` says that an old tree which reaches beyond the split point of the new one splits where it does.
* *Equal roots.* `SameRootSameNodes`: hashes are free constructors, so that equal roots over equally many leaves
  are equal leaves.

### Assumptions

They are on the data only: sequences are sequences, command lines have their fields, bounds are numbers, values that
stand for "absent" are none of the values that are present, and a key of one holder is not that of another. Besides: a ledger is chained
from its genesis, which is not itself the hash of an event; the text the demo page is shipped with parses; the gateway's signing key is
not one of the weak Ed25519 points. Of the demo page's texts: the JSON values are finitely many, each nested to
some `Depth`, their keys are strings of UTF-16 units (`JsonAssumption`), and the editors' events have the packet's fields, null or not, and
their payloads details that are JSON (`TextsAssumption`). That a hash has one input and a signature one maker is in the
definitions of `Evidence` and of the ledger modules. TLC evaluates each assumption in the runs of its module.

### Only model-checked

* `AVerdictFollows` and `EveryClickIsAnswered`, which are liveness properties under fairness, out of the prover's
  reach.
* The seven statements the runs refute; they have counterexamples.

## What the runs refute

Seven places where the code does not do what its own text says, each with a run that ends in a counterexample:

| run | the text | the code |
|---|---|---|
| `packet_verifier_docstring` | `verify.py:59-62`: chain only needs the receipt bound and recorded | an unevaluable algorithm returns at 493/514/537 before the entry is looked up, and 654 takes it for reported |
| `receipt_rotated_out` | `verify_receipt.py:71-72`, 320-321: a rotated-out status is a genuine receipt's | 810: any failure but one text counts as verified |
| `receipt_refused` | `conformance/README.md:142`: refused by policy, with only the flag changed, is of outcome REJECTED | 602: the outcome is that of the exit code, which the flag does not move |
| `continuity_rfc` | `verify.py:731`: RFC 9162 2.1.4.2 consistency-proof verification | 733: the first node is `proof[0]` in every case, also where the RFC leaves the old root out |
| `tamper_demo_stale` | `tamper_demo/index.html:17-19`: re-runs live on any edit | 119: an older run may write the badge last |
| `browser_overlap` | `tests/test_browser_key_pinning_v1.py:1-2`: the command line's verdicts | `app.js:58`, 101: overlapping runs share and empty `/work` |
| `dispute_approval` | `verify.py:1166-1168`: other checks fail a missing approval event | none reads `approval_event_hash` |

Smaller differences met while modelling, which the models follow and no run is spent on:

* A check that raises ends `verify.py` with a traceback and exit code 1, the code of a failed verification;
  in the page the same exception is shown as exit 2.
* A required document that consists of `null` is loaded without a failure and its checks are skipped
  (`_load_doc`).
* A malformed event stops `verify_min.js` with a rejected promise and leaves "Verifying" on the page;
  `Unjudgeable` in `TamperPromise` names these texts.
* Edits the tamper demo does not notice: 1 written as 1.0, and an integer beyond 2^53 changed into one that is the
  same double. `verify.py` hashes other texts for them and refuses the edit. The other way round, an honest payload
  with a key beyond U+FFFF beside one from U+E000 on fails in the page, which sorts keys by code unit. The comment
  in `verify_min.js:40-46` is about the packet's own fields; a payload is any JSON. `AgreesWithVerifyPy` is about
  the payloads in between (`PlainData`), which both read alike.
* An archive export passed in the page with a pasted key is labelled PINNED, although the key is not used for
  it (`app.js:72`, 106); `PinnedIsTheUsers` is about packets.
* The page loads no asn1crypto (`app.js:21`), so that an archive export checked there with a TSA certificate and
  all else in order ends in "Browser error"; `verify.py:1312` raises.
* An archive export with no hashed workpaper and no subject matches: `verify.py:1615` compares `{}` with `{}`,
  and "workpaper set matches attestation" is said of nothing. Only a timestamp root or a log key asks for more.
* Of several chains of one kind only the first is looked at (`verify.py:1620`, 1631): a renewed timestamp that
  stands behind the one it renews is not tried, whatever roots the caller has.
* The acquisition report's root hash is not tied to the slice it comes with, and the settlement anchor's
  mandate is not compared with the receipt's; an approval of version 1 is not read beyond its version.
* The roots and sizes of a consistency proof are not compared with the checkpoint of its bundle.
* A file that vanishes between the tests of `verify_seal.py` and its `open()`, or that cannot be read, ends the
  run with a traceback and exit code 1; `verify_seal.py:19-20` gives 2 for unreadable input.
* A link that is put in a file's place after `os.path.islink` was asked is read through. A log that is cut
  short in place while it is read can be reported unchanged though it never was as sealed: `ReportWasTrue`
  excepts runs with a `CutShort`.
* `--tsa-ca` replaces the embedded freeTSA root, it does not add to it; a seal stamped by freeTSA fails then.
* Without asn1crypto, `verify_seal.py` exits with 2 also where a file had changed, and prints no finding.

## Abstractions

* Failure lists are sets of codes: order, repetition and wording are left out, except where the code itself
  compares texts (`"RECEIPT_SIGNATURE_INVALID" not in ...`).
* JSON values have the right types unless a field says otherwise (`readable`, `object`, `material`); an event's
  payload is an object. An absent algorithm is `ed25519`, as the code reads it. In the verifiers of
  `Evidence` numbers are integers; `CanonicalJson` has all the numbers of JSON except those that overflow a double,
  and strings that are well formed. Hex has one case.
* An empty string pin or manifest key is `NoKey`, which the code treats as absent; the models keep the
  difference between a flag that is given and a key that is usable.
* Hashing and signing are free constructors; the small-order subtleties of Ed25519 are the two sets
  `WeakKeys` and `weak_r`.
* In `ArchiveEvidence`, a token parses or not, holds its own signatures or not, and has one imprint and one
  authority; every certificate a caller names is readable; `climbs` stands for the climb of a transparency receipt,
  which is `LedgerTree`'s. In `BrowserApp` the user types no log key and picks no TSA certificate.
* In `DisputeLedger`, an unbroken slice of an intact ledger is a span of positions, and times are numbers.
* In `TamperDemo`, the digests of one event are one step: a run works on its own copy, and only the time it
  ends is visible. In `BrowserApp`, several evidence files are one await.
* In `ContinuityLog`, a document is absent or readable, and the two signature algorithms of a head are one.
* In `FileSeal`, digest and size of a file stand for its data, the machine's clock counts the agent's seals, and
  a timestamp token is an authority, an imprint and a time. Whether `TSA_INVALID` or `TSA_CA_UNKNOWN` is printed
  is not told apart.
* In `TenantExport`, the operator's key is pinned, the archive is a readable zip with its five files, and a
  seal has one signature. The schemas of manifest and seal are one, the known or another. That an export leaves events out is not detected by the code and not promised.

## Not modelled

CMS, X.509 and COSE parsing inside RFC 3161 tokens and SCITT statements: their difficulty is in encodings. Individual
zip limits: comparisons on one member. `verify_with_telemetry.py`: a pass-through that is off. Conformance
generators, parity manifest, maintenance scripts: sequential tools, with no state between runs but the files they write. Vendored Pyodide, generated demo packets, delivery (action, image, workflows), documents and keys: data and
wrappers.

## Plan

Done so far, in this order: `PacketVerifier` with its proofs, `ReceiptVerifier` with its proofs, the two pages,
the gateway and the document checks, the tenant export, the continuity checkpoint, the file seal, the archive
export; then proofs about the pages, the gateway, the file seal and the two Merkle trees.

Left, on the side of the model:

1. *verify_tenant_export* without a pinned key.
2. *The page with trust roots for archive exports*: a log key field and TSA certificates in `BrowserApp`.

Left, on the side of the proofs: that `verify_rfc3161_token` and `verify_scitt_receipt` say of an attestation what
they should, as operators for themselves.

------------------------------ MODULE FileSeal ------------------------------
(***************************************************************************)
(* verify_seal.py, and the agent (`actaseal seal`) that writes the seals it  *)
(* judges: a seal lists the files of a directory, names the hash of the     *)
(* seal before it, is signed by the agent and stamped by a timestamp        *)
(* authority.  What the program is handed may have been put together by     *)
(* somebody who has the agent's seals but not its key.                      *)
(*                                                                          *)
(* The loop over the files is SealedFiles.  The parts of the documents that *)
(* are read after that loop are chosen when they are read: nothing looks at *)
(* them before.  Time counts the agent's seals.                             *)
(***************************************************************************)
EXTENDS SealedFiles

CONSTANTS
  AgentKey, OtherKey, \* the agent's key, and one of somebody else
  OwnTSA, FreeTSA,    \* authorities: the caller's, and freeTSA
  OtherTSA,           \* one nobody trusts, which stamps any time
  None,               \* a field that is absent, an option that is not given
  MaxSeals            \* bound: the agent's seals

ASSUME SealAssumption ==
  /\ AgentKey # OtherKey /\ OtherTSA \notin {OwnTSA, FreeTSA}
  /\ None \notin {AgentKey, OtherKey, OwnTSA, FreeTSA, OtherTSA} \cup 0..2
  /\ MaxSeals \in Nat

VARIABLES
  seals,  \* the bodies of the agent's seals, oldest first
  body,   \* the body of the seal that is verified
  quiet,  \* the machine has done nothing since the run began (history)
  given,  \* the rest of what the program was handed
  result  \* [failures, status, time, exit]

sealvars == <<machine, progress, facts, seals, body, quiet, given, result>>

NoResult == [failures |-> {}, status |-> None, time |-> 0, exit |-> None]
NoBody == [made |-> 0, files |-> [p \in {} |-> <<>>], previous_seal_sha256 |-> None]

SealInit ==
  /\ FilesInit
  /\ seals = <<>> /\ body = NoBody /\ quiet = TRUE /\ given = None
  /\ result = NoResult

(***************************************************************************)
(* The agent.  seal_hash: over the body, without the signature, the stamp   *)
(* and the hash the seal states for itself.                                 *)
(***************************************************************************)
SealHash(b) == <<"seal_hash", b>>

Present == {p \in Paths : IsRegular(p)}
Contents == [p \in Present |-> data[at[p].inode]]

LastHash == IF seals = <<>> THEN None ELSE SealHash(seals[Len(seals)])

\* It lists the regular files there are.
MakeSeal ==
  /\ pc = "idle" /\ Len(seals) < MaxSeals /\ Present # {}
  /\ seals' = Append(seals, [made |-> Len(seals) + 1, files |-> Contents,
                             previous_seal_sha256 |-> LastHash])
  /\ UNCHANGED <<machine, progress, facts, body, quiet, given, result>>

(***************************************************************************)
(* What may be handed to the program.                                       *)
(***************************************************************************)
Agents == {seals[n] : n \in DOMAIN seals}

\* Bodies the agent did not make: the files as they are now, an entry more,
\* or the link to the seal before cut.
Forgeries ==
  UNION {{[b EXCEPT !.files = Contents],
          [b EXCEPT !.files = [p \in DOMAIN @ \cup {Outside} |->
                                 IF p = Outside THEN <<>> ELSE @[p]]],
          [b EXCEPT !.previous_seal_sha256 = None]} : b \in Agents} \ Agents

\* A signature names a key, and was made with a key, over a seal's hash.
NoSignature == [public_key |-> None, by |-> None, over |-> None]
Signed(named, by, b) == [public_key |-> named, by |-> by, over |-> SealHash(b)]

Signatures(b) ==
  {NoSignature, Signed(OtherKey, OtherKey, b), Signed(AgentKey, OtherKey, b)}
  \cup {Signed(named, AgentKey, a) : named \in {AgentKey, OtherKey}, a \in Agents}

\* A token of an authority, under the authority's name in the anchor.
NoAnchor == [tsa_name |-> None, ca |-> None, imprint |-> None, time |-> 0]
Token(name, tsa, b, time) ==
  [tsa_name |-> name, ca |-> tsa, imprint |-> SealHash(b), time |-> time]

\* Stamped by the agent when it sealed, by anybody now, or by an authority
\* nobody trusts.
Anchors(b) ==
  {NoAnchor}
  \cup {Token(tsa, tsa, a, a.made) : tsa \in {OwnTSA, FreeTSA}, a \in Agents}
  \cup {Token(OwnTSA, OwnTSA, b, Len(seals)), Token(FreeTSA, OtherTSA, b, 0)}

\* --previous: a seal of the agent, or one that was changed and states its
\* own hash or still the one it had.
Previouses ==
  {None}
  \cup {[body |-> a, seal_sha256 |-> SealHash(a)] : a \in Agents}
  \cup {[body |-> [a EXCEPT !.files = Contents], seal_sha256 |-> SealHash(c)] :
          a \in Agents, c \in Agents \cup {[a EXCEPT !.files = Contents] : a \in Agents}}

\* Everything as its maker would have it, with the command line of
\* test_cli_pass_and_fail: an agent's seal as the agent wrote it, another one
\* signed by somebody else and stamped now.
Whole(b) ==
  LET agents == b \in Agents IN
  [stated |-> SealHash(b),
   signature |-> IF agents THEN Signed(AgentKey, AgentKey, b)
                 ELSE Signed(OtherKey, OtherKey, b),
   anchor |-> Token(OwnTSA, OwnTSA, b, IF agents THEN b.made ELSE Len(seals)),
   previous |-> IF b.previous_seal_sha256 = None THEN None
                ELSE [body |-> seals[b.made - 1],
                      seal_sha256 |-> b.previous_seal_sha256],
   options |-> [public_key |-> AgentKey, tsa_ca |-> {OwnTSA}, timestamp |-> "require"]]

\* One part is exchanged, with the options that are about it.
Resigned(b, signature, key) ==
  [Whole(b) EXCEPT !.signature = signature, !.options.public_key = key]

Restamped(b, anchor, tsa_ca, timestamp) ==
  [Whole(b) EXCEPT !.anchor = anchor, !.options.tsa_ca = tsa_ca,
                   !.options.timestamp = timestamp]

WithSignature(b) ==
  {Resigned(b, s, key) : s \in Signatures(b), key \in {None, AgentKey}}

WithAnchor(b) ==
  {Restamped(b, t, cas, o) :
     t \in Anchors(b), cas \in {{}, {OwnTSA}}, o \in {"check", "require", "skip"}}

WithPrevious(b) == {[Whole(b) EXCEPT !.previous = p] : p \in Previouses}

WithHash(b) == {[Whole(b) EXCEPT !.stated = SealHash(a)] : a \in Agents}

\* Bound: one part at a time, and none in a run the machine disturbs.
Handed(b) ==
  {Whole(b)} \cup
  IF ~quiet THEN {}
  ELSE WithSignature(b) \cup WithAnchor(b) \cup WithPrevious(b) \cup WithHash(b)

(***************************************************************************)
(* verify_seal after the loop.  Each check gives the failures it adds.      *)
(***************************************************************************)
FailureOf == [missing |-> "FILE_MISSING", changed |-> "FILE_CHANGED",
              invalid |-> "SEAL_PATH_INVALID"]

FileFailures ==
  {FailureOf[report[p]] : p \in {q \in DOMAIN report : report[q] # "unchanged"}}

\* A variant that takes the hash a previous seal states.
StatedPreviousHash(previous) == previous.seal_sha256

\* _previous_hash
PreviousHash(previous) ==
  LET digest == SealHash(previous.body) IN
  IF digest = previous.seal_sha256 THEN digest ELSE None

\* A variant that compares the two seals the other way round.
ChainFailuresSwapped(g) ==
  IF g.previous = None THEN {}
  ELSE IF PreviousHash(g.previous) = None THEN {"PREVIOUS_SEAL_INVALID"}
  ELSE IF g.previous.body.previous_seal_sha256 # SealHash(body) THEN {"CHAIN_BROKEN"}
  ELSE {}

ChainFailures(g) ==
  IF g.previous = None THEN {}
  ELSE IF PreviousHash(g.previous) = None THEN {"PREVIOUS_SEAL_INVALID"}
  ELSE IF body.previous_seal_sha256 # PreviousHash(g.previous) THEN {"CHAIN_BROKEN"}
  ELSE {}

SignatureFailures(g) ==
  IF g.signature = NoSignature
  THEN IF g.options.public_key # None THEN {"SIGNATURE_MISSING"} ELSE {}
  ELSE (IF g.signature.by = g.signature.public_key /\ g.signature.over = SealHash(body)
        THEN {} ELSE {"SIGNATURE_INVALID"})
       \cup (IF g.options.public_key \in {None, g.signature.public_key}
             THEN {} ELSE {"SIGNER_MISMATCH"})

\* A variant that takes the authority's certificate from the seal.
CaPathsInTheSeal(g) == {g.anchor.ca}

\* The authorities _check_timestamp trusts: none when it knows of none.
CaPaths(g) ==
  IF g.options.tsa_ca # {} THEN g.options.tsa_ca
  ELSE IF g.anchor.tsa_name = FreeTSA THEN {FreeTSA} ELSE {}

TimestampStatus(g) ==
  IF g.anchor = NoAnchor THEN "UNTIMESTAMPED"
  ELSE IF g.options.timestamp = "skip" THEN "NOT_CHECKED"
  ELSE IF g.anchor.ca \in CaPaths(g) /\ g.anchor.imprint = SealHash(body) THEN "OK"
  ELSE "INVALID"

TimestampFailures(g) ==
  CASE TimestampStatus(g) = "INVALID" -> {"TSA_INVALID"}
    [] TimestampStatus(g) = "UNTIMESTAMPED" /\ g.options.timestamp = "require" ->
         {"TIMESTAMP_MISSING"}
    [] OTHER -> {}

Failures(g) ==
  FileFailures \cup ChainFailures(g) \cup SignatureFailures(g) \cup TimestampFailures(g)
  \cup (IF g.stated = SealHash(body) THEN {} ELSE {"SEAL_HASH_MISMATCH"})

(***************************************************************************)
(* A run of the program: one, on a seal there is or on a forged one.        *)
(***************************************************************************)
StartRun ==
  /\ Calls("idle", "next")
  /\ body' \in Agents \cup Forgeries
  /\ want' = body'.files /\ todo' = DOMAIN body'.files
  /\ UNCHANGED <<machine, path, fd, got, report, seals, quiet, given, result>>
  /\ facts' = [p \in DOMAIN body'.files \cap Paths |-> Now(p)']

\* The seal or the previous one cannot be read: exit 2.  A seal of another
\* format, or whose files are no list: exit 1 before anything is looked at.
RefuseInput ==
  /\ Calls("idle", "done")
  /\ \/ result' = [NoResult EXCEPT !.exit = 2]
     \/ \E failure \in {"SEAL_FORMAT_UNKNOWN", "SEAL_MALFORMED"} :
          result' = [NoResult EXCEPT !.failures = {failure}, !.exit = 1]
  /\ UNCHANGED <<machine, facts, want, todo, path, fd, got, report, seals, body, quiet,
                 given>>

\* asn1crypto may be missing: exit 2, whatever was found.
ConcludeRun ==
  /\ Calls("next", "done")
  /\ todo = {}
  /\ given' \in Handed(body)
  /\ LET status == TimestampStatus(given') IN
     \/ result' = [failures |-> Failures(given'), status |-> status,
                   time |-> IF status = "OK" THEN given'.anchor.time ELSE 0,
                   exit |-> IF Failures(given') = {} THEN 0 ELSE 1]
     \/ /\ status \in {"OK", "INVALID"}
        /\ result' = [NoResult EXCEPT !.exit = 2]
  /\ UNCHANGED <<machine, facts, want, todo, path, fd, got, report, seals, body, quiet>>

\* The exception out of _hash_file leaves main(): a traceback, exit 1.
Raise ==
  /\ Calls("raised", "done")
  /\ result' = [NoResult EXCEPT !.exit = 1]
  /\ UNCHANGED <<machine, facts, want, todo, path, fd, got, report, seals, body, quiet,
                 given>>

Work ==
  /\ CheckFiles
  /\ UNCHANGED <<seals, body, quiet, given, result>>

\* Bound: the machine leaves a run on a forged seal alone.
MachineWorks ==
  /\ pc = "idle" \/ (pc # "done" /\ body \in Agents)
  /\ Machine
  /\ quiet' = (pc = "idle")
  /\ UNCHANGED <<seals, body, given, result>>

SealNext == MakeSeal \/ MachineWorks \/ StartRun \/ RefuseInput \/ Work \/ ConcludeRun \/ Raise

SealSpec == SealInit /\ [][SealNext]_sealvars

=============================================================================

-------------------------- MODULE FileSeal_proofs --------------------------
(***************************************************************************)
(* Proofs about FileSeal, for every set of paths, files and records, any    *)
(* number of changes to the directory, and any number of seals.             *)
(***************************************************************************)
EXTENDS SealPromise, SequenceTheorems, TLAPS

(***************************************************************************)
(* The inductive invariant.                                                 *)
(***************************************************************************)
\* The agent's seals are a chain, numbered from 1.
Chain ==
  /\ seals \in Seq(Agents)
  /\ \A n \in DOMAIN seals :
       /\ seals[n] = [made |-> n, files |-> seals[n].files,
                      previous_seal_sha256 |->
                        IF n = 1 THEN None ELSE SealHash(seals[n - 1])]
       /\ DOMAIN seals[n].files \subseteq Paths

\* What is checked is what the seal lists; before a run there is no seal.
Handover ==
  /\ want = body.files
  /\ pc = "idle" => body = NoBody /\ quiet
  /\ pc \in Steps \ {"read", "done"} => got = <<>>

\* What is true now has been noted.
NowIsNoted == \A p \in DOMAIN facts : Now(p) \subseteq facts[p]

\* What the calls made so far on a path have seen of it, and what was read of
\* the open file.
PrefixRead ==
  Len(got) <= Len(data[fd]) /\ \A k \in 1..Len(got) : got[k] = data[fd][k]

SeenSoFar ==
  /\ pc \in {"islink", "open", "read", "raised"} =>
       \E i \in Inodes : FactOf(path, "led_to", i)
  /\ pc \in {"open", "read"} => Fact(path, "regular") \/ Fact(path, "gone")
  /\ pc = "read" => FactOf(path, "led_to", fd)
  /\ pc = "read" /\ (~cut \/ quiet) => PrefixRead
  /\ pc = "raised" => Fact(path, "gone")

\* While the machine does nothing, what was seen of the path is still so, and
\* the files of the agent's seal that are as they were are reported unchanged.
Still ==
  quiet =>
    /\ pc \in {"islink", "open", "read"} => at[path] # Gone
    /\ pc \in {"open", "read"} => ~at[path].link
    /\ pc = "read" => fd = at[path].inode
    /\ pc # "raised"
    /\ body \in Agents /\ Untouched => \A p \in DOMAIN report : report[p] = "unchanged"

IInv == SealTypeOK /\ Chain /\ Handover /\ NowIsNoted /\ SeenSoFar /\ ReportWasTrue /\ Still

(***************************************************************************)
(* Facts about the operators.                                               *)
(***************************************************************************)
\* What stands at a path leads to a file.
LEMMA WhatStands ==
  ASSUME NEW s \in {Gone} \cup Standing, s # Gone
  PROVE  s.inode \in Inodes
<1>1. PICK i \in Inodes : s = File(i) \/ s = Link(i)
  BY DEF Standing
<1> QED
  BY <1>1 DEF File, Link

\* What a path is now says whether it is a regular file, whether it is gone or
\* where it leads, and which files hold what was sealed.
LEMMA NowSays ==
  ASSUME NEW p
  PROVE  /\ IsRegular(p) => <<"regular">> \in Now(p)
         /\ ~IsRegular(p) => <<"not_regular">> \in Now(p)
         /\ at[p] = Gone => <<"gone">> \in Now(p)
         /\ at[p] # Gone => <<"led_to", at[p].inode>> \in Now(p)
         /\ \A i \in Inodes : /\ data[i] = want[p] => <<"same", i>> \in Now(p)
                              /\ data[i] # want[p] => <<"other", i>> \in Now(p)
  BY DEF Now

\* Two sequences of records that agree up to the length of one, which is that
\* of the other, are one.
LEMMA SameRecords ==
  ASSUME NEW s \in Seq(Records), NEW t \in Seq(Records), Len(s) = Len(t),
         \A k \in 1..Len(s) : s[k] = t[k]
  PROVE  s = t
  BY SeqEqual, DOMAIN s = 1..Len(s), DOMAIN t = 1..Len(t)

\* Bodies somebody else puts together list paths, or an entry that is refused.
LEMMA ListedPaths ==
  ASSUME Chain, NEW b \in Agents \cup Forgeries
  PROVE  DOMAIN b.files \subseteq Paths \cup {Outside}
<1>1. \A a \in Agents : /\ DOMAIN a.files \subseteq Paths
                        /\ a = [made |-> a.made, files |-> a.files,
                                previous_seal_sha256 |-> a.previous_seal_sha256]
  BY DEF Agents, Chain
<1>2. DOMAIN Contents \subseteq Paths
  BY DEF Contents, Present
<1>3. CASE b \in Agents
  BY <1>1, <1>3
<1>4. CASE b \in Forgeries
  <2>1. PICK a \in Agents :
          \/ b = [a EXCEPT !.files = Contents]
          \/ b = [a EXCEPT !.files = [p \in DOMAIN a.files \cup {Outside} |->
                                        IF p = Outside THEN <<>> ELSE a.files[p]]]
          \/ b = [a EXCEPT !.previous_seal_sha256 = None]
    BY <1>4 DEF Forgeries
  <2> QED
    BY <1>1, <1>2, <2>1
<1> QED
  BY <1>3, <1>4

(***************************************************************************)
(* Every variable holds a value of its kind.                                *)
(***************************************************************************)
LEMMA InitTypes ==
  ASSUME SealInit
  PROVE  SealTypeOK
<1> USE DEF SealInit, FilesInit
<1>1. at \in [Paths -> {Gone} \cup Standing]
  BY DEF Standing
<1>2. data \in [Inodes -> Seq(Records)]
  OBVIOUS
<1>3. fd \notin Inodes
  BY FilesAssumption
<1>4. DOMAIN want = {} /\ DOMAIN report = {} /\ DOMAIN facts = {}
  OBVIOUS
<1>5. result.exit = None
  BY DEF NoResult
<1>6. pc = "idle" /\ todo = {} /\ path = NoFile /\ got = <<>> /\ quiet = TRUE /\ cut = FALSE
      /\ changes = 0
  OBVIOUS
<1> HIDE DEF SealInit, FilesInit
<1>7. got \in Seq(Records) /\ DOMAIN report = DOMAIN want \ todo
      /\ DOMAIN facts = DOMAIN want \cap Paths
  BY <1>4, <1>6
<1> QED
  BY <1>1, <1>2, <1>3, <1>4, <1>5, <1>6, <1>7 DEF SealTypeOK, Steps

\* The machine changes what stands at the paths and what the files hold.
LEMMA MachineTypes ==
  ASSUME SealTypeOK, Machine
  PROVE  /\ at' \in [Paths -> {Gone} \cup Standing]
         /\ data' \in [Inodes -> Seq(Records)]
         /\ cut' \in BOOLEAN /\ changes' \in Nat
         /\ UNCHANGED progress /\ Noted
         /\ ~cut' => /\ ~cut
                     /\ \A i \in Inodes : /\ Len(data[i]) <= Len(data'[i])
                                          /\ \A k \in 1..Len(data[i]) : data'[i][k] = data[i][k]
<1> DEFINE Grown == \A i \in Inodes : /\ Len(data[i]) <= Len(data'[i])
                                     /\ \A k \in 1..Len(data[i]) : data'[i][k] = data[i][k]
           Post == /\ at' \in [Paths -> {Gone} \cup Standing]
                   /\ data' \in [Inodes -> Seq(Records)]
                   /\ cut' \in BOOLEAN /\ (~cut' => ~cut /\ Grown)
                   /\ Changing
<1>t. /\ at \in [Paths -> {Gone} \cup Standing] /\ data \in [Inodes -> Seq(Records)]
      /\ cut \in BOOLEAN /\ changes \in Nat
  BY DEF SealTypeOK
<1>l. \A i \in Inodes : Len(data[i]) \in Nat
  BY <1>t
<1>1. ASSUME NEW i \in Inodes, CutShort(i) PROVE Post
  BY <1>1, <1>t DEF CutShort
<1>2. ASSUME NEW i \in Inodes, NEW r \in Records, WriteRecord(i, r) PROVE Post
  <2>1. at' = at /\ cut' = cut /\ Changing /\ data' = [data EXCEPT ![i] = Append(data[i], r)]
    BY <1>2 DEF WriteRecord
  <2>2. /\ Append(data[i], r) \in Seq(Records)
        /\ Len(Append(data[i], r)) = Len(data[i]) + 1
        /\ \A k \in 1..Len(data[i]) : Append(data[i], r)[k] = data[i][k]
    BY <1>t, AppendProperties
  <2>3. data' \in [Inodes -> Seq(Records)]
    BY <1>t, <2>1, <2>2
  <2>4. Grown
    BY <1>t, <1>l, <2>1, <2>2
  <2> QED
    BY <1>t, <2>1, <2>3, <2>4
<1>3. ASSUME NEW p \in Paths, NEW s \in {Gone} \cup Standing, at' = [at EXCEPT ![p] = s],
             UNCHANGED <<data, cut>>, Changing
      PROVE  Post
  <2>1. Grown
    BY <1>3, <1>l
  <2> QED
    BY <1>3, <1>t, <2>1
<1>4. Post
  <2>1. ASSUME NEW p \in Paths, MoveAway(p) PROVE Post
    BY <1>3, <2>1 DEF MoveAway
  <2>2. ASSUME NEW p \in Paths, NEW i \in Inodes, PutFile(p, i) PROVE Post
    BY <1>3, <2>2 DEF PutFile, Standing
  <2>3. ASSUME NEW p \in Paths, NEW i \in Inodes, PutLink(p, i) PROVE Post
    BY <1>3, <2>3 DEF PutLink, Standing
  <2> QED
    BY <1>1, <1>2, <2>1, <2>2, <2>3 DEF Machine
<1> QED
  BY <1>4, <1>t DEF Changing

\* What the steps that end a run leave alone, and what they answer with.
Finishes ==
  /\ pc' = "done" /\ pc \in {"idle", "next", "raised"}
  /\ UNCHANGED <<machine, facts, want, todo, path, fd, got, report, seals, body, quiet>>
  /\ result'.exit \in 0..2

LEMMA EveryFinish ==
  ASSUME RefuseInput \/ ConcludeRun \/ Raise
  PROVE  Finishes
<1>1. ASSUME RefuseInput PROVE Finishes
  <2>1. result'.exit \in 0..2
    <3>1. CASE result' = [NoResult EXCEPT !.exit = 2]
      BY <3>1 DEF NoResult
    <3>2. ASSUME NEW failure, result' = [NoResult EXCEPT !.failures = {failure}, !.exit = 1]
          PROVE  result'.exit \in 0..2
      BY <3>2 DEF NoResult
    <3> QED
      BY <1>1, <3>1, <3>2 DEF RefuseInput
  <2> QED
    BY <1>1, <2>1 DEF RefuseInput, Finishes, Calls, machine
<1>2. ASSUME ConcludeRun PROVE Finishes
  <2>1. result'.exit \in 0..2
    BY <1>2 DEF ConcludeRun, NoResult
  <2> QED
    BY <1>2, <2>1 DEF ConcludeRun, Finishes, Calls
<1>3. ASSUME Raise PROVE Finishes
  BY <1>3 DEF Raise, Finishes, Calls, NoResult
<1> QED
  BY <1>1, <1>2, <1>3

\* The end of the check of a listed path.
LEMMA FoundTypes ==
  ASSUME SealTypeOK, NEW p \in todo, NEW what, Found(p, what), pc \in Steps \ {"done"},
         UNCHANGED <<machine, facts, want, quiet, result>>
  PROVE  SealTypeOK'
<1>1. /\ pc' = "next" /\ todo' = todo \ {p} /\ path' = NoFile /\ fd' = NoFile /\ got' = <<>>
      /\ DOMAIN report' = DOMAIN report \cup {p}
  BY DEF Found
<1>2. DOMAIN report' = DOMAIN want' \ todo' /\ todo' \subseteq DOMAIN want'
  BY <1>1 DEF SealTypeOK
<1>3. fd' \notin Inodes /\ got' \in Seq(Records)
  BY <1>1, FilesAssumption
<1>4. /\ at' \in [Paths -> {Gone} \cup Standing] /\ data' \in [Inodes -> Seq(Records)]
      /\ cut' \in BOOLEAN /\ quiet' \in BOOLEAN /\ changes' \in Nat
      /\ DOMAIN want' \subseteq Paths \cup {Outside}
      /\ DOMAIN facts' = DOMAIN want' \cap Paths
  BY DEF SealTypeOK, machine
<1>5. result'.exit # None <=> pc' = "done"
  BY <1>1 DEF SealTypeOK
<1> QED
  BY <1>1, <1>2, <1>3, <1>4, <1>5 DEF SealTypeOK, Steps

\* The steps of the loop.
LEMMA WorkTypes ==
  ASSUME SealTypeOK, Work
  PROVE  SealTypeOK'
<1> USE DEF Calls
<1>t. /\ todo \subseteq DOMAIN want /\ DOMAIN want \subseteq Paths \cup {Outside}
      /\ pc \in {"isfile", "islink", "open", "read", "raised"} => path \in todo \cap Paths
      /\ pc \in Steps
      /\ at \in [Paths -> {Gone} \cup Standing] /\ data \in [Inodes -> Seq(Records)]
      /\ got \in Seq(Records)
      /\ pc = "read" <=> fd \in Inodes
      /\ result.exit # None <=> pc = "done"
  BY DEF SealTypeOK
<1>u. UNCHANGED <<machine, facts, want, quiet, result>>
  BY DEF Work, CheckFiles, SkipEntry, NextEntry, TestIsFile, TestIsLink, Open, Read, ReadFrom
<1> DEFINE Step(now, next) == /\ pc = now /\ pc' = next
                              /\ UNCHANGED <<want, todo, report, result>>
<1>1. ASSUME NEW now \in Steps \ {"done"}, NEW next \in Steps \ {"done", "idle"}, Step(now, next),
             path' \in todo \cap Paths, next # "next",
             next = "read" <=> fd' \in Inodes, got' \in Seq(Records)
      PROVE  SealTypeOK'
  <2>1. /\ at' \in [Paths -> {Gone} \cup Standing] /\ data' \in [Inodes -> Seq(Records)]
        /\ cut' \in BOOLEAN /\ quiet' \in BOOLEAN /\ changes' \in Nat
        /\ DOMAIN want' \subseteq Paths \cup {Outside}
        /\ DOMAIN facts' = DOMAIN want' \cap Paths
        /\ todo' \subseteq DOMAIN want'
        /\ DOMAIN report' = DOMAIN want' \ todo'
    BY <1>1, <1>u DEF SealTypeOK, machine
  <2>2. result'.exit # None <=> pc' = "done"
    BY <1>1, <1>t
  <2> QED
    BY <1>1, <2>1, <2>2 DEF SealTypeOK
<1>2. CASE SkipEntry
  BY <1>2, <1>t, <1>u, FoundTypes DEF SkipEntry, Steps
<1>3. ASSUME NEW p \in Paths, NextEntry(p) PROVE SealTypeOK'
  <2>1. /\ pc = "next" /\ pc' = "isfile" /\ path' = p /\ p \in todo \cap Paths
        /\ UNCHANGED <<want, todo, fd, got, report>>
    BY <1>3 DEF NextEntry
  <2>2. "isfile" = "read" <=> fd' \in Inodes
    BY <2>1, <1>t
  <2> QED
    BY <2>1, <2>2, <1>t, <1>u, <1>1 DEF Steps
<1>4. CASE TestIsFile
  <2>1. CASE Found(path, "missing")
    BY <1>4, <2>1, <1>t, <1>u, FoundTypes DEF TestIsFile, Steps
  <2>2. CASE pc' = "islink" /\ UNCHANGED <<todo, path, fd, got, report>>
    BY <1>4, <2>2, <1>t, <1>u, <1>1 DEF TestIsFile, Steps
  <2> QED
    BY <1>4, <2>1, <2>2 DEF TestIsFile
<1>5. CASE TestIsLink
  <2>1. CASE Found(path, "missing")
    BY <1>5, <2>1, <1>t, <1>u, FoundTypes DEF TestIsLink, Steps
  <2>2. CASE pc' = "open" /\ UNCHANGED <<todo, path, fd, got, report>>
    BY <1>5, <2>2, <1>t, <1>u, <1>1 DEF TestIsLink, Steps
  <2> QED
    BY <1>5, <2>1, <2>2 DEF TestIsLink
<1>6. CASE Open
  <2>0. pc = "open" /\ path \in todo \cap Paths /\ fd \notin Inodes /\ at[path] \in {Gone} \cup Standing
        /\ UNCHANGED <<want, todo, path, got, report>>
    BY <1>6, <1>t DEF Open
  <2>1. CASE at[path] = Gone /\ pc' = "raised" /\ UNCHANGED fd
    BY <2>0, <2>1, <1>t, <1>u, <1>1 DEF Steps
  <2>2. CASE at[path] # Gone /\ pc' = "read" /\ fd' = at[path].inode
    BY <2>0, <2>2, <1>t, <1>u, <1>1, WhatStands DEF Steps
  <2> QED
    BY <1>6, <2>1, <2>2 DEF Open
<1>7. CASE Read
  <2>0. pc = "read" /\ path \in todo \cap Paths /\ fd \in Inodes /\ data[fd] \in Seq(Records)
        /\ UNCHANGED want
    BY <1>7, <1>t DEF Read, ReadFrom
  <2>1. CASE Len(got) < Len(data[fd])
    <3>1. got' = Append(got, data[fd][Len(got) + 1]) /\ UNCHANGED <<pc, todo, path, fd, report>>
      BY <1>7, <2>1 DEF Read, ReadFrom
    <3>2. data[fd][Len(got) + 1] \in Records
      BY <2>0, <2>1, <1>t
    <3>3. got' \in Seq(Records)
      BY <3>1, <3>2, <1>t, AppendProperties
    <3> QED
      BY <2>0, <3>1, <3>3, <1>t, <1>u, <1>1 DEF Steps
  <2>2. CASE ~(Len(got) < Len(data[fd]))
    <3>1. PICK what : Found(path, what)
      BY <1>7, <2>2 DEF Read, ReadFrom
    <3> QED
      BY <2>0, <3>1, <1>t, <1>u, FoundTypes DEF Steps
  <2> QED
    BY <2>1, <2>2
<1> QED
  BY <1>2, <1>3, <1>4, <1>5, <1>6, <1>7 DEF Work, CheckFiles

\* The other steps; a new run lists what the seal it is given lists.
LEMMA NextTypes ==
  ASSUME SealTypeOK, Chain, Handover, [SealNext]_sealvars
  PROVE  SealTypeOK'
<1>1. CASE MakeSeal
  BY <1>1 DEF MakeSeal, SealTypeOK, machine, progress
<1>2. CASE MachineWorks
  <2>1. Machine /\ quiet' = (pc = "idle") /\ UNCHANGED <<seals, body, given, result>>
    BY <1>2 DEF MachineWorks
  <2>2. /\ at' \in [Paths -> {Gone} \cup Standing] /\ data' \in [Inodes -> Seq(Records)]
        /\ cut' \in BOOLEAN /\ changes' \in Nat /\ UNCHANGED progress
        /\ DOMAIN facts' = DOMAIN facts /\ quiet' \in BOOLEAN
    BY <2>1, MachineTypes DEF Noted
  <2> QED
    BY <2>1, <2>2 DEF SealTypeOK, progress
<1>3. CASE StartRun
  <2>1. DOMAIN want' \subseteq Paths \cup {Outside}
    <3>1. body' \in Agents \cup Forgeries /\ want' = body'.files
      BY <1>3 DEF StartRun
    <3> QED
      BY <3>1, ListedPaths
  <2>2. /\ pc = "idle" /\ pc' = "next" /\ todo' = DOMAIN want'
        /\ DOMAIN facts' = DOMAIN want' \cap Paths
        /\ UNCHANGED <<machine, path, fd, got, report, seals, quiet, given, result>>
    BY <1>3 DEF StartRun, Calls
  <2>3. DOMAIN want = {}
    BY <2>2 DEF Handover, NoBody
  <2>4. DOMAIN report = {} /\ path = NoFile
    BY <2>2, <2>3 DEF SealTypeOK
  <2> QED
    BY <2>1, <2>2, <2>4 DEF SealTypeOK, machine, Steps
<1>4. CASE RefuseInput \/ ConcludeRun \/ Raise
  <2>1. Finishes
    BY <1>4, EveryFinish
  <2>2. result'.exit # None
    BY <2>1, SealAssumption DEF Finishes
  <2> QED
    BY <2>1, <2>2 DEF Finishes, SealTypeOK, machine, Steps
<1>5. CASE Work
  BY <1>5, WorkTypes
<1>6. CASE UNCHANGED sealvars
  BY <1>6 DEF sealvars, machine, progress, SealTypeOK
<1> QED
  BY <1>1, <1>2, <1>3, <1>4, <1>5, <1>6 DEF SealNext

(***************************************************************************)
(* The chain of seals, what a run was handed, and what has been noted.      *)
(***************************************************************************)
LEMMA ChainNext ==
  ASSUME Chain, [SealNext]_sealvars
  PROVE  Chain'
<1>1. CASE MakeSeal
  <2> DEFINE x == [made |-> Len(seals) + 1, files |-> Contents,
                   previous_seal_sha256 |-> LastHash]
  <2>1. seals' = Append(seals, x) /\ seals \in Seq(Agents) /\ Len(seals) \in Nat
    BY <1>1 DEF MakeSeal, Chain
  <2> HIDE DEF x
  <2>2. /\ Len(seals') = Len(seals) + 1 /\ DOMAIN seals' = 1..(Len(seals) + 1)
        /\ DOMAIN seals = 1..Len(seals)
        /\ \A n \in 1..Len(seals) : seals'[n] = seals[n]
        /\ seals'[Len(seals) + 1] = x
    <3>1. seals \in Seq(Agents \cup {x}) /\ x \in Agents \cup {x}
      BY <2>1
    <3> QED
      BY <2>1, <3>1, AppendProperties, LenProperties
  <2>3. seals' \in Seq(Agents')
    <3>1. Agents' = Agents \cup {x}
      BY <2>1, <2>2 DEF Agents
    <3>2. seals \in Seq(Agents \cup {x}) /\ x \in Agents \cup {x}
      BY <2>1
    <3> QED
      BY <2>1, <3>1, <3>2, AppendProperties
  <2>4. x = [made |-> Len(seals) + 1, files |-> x.files,
             previous_seal_sha256 |-> IF Len(seals) + 1 = 1 THEN None ELSE SealHash(seals[Len(seals)])]
    BY <2>1 DEF x, LastHash
  <2>5. DOMAIN x.files \subseteq Paths
    BY DEF x, Contents, Present
  <2>6. ASSUME NEW n \in DOMAIN seals'
        PROVE  /\ seals'[n] = [made |-> n, files |-> seals'[n].files,
                               previous_seal_sha256 |->
                                 IF n = 1 THEN None ELSE SealHash(seals'[n - 1])]
               /\ DOMAIN seals'[n].files \subseteq Paths
    <3>1. CASE n = Len(seals) + 1
      <4>1. n # 1 => seals'[n - 1] = seals[Len(seals)]
        <5>1. n - 1 = Len(seals)
          BY <2>1, <3>1
        <5>2. n # 1 => Len(seals) \in 1..Len(seals)
          BY <2>1, <3>1
        <5> QED
          BY <2>2, <5>1, <5>2
      <4> QED
        BY <2>2, <2>4, <2>5, <3>1, <4>1, <2>1
    <3>2. CASE n \in 1..Len(seals)
      <4>1. seals'[n] = seals[n] /\ (n # 1 => seals'[n - 1] = seals[n - 1])
        BY <2>1, <2>2, <3>2
      <4> QED
        BY <2>2, <3>2, <4>1 DEF Chain
    <3> QED
      BY <2>1, <2>2, <3>1, <3>2
  <2> QED
    BY <2>3, <2>6 DEF Chain, SealHash
<1>2. CASE UNCHANGED seals
  BY <1>2 DEF Chain, Agents, SealHash
<1>3. MakeSeal \/ UNCHANGED seals
  BY EveryFinish DEF SealNext, sealvars, MachineWorks, StartRun, Work, Finishes
<1> QED
  BY <1>1, <1>2, <1>3

LEMMA HandoverNext ==
  ASSUME SealTypeOK, Handover, [SealNext]_sealvars
  PROVE  Handover'
<1>1. CASE MakeSeal
  BY <1>1 DEF MakeSeal, Handover, progress
<1>2. CASE MachineWorks
  <2>1. UNCHANGED <<progress, body>> /\ quiet' = (pc = "idle")
    BY <1>2, MachineTypes DEF MachineWorks
  <2> QED
    BY <2>1 DEF Handover, progress
<1>3. CASE StartRun
  BY <1>3 DEF StartRun, Handover, Calls, Steps
<1>4. CASE RefuseInput \/ ConcludeRun \/ Raise
  BY <1>4, EveryFinish DEF Finishes, Handover
<1>5. CASE Work
  <2>1. UNCHANGED <<want, body, quiet>> /\ pc' # "idle"
    BY <1>5 DEF Work, CheckFiles, SkipEntry, NextEntry, TestIsFile, TestIsLink, Open, Read, ReadFrom,
                Found, Calls
  <2>2. pc' \in Steps \ {"read", "done"} => got' = <<>>
    BY <1>5 DEF Work, CheckFiles, SkipEntry, NextEntry, TestIsFile, TestIsLink, Open, Read, ReadFrom,
                Found, Calls, Handover, Steps
  <2> QED
    BY <2>1, <2>2 DEF Handover
<1>6. CASE UNCHANGED sealvars
  BY <1>6 DEF sealvars, progress, Handover
<1> QED
  BY <1>1, <1>2, <1>3, <1>4, <1>5, <1>6 DEF SealNext

\* Nothing that was noted of a run is forgotten.
LEMMA FactsGrow ==
  ASSUME SealTypeOK, [SealNext]_sealvars, pc # "idle"
  PROVE  DOMAIN facts' = DOMAIN facts /\ \A p \in DOMAIN facts : facts[p] \subseteq facts'[p]
<1>1. CASE MachineWorks
  BY <1>1, MachineTypes DEF MachineWorks, Noted
<1>2. CASE UNCHANGED facts
  BY <1>2
<1>3. MachineWorks \/ UNCHANGED facts
  BY EveryFinish DEF SealNext, sealvars, MakeSeal, StartRun, Calls, Work, CheckFiles, Finishes
<1> QED
  BY <1>1, <1>2, <1>3

LEMMA NowNext ==
  ASSUME SealTypeOK, NowIsNoted, [SealNext]_sealvars
  PROVE  NowIsNoted'
<1>1. CASE MachineWorks
  BY <1>1, MachineTypes DEF MachineWorks, Noted, NowIsNoted
<1>2. CASE StartRun
  BY <1>2 DEF StartRun, NowIsNoted
<1>3. CASE UNCHANGED <<at, data, want, facts>>
  BY <1>3 DEF NowIsNoted, Now, IsRegular
<1>4. MachineWorks \/ StartRun \/ UNCHANGED <<at, data, want, facts>>
  <2>1. CASE MakeSeal
    BY <2>1 DEF MakeSeal, machine, progress
  <2>2. CASE Work
    BY <2>2 DEF Work, CheckFiles, SkipEntry, NextEntry, TestIsFile, TestIsLink, Open, Read, ReadFrom,
                machine
  <2> QED
    BY <2>1, <2>2, EveryFinish DEF SealNext, sealvars, Finishes, machine, progress
<1> QED
  BY <1>1, <1>2, <1>3, <1>4

(***************************************************************************)
(* What the calls have seen, and what was reported.                         *)
(***************************************************************************)
\* What makes a line of the answer true, over what was noted of its path.
TrueIn(noted, what) ==
  CASE what = "unchanged" -> \E i \in Inodes : <<"led_to", i>> \in noted /\ <<"same", i>> \in noted
    [] what = "changed"   -> \E i \in Inodes : <<"led_to", i>> \in noted /\ <<"other", i>> \in noted
    [] what = "missing"   -> <<"not_regular">> \in noted
    [] OTHER -> FALSE

\* Of a larger set of notes it is true as well.
LEMMA TrueInMore ==
  ASSUME NEW noted, NEW more, noted \subseteq more, NEW what, TrueIn(noted, what)
  PROVE  TrueIn(more, what)
  BY DEF TrueIn

\* The invariant, with its notes named.
LinesTrue(lines, noted, shortened) ==
  \A p \in DOMAIN lines \cap Paths :
    /\ ~shortened => TrueIn(noted[p], lines[p])
    /\ lines[p] = "unchanged" => <<"regular">> \in noted[p] \/ <<"gone">> \in noted[p]

RaisedTrue ==
  pc = "raised" => Fact(path, "gone") /\ \E i \in Inodes : FactOf(path, "led_to", i)

LEMMA ReportNamed ==
  /\ ReportWasTrue <=> LinesTrue(report, facts, cut) /\ RaisedTrue
  /\ ReportWasTrue' <=> LinesTrue(report', facts', cut') /\ RaisedTrue'
  BY DEF ReportWasTrue, LinesTrue, TrueOnce, TrueIn, Fact, FactOf, RaisedTrue

\* The end of the check of a path, with an answer that was true.
LEMMA FoundTrue ==
  ASSUME SealTypeOK, ReportWasTrue, NEW p \in todo, NEW what, Found(p, what),
         UNCHANGED <<cut, facts>>,
         p \in Paths /\ ~cut => TrueIn(facts[p], what),
         p \in Paths /\ what = "unchanged" => Fact(p, "regular") \/ Fact(p, "gone")
  PROVE  SeenSoFar' /\ ReportWasTrue'
<1>1. pc' = "next" /\ DOMAIN report' = DOMAIN report \cup {p} /\ report'[p] = what
      /\ \A q \in DOMAIN report \ {p} : report'[q] = report[q]
  BY DEF Found
<1>2. LinesTrue(report', facts', cut')
  BY <1>1, ReportNamed DEF LinesTrue, Fact
<1>3. SeenSoFar' /\ RaisedTrue'
  BY <1>1 DEF SeenSoFar, RaisedTrue
<1> QED
  BY <1>2, <1>3, ReportNamed

LEMMA WorkSees ==
  ASSUME SealTypeOK, NowIsNoted, Handover, SeenSoFar, ReportWasTrue, Work
  PROVE  SeenSoFar' /\ ReportWasTrue'
<1> USE DEF Calls
<1>t. /\ todo \subseteq DOMAIN want
      /\ pc \in {"isfile", "islink", "open", "read", "raised"} =>
           path \in todo \cap Paths /\ path \in DOMAIN facts
      /\ at \in [Paths -> {Gone} \cup Standing] /\ data \in [Inodes -> Seq(Records)]
      /\ got \in Seq(Records)
      /\ pc = "read" <=> fd \in Inodes
  BY DEF SealTypeOK
<1>n. path \in DOMAIN facts => Now(path) \subseteq facts[path]
  BY DEF NowIsNoted
<1>u. UNCHANGED <<at, data, cut, facts, want, quiet>>
  BY DEF Work, CheckFiles, SkipEntry, NextEntry, TestIsFile, TestIsLink, Open, Read, ReadFrom, machine
<1>r. ASSUME UNCHANGED report, pc' # "raised" PROVE ReportWasTrue'
  BY <1>r, <1>u DEF ReportWasTrue, TrueOnce, Fact, FactOf
<1>1. CASE SkipEntry
  <2>1. Outside \in todo /\ Outside \notin Paths /\ Found(Outside, "invalid")
    BY <1>1, FilesAssumption DEF SkipEntry
  <2> QED
    BY <2>1, <1>u, FoundTrue
<1>2. ASSUME NEW p \in Paths, NextEntry(p) PROVE SeenSoFar' /\ ReportWasTrue'
  BY <1>2, <1>r DEF NextEntry, SeenSoFar
<1>3. CASE TestIsFile
  <2>1. pc = "isfile" /\ path \in todo \cap Paths /\ Now(path) \subseteq facts[path]
    BY <1>3, <1>t, <1>n DEF TestIsFile
  <2>2. CASE at[path] = Gone /\ Found(path, "missing")
    <3>1. TrueIn(facts[path], "missing")
      BY <2>1, <2>2, NowSays DEF TrueIn, IsRegular
    <3> QED
      BY <2>1, <2>2, <3>1, <1>u, FoundTrue
  <2>3. CASE at[path] # Gone /\ pc' = "islink" /\ UNCHANGED <<todo, path, fd, got, report>>
    <3>1. at[path].inode \in Inodes /\ FactOf(path, "led_to", at[path].inode)
      BY <2>1, <2>3, <1>t, NowSays, WhatStands DEF FactOf
    <3> QED
      BY <2>3, <3>1, <1>u, <1>r DEF SeenSoFar, FactOf
  <2> QED
    BY <1>3, <2>2, <2>3 DEF TestIsFile
<1>4. CASE TestIsLink
  <2>1. pc = "islink" /\ path \in todo \cap Paths /\ Now(path) \subseteq facts[path]
        /\ \E i \in Inodes : FactOf(path, "led_to", i)
    BY <1>4, <1>t, <1>n DEF TestIsLink, SeenSoFar
  <2>2. CASE at[path] # Gone /\ at[path].link /\ Found(path, "missing")
    <3>1. TrueIn(facts[path], "missing")
      BY <2>1, <2>2, NowSays DEF TrueIn, IsRegular
    <3> QED
      BY <2>1, <2>2, <3>1, <1>u, FoundTrue
  <2>3. CASE ~(at[path] # Gone /\ at[path].link) /\ pc' = "open"
             /\ UNCHANGED <<todo, path, fd, got, report>>
    <3>1. Fact(path, "regular") \/ Fact(path, "gone")
      BY <2>1, <2>3, NowSays DEF Fact, IsRegular
    <3> QED
      BY <2>1, <2>3, <3>1, <1>u, <1>r DEF SeenSoFar, FactOf, Fact
  <2> QED
    BY <1>4, <2>2, <2>3 DEF TestIsLink
<1>5. CASE Open
  <2>1. /\ pc = "open" /\ path \in todo \cap Paths /\ Now(path) \subseteq facts[path]
        /\ \E i \in Inodes : FactOf(path, "led_to", i)
        /\ Fact(path, "regular") \/ Fact(path, "gone")
        /\ got = <<>>
        /\ UNCHANGED <<want, todo, path, got, report>>
    BY <1>5, <1>t, <1>n DEF Open, SeenSoFar, Handover, Steps
  <2>2. CASE at[path] = Gone /\ pc' = "raised"
    <3>1. Fact(path, "gone")
      BY <2>1, <2>2, NowSays DEF Fact
    <3>2. SeenSoFar'
      BY <2>1, <2>2, <3>1, <1>u DEF SeenSoFar, FactOf, Fact
    <3> QED
      BY <2>1, <2>2, <3>1, <3>2, <1>u DEF ReportWasTrue, TrueOnce, FactOf, Fact
  <2>3. CASE at[path] # Gone /\ pc' = "read" /\ fd' = at[path].inode
    <3>1. FactOf(path, "led_to", fd') /\ fd' \in Inodes
      BY <2>1, <2>3, <1>t, NowSays, WhatStands DEF FactOf
    <3>2. Len(got') = 0 /\ Len(data'[fd']) \in Nat
      BY <2>1, <3>1, <1>t, <1>u
    <3>3. PrefixRead'
      BY <3>2 DEF PrefixRead
    <3> QED
      BY <2>1, <2>3, <3>1, <3>3, <1>u, <1>r DEF SeenSoFar, FactOf, Fact
  <2> QED
    BY <1>5, <2>2, <2>3 DEF Open
<1>6. CASE Read
  <2>1. /\ pc = "read" /\ path \in todo \cap Paths /\ Now(path) \subseteq facts[path]
        /\ Fact(path, "regular") \/ Fact(path, "gone")
        /\ FactOf(path, "led_to", fd) /\ fd \in Inodes /\ data[fd] \in Seq(Records)
    BY <1>6, <1>t, <1>n DEF Read, ReadFrom, SeenSoFar
  <2>l. Len(got) \in Nat /\ Len(data[fd]) \in Nat
    BY <2>1, <1>t
  <2>2. CASE Len(got) < Len(data[fd])
    <3>1. got' = Append(got, data[fd][Len(got) + 1]) /\ UNCHANGED <<pc, todo, path, fd, report>>
      BY <1>6, <2>2 DEF Read, ReadFrom
    <3>2. data[fd][Len(got) + 1] \in Records
      BY <2>1, <2>2, <1>t
    <3>3. /\ Len(got') = Len(got) + 1
          /\ \A k \in 1..Len(got) : got'[k] = got[k]
          /\ got'[Len(got) + 1] = data[fd][Len(got) + 1]
      BY <3>1, <3>2, <1>t, AppendProperties
    <3>4. PrefixRead => PrefixRead'
      BY <2>2, <2>l, <3>1, <3>3, <1>u DEF PrefixRead
    <3> QED
      BY <2>1, <3>1, <3>4, <1>u, <1>r DEF SeenSoFar, FactOf, Fact
  <2>3. CASE ~(Len(got) < Len(data[fd]))
    <3> DEFINE what == IF got = want[path] THEN "unchanged" ELSE "changed"
    <3>1. Found(path, what)
      BY <1>6, <2>3 DEF Read, ReadFrom
    <3>2. ASSUME ~cut PROVE TrueIn(facts[path], what)
      <4>1. Len(got) = Len(data[fd]) /\ \A k \in 1..Len(got) : got[k] = data[fd][k]
        BY <2>1, <2>l, <2>3, <3>2 DEF SeenSoFar, PrefixRead
      <4>2. got = data[fd]
        BY <2>1, <4>1, <1>t, SameRecords
      <4>3. IF got = want[path] THEN FactOf(path, "same", fd) ELSE FactOf(path, "other", fd)
        BY <2>1, <4>2, NowSays DEF FactOf
      <4> QED
        BY <2>1, <4>3 DEF TrueIn, FactOf
    <3> HIDE DEF what
    <3> QED
      BY <2>1, <3>1, <3>2, <1>u, FoundTrue
  <2> QED
    BY <2>2, <2>3
<1> QED
  BY <1>1, <1>2, <1>3, <1>4, <1>5, <1>6 DEF Work, CheckFiles

\* The other steps.
LEMMA NextSees ==
  ASSUME SealTypeOK, NowIsNoted, Handover, SeenSoFar, ReportWasTrue, [SealNext]_sealvars
  PROVE  SeenSoFar' /\ ReportWasTrue'
<1>1. CASE Work
  BY <1>1, WorkSees
<1>2. CASE MachineWorks
  <2>1. CASE pc = "idle"
    <3>1. pc' = "idle" /\ report' = report /\ DOMAIN report = {}
      BY <1>2, <2>1, MachineTypes DEF MachineWorks, progress, Handover, NoBody, SealTypeOK
    <3> QED
      BY <3>1 DEF SeenSoFar, ReportWasTrue
  <2>2. CASE pc # "idle"
    <3>1. /\ UNCHANGED progress /\ quiet' = FALSE
          /\ ~cut' => /\ ~cut
                      /\ \A i \in Inodes : /\ Len(data[i]) <= Len(data'[i])
                                           /\ \A k \in 1..Len(data[i]) : data'[i][k] = data[i][k]
      BY <1>2, <2>2, MachineTypes DEF MachineWorks
    <3>2. DOMAIN facts' = DOMAIN facts /\ \A p \in DOMAIN facts : facts[p] \subseteq facts'[p]
      BY <2>2, FactsGrow
    <3>3. /\ pc \in {"isfile", "islink", "open", "read", "raised"} => path \in DOMAIN facts
          /\ DOMAIN report \cap Paths \subseteq DOMAIN facts
          /\ pc = "read" <=> fd \in Inodes
          /\ got \in Seq(Records) /\ data \in [Inodes -> Seq(Records)]
          /\ data' \in [Inodes -> Seq(Records)]
      BY <1>2, MachineTypes DEF SealTypeOK, MachineWorks
    <3>4. UNCHANGED <<pc, path, fd, report>>
      BY <3>1 DEF progress
    <3>5. LinesTrue(report', facts', cut')
      BY <3>1, <3>2, <3>3, <3>4, ReportNamed, TrueInMore DEF LinesTrue
    <3>6. pc = "read" /\ ~cut' => PrefixRead'
      <4> SUFFICES ASSUME pc = "read", ~cut' PROVE PrefixRead'
        OBVIOUS
      <4>1. PrefixRead /\ fd \in Inodes
        BY <3>1, <3>3 DEF SeenSoFar
      <4>2. got' = got /\ fd' = fd
        BY <3>1 DEF progress
      <4>3. Len(data[fd]) <= Len(data'[fd]) /\ \A k \in 1..Len(data[fd]) : data'[fd][k] = data[fd][k]
        BY <3>1, <4>1
      <4>4. Len(got) \in Nat /\ Len(data[fd]) \in Nat /\ Len(data'[fd]) \in Nat
        BY <3>3, <4>1
      <4>5. Len(got) <= Len(data[fd]) /\ \A k \in 1..Len(got) : got[k] = data[fd][k]
        BY <4>1 DEF PrefixRead
      <4> QED
        BY <4>2, <4>3, <4>4, <4>5 DEF PrefixRead
    <3>7. SeenSoFar'
      BY <3>1, <3>2, <3>3, <3>4, <3>6 DEF SeenSoFar, Fact, FactOf
    <3>8. RaisedTrue'
      BY <3>2, <3>3, <3>4, ReportNamed DEF RaisedTrue, Fact, FactOf
    <3> QED
      BY <3>5, <3>7, <3>8, ReportNamed
  <2> QED
    BY <2>1, <2>2
<1>3. CASE StartRun
  <2>1. pc' = "next" /\ report' = report /\ DOMAIN report = {}
    BY <1>3 DEF StartRun, Calls, Handover, NoBody, SealTypeOK
  <2> QED
    BY <2>1 DEF SeenSoFar, ReportWasTrue
<1>4. CASE RefuseInput \/ ConcludeRun \/ Raise
  <2>1. Finishes
    BY <1>4, EveryFinish
  <2> QED
    BY <2>1 DEF Finishes, machine, SeenSoFar, ReportWasTrue, TrueOnce, Fact, FactOf
<1>5. CASE MakeSeal \/ UNCHANGED sealvars
  <2>1. UNCHANGED <<machine, progress, facts, quiet>>
    BY <1>5 DEF MakeSeal, sealvars
  <2> QED
    BY <2>1 DEF machine, progress, SeenSoFar, ReportWasTrue, PrefixRead, TrueOnce, Fact, FactOf
<1> QED
  BY <1>1, <1>2, <1>3, <1>4, <1>5 DEF SealNext

(***************************************************************************)
(* A run the machine does not disturb.                                      *)
(***************************************************************************)
LEMMA StillNext ==
  ASSUME SealTypeOK, Chain, Handover, SeenSoFar, Still, [SealNext]_sealvars
  PROVE  Still'
<1>1. CASE pc = "idle"
  <2>1. DOMAIN report = {}
    BY <1>1 DEF Handover, NoBody, SealTypeOK
  <2>2. report' = report /\ pc' \in {"idle", "next", "done"}
    <3>1. MakeSeal => report' = report /\ pc' = pc
      BY DEF MakeSeal, progress
    <3>2. MachineWorks => report' = report /\ pc' = pc
      BY MachineTypes DEF MachineWorks, progress
    <3>3. StartRun => report' = report /\ pc' = "next"
      BY DEF StartRun, Calls
    <3>4. RefuseInput \/ ConcludeRun \/ Raise => report' = report /\ pc' = "done"
      BY EveryFinish DEF Finishes
    <3>5. ~Work
      BY <1>1 DEF Work, CheckFiles, SkipEntry, NextEntry, TestIsFile, TestIsLink, Open, Read, ReadFrom,
                  Calls
    <3> QED
      BY <1>1, <3>1, <3>2, <3>3, <3>4, <3>5 DEF SealNext, sealvars, progress
  <2> QED
    BY <2>1, <2>2 DEF Still
<1>2. CASE pc # "idle" /\ MachineWorks
  BY <1>2 DEF MachineWorks, Still
<1>3. CASE Finishes
  BY <1>3 DEF Finishes, machine, Still, Agents, Untouched, IsRegular
<1>4. CASE UNCHANGED sealvars
  BY <1>4 DEF sealvars, machine, progress, Still, Agents, Untouched, IsRegular
<1>5. CASE Work
  <2> USE DEF Calls
  <2>t. /\ todo \subseteq DOMAIN want
        /\ pc \in {"isfile", "islink", "open", "read", "raised"} => path \in todo \cap Paths
        /\ at \in [Paths -> {Gone} \cup Standing] /\ data \in [Inodes -> Seq(Records)]
        /\ got \in Seq(Records)
        /\ pc = "read" <=> fd \in Inodes
        /\ want = body.files
    BY DEF SealTypeOK, Handover
  <2>u. UNCHANGED <<at, data, want, body, seals, quiet>>
    BY <1>5 DEF Work, CheckFiles, SkipEntry, NextEntry, TestIsFile, TestIsLink, Open, Read, ReadFrom,
                machine
  <2>a. Untouched' = Untouched /\ Agents' = Agents
    BY <2>u DEF Untouched, IsRegular, Agents
  <2>f. ASSUME NEW p, NEW what, Found(p, what), quiet,
               body \in Agents /\ Untouched => what = "unchanged"
        PROVE  Still'
    <3>1. pc' = "next" /\ DOMAIN report' = DOMAIN report \cup {p} /\ report'[p] = what
          /\ \A q \in DOMAIN report \ {p} : report'[q] = report[q]
      BY <2>f DEF Found
    <3>2. body' \in Agents' /\ Untouched' => \A q \in DOMAIN report' : report'[q] = "unchanged"
      BY <2>f, <2>u, <2>a, <3>1 DEF Still
    <3> QED
      BY <3>1, <3>2 DEF Still
  <2>r. ASSUME UNCHANGED report
        PROVE  quiet /\ body' \in Agents' /\ Untouched' => \A p \in DOMAIN report' : report'[p] = "unchanged"
    BY <2>r, <2>u, <2>a DEF Still
  <2>q. CASE ~quiet
    BY <2>q, <2>u DEF Still
  <2>1. CASE quiet /\ SkipEntry
    <3>1. body \notin Agents
      <4>1. Outside \in DOMAIN body.files /\ Outside \notin Paths
        BY <2>1, <2>t, FilesAssumption DEF SkipEntry
      <4> QED
        BY <4>1 DEF Chain, Agents
    <3> QED
      BY <2>1, <3>1, <2>f DEF SkipEntry
  <2>2. ASSUME NEW p \in Paths, NextEntry(p) PROVE Still'
    BY <2>2, <2>r, <2>u DEF NextEntry, Still
  <2>3. CASE quiet /\ TestIsFile
    <3>1. path \in DOMAIN body.files
      BY <2>3, <2>t DEF TestIsFile
    <3>2. CASE at[path] = Gone /\ Found(path, "missing")
      <4>1. ~Untouched
        BY <3>1, <3>2 DEF Untouched, IsRegular
      <4> QED
        BY <2>3, <3>2, <4>1, <2>f
    <3>3. CASE at[path] # Gone /\ pc' = "islink" /\ UNCHANGED <<todo, path, fd, got, report>>
      BY <3>3, <2>r, <2>u DEF Still
    <3> QED
      BY <2>3, <3>2, <3>3 DEF TestIsFile
  <2>4. CASE quiet /\ TestIsLink
    <3>1. path \in DOMAIN body.files /\ at[path] # Gone
      BY <2>4, <2>t DEF TestIsLink, Still
    <3>2. CASE at[path].link /\ Found(path, "missing")
      <4>1. ~Untouched
        BY <3>1, <3>2 DEF Untouched, IsRegular
      <4> QED
        BY <2>4, <3>2, <4>1, <2>f
    <3>3. CASE ~at[path].link /\ pc' = "open" /\ UNCHANGED <<todo, path, fd, got, report>>
      BY <3>1, <3>3, <2>r, <2>u DEF Still
    <3> QED
      BY <2>4, <3>1, <3>2, <3>3 DEF TestIsLink
  <2>5. CASE quiet /\ Open
    <3>1. at[path] # Gone /\ ~at[path].link
      BY <2>5 DEF Open, Still
    <3>2. pc' = "read" /\ fd' = at[path].inode /\ UNCHANGED <<path, report>>
      BY <2>5, <3>1 DEF Open
    <3> QED
      BY <3>1, <3>2, <2>r, <2>u DEF Still
  <2>6. CASE quiet /\ Read
    <3>1. /\ pc = "read" /\ path \in DOMAIN body.files /\ at[path] # Gone /\ ~at[path].link
          /\ fd = at[path].inode /\ fd \in Inodes /\ data[fd] \in Seq(Records) /\ PrefixRead
      BY <2>6, <2>t DEF Read, ReadFrom, Still, SeenSoFar
    <3>2. CASE Len(got) < Len(data[fd])
      <4>1. UNCHANGED <<pc, path, fd, report>>
        BY <2>6, <3>2 DEF Read, ReadFrom
      <4> QED
        BY <3>1, <4>1, <2>r, <2>u DEF Still
    <3>3. CASE ~(Len(got) < Len(data[fd]))
      <4> DEFINE what == IF got = want[path] THEN "unchanged" ELSE "changed"
      <4>1. Found(path, what)
        BY <2>6, <3>3 DEF Read, ReadFrom
      <4>2. Len(got) = Len(data[fd]) /\ \A k \in 1..Len(got) : got[k] = data[fd][k]
        <5>1. Len(got) \in Nat /\ Len(data[fd]) \in Nat
          BY <3>1, <2>t
        <5> QED
          BY <3>1, <3>3, <5>1 DEF PrefixRead
      <4>3. got = data[fd]
        BY <3>1, <4>2, <2>t, SameRecords
      <4>4. Untouched => what = "unchanged"
        BY <3>1, <4>3, <2>t DEF Untouched
      <4> HIDE DEF what
      <4> QED
        BY <2>6, <4>1, <4>4, <2>f
    <3> QED
      BY <3>2, <3>3
  <2> QED
    BY <1>5, <2>q, <2>1, <2>2, <2>3, <2>4, <2>5, <2>6 DEF Work, CheckFiles
<1>6. MakeSeal => pc = "idle"
  BY DEF MakeSeal
<1>7. StartRun => pc = "idle"
  BY DEF StartRun, Calls
<1> QED
  BY <1>1, <1>2, <1>3, <1>4, <1>5, <1>6, <1>7, EveryFinish DEF SealNext

\* The inductive invariant holds in every state.
LEMMA Invariant ==
  SealSpec => []IInv
<1>1. SealInit => IInv
  <2> SUFFICES ASSUME SealInit PROVE IInv
    OBVIOUS
  <2>1. SealTypeOK
    BY InitTypes
  <2>2. pc = "idle" /\ seals = <<>> /\ body = NoBody /\ quiet = TRUE /\ got = <<>>
        /\ want = body.files /\ DOMAIN report = {} /\ DOMAIN facts = {}
    BY DEF SealInit, FilesInit, NoBody
  <2>3. Chain
    BY <2>2 DEF Chain
  <2> QED
    BY <2>1, <2>2, <2>3 DEF IInv, Handover, NowIsNoted, SeenSoFar, ReportWasTrue, Still
<1>2. IInv /\ [SealNext]_sealvars => IInv'
  BY NextTypes, ChainNext, HandoverNext, NowNext, NextSees, StillNext DEF IInv
<1> QED
  BY <1>1, <1>2, PTL DEF SealSpec

\* Every variable holds a value of its kind; a path is being checked exactly
\* between the calls on it, a file is open only while it is read, and a listed
\* path is either still to be checked or reported on.
THEOREM TypeCorrect == SealSpec => []SealTypeOK
<1>1. IInv => SealTypeOK
  BY DEF IInv
<1> QED
  BY <1>1, Invariant, PTL

\* Every line of the answer of verify_seal.py was true while it ran, whatever
\* the machine did to the directory between its calls.
THEOREM ReportsWereTrue == SealSpec => []ReportWasTrue
<1>1. IInv => ReportWasTrue
  BY DEF IInv
<1> QED
  BY <1>1, Invariant, PTL

(***************************************************************************)
(* What the program answers at the end of its run.                          *)
(***************************************************************************)
\* What it may be handed: a signature and an anchor out of those there can be,
\* and options of its command line.
LEMMA HandedParts ==
  ASSUME NEW b, NEW g \in Handed(b)
  PROVE  /\ g.signature \in Signatures(b) \cup {Whole(b).signature}
         /\ g.anchor \in Anchors(b) \cup {Whole(b).anchor}
         /\ g.options.tsa_ca \in {{}, {OwnTSA}}
<1>1. CASE g = Whole(b)
  BY <1>1 DEF Whole
<1>2. CASE g \in WithSignature(b)
  <2>1. PICK s \in Signatures(b), k \in {None, AgentKey} :
          g = Resigned(b, s, k)
    BY <1>2 DEF WithSignature
  <2>2. g.signature = s /\ g.anchor = Whole(b).anchor /\ g.options.tsa_ca = {OwnTSA}
    BY <2>1 DEF Whole, Resigned
  <2> QED
    BY <2>2
<1>3. CASE g \in WithAnchor(b)
  <2>1. PICK t \in Anchors(b), cas \in {{}, {OwnTSA}}, o \in {"check", "require", "skip"} :
          g = Restamped(b, t, cas, o)
    BY <1>3 DEF WithAnchor
  <2>2. g.signature = Whole(b).signature /\ g.anchor = t /\ g.options.tsa_ca = cas
    BY <2>1 DEF Whole, Restamped
  <2> QED
    BY <2>2
<1>4. CASE g \in WithPrevious(b) \cup WithHash(b)
  <2>1. \/ \E p \in Previouses : g = [Whole(b) EXCEPT !.previous = p]
        \/ \E a \in Agents : g = [Whole(b) EXCEPT !.stated = SealHash(a)]
    BY <1>4 DEF WithPrevious, WithHash
  <2>2. /\ g.signature = Whole(b).signature /\ g.anchor = Whole(b).anchor
        /\ g.options.tsa_ca = {OwnTSA}
    BY <2>1 DEF Whole
  <2> QED
    BY <2>2
<1> QED
  BY <1>1, <1>2, <1>3, <1>4 DEF Handed

\* The hash of a seal is that of no other.
LEMMA HashesDiffer ==
  ASSUME NEW a, NEW b, SealHash(a) = SealHash(b)
  PROVE  a = b
  BY DEF SealHash

\* No seal is stamped or signed in a way that shows in its absence.
LEMMA NoneIsNoKey ==
  /\ \A named, by, b : by \in {AgentKey, OtherKey} => Signed(named, by, b) # NoSignature
  /\ \A name, tsa, b, t : tsa \in {OwnTSA, FreeTSA, OtherTSA} => Token(name, tsa, b, t) # NoAnchor
<1>1. \A named, by, b : by \in {AgentKey, OtherKey} => Signed(named, by, b).by # NoSignature.by
  BY SealAssumption DEF Signed, NoSignature
<1>2. \A name, tsa, b, t : tsa \in {OwnTSA, FreeTSA, OtherTSA} =>
        Token(name, tsa, b, t).ca # NoAnchor.ca
  BY SealAssumption DEF Token, NoAnchor
<1> QED
  BY <1>1, <1>2

\* A signature by the agent is over a seal the agent made.
LEMMA SignedByTheAgent ==
  ASSUME NEW g \in Handed(body), g.options.public_key = AgentKey, SignatureFailures(g) = {}
  PROVE  body \in Agents
<1>1. g.signature \in Signatures(body) \cup {Whole(body).signature}
  BY HandedParts
<1>2. /\ g.signature # NoSignature
      /\ g.signature.by = g.signature.public_key /\ g.signature.over = SealHash(body)
      /\ g.signature.public_key \in {AgentKey, None}
  BY SealAssumption DEF SignatureFailures
<1>3. CASE g.signature \in {Signed(OtherKey, OtherKey, body), Signed(AgentKey, OtherKey, body)}
  <2>1. g.signature.by = OtherKey
    BY <1>3 DEF Signed
  <2> QED
    BY <1>2, <2>1, SealAssumption
<1>4. ASSUME NEW named, NEW a \in Agents, g.signature = Signed(named, AgentKey, a)
      PROVE  body \in Agents
  <2>1. g.signature.over = SealHash(a)
    BY <1>4 DEF Signed
  <2> QED
    BY <1>2, <2>1, HashesDiffer
<1>5. CASE g.signature = Whole(body).signature
  BY <1>3, <1>5 DEF Whole
<1> QED
  BY <1>1, <1>2, <1>3, <1>4, <1>5 DEF Signatures

\* The seal a previous seal stands for is the one before it in the chain.
LEMMA LinkedToTheLast ==
  ASSUME Chain, NEW g, ChainFailures(g) = {}, g.previous # None,
         NEW n \in DOMAIN seals, body = seals[n]
  PROVE  n > 1 /\ n - 1 \in DOMAIN seals /\ g.previous.body = seals[n - 1]
<1>1. /\ PreviousHash(g.previous) # None
      /\ body.previous_seal_sha256 = PreviousHash(g.previous)
  BY DEF ChainFailures
<1>2. PreviousHash(g.previous) = SealHash(g.previous.body)
  BY <1>1 DEF PreviousHash
<1>3. body.previous_seal_sha256 = IF n = 1 THEN None ELSE SealHash(seals[n - 1])
  BY DEF Chain
<1>4. n # 1 /\ SealHash(seals[n - 1]) = SealHash(g.previous.body)
  BY <1>1, <1>2, <1>3
<1>5. n \in Nat /\ DOMAIN seals = 1..Len(seals) /\ Len(seals) \in Nat
  BY DEF Chain
<1>6. n > 1 /\ n - 1 \in DOMAIN seals
  BY <1>4, <1>5
<1> QED
  BY <1>4, <1>6, HashesDiffer

\* A time the program takes is one of an authority the caller trusts, and no
\* earlier than the seal.
LEMMA StampedInTime ==
  ASSUME Chain, NEW g \in Handed(body), TimestampStatus(g) = "OK"
  PROVE  /\ g.anchor.ca \in {OwnTSA, FreeTSA}
         /\ g.anchor.time \in Nat /\ g.anchor.time >= MadeAt(body)
         /\ body \in Agents \/ g.anchor.time = Len(seals)
<1>1. /\ g.anchor # NoAnchor /\ g.anchor.ca \in CaPaths(g) /\ g.anchor.imprint = SealHash(body)
  BY DEF TimestampStatus
<1>2. g.anchor.ca \in {OwnTSA, FreeTSA}
  <2>1. g.options.tsa_ca \in {{}, {OwnTSA}}
    BY HandedParts
  <2> QED
    BY <1>1, <2>1 DEF CaPaths
<1>3. /\ Len(seals) \in Nat /\ DOMAIN seals = 1..Len(seals)
      /\ \A a \in Agents : a.made \in 1..Len(seals)
  BY DEF Chain, Agents
<1>4. MadeAt(body) \in Nat /\ MadeAt(body) <= Len(seals)
  BY <1>3 DEF MadeAt
<1>5. ASSUME NEW name, NEW tsa, NEW a \in Agents, g.anchor = Token(name, tsa, a, a.made)
      PROVE  body \in Agents /\ g.anchor.time = MadeAt(body)
  <2>1. g.anchor.imprint = SealHash(a) /\ g.anchor.time = a.made
    BY <1>5 DEF Token
  <2> QED
    BY <1>1, <2>1, HashesDiffer DEF MadeAt
<1>6. ASSUME NEW name, NEW tsa, g.anchor = Token(name, tsa, body, Len(seals))
      PROVE  g.anchor.time = Len(seals)
  BY <1>6 DEF Token
<1>7. g.anchor # Token(FreeTSA, OtherTSA, body, 0)
  BY <1>2, SealAssumption DEF Token
<1>8. CASE g.anchor \in Anchors(body)
  <2>1. CASE g.anchor \in {Token(tsa, tsa, a, a.made) : tsa \in {OwnTSA, FreeTSA}, a \in Agents}
    <3>1. PICK tsa \in {OwnTSA, FreeTSA}, a \in Agents : g.anchor = Token(tsa, tsa, a, a.made)
      BY <2>1
    <3>2. body \in Agents /\ g.anchor.time = MadeAt(body)
      BY <1>5, <3>1
    <3> QED
      BY <1>2, <1>4, <3>2
  <2>2. CASE g.anchor = Token(OwnTSA, OwnTSA, body, Len(seals))
    BY <1>2, <1>3, <1>4, <1>6, <2>2
  <2> QED
    BY <1>1, <1>7, <1>8, <2>1, <2>2 DEF Anchors
<1>9. CASE g.anchor = Whole(body).anchor
  <2>1. g.anchor = Token(OwnTSA, OwnTSA, body, IF body \in Agents THEN body.made ELSE Len(seals))
    BY <1>9 DEF Whole
  <2> QED
    BY <1>2, <1>3, <1>4, <1>5, <1>6, <2>1
<1> QED
  BY <1>8, <1>9, HandedParts

\* With exit code 0 no check has added a failure.
LEMMA PassedAll ==
  ASSUME ConcludeRun, result'.exit = 0
  PROVE  /\ todo = {} /\ given' \in Handed(body)
         /\ FileFailures = {} /\ ChainFailures(given') = {} /\ SignatureFailures(given') = {}
         /\ TimestampFailures(given') = {}
         /\ result'.status = TimestampStatus(given')
         /\ result'.status = "OK" => result'.time = given'.anchor.time
<1> DEFINE g == given'
           answer == [failures |-> Failures(g), status |-> TimestampStatus(g),
                      time |-> IF TimestampStatus(g) = "OK" THEN g.anchor.time ELSE 0,
                      exit |-> IF Failures(g) = {} THEN 0 ELSE 1]
<1>1. todo = {} /\ g \in Handed(body)
  BY DEF ConcludeRun
<1>2. result' = answer \/ result' = [NoResult EXCEPT !.exit = 2]
  BY DEF ConcludeRun
<1>3. result' = answer
  BY <1>2 DEF NoResult
<1>4. Failures(g) = {} /\ result'.status = TimestampStatus(g)
      /\ (result'.status = "OK" => result'.time = g.anchor.time)
  BY <1>3
<1>5. /\ FileFailures = {} /\ ChainFailures(g) = {} /\ SignatureFailures(g) = {}
      /\ TimestampFailures(g) = {}
  BY <1>4 DEF Failures
<1> QED
  BY <1>1, <1>4, <1>5

\* No failure of the loop: every line says unchanged.
LEMMA AllUnchanged ==
  ASSUME FileFailures = {}, NEW p \in DOMAIN report
  PROVE  report[p] = "unchanged"
  BY DEF FileFailures

LEMMA ConcludedVerified ==
  ASSUME IInv, ConcludeRun, result'.exit = 0
  PROVE  /\ given'.options.public_key = AgentKey =>
              \E n \in DOMAIN seals :
                /\ body = seals[n]
                /\ given'.previous # None => n > 1 /\ given'.previous.body = seals[n - 1]
                /\ \A p \in DOMAIN seals[n].files : report[p] = "unchanged"
         /\ result'.status = "OK" =>
              /\ given'.anchor.ca \in {OwnTSA, FreeTSA}
              /\ result'.time >= MadeAt(body)
              /\ given'.previous # None => result'.time >= MadeAt(given'.previous.body)
         /\ given'.options.timestamp = "require" => result'.status = "OK"
<1> DEFINE g == given'
<1>1. /\ todo = {} /\ g \in Handed(body)
      /\ FileFailures = {} /\ ChainFailures(g) = {} /\ SignatureFailures(g) = {}
      /\ TimestampFailures(g) = {}
      /\ result'.status = TimestampStatus(g)
      /\ result'.status = "OK" => result'.time = g.anchor.time
  BY PassedAll
<1>2. Chain /\ DOMAIN report = DOMAIN body.files
  BY <1>1 DEF IInv, SealTypeOK, Handover
<1>3. /\ Len(seals) \in Nat /\ DOMAIN seals = 1..Len(seals)
      /\ \A n \in DOMAIN seals : seals[n].made = n
      /\ \A a \in Agents : a.made \in 1..Len(seals)
  BY <1>2 DEF Chain, Agents
<1> HIDE DEF g
<1>4. ASSUME g.options.public_key = AgentKey
      PROVE  \E n \in DOMAIN seals :
               /\ body = seals[n]
               /\ g.previous # None => n > 1 /\ g.previous.body = seals[n - 1]
               /\ \A p \in DOMAIN seals[n].files : report[p] = "unchanged"
  <2>1. PICK n \in DOMAIN seals : body = seals[n]
    BY <1>1, <1>4, SignedByTheAgent DEF Agents
  <2>2. g.previous # None => n > 1 /\ g.previous.body = seals[n - 1]
    BY <1>1, <1>2, <2>1, LinkedToTheLast
  <2>3. \A p \in DOMAIN seals[n].files : report[p] = "unchanged"
    BY <1>1, <1>2, <2>1, AllUnchanged
  <2> QED
    BY <2>1, <2>2, <2>3
<1>5. ASSUME result'.status = "OK"
      PROVE  /\ g.anchor.ca \in {OwnTSA, FreeTSA}
             /\ result'.time >= MadeAt(body)
             /\ g.previous # None => result'.time >= MadeAt(g.previous.body)
  <2>1. /\ g.anchor.ca \in {OwnTSA, FreeTSA} /\ result'.time \in Nat
        /\ result'.time >= MadeAt(body)
        /\ body \in Agents \/ result'.time = Len(seals)
    BY <1>1, <1>2, <1>5, StampedInTime
  <2>2. ASSUME g.previous # None, body \in Agents
        PROVE  result'.time >= MadeAt(g.previous.body)
    <3>1. PICK n \in DOMAIN seals : body = seals[n]
      BY <2>2 DEF Agents
    <3>2. n - 1 \in DOMAIN seals /\ g.previous.body = seals[n - 1]
      BY <1>1, <1>2, <2>2, <3>1, LinkedToTheLast
    <3>3. MadeAt(body) = n /\ MadeAt(g.previous.body) = n - 1
      BY <1>3, <3>1, <3>2 DEF MadeAt, Agents
    <3> QED
      BY <1>3, <2>1, <3>1, <3>3
  <2>3. MadeAt(g.previous.body) \in Nat /\ MadeAt(g.previous.body) <= Len(seals)
    BY <1>3 DEF MadeAt
  <2> QED
    BY <1>3, <2>1, <2>2, <2>3
<1>6. g.options.timestamp = "require" => result'.status = "OK"
  BY <1>1 DEF TimestampFailures, TimestampStatus
<1> QED
  BY <1>4, <1>5, <1>6 DEF g

\* The three answers of a finished run.
Answers == VerifiedIsTheAgents /\ TimestampIsThisSeals /\ HonestSealPasses

\* A seal of the agent, handed over whole.
LEMMA ConcludedHonest ==
  ASSUME IInv, ConcludeRun, body \in Agents, quiet, Untouched, given' = Whole(body)
  PROVE  result'.exit \in {0, 2}
<1> DEFINE g == Whole(body)
<1>1. /\ pc = "next" /\ todo = {}
      /\ Chain /\ Handover /\ Still /\ SealTypeOK
  BY DEF IInv, ConcludeRun, Calls
<1>2. PICK n \in DOMAIN seals : body = seals[n]
  BY DEF Agents
<1>3. /\ n \in Nat /\ body.made = n
      /\ body.previous_seal_sha256 = IF n = 1 THEN None ELSE SealHash(seals[n - 1])
  BY <1>1, <1>2 DEF Chain
<1>4. /\ g.stated = SealHash(body) /\ g.signature = Signed(AgentKey, AgentKey, body)
      /\ g.anchor = Token(OwnTSA, OwnTSA, body, body.made)
      /\ g.previous = IF body.previous_seal_sha256 = None THEN None
                      ELSE [body |-> seals[n - 1], seal_sha256 |-> body.previous_seal_sha256]
      /\ g.options.public_key = AgentKey /\ g.options.tsa_ca = {OwnTSA}
      /\ g.options.timestamp = "require"
  BY <1>3 DEF Whole
<1> HIDE DEF g
<1>5. FileFailures = {}
  BY <1>1 DEF Still, FileFailures
<1>6. ChainFailures(g) = {}
  <2>1. CASE g.previous = None
    BY <2>1 DEF ChainFailures
  <2>2. CASE g.previous # None
    <3>1. /\ body.previous_seal_sha256 # None
          /\ g.previous = [body |-> seals[n - 1], seal_sha256 |-> body.previous_seal_sha256]
      BY <1>4, <2>2
    <3>2. body.previous_seal_sha256 = SealHash(seals[n - 1])
      BY <1>3, <3>1
    <3>3. PreviousHash(g.previous) = body.previous_seal_sha256
      BY <3>1, <3>2 DEF PreviousHash
    <3> QED
      BY <3>1, <3>3 DEF ChainFailures
  <2> QED
    BY <2>1, <2>2
<1>7. SignatureFailures(g) = {}
  <2>1. /\ g.signature.by = AgentKey /\ g.signature.public_key = AgentKey
        /\ g.signature.over = SealHash(body)
    BY <1>4 DEF Signed
  <2>2. g.signature # NoSignature
    BY <1>4, NoneIsNoKey
  <2> QED
    BY <1>4, <2>1, <2>2 DEF SignatureFailures
<1>8. TimestampStatus(g) = "OK"
  <2>1. g.anchor.ca = OwnTSA /\ g.anchor.imprint = SealHash(body) /\ g.anchor # NoAnchor
    BY <1>4, NoneIsNoKey DEF Token
  <2> QED
    BY <1>4, <2>1 DEF TimestampStatus, CaPaths
<1>9. Failures(g) = {}
  BY <1>4, <1>5, <1>6, <1>7, <1>8 DEF Failures, TimestampFailures
<1>10. given' = g
  BY DEF g
<1>11. CASE result' = [NoResult EXCEPT !.exit = 2]
  BY <1>11 DEF NoResult
<1>12. CASE result'.exit = IF Failures(given') = {} THEN 0 ELSE 1
  BY <1>9, <1>10, <1>12
<1> QED
  BY <1>11, <1>12 DEF ConcludeRun

LEMMA AnswersNext ==
  ASSUME IInv, Answers, [SealNext]_sealvars
  PROVE  Answers'
<1>1. CASE pc' # "done"
  BY <1>1 DEF Answers, VerifiedIsTheAgents, TimestampIsThisSeals, HonestSealPasses, Verified
<1>2. CASE ConcludeRun
  <2>1. UNCHANGED <<at, data, report, seals, body, quiet>>
    BY <1>2 DEF ConcludeRun, machine
  <2>2. Agents' = Agents /\ (Untouched' <=> Untouched) /\ Whole(body)' = Whole(body)
        /\ \A b : MadeAt(b)' = MadeAt(b)
    BY <2>1 DEF Agents, Untouched, IsRegular, Whole, MadeAt
  <2>3. VerifiedIsTheAgents'
    BY <1>2, <2>1, ConcludedVerified DEF VerifiedIsTheAgents, Verified
  <2>4. TimestampIsThisSeals'
    BY <1>2, <2>1, <2>2, ConcludedVerified DEF TimestampIsThisSeals, Verified, MadeAt, Agents
  <2>5. HonestSealPasses'
    BY <1>2, <2>1, <2>2, ConcludedHonest DEF HonestSealPasses
  <2> QED
    BY <2>3, <2>4, <2>5 DEF Answers
<1>3. CASE RefuseInput
  <2>1. result'.exit # 0 /\ pc = "idle" /\ UNCHANGED <<body, seals>>
    <3>1. CASE result' = [NoResult EXCEPT !.exit = 2]
      BY <1>3, <3>1 DEF NoResult, RefuseInput, Calls
    <3>2. ASSUME NEW failure, result' = [NoResult EXCEPT !.failures = {failure}, !.exit = 1]
          PROVE  result'.exit # 0
      BY <3>2 DEF NoResult
    <3> QED
      BY <1>3, <3>1, <3>2 DEF RefuseInput, Calls
  <2>2. body \notin Agents
    <3>1. body.made = 0
      BY <2>1 DEF IInv, Handover, NoBody
    <3>2. \A a \in Agents : a.made # 0
      BY DEF IInv, Chain, Agents
    <3> QED
      BY <3>1, <3>2
  <2>3. Agents' = Agents
    BY <2>1 DEF Agents
  <2> QED
    BY <2>1, <2>2, <2>3
       DEF Answers, VerifiedIsTheAgents, TimestampIsThisSeals, HonestSealPasses, Verified
<1>4. CASE Raise
  <2>1. result'.exit = 1 /\ pc = "raised" /\ quiet' = quiet
    BY <1>4 DEF Raise, NoResult, Calls
  <2>2. ~quiet
    BY <2>1 DEF IInv, Still
  <2> QED
    BY <2>1, <2>2
       DEF Answers, VerifiedIsTheAgents, TimestampIsThisSeals, HonestSealPasses, Verified
<1>5. CASE UNCHANGED sealvars
  BY <1>5 DEF sealvars, machine, progress, Answers, VerifiedIsTheAgents, TimestampIsThisSeals,
              HonestSealPasses, Verified, Agents, Untouched, IsRegular, Whole, MadeAt
<1>6. ASSUME pc' = "done" PROVE ConcludeRun \/ RefuseInput \/ Raise \/ UNCHANGED sealvars
  <2>1. ~MakeSeal /\ ~StartRun
    BY <1>6 DEF MakeSeal, StartRun, Calls, progress
  <2>2. ~MachineWorks
    BY <1>6, MachineTypes DEF MachineWorks, progress, IInv
  <2>3. ~Work
    BY <1>6 DEF Work, CheckFiles, SkipEntry, NextEntry, TestIsFile, TestIsLink, Open, Read, ReadFrom,
                Found, Calls
  <2> QED
    BY <2>1, <2>2, <2>3 DEF SealNext
<1> QED
  BY <1>1, <1>2, <1>3, <1>4, <1>5, <1>6

LEMMA AnswersHold == SealSpec => []Answers
<1>1. SealInit => Answers
  BY DEF SealInit, FilesInit, Answers, VerifiedIsTheAgents, TimestampIsThisSeals, HonestSealPasses,
         Verified
<1>2. IInv /\ Answers /\ [SealNext]_sealvars => Answers'
  BY AnswersNext
<1> QED
  BY <1>1, <1>2, Invariant, PTL DEF SealSpec

\* With the agent's key pinned, a seal verify_seal.py accepts is one the agent
\* made, the one given as --previous is the agent's seal just before it, and no
\* entry was passed over.
THEOREM VerifiedSealsAreTheAgents == SealSpec => []VerifiedIsTheAgents
<1>1. Answers => VerifiedIsTheAgents
  BY DEF Answers
<1> QED
  BY <1>1, AnswersHold, PTL

\* A time verify_seal.py prints is one a trusted authority gave to this seal,
\* no earlier than the seal and the one before it were made; with
\* --require-timestamp there is one.
THEOREM TimesAreTheSeals == SealSpec => []TimestampIsThisSeals
<1>1. Answers => TimestampIsThisSeals
  BY DEF Answers
<1> QED
  BY <1>1, AnswersHold, PTL

\* A seal of the agent, handed over as the agent made it, is accepted if the
\* directory is untouched and its files are as they were.
THEOREM HonestSealsPass == SealSpec => []HonestSealPasses
<1>1. Answers => HonestSealPasses
  BY DEF Answers
<1> QED
  BY <1>1, AnswersHold, PTL

=============================================================================

---------------------------- MODULE SealedFiles ----------------------------
(***************************************************************************)
(* A directory of logs, and the loop of verify_seal that checks the files a *)
(* seal lists.  The loop asks whether a path is a regular file, asks again  *)
(* whether it is a link, opens it and reads it piece by piece; between any  *)
(* two of these calls the machine may write a record to a log, move a log   *)
(* away, or put another file or a link in its place.                        *)
(*                                                                          *)
(* A file (an inode) keeps its data whatever name leads to it, and an open  *)
(* file stays open when its name is gone.  A digest and a size stand for    *)
(* the data they are of.                                                    *)
(***************************************************************************)
EXTENDS Naturals, Sequences

CONSTANTS
  Paths,      \* the paths logs are kept under
  Outside,    \* a path _safe_rel refuses, or an entry that is not well formed
  Inodes,     \* the files
  Records,    \* what is written to a log, and what one read() returns
  Gone,       \* nothing stands at a path
  NoFile,     \* no path, no open file
  MaxRecords, \* bound: the records of a file
  MaxChanges  \* bound: what the machine does

ASSUME FilesAssumption ==
  /\ Outside \notin Paths /\ NoFile \notin Inodes \cup Paths \cup {Outside}
  /\ MaxRecords \in Nat /\ MaxChanges \in Nat

VARIABLES
  at,      \* what stands at each path: Gone, or an inode, directly or by a link
  data,    \* the records of each file
  cut,     \* a file was cut short in place (history)
  changes, \* what the machine has done so far
  pc,      \* the next call of the verifier
  want,    \* what the seal says of each path it lists
  todo,    \* the paths listed and not yet checked
  path,    \* the path that is being checked
  fd, got, \* the open file, and what was read from it
  report,  \* what the verifier found of each path
  facts    \* what has been true of the listed paths since the run began (history)

machine  == <<at, data, cut, changes>>
progress == <<pc, want, todo, path, fd, got, report>>

File(i) == [inode |-> i, link |-> FALSE]
Link(i) == [inode |-> i, link |-> TRUE]
Standing == {File(i) : i \in Inodes} \cup {Link(i) : i \in Inodes}

IsRegular(p) == at[p] # Gone /\ ~at[p].link

FilesInit ==
  /\ at \in {[p \in Paths |-> File(f[p])] :
               f \in {g \in [Paths -> Inodes] : \A p, q \in Paths : g[p] = g[q] => p = q}}
  /\ data = [i \in Inodes |-> <<>>]
  /\ cut = FALSE /\ changes = 0
  /\ pc = "idle" /\ want = [p \in {} |-> <<>>] /\ todo = {}
  /\ path = NoFile /\ fd = NoFile /\ got = <<>>
  /\ report = [p \in {} |-> "unchanged"] /\ facts = [p \in {} |-> {}]

(***************************************************************************)
(* History: whether a path held a regular file, which files it led to, and  *)
(* which files held what the seal says of it.                               *)
(***************************************************************************)
Now(p) ==
  {<<IF IsRegular(p) THEN "regular" ELSE "not_regular">>}
  \cup (IF at[p] = Gone THEN {<<"gone">>} ELSE {<<"led_to", at[p].inode>>})
  \cup {<<IF data[i] = want[p] THEN "same" ELSE "other", i>> : i \in Inodes}

\* While a run is under way, what is true now is noted.
Noted == facts' = [p \in DOMAIN facts |-> facts[p] \cup Now(p)']

(***************************************************************************)
(* The machine.                                                             *)
(***************************************************************************)
Changing ==
  /\ changes < MaxChanges
  /\ changes' = changes + 1
  /\ UNCHANGED progress
  /\ Noted

\* A writer keeps its log open, so it also writes to one that was moved away.
WriteRecord(i, r) ==
  /\ Len(data[i]) < MaxRecords
  /\ data' = [data EXCEPT ![i] = Append(@, r)]
  /\ UNCHANGED <<at, cut>>
  /\ Changing

MoveAway(p) ==
  /\ at[p] # Gone
  /\ at' = [at EXCEPT ![p] = Gone]
  /\ UNCHANGED <<data, cut>>
  /\ Changing

\* A new log, an old one moved back, or one renamed over another.
PutFile(p, i) ==
  /\ \A q \in Paths : at[q] # File(i)
  /\ at' = [at EXCEPT ![p] = File(i)]
  /\ UNCHANGED <<data, cut>>
  /\ Changing

PutLink(p, i) ==
  /\ at[p] # Link(i)
  /\ at' = [at EXCEPT ![p] = Link(i)]
  /\ UNCHANGED <<data, cut>>
  /\ Changing

\* A log that is rotated by copying it and cutting it short.
CutShort(i) ==
  /\ data[i] # <<>>
  /\ data' = [data EXCEPT ![i] = <<>>]
  /\ cut' = TRUE
  /\ UNCHANGED at
  /\ Changing

Machine ==
  \/ \E i \in Inodes : CutShort(i) \/ \E r \in Records : WriteRecord(i, r)
  \/ \E p \in Paths : \/ MoveAway(p)
                      \/ \E i \in Inodes : PutFile(p, i) \/ PutLink(p, i)

(***************************************************************************)
(* The loop over seal["files"], in the order the seal lists them.           *)
(***************************************************************************)
\* A variant that does not close the file.
FoundStillOpen(p, what) ==
  /\ report' = [q \in DOMAIN report \cup {p} |-> IF q = p THEN what ELSE report[q]]
  /\ todo' = todo \ {p}
  /\ path' = NoFile /\ fd' = fd /\ got' = <<>>
  /\ pc' = "next"

Found(p, what) ==
  /\ report' = [q \in DOMAIN report \cup {p} |-> IF q = p THEN what ELSE report[q]]
  /\ todo' = todo \ {p}
  /\ path' = NoFile /\ fd' = NoFile /\ got' = <<>>
  /\ pc' = "next"

Calls(now, next) == pc = now /\ pc' = next

SkipEntry ==
  /\ pc = "next" /\ Outside \in todo
  /\ Found(Outside, "invalid")
  /\ UNCHANGED want

NextEntry(p) ==
  /\ Calls("next", "isfile")
  /\ p \in todo \cap Paths
  /\ path' = p
  /\ UNCHANGED <<want, todo, fd, got, report>>

\* os.path.isfile follows a link.
TestIsFile ==
  /\ pc = "isfile"
  /\ \/ at[path] = Gone /\ Found(path, "missing")
     \/ at[path] # Gone /\ pc' = "islink" /\ UNCHANGED <<todo, path, fd, got, report>>
  /\ UNCHANGED want

\* A variant without the second half of the test.
TestNoLink == Calls("islink", "open") /\ UNCHANGED <<want, todo, path, fd, got, report>>

TestIsLink ==
  /\ pc = "islink"
  /\ \/ at[path] # Gone /\ at[path].link /\ Found(path, "missing")
     \/ ~(at[path] # Gone /\ at[path].link) /\ pc' = "open"
        /\ UNCHANGED <<todo, path, fd, got, report>>
  /\ UNCHANGED want

\* open() raises when the file has gone since; nothing catches it.
Open ==
  /\ pc = "open"
  /\ \/ at[path] = Gone /\ pc' = "raised" /\ UNCHANGED fd
     \/ at[path] # Gone /\ pc' = "read" /\ fd' = at[path].inode
  /\ UNCHANGED <<want, todo, path, got, report>>

\* One turn of the loop of _hash_file, over the records `rest` holds.
ReadFrom(rest) ==
  /\ pc = "read"
  /\ IF Len(got) < Len(rest)
       THEN /\ got' = Append(got, rest[Len(got) + 1])
            /\ UNCHANGED <<pc, todo, path, fd, report>>
       ELSE Found(path, IF got = want[path] THEN "unchanged" ELSE "changed")
  /\ UNCHANGED want

\* A variant that opens the path again for every piece.
ReadByName == ReadFrom(IF at[path] = Gone THEN <<>> ELSE data[at[path].inode])

Read == ReadFrom(data[fd])

CheckFiles ==
  /\ \/ SkipEntry \/ \E p \in Paths : NextEntry(p)
     \/ TestIsFile \/ TestIsLink \/ Open \/ Read
  /\ UNCHANGED <<machine, facts>>

=============================================================================

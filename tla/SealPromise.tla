---------------------------- MODULE SealPromise ----------------------------
(***************************************************************************)
(* What an answer of verify_seal.py shows.                                  *)
(***************************************************************************)
EXTENDS FileSeal

Steps == {"idle", "next", "isfile", "islink", "open", "read", "raised", "done"}

\* Every variable holds a value of its kind; a path is being checked exactly
\* between the calls on it, a file is open only while it is read, and a listed
\* path is either still to be checked or reported on.
SealTypeOK ==
  /\ at \in [Paths -> {Gone} \cup Standing]
  /\ data \in [Inodes -> Seq(Records)]
  /\ cut \in BOOLEAN /\ quiet \in BOOLEAN /\ changes \in Nat
  /\ pc \in Steps
  /\ DOMAIN want \subseteq Paths \cup {Outside}
  /\ todo \subseteq DOMAIN want
  /\ pc \in {"isfile", "islink", "open", "read", "raised"} => path \in todo \cap Paths
  /\ pc \in {"idle", "next"} => path = NoFile
  /\ pc = "read" <=> fd \in Inodes
  /\ got \in Seq(Records)
  /\ DOMAIN report = DOMAIN want \ todo
  /\ DOMAIN facts = DOMAIN want \cap Paths
  /\ result.exit # None <=> pc = "done"

Fact(p, what) == <<what>> \in facts[p]
FactOf(p, what, i) == <<what, i>> \in facts[p]

(***************************************************************************)
(* Every line of the answer was true while the program ran, whatever the    *)
(* machine did to the logs between its calls: a file reported unchanged     *)
(* stood under its path at some moment of the run and held, at some moment  *)
(* of the run, exactly what was sealed; one reported changed held something *)
(* else; a path reported missing was no regular file; and the run breaks    *)
(* off only over a path that was lost.  Logs that are cut short in place    *)
(* are excepted: of these a piece read before and one read after may make   *)
(* up contents there never were.  And a path that is a link for the whole   *)
(* run is never reported unchanged, whatever is behind it.                  *)
(***************************************************************************)
TrueOnce(p, what) ==
  CASE what = "unchanged" -> \E i \in Inodes : FactOf(p, "led_to", i) /\ FactOf(p, "same", i)
    [] what = "changed"   -> \E i \in Inodes : FactOf(p, "led_to", i) /\ FactOf(p, "other", i)
    [] what = "missing"   -> Fact(p, "not_regular")
    [] OTHER -> FALSE

ReportWasTrue ==
  /\ \A p \in DOMAIN report \cap Paths :
       /\ ~cut => TrueOnce(p, report[p])
       /\ report[p] = "unchanged" => Fact(p, "regular") \/ Fact(p, "gone")
  /\ pc = "raised" =>
       Fact(path, "gone") /\ \E i \in Inodes : FactOf(path, "led_to", i)

(***************************************************************************)
(* With the agent's key pinned, a seal that verifies is one the agent made, *)
(* whatever was done to the fields no hash covers; with --previous, that    *)
(* one is the agent's seal just before it, although nothing but its hash is *)
(* looked at; and no entry of it was passed over.                           *)
(***************************************************************************)
Verified == pc = "done" /\ result.exit = 0

VerifiedIsTheAgents ==
  Verified /\ given.options.public_key = AgentKey =>
    \E n \in DOMAIN seals :
      /\ body = seals[n]
      /\ given.previous # None => n > 1 /\ given.previous.body = seals[n - 1]
      /\ \A p \in DOMAIN seals[n].files : report[p] = "unchanged"

(***************************************************************************)
(* A time the program prints is one an authority the caller trusts gave to  *)
(* this very seal: no earlier than the seal was made, nor than the seal     *)
(* before it; and with --require-timestamp there is such a time.            *)
(***************************************************************************)
MadeAt(b) == IF b \in Agents THEN b.made ELSE Len(seals)

TimestampIsThisSeals ==
  Verified =>
    /\ result.status = "OK" =>
         /\ given.anchor.ca \in {OwnTSA, FreeTSA}
         /\ result.time >= MadeAt(body)
         /\ given.previous # None => result.time >= MadeAt(given.previous.body)
    /\ given.options.timestamp = "require" => result.status = "OK"

(***************************************************************************)
(* A seal of the agent verifies, with everything as the agent made it and   *)
(* the directory untouched, if every file it lists still holds what it held.*)
(***************************************************************************)
Untouched ==
  \A p \in DOMAIN body.files :
    IsRegular(p) /\ data[at[p].inode] = body.files[p]

HonestSealPasses ==
  pc = "done" /\ body \in Agents /\ quiet /\ Untouched =>
    \/ result.exit = 2
    \/ given = Whole(body) => result.exit = 0

=============================================================================

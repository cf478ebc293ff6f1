--------------------------- MODULE BrowserPromise ---------------------------
(***************************************************************************)
(* What the page shows, against what the command line would have printed.   *)
(***************************************************************************)
EXTENDS BrowserApp

\* What the equivalent command prints, on the file the run was started for
\* and with the key and the keyring it was given.
CommandLineAnswer ==
  Answer[result.key][result.ring # Nothing][result.ring][result.meant]

\* The keys of the keyrings the user may pick.
UsersKeys ==
  UNION {{Keyring[r].entries[kid].public_key : kid \in DOMAIN Keyring[r].entries} :
           r \in Rings}

\* Every variable holds a value the page can give it, runs are told apart by
\* their click, and once boot() is over the buttons are those of the form.
AppTypeOK ==
  /\ engine \in {"loading", "ready", "error"}
  /\ engine = "ready" <=> glue
  /\ glue => py
  /\ form.file \in Files \cup {Nothing} /\ form.ring \in Rings \cup {Nothing}
  /\ site \in {Nothing, SiteRing}
  /\ \A r \in running :
       /\ r.id \in 1..clicks /\ r.file \in Files
       /\ r.at \in {"demo", "packet", "evidence", "keyring"}
       /\ \A s \in running : r.id = s.id => r = s
  /\ result.id \in 0..clicks /\ result.code \in {0, 1, 2}
  /\ engine # "loading" =>
       enabled = [run |-> py /\ form.file # Nothing, demo |-> py]

\* One run at a time gives the verdict of the command line: of the file the
\* run was started for, under the key the status is about, whatever was
\* changed in the form meanwhile and whatever files an earlier run, broken
\* off in the middle, left under /work.
OneRunIsTheCommandLine ==
  ~overlap /\ result.id # 0 /\ result.code \in {0, 1} =>
    /\ result.ran /\ result.checked = result.meant
    /\ result.code = ExitCode(CommandLineAnswer)

\* A dispute packet that passes with the status PINNED was signed by a key the
\* user pasted or by one of a keyring the user picked: never only by a key the
\* site or the packet brought along, and that with any overlap of runs.
PinnedIsTheUsers ==
  /\ result.code = 0 /\ result.status = "pinned"
  /\ Content[result.checked].kind = "packet" /\ ~Content[result.checked].packet.archive
  => \E k \in UsersKeys \cup {result.key} :
       Authentic(k, Content[result.checked].packet.receipt, FALSE)

\* A verification that was started ends in a result on the page, a verdict or
\* an error.
EveryClickIsAnswered ==
  \A id \in 1..MaxClicks : (\E r \in running : r.id = id) ~> result.id = id

(***************************************************************************)
(* What the repository says and a run refutes.                              *)
(***************************************************************************)
\* The docstring of the page's tests: the same verdicts as the command line.
\* On packets main() has a verdict for, with runs that overlap.
OverlapKeepsTheVerdict ==
  /\ result.ran
  /\ CommandLineAnswer # "TRACEBACK"
  => result.code = ExitCode(CommandLineAnswer)

=============================================================================

------------------------- MODULE BrowserApp_proofs -------------------------
(***************************************************************************)
(* Proofs about BrowserApp, for every set of files and keyrings and any     *)
(* number of verifications.                                                 *)
(***************************************************************************)
EXTENDS BrowserPromise, TLAPS

(***************************************************************************)
(* The inductive invariant.                                                 *)
(***************************************************************************)
Runs ==
  [id : 1..clicks, at : {"demo", "packet", "evidence", "keyring"}, file : Files,
   ring : Rings \cup {Nothing}]
Works ==
  [packet : Files \cup {Nothing}, keyring : Rings \cup {Nothing},
   site_keyring : {Nothing, SiteRing}]

\* What the form, the runs and /work are made of.  The button is on only while
\* a file is picked, so a run always has one; it waits for a keyring only when
\* one is picked.
Kinds ==
  /\ form \in [file : Files \cup {Nothing}, key : Keys \cup {NoKey},
               ring : Rings \cup {Nothing}, evidence : BOOLEAN]
  /\ enabled.run => form.file # Nothing
  /\ clicks \in Nat /\ running \subseteq Runs /\ work \in Works
  /\ \A r \in running : r.at = "keyring" => r.ring # Nothing

\* As long as no run started beside another there is one at most, and what it
\* has written under /work is what it was started for.
OneAtATime ==
  ~overlap =>
    /\ \A r, s \in running : r = s
    /\ \A r \in running : r.at \in {"evidence", "keyring"} => work.packet = r.file

IInv == AppTypeOK /\ Kinds /\ OneAtATime /\ OneRunIsTheCommandLine /\ PinnedIsTheUsers

(***************************************************************************)
(* One step of run().                                                       *)
(***************************************************************************)
\* The file under /work once the run has written what it was waiting for.
Reads(r) == IF r.at \in {"demo", "packet"} THEN r.file ELSE work.packet

Waits(r) ==
  \E at \in {"evidence", "keyring"}, ring \in Rings \cup {Nothing}, w \in Works :
    WaitFor(r, at, ring, w) /\ w.packet = Reads(r) /\ (at = "keyring" => ring # Nothing)

Concludes(r) ==
  \E key \in Keys \cup {NoKey}, ring \in Rings \cup {SiteRing, Nothing},
     source \in {"pinned", "same-origin", "unpinned"}, w \in Works :
    /\ Conclude(r, key, ring, ring, source, w)
    /\ w.packet = Reads(r)
    /\ source = "pinned" => key # NoKey \/ ring \in Rings

LEMMA ChoosesKey ==
  ASSUME AppTypeOK, Kinds, NEW r \in running, NEW w \in Works, w.packet = Reads(r), ChooseKey(r, w)
  PROVE  Waits(r) \/ Concludes(r)
<1>1. form.key \in Keys \cup {NoKey} /\ form.ring \in Rings \cup {Nothing} /\ site \in {Nothing, SiteRing}
  BY DEF AppTypeOK, Kinds
<1>2. CASE form.key # NoKey
  <2>1. Conclude(r, form.key, Nothing, Nothing, "pinned", w)
    BY <1>2 DEF ChooseKey
  <2> QED
    BY <1>1, <1>2, <2>1 DEF Concludes
<1>3. CASE form.key = NoKey /\ form.ring # Nothing
  <2>1. WaitFor(r, "keyring", form.ring, w)
    BY <1>3 DEF ChooseKey
  <2> QED
    BY <1>1, <1>3, <2>1 DEF Waits
<1>4. CASE form.key = NoKey /\ form.ring = Nothing /\ site # Nothing
  <2> DEFINE v == [w EXCEPT !.site_keyring = site]
  <2>1. Conclude(r, NoKey, site, site, "same-origin", v)
    BY <1>4 DEF ChooseKey
  <2>2. v \in Works /\ v.packet = Reads(r)
    BY <1>1 DEF Works
  <2> HIDE DEF v
  <2> QED
    BY <1>1, <1>4, <2>1, <2>2 DEF Concludes
<1>5. CASE form.key = NoKey /\ form.ring = Nothing /\ site = Nothing
  <2>1. Conclude(r, NoKey, Nothing, Nothing, "unpinned", w)
    BY <1>5 DEF ChooseKey
  <2> QED
    BY <2>1 DEF Concludes
<1> QED
  BY <1>2, <1>3, <1>4, <1>5

\* A step of a run lets it wait for more, concludes it, or gives it up.
LEMMA AdvanceOutcome ==
  ASSUME AppTypeOK, Kinds, NEW r \in running, AdvanceRun(r)
  PROVE  Waits(r) \/ Concludes(r) \/ GetFails(r)
<1>1. CASE GetPacket(r)
  <2> DEFINE w == [work EXCEPT !.packet = r.file]
  <2>1. w \in Works /\ w.packet = Reads(r)
    BY <1>1 DEF Kinds, Works, Runs, GetPacket, Reads
  <2>2. WaitFor(r, "evidence", Nothing, w) \/ ChooseKey(r, w)
    BY <1>1 DEF GetPacket
  <2> HIDE DEF w
  <2>3. CASE WaitFor(r, "evidence", Nothing, w)
    BY <2>1, <2>3 DEF Waits
  <2>4. CASE ChooseKey(r, w)
    BY <2>1, <2>4, ChoosesKey
  <2> QED
    BY <2>2, <2>3, <2>4
<1>2. CASE GetEvidence(r)
  <2>1. work \in Works /\ work.packet = Reads(r) /\ ChooseKey(r, work)
    BY <1>2 DEF Kinds, GetEvidence, Reads
  <2> QED
    BY <2>1, ChoosesKey
<1>3. CASE GetKeyring(r)
  <2> DEFINE w == [work EXCEPT !.keyring = r.ring]
  <2>1. r.at = "keyring" /\ r.ring \in Rings /\ work \in Works
    BY <1>3 DEF Kinds, Runs, GetKeyring
  <2>2. w \in Works /\ w.packet = Reads(r) /\ w.keyring = r.ring
    BY <2>1 DEF Works, Reads
  <2>3. Conclude(r, NoKey, r.ring, r.ring, "pinned", w)
    BY <1>3, <2>2 DEF GetKeyring
  <2> HIDE DEF w
  <2> QED
    BY <2>1, <2>2, <2>3 DEF Concludes
<1> QED
  BY <1>1, <1>2, <1>3 DEF AdvanceRun

\* At its end a run shows a result of its own, and one other than an error is
\* what main() said of the file it found under /work.
Shown(r, key, ring, source, w) ==
  /\ running' = running \ {r} /\ work' \in Works
  /\ result'.id = r.id /\ result'.code \in {0, 1, 2}
  /\ result'.code \in {0, 1} =>
       /\ result'.ran /\ result'.checked = w.packet /\ result'.meant = r.file
       /\ result'.key = key /\ result'.ring = ring
       /\ result'.code = ExitCode(Answer[key][ring # Nothing][ring][w.packet])
       /\ ~IsShare(w.packet) => result'.status = source

LEMMA ThrowShows ==
  ASSUME NEW r, NEW w \in Works, NEW ran, NEW key, NEW ring, Throw(r, w, ran, key, ring)
  PROVE  running' = running \ {r} /\ work' \in Works /\ result'.id = r.id /\ result'.code = 2
  BY DEF Throw, NothingShown

LEMMA ConcludeShows ==
  ASSUME NEW r, NEW key, NEW ring, NEW source, NEW w \in Works,
         Conclude(r, key, ring, ring, source, w)
  PROVE  Shown(r, key, ring, source, w)
<1> DEFINE answer == Answer[key][ring # Nothing][ring][w.packet]
<1>1. CASE ~glue \/ answer = "TRACEBACK"
  <2>1. Throw(r, w, glue, key, ring)
    BY <1>1 DEF Conclude
  <2> QED
    BY <2>1 DEF Throw, NothingShown, Shown
<1>2. CASE ~(~glue \/ answer = "TRACEBACK")
  <2>1. /\ running' = running \ {r} /\ work' = EmptyWork
        /\ result' = [id |-> r.id, code |-> ExitCode(answer), ran |-> TRUE,
                      status |-> IF ~IsShare(w.packet) THEN source
                                 ELSE IF key # NoKey THEN "pinned" ELSE "unpinned",
                      checked |-> w.packet, meant |-> r.file, key |-> key, ring |-> ring]
    BY <1>2 DEF Conclude
  <2> HIDE DEF answer
  <2>2. EmptyWork \in Works
    BY DEF EmptyWork, Works
  <2>3. ExitCode(answer) \in {0, 1, 2}
    BY DEF ExitCode
  <2> QED
    BY <2>1, <2>2, <2>3 DEF Shown, answer
<1> QED
  BY <1>1, <1>2

Ends(r) ==
  \E key \in Keys \cup {NoKey}, ring \in Rings \cup {SiteRing, Nothing},
     source \in {"pinned", "same-origin", "unpinned"}, w \in Works :
    /\ Shown(r, key, ring, source, w)
    /\ result'.code \in {0, 1} => w.packet = Reads(r)
    /\ source = "pinned" => key # NoKey \/ ring \in Rings

LEMMA AdvanceEnds ==
  ASSUME AppTypeOK, Kinds, NEW r \in running, AdvanceRun(r)
  PROVE  Waits(r) \/ Ends(r)
<1>1. CASE Concludes(r)
  <2>1. PICK key \in Keys \cup {NoKey}, ring \in Rings \cup {SiteRing, Nothing},
             source \in {"pinned", "same-origin", "unpinned"}, w \in Works :
          /\ Conclude(r, key, ring, ring, source, w) /\ w.packet = Reads(r)
          /\ source = "pinned" => key # NoKey \/ ring \in Rings
    BY <1>1 DEF Concludes
  <2>2. Shown(r, key, ring, source, w)
    BY <2>1, ConcludeShows
  <2> QED
    BY <2>1, <2>2 DEF Ends
<1>2. CASE GetFails(r)
  <2>1. Throw(r, work, FALSE, NoKey, Nothing) /\ work \in Works
    BY <1>2 DEF GetFails, Kinds
  <2>2. running' = running \ {r} /\ work' \in Works /\ result'.id = r.id /\ result'.code = 2
    BY <2>1 DEF Throw, NothingShown
  <2>3. Shown(r, NoKey, Nothing, "unpinned", work)
    BY <2>2 DEF Shown
  <2> QED
    BY <2>1, <2>2, <2>3 DEF Ends
<1> QED
  BY <1>1, <1>2, AdvanceOutcome

(***************************************************************************)
(* The kinds of values, and the runs.                                       *)
(***************************************************************************)
\* Another turn of the page leaves the runs alone; a click adds one.
Pages == UNCHANGED <<running, work, result, clicks, overlap>>

Clicks ==
  /\ UNCHANGED <<engine, py, glue, form, enabled, site, work, result>>
  /\ clicks' = clicks + 1 /\ overlap' = (overlap \/ running # {})
  /\ \E at \in {"packet", "demo"}, file \in Files :
       running' = running \cup {[id |-> clicks + 1, at |-> at, file |-> file, ring |-> Nothing]}

LEMMA ClickAdds ==
  ASSUME AppTypeOK, Kinds, ClickRun \/ ClickDemo
  PROVE  Clicks
<1>1. CASE ClickRun
  <2>1. form.file \in Files
    BY <1>1 DEF ClickRun, Kinds
  <2> QED
    BY <1>1, <2>1 DEF ClickRun, Click, Clicks, page
<1>2. CASE ClickDemo
  BY <1>2, BrowserAssumption DEF ClickDemo, Click, Clicks, page
<1> QED
  BY <1>1, <1>2

\* Every step is a turn of the page, a click, or a step of a run.
LEMMA EveryStep ==
  ASSUME AppTypeOK, Kinds, [AppNext]_appvars
  PROVE  \/ Pages \/ Clicks
         \/ /\ UNCHANGED <<engine, py, glue, form, enabled, site, clicks, overlap>>
            /\ \E r \in running : Waits(r) \/ Ends(r)
<1>1. ASSUME NEW r \in running, AdvanceRun(r)
      PROVE  /\ UNCHANGED <<engine, py, glue, form, enabled, site, clicks, overlap>>
             /\ Waits(r) \/ Ends(r)
  BY <1>1, AdvanceEnds DEF AdvanceRun, page
<1>2. LoadPython \/ FinishBoot \/ PickEvidence \/ SiteAnswers => Pages
  BY DEF LoadPython, FinishBoot, PickEvidence, SiteAnswers, session, Pages
<1>3. \A f : PickFile(f) => Pages
  BY DEF PickFile, session, Pages
<1>4. \A k, q : PickKey(k, q) => Pages
  BY DEF PickKey, session, Pages
<1>5. UNCHANGED appvars => Pages
  BY DEF appvars, Pages
<1> QED
  BY <1>1, <1>2, <1>3, <1>4, <1>5, ClickAdds DEF AppNext

\* What the page holds beside its runs.
PageKinds ==
  /\ engine \in {"loading", "ready", "error"}
  /\ engine = "ready" <=> glue
  /\ glue => py
  /\ site \in {Nothing, SiteRing}
  /\ engine # "loading" => enabled = [run |-> py /\ form.file # Nothing, demo |-> py]
  /\ form \in [file : Files \cup {Nothing}, key : Keys \cup {NoKey},
               ring : Rings \cup {Nothing}, evidence : BOOLEAN]
  /\ enabled.run => form.file # Nothing

RunKinds ==
  /\ clicks \in Nat /\ running \subseteq Runs /\ work \in Works
  /\ \A r \in running : r.at = "keyring" => r.ring # Nothing
  /\ \A r, s \in running : r.id = s.id => r = s
  /\ result.id \in 0..clicks /\ result.code \in {0, 1, 2}

LEMMA KindsAreTheTwo ==
  /\ AppTypeOK /\ Kinds <=> PageKinds /\ RunKinds
  /\ AppTypeOK' /\ Kinds' <=> PageKinds' /\ RunKinds'
<1>1. AppTypeOK /\ Kinds <=> PageKinds /\ RunKinds
  BY DEF AppTypeOK, Kinds, PageKinds, RunKinds, Runs
<1>2. AppTypeOK' /\ Kinds' <=> PageKinds' /\ RunKinds'
  BY DEF AppTypeOK, Kinds, PageKinds, RunKinds, Runs
<1> QED
  BY <1>1, <1>2

LEMMA PageKindsNext ==
  ASSUME PageKinds, [AppNext]_appvars
  PROVE  PageKinds'
<1>1. CASE LoadPython
  BY <1>1 DEF LoadPython, session, PageKinds
<1>2. CASE FinishBoot
  <2>1. /\ engine = "loading" /\ UNCHANGED <<py, form, site>>
        /\ enabled' = [run |-> py /\ form.file # Nothing, demo |-> py]
    BY <1>2 DEF FinishBoot, Sync
  <2>2. \/ py /\ glue' = TRUE /\ engine' = "ready"
        \/ glue' = glue /\ engine' = "error"
    BY <1>2 DEF FinishBoot
  <2>3. glue = FALSE \/ ~glue
    BY <2>1 DEF PageKinds
  <2>4. /\ engine' \in {"loading", "ready", "error"}
        /\ engine' = "ready" <=> glue'
        /\ glue' => py'
    BY <2>1, <2>2, <2>3 DEF PageKinds
  <2>5. enabled'.run => form'.file # Nothing
    BY <2>1
  <2> QED
    BY <2>1, <2>4, <2>5 DEF PageKinds
<1>3. ASSUME NEW f \in Files \cup {Nothing}, PickFile(f) PROVE PageKinds'
  <2>1. /\ UNCHANGED <<engine, py, glue, site>> /\ form' = [form EXCEPT !.file = f]
        /\ enabled' = [run |-> py /\ f # Nothing, demo |-> py]
    BY <1>3 DEF PickFile, Sync
  <2>2. form' \in [file : Files \cup {Nothing}, key : Keys \cup {NoKey},
                   ring : Rings \cup {Nothing}, evidence : BOOLEAN]
        /\ form'.file = f
    BY <2>1 DEF PageKinds
  <2>3. enabled'.run => f # Nothing
    BY <2>1
  <2> QED
    BY <2>1, <2>2, <2>3 DEF PageKinds
<1>4. CASE PickEvidence
  <2>1. /\ UNCHANGED <<engine, py, glue, site>>
        /\ form' = [form EXCEPT !.evidence = ~form.evidence]
        /\ enabled' = [run |-> py /\ form.file # Nothing, demo |-> py]
    BY <1>4 DEF PickEvidence, Sync
  <2>2. form' \in [file : Files \cup {Nothing}, key : Keys \cup {NoKey},
                   ring : Rings \cup {Nothing}, evidence : BOOLEAN]
        /\ form'.file = form.file
    BY <2>1 DEF PageKinds
  <2>3. enabled'.run => form.file # Nothing
    BY <2>1
  <2> QED
    BY <2>1, <2>2, <2>3 DEF PageKinds
<1>5. ASSUME NEW k \in Keys \cup {NoKey}, NEW q \in Rings \cup {Nothing}, PickKey(k, q)
      PROVE  PageKinds'
  <2>1. /\ UNCHANGED <<engine, py, glue, site, enabled>>
        /\ form' = [form EXCEPT !.key = k, !.ring = q]
    BY <1>5 DEF PickKey
  <2>2. form' \in [file : Files \cup {Nothing}, key : Keys \cup {NoKey},
                   ring : Rings \cup {Nothing}, evidence : BOOLEAN]
        /\ form'.file = form.file
    BY <2>1 DEF PageKinds
  <2> QED
    BY <2>1, <2>2 DEF PageKinds
<1>6. CASE SiteAnswers
  BY <1>6 DEF SiteAnswers, PageKinds
<1>7. CASE UNCHANGED page
  BY <1>7 DEF page, PageKinds
<1>8. ClickRun \/ ClickDemo \/ (\E r \in running : AdvanceRun(r)) => UNCHANGED page
  BY DEF ClickRun, ClickDemo, Click, AdvanceRun
<1>9. UNCHANGED appvars => UNCHANGED page
  BY DEF appvars, page
<1>10. Pasted \subseteq Keys
  BY BrowserAssumption
<1> QED
  BY <1>1, <1>2, <1>3, <1>4, <1>5, <1>6, <1>7, <1>8, <1>9, <1>10 DEF AppNext

LEMMA RunKindsNext ==
  ASSUME AppTypeOK, Kinds, RunKinds, [AppNext]_appvars
  PROVE  RunKinds'
<1>1. CASE Pages
  BY <1>1 DEF Pages, RunKinds, Runs
<1>2. CASE Clicks
  <2>1. PICK at \in {"packet", "demo"}, file \in Files :
          running' = running \cup {[id |-> clicks + 1, at |-> at, file |-> file, ring |-> Nothing]}
    BY <1>2 DEF Clicks
  <2> DEFINE n == [id |-> clicks + 1, at |-> at, file |-> file, ring |-> Nothing]
  <2>2. clicks' = clicks + 1 /\ clicks \in Nat /\ UNCHANGED <<work, result>>
    BY <1>2 DEF Clicks, RunKinds
  <2>3. n.id = clicks + 1 /\ n.at \in {"packet", "demo"} /\ n \in Runs'
    BY <2>2 DEF Runs
  <2> HIDE DEF n
  <2>4. Runs \subseteq Runs' /\ \A r \in running : r.id # n.id
    BY <2>2, <2>3 DEF Runs, RunKinds
  <2>5. running' = running \cup {n}
    BY <2>1 DEF n
  <2>6. running' \subseteq Runs' /\ \A r, s \in running' : r.id = s.id => r = s
    BY <2>3, <2>4, <2>5 DEF RunKinds
  <2>7. \A r \in running' : r.at = "keyring" => r.ring # Nothing
    BY <2>3, <2>5 DEF RunKinds
  <2>8. result'.id \in 0..clicks' /\ result'.code \in {0, 1, 2}
    BY <2>2 DEF RunKinds
  <2> QED
    BY <2>2, <2>6, <2>7, <2>8 DEF RunKinds, Works
<1>3. ASSUME NEW r \in running, Waits(r), UNCHANGED clicks PROVE RunKinds'
  <2>1. PICK at \in {"evidence", "keyring"}, ring \in Rings \cup {Nothing}, w \in Works :
          WaitFor(r, at, ring, w) /\ (at = "keyring" => ring # Nothing)
    BY <1>3 DEF Waits
  <2> DEFINE n == [r EXCEPT !.at = at, !.ring = ring]
  <2>2. running' = (running \ {r}) \cup {n} /\ work' = w /\ result' = result
    BY <2>1 DEF WaitFor
  <2>3. n \in Runs /\ n.id = r.id /\ n.at = at /\ n.ring = ring
    BY DEF RunKinds, Runs
  <2> HIDE DEF n
  <2>4. Runs' = Runs
    BY <1>3 DEF Runs
  <2>5. \A s, t \in running' : s.id = t.id => s = t
    BY <2>2, <2>3 DEF RunKinds
  <2> QED
    BY <1>3, <2>1, <2>2, <2>3, <2>4, <2>5 DEF RunKinds, Works
<1>4. ASSUME NEW r \in running, Ends(r), UNCHANGED clicks PROVE RunKinds'
  <2>1. running' = running \ {r} /\ work' \in Works /\ result'.id = r.id /\ result'.code \in {0, 1, 2}
    BY <1>4 DEF Ends, Shown
  <2>2. r.id \in 0..clicks /\ Runs' = Runs /\ Works' = Works
    BY <1>4 DEF RunKinds, Runs, Works
  <2> QED
    BY <1>4, <2>1, <2>2 DEF RunKinds
<1> QED
  BY <1>1, <1>2, <1>3, <1>4, EveryStep

(***************************************************************************)
(* What the page shows.                                                     *)
(***************************************************************************)
LEMMA OneAtATimeNext ==
  ASSUME AppTypeOK, Kinds, OneAtATime, [AppNext]_appvars
  PROVE  OneAtATime'
<1>1. CASE Pages
  BY <1>1 DEF Pages, OneAtATime
<1>2. CASE Clicks
  <2>1. PICK at \in {"packet", "demo"}, file \in Files :
          running' = running \cup {[id |-> clicks + 1, at |-> at, file |-> file, ring |-> Nothing]}
    BY <1>2 DEF Clicks
  <2>2. ~overlap' => running = {}
    BY <1>2 DEF Clicks
  <2> QED
    BY <2>1, <2>2 DEF OneAtATime
<1>3. ASSUME NEW r \in running, Waits(r), UNCHANGED overlap PROVE OneAtATime'
  <2>1. PICK at \in {"evidence", "keyring"}, ring \in Rings \cup {Nothing}, w \in Works :
          WaitFor(r, at, ring, w) /\ w.packet = Reads(r)
    BY <1>3 DEF Waits
  <2> DEFINE n == [r EXCEPT !.at = at, !.ring = ring]
  <2>2. running' = (running \ {r}) \cup {n} /\ work' = w
    BY <2>1 DEF WaitFor
  <2>3. n.file = r.file /\ r.at \in {"demo", "packet", "evidence", "keyring"}
    BY DEF Kinds, Runs
  <2> HIDE DEF n
  <2>4. CASE ~overlap
    <3>1. running' = {n}
      BY <2>2, <2>4 DEF OneAtATime
    <3>2. work'.packet = r.file
      BY <2>1, <2>2, <2>3, <2>4 DEF OneAtATime, Reads
    <3> QED
      BY <2>3, <3>1, <3>2 DEF OneAtATime
  <2> QED
    BY <1>3, <2>4 DEF OneAtATime
<1>4. ASSUME NEW r \in running, Ends(r), UNCHANGED overlap PROVE OneAtATime'
  <2>1. running' = running \ {r}
    BY <1>4 DEF Ends, Shown
  <2> QED
    BY <1>4, <2>1 DEF OneAtATime
<1> QED
  BY <1>1, <1>2, <1>3, <1>4, EveryStep

LEMMA OneRunNext ==
  ASSUME AppTypeOK, Kinds, OneAtATime, OneRunIsTheCommandLine, [AppNext]_appvars
  PROVE  OneRunIsTheCommandLine'
<1>1. ASSUME NEW r \in running, Ends(r), UNCHANGED overlap PROVE OneRunIsTheCommandLine'
  <2>1. PICK key \in Keys \cup {NoKey}, ring \in Rings \cup {SiteRing, Nothing},
             source \in {"pinned", "same-origin", "unpinned"}, w \in Works :
          Shown(r, key, ring, source, w) /\ (result'.code \in {0, 1} => w.packet = Reads(r))
    BY <1>1 DEF Ends
  <2> SUFFICES ASSUME ~overlap, result'.code \in {0, 1}
               PROVE  /\ result'.ran /\ result'.checked = result'.meant
                      /\ result'.code = ExitCode(CommandLineAnswer')
    BY <1>1 DEF OneRunIsTheCommandLine, ExitCode
  <2>2. w.packet = r.file
    BY <2>1 DEF Reads, OneAtATime, Kinds, Runs
  <2>3. /\ result'.ran /\ result'.checked = r.file /\ result'.meant = r.file
        /\ result'.key = key /\ result'.ring = ring
        /\ result'.code = ExitCode(Answer[key][ring # Nothing][ring][r.file])
    BY <2>1, <2>2 DEF Shown
  <2> QED
    BY <2>3 DEF CommandLineAnswer
<1>2. CASE UNCHANGED result /\ (overlap => overlap')
  BY <1>2 DEF OneRunIsTheCommandLine, CommandLineAnswer
<1>3. Pages \/ Clicks => UNCHANGED result /\ (overlap => overlap')
  <2>1. Pages => UNCHANGED result /\ overlap' = overlap
    BY DEF Pages
  <2>2. Clicks => UNCHANGED result /\ (overlap => overlap')
    BY Zenon DEF Clicks
  <2> QED
    BY <2>1, <2>2
<1>4. ASSUME NEW r \in running, Waits(r), UNCHANGED overlap
      PROVE  UNCHANGED result /\ (overlap => overlap')
  BY <1>4 DEF Waits, WaitFor
<1> QED
  BY <1>1, <1>2, <1>3, <1>4, EveryStep

\* What main() answers on a packet.
LEMMA AnswerOnAPacket ==
  ASSUME NEW key \in Keys \cup {NoKey}, NEW ringed \in BOOLEAN,
         NEW ring \in Rings \cup {SiteRing, Nothing}, NEW file \in Files \cup {Nothing},
         ~IsShare(file)
  PROVE  Answer[key][ringed][ring][file] =
           IF ~Usable(Typed(key, ringed, ring)) THEN "UNABLE_TO_RUN"
           ELSE IF file = Nothing THEN "UNREADABLE"
           ELSE VerdictOf(Typed(key, ringed, ring), Content[file].packet)
  BY DEF Answer, Prints

LEMMA OnlyTheseExitWithZero ==
  ASSUME NEW v, ExitCode(v) = 0
  PROVE  v \in {"VERIFIED", "VERIFIED (chain only)", "VERIFIED (archive export)"}
<1> DEFINE S == {"VERIFIED", "VERIFIED (chain only)", "VERIFIED (archive export)"}
<1>1. v \in S \/ ExitCode(v) = 2 \/ ExitCode(v) = 1
  BY DEF ExitCode
<1> HIDE DEF S
<1>2. v \in S
  BY <1>1
<1> QED
  BY <1>2 DEF S

\* A dispute packet main() accepts, on a command line without a checkpoint, was
\* signed by the holder of its manifest's key, which is the pinned one or the
\* one the keyring gives.
LEMMA AcceptedUnderTheKey ==
  ASSUME NEW c, NEW p, ExitCode(VerdictOf(c, p)) = 0,
         c.checkpoint = None, ~c.archive_export, ~p.archive
  PROVE  /\ Authentic(p.manifest.receipt_public_key, p.receipt, c.oqs)
         /\ PinAgrees(c, p)
         /\ c.keyring_given => KeyringVouches(c, p)
<1>1. ~ArchiveMode(c, p) /\ ~ChainOnly(c, p)
  BY DEF ArchiveMode, ChainOnly
<1>2. VerdictOf(c, p) \in {"VERIFIED", "VERIFIED (chain only)", "VERIFIED (archive export)"}
  BY OnlyTheseExitWithZero
<1>3. Verified(c, p)
  BY <1>1, <1>2 DEF VerdictOf
<1> QED
  BY <1>3 DEF Verified

LEMMA PinnedNext ==
  ASSUME AppTypeOK, Kinds, PinnedIsTheUsers, [AppNext]_appvars
  PROVE  PinnedIsTheUsers'
<1>1. ASSUME NEW r \in running, Ends(r) PROVE PinnedIsTheUsers'
  <2>1. PICK key \in Keys \cup {NoKey}, ring \in Rings \cup {SiteRing, Nothing},
             source \in {"pinned", "same-origin", "unpinned"}, w \in Works :
          Shown(r, key, ring, source, w) /\ (source = "pinned" => key # NoKey \/ ring \in Rings)
    BY <1>1 DEF Ends
  <2> DEFINE file == w.packet
             p == Content[file].packet
             ringed == ring # Nothing
             c == Typed(key, ringed, ring)
  <2> SUFFICES ASSUME result'.code = 0, result'.status = "pinned",
                      Content[result'.checked].kind = "packet",
                      ~Content[result'.checked].packet.archive
               PROVE  \E k \in UsersKeys \cup {result'.key} :
                        Authentic(k, Content[result'.checked].packet.receipt, FALSE)
    BY DEF PinnedIsTheUsers, UsersKeys
  <2>2. /\ result'.checked = file /\ result'.key = key
        /\ ExitCode(Answer[key][ringed][ring][file]) = 0
        /\ ~IsShare(file) => result'.status = source
    BY <2>1 DEF Shown
  <2>3. Content[file].kind = "packet" /\ ~p.archive /\ ~IsShare(file)
    BY <2>2 DEF IsShare
  <2>4. key # NoKey \/ ring \in Rings
    BY <2>1, <2>2, <2>3
  <2>5. file \in Files \cup {Nothing} /\ ringed \in BOOLEAN
    BY DEF Works
  <2>6. Answer[key][ringed][ring][file] =
          IF ~Usable(c) THEN "UNABLE_TO_RUN" ELSE IF file = Nothing THEN "UNREADABLE"
          ELSE VerdictOf(c, p)
    BY <2>3, <2>5, AnswerOnAPacket
  <2>7. ExitCode(VerdictOf(c, p)) = 0
    BY <2>2, <2>6, OnlyTheseExitWithZero
  <2>8. /\ c.checkpoint = None /\ ~c.archive_export /\ c.oqs = FALSE
        /\ c.pinned = (key # NoKey) /\ c.pin = key /\ c.keyring_given = ringed
        /\ c.keyring = IF ring = Nothing THEN <<>> ELSE Keyring[ring].entries
    BY DEF Typed
  <2> HIDE DEF c, p
  <2>9. /\ Authentic(p.manifest.receipt_public_key, p.receipt, FALSE)
        /\ PinAgrees(c, p)
        /\ c.keyring_given => KeyringVouches(c, p)
    BY <2>3, <2>7, <2>8, AcceptedUnderTheKey
  <2>10. CASE key # NoKey
    BY <2>2, <2>8, <2>9, <2>10 DEF PinAgrees, p
  <2>11. CASE key = NoKey
    <3>1. ring \in Rings /\ ring # Nothing
      BY <2>4, <2>11, BrowserAssumption
    <3>2. LET kid == p.receipt.body.key_id IN
          /\ kid \in DOMAIN Keyring[ring].entries
          /\ Keyring[ring].entries[kid].public_key = p.manifest.receipt_public_key
      BY <2>8, <2>9, <3>1 DEF KeyringVouches
    <3>3. p.manifest.receipt_public_key \in UsersKeys
      BY <3>1, <3>2 DEF UsersKeys
    <3> QED
      BY <2>2, <2>9, <3>3 DEF p
  <2> QED
    BY <2>10, <2>11
<1>2. CASE UNCHANGED result
  BY <1>2 DEF PinnedIsTheUsers, UsersKeys
<1>3. Pages \/ Clicks \/ (\E r \in running : Waits(r)) => UNCHANGED result
  BY DEF Pages, Clicks, Waits, WaitFor
<1> QED
  BY <1>1, <1>2, <1>3, EveryStep

LEMMA Invariant ==
  AppSpec => []IInv
<1>1. AppInit => IInv
  <2> SUFFICES ASSUME AppInit PROVE IInv
    OBVIOUS
  <2>1. PageKinds
    BY DEF AppInit, PageKinds
  <2>2. RunKinds
    BY DEF AppInit, RunKinds, Works, EmptyWork, NothingShown
  <2>3. OneAtATime /\ OneRunIsTheCommandLine /\ PinnedIsTheUsers
    BY DEF AppInit, OneAtATime, OneRunIsTheCommandLine, PinnedIsTheUsers, NothingShown
  <2> QED
    BY <2>1, <2>2, <2>3, KindsAreTheTwo DEF IInv
<1>2. IInv /\ [AppNext]_appvars => IInv'
  <2> SUFFICES ASSUME IInv, [AppNext]_appvars PROVE IInv'
    OBVIOUS
  <2>1. PageKinds' /\ RunKinds'
    BY PageKindsNext, RunKindsNext, KindsAreTheTwo DEF IInv
  <2> QED
    BY <2>1, KindsAreTheTwo, OneAtATimeNext, OneRunNext, PinnedNext DEF IInv
<1> QED
  BY <1>1, <1>2, PTL DEF AppSpec

\* Every variable holds a value the page can give it; runs are told apart by
\* their click; once boot() is over the buttons are those of the form.
THEOREM TypeCorrect == AppSpec => []AppTypeOK
<1>1. IInv => AppTypeOK
  BY DEF IInv
<1> QED
  BY <1>1, Invariant, PTL

\* Verifications of the page that do not overlap show the verdict of the
\* command line, on the file they were started for.
THEOREM OneRunAnswersAsTheCommandLine == AppSpec => []OneRunIsTheCommandLine
<1>1. IInv => OneRunIsTheCommandLine
  BY DEF IInv
<1> QED
  BY <1>1, Invariant, PTL

\* A dispute packet the page accepts as PINNED was signed by a key the user
\* pasted or picked, however the verifications overlap.
THEOREM PinnedUnderTheUsersKey == AppSpec => []PinnedIsTheUsers
<1>1. IInv => PinnedIsTheUsers
  BY DEF IInv
<1> QED
  BY <1>1, Invariant, PTL

=============================================================================

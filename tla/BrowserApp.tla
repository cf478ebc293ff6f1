----------------------------- MODULE BrowserApp -----------------------------
(***************************************************************************)
(* browser/app.js with browser/glue.py: a page that runs verify.py, inside  *)
(* Pyodide, on files the user picks.  A verification is the async function  *)
(* run(): it awaits the bytes of the files one after the other, writes them *)
(* under /work, and after the last await runs main() on them, reads its     *)
(* answer, empties /work and shows the result, all in one turn.  Each await *)
(* is a point where another click, another edit of the form or another run  *)
(* takes its turn; nothing keeps two runs apart, and /work is shared.       *)
(*                                                                          *)
(* main() of verify.py is VerdictOf of PacketVerdict, which module          *)
(* PacketPromise shows to be what a run of it prints.                       *)
(***************************************************************************)
EXTENDS PacketVerdict

CONSTANTS
  Files,      \* the packets and share packs a user may pick
  Demos,      \* the demo packet and share pack the site serves
  Content,    \* what is in each of them
  Pasted,     \* the keys a user may paste
  Rings,      \* the keyring files a user may pick
  SiteRing,   \* the keyring the site serves
  Keyring,    \* what is in each of these
  Nothing,    \* nothing picked, or a path where there is nothing
  MaxClicks   \* the verifications of a session, to keep it finite

\* A file is [kind : "packet" or "share_pack", packet, pack_ok, seal_key], of
\* which the second part is read for a packet and the rest for a share pack;
\* a keyring file is [readable, entries].
ASSUME BrowserAssumption ==
  /\ Demos \subseteq Files /\ DOMAIN Content = Files /\ Pasted \subseteq Keys
  /\ SiteRing \notin Rings /\ DOMAIN Keyring = Rings \cup {SiteRing}
  /\ Nothing \notin Files \cup Rings \cup {SiteRing}
  /\ MaxClicks \in Nat

VARIABLES
  engine,     \* what the page says of its verifier
  py, glue,   \* Pyodide is there; verify.py and glue.py are loaded in it
  form,       \* [file, key, ring, evidence]: what is picked and pasted
  enabled,    \* [run, demo]: the buttons, as of the last sync()
  site,       \* sameOriginKeyring, Nothing for null
  clicks,     \* verifications started
  running,    \* the verifications under way
  work,       \* [packet, keyring, site_keyring]: what is under /work
  result,     \* what is shown
  overlap     \* a verification started while another was under way (history)

appvars == <<engine, py, glue, form, enabled, site, clicks, running, work,
             result, overlap>>

\* Beside the exit code and the signing-key status, a result keeps (history)
\* whether main() ran, on which file, for which run, with which key.
NothingShown ==
  [id |-> 0, code |-> 2, status |-> "none", ran |-> FALSE, checked |-> Nothing,
   meant |-> Nothing, key |-> NoKey, ring |-> Nothing]
EmptyWork == [packet |-> Nothing, keyring |-> Nothing, site_keyring |-> Nothing]

AppInit ==
  /\ engine = "loading" /\ py = FALSE /\ glue = FALSE
  /\ form = [file |-> Nothing, key |-> NoKey, ring |-> Nothing, evidence |-> FALSE]
  /\ enabled = [run |-> FALSE, demo |-> FALSE]
  /\ site = Nothing
  /\ clicks = 0 /\ running = {} /\ work = EmptyWork
  /\ result = NothingShown /\ overlap = FALSE

session == <<clicks, running, work, result, overlap>>

(***************************************************************************)
(* boot() and sync().                                                       *)
(***************************************************************************)
Sync(loaded, file) == enabled' = [run |-> loaded /\ file # Nothing, demo |-> loaded]

\* loadPyodide answers; the verifier's own files are still to come.
LoadPython ==
  /\ engine = "loading" /\ ~py
  /\ py' = TRUE
  /\ UNCHANGED <<engine, glue, form, enabled, site, session>>

\* A variant of the rest of boot() that leaves the buttons alone.
FinishBootWithoutSync ==
  /\ engine = "loading"
  /\ \/ py /\ glue' = TRUE /\ engine' = "ready"
     \/ UNCHANGED glue /\ engine' = "error"
  /\ UNCHANGED <<enabled, py, form, site, session>>

\* The rest of boot(), or its catch; sync() either way.
FinishBoot ==
  /\ engine = "loading"
  /\ \/ py /\ glue' = TRUE /\ engine' = "ready"
     \/ UNCHANGED glue /\ engine' = "error"
  /\ Sync(py, form.file)
  /\ UNCHANGED <<py, form, site, session>>

(***************************************************************************)
(* The form.  Only the file pickers call sync().                            *)
(***************************************************************************)
PickFile(f) ==
  /\ f # form.file
  /\ form' = [form EXCEPT !.file = f]
  /\ Sync(py, f)
  /\ UNCHANGED <<engine, py, glue, site, session>>

\* The anchors file and the TSA certificates: with one of them there is one
\* more await on the way.
PickEvidence ==
  /\ form' = [form EXCEPT !.evidence = ~@]
  /\ Sync(py, form.file)
  /\ UNCHANGED <<engine, py, glue, site, session>>

PickKey(k, r) ==
  /\ <<k, r>> # <<form.key, form.ring>>
  /\ form' = [form EXCEPT !.key = k, !.ring = r]
  /\ UNCHANGED <<engine, py, glue, enabled, site, session>>

\* The answer to a click on "Use the keyring this site serves", or its catch.
SiteAnswers ==
  /\ site' \in {SiteRing, Nothing}
  /\ UNCHANGED <<engine, py, glue, form, enabled, session>>

(***************************************************************************)
(* run().  A run waits for the bytes of the demo, the packet, the evidence  *)
(* files or the keyring, whichever `at` says.                               *)
(***************************************************************************)
page == <<engine, py, glue, form, enabled, site>>

Click(at, file) ==
  /\ clicks < MaxClicks
  /\ clicks' = clicks + 1
  /\ running' = running \cup
       {[id |-> clicks + 1, at |-> at, file |-> file, ring |-> Nothing]}
  /\ overlap' = (overlap \/ running # {})
  /\ UNCHANGED <<page, work, result>>

ClickRun  == enabled.run /\ Click("packet", form.file)
ClickDemo == enabled.demo /\ \E f \in Demos : Click("demo", f)

\* The click handler's catch: show(2, "Browser error").  /work stays as it is.
Throw(r, w, ran, key, ring) ==
  /\ running' = running \ {r}
  /\ work' = w
  /\ result' = [NothingShown EXCEPT !.id = r.id, !.ran = ran, !.checked = w.packet,
                                    !.meant = r.file, !.key = key, !.ring = ring]

WaitFor(r, at, ring, w) ==
  /\ running' = (running \ {r}) \cup {[r EXCEPT !.at = at, !.ring = ring]}
  /\ work' = w
  /\ UNCHANGED result

\* The command line glue.py types for a packet.  `ringed` says that it passes
\* the path of a keyring, `ring` what is there.
Typed(key, ringed, ring) ==
  [runnable |-> TRUE, oqs |-> FALSE, archive_export |-> FALSE,
   pinned |-> key # NoKey, pin |-> key, keyring_given |-> ringed,
   keyring_readable |-> ring # Nothing /\ Keyring[ring].readable,
   keyring |-> IF ring = Nothing THEN <<>> ELSE Keyring[ring].entries,
   checkpoint |-> None, sth_key |-> NoKey, tsa_roots |-> {}, asn1 |-> FALSE]

\* verify_tenant_export.py's main(), with the pasted key or none.
ShareVerdict(key, pack) ==
  IF pack.pack_ok /\ key \in {NoKey, pack.seal_key} THEN "VERIFIED"
  ELSE "VERIFICATION FAILED"

IsShare(file) == file # Nothing /\ Content[file].kind = "share_pack"

\* What main() prints, by the key and the keyring it was given and the file
\* under /work.
Prints(key, ringed, ring, file) ==
  LET c == Typed(key, ringed, ring) IN
  IF IsShare(file) THEN ShareVerdict(key, Content[file])
  ELSE IF ~Usable(c) THEN "UNABLE_TO_RUN"
  ELSE IF file = Nothing THEN "UNREADABLE"
  ELSE VerdictOf(c, Content[file].packet)

\* The same as a table: TLC works it out once.
Answer ==
  [key \in Keys \cup {NoKey} |-> [ringed \in BOOLEAN |->
    [ring \in Rings \cup {SiteRing, Nothing} |-> [file \in Files \cup {Nothing} |->
      Prints(key, ringed, ring, file)]]]]

\* From the last await to the end.  An exception out of main() is the click
\* handler's to catch; otherwise /work is emptied and the answer shown.  The
\* run means the keyring `ring`, and main() finds `read` under its path.
Conclude(r, key, ring, read, source, w) ==
  LET file == w.packet
      said == Answer[key][ring # Nothing][read][file]
  IN IF ~glue \/ said = "TRACEBACK" THEN Throw(r, w, glue, key, ring)
     ELSE /\ running' = running \ {r}
          /\ work' = EmptyWork
          /\ result' = [id |-> r.id, code |-> ExitCode(said), ran |-> TRUE,
                        status |-> IF ~IsShare(file) THEN source
                                   ELSE IF key # NoKey THEN "pinned" ELSE "unpinned",
                        checked |-> file, meant |-> r.file, key |-> key,
                        ring |-> ring]

\* A variant that takes the site's keyring first and says PINNED of it.
ChooseSiteFirst(r, w) ==
  IF site # Nothing
    THEN Conclude(r, NoKey, site, site, "pinned", [w EXCEPT !.site_keyring = site])
  ELSE IF form.ring # Nothing
    THEN WaitFor(r, "keyring", form.ring, w)
  ELSE IF form.key # NoKey
    THEN Conclude(r, form.key, Nothing, Nothing, "pinned", w)
  ELSE Conclude(r, NoKey, Nothing, Nothing, "unpinned", w)

\* The key, most independent first: pasted, from a keyring file, the site's.
ChooseKey(r, w) ==
  IF form.key # NoKey
    THEN Conclude(r, form.key, Nothing, Nothing, "pinned", w)
  ELSE IF form.ring # Nothing
    THEN WaitFor(r, "keyring", form.ring, w)
  ELSE IF site # Nothing
    THEN Conclude(r, NoKey, site, site, "same-origin", [w EXCEPT !.site_keyring = site])
  ELSE Conclude(r, NoKey, Nothing, Nothing, "unpinned", w)

\* A variant that does not write the packet over one already there.
GetPacketOnce(r) ==
  LET w == [work EXCEPT !.packet = IF @ = Nothing THEN r.file ELSE @] IN
  /\ r.at \in {"demo", "packet"}
  /\ IF form.evidence THEN WaitFor(r, "evidence", Nothing, w) ELSE ChooseKey(r, w)

GetPacket(r) ==
  LET w == [work EXCEPT !.packet = r.file] IN
  /\ r.at \in {"demo", "packet"}
  /\ IF form.evidence THEN WaitFor(r, "evidence", Nothing, w) ELSE ChooseKey(r, w)

GetEvidence(r) == r.at = "evidence" /\ ChooseKey(r, work)

GetKeyring(r) ==
  LET w == [work EXCEPT !.keyring = r.ring] IN
  r.at = "keyring" /\ Conclude(r, NoKey, r.ring, w.keyring, "pinned", w)

\* What it awaits cannot be read or fetched.
GetFails(r) == Throw(r, work, FALSE, NoKey, Nothing)

\* A variant without the handlers' catch.
AdvanceUncaught(r) ==
  /\ \/ GetPacket(r) \/ GetEvidence(r) \/ GetKeyring(r)
     \/ running' = running \ {r} /\ UNCHANGED <<work, result>>
  /\ UNCHANGED <<page, clicks, overlap>>

AdvanceRun(r) ==
  /\ UNCHANGED <<page, clicks, overlap>>
  /\ GetFails(r) \/ GetPacket(r) \/ GetEvidence(r) \/ GetKeyring(r)

AppNext ==
  \/ LoadPython \/ FinishBoot
  \/ \E f \in Files \cup {Nothing} : PickFile(f)
  \/ PickEvidence
  \/ \E k \in Pasted \cup {NoKey}, r \in Rings \cup {Nothing} : PickKey(k, r)
  \/ SiteAnswers
  \/ ClickRun \/ ClickDemo
  \/ \E r \in running : AdvanceRun(r)

\* Every promise of the page's own settles, with a value or an error.
AppFairness ==
  /\ WF_appvars(LoadPython \/ FinishBoot)
  /\ \A id \in 1..MaxClicks :
       WF_appvars(\E r \in running : r.id = id /\ AdvanceRun(r))

AppSpec == AppInit /\ [][AppNext]_appvars /\ AppFairness

=============================================================================

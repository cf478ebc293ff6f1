----------------------------- MODULE TamperDemo -----------------------------
(***************************************************************************)
(* tamper_demo/index.html: a page that verifies what its editors hold, again*)
(* after every edit.  runVerification is asynchronous: it parses the        *)
(* editors, then awaits verifyPacket, whose every digest and signature check*)
(* is a promise, and only then writes the badge.  Nothing cancels an older  *)
(* run when a newer one starts.                                             *)
(*                                                                          *)
(* A run works on the objects it parsed, so its awaits matter only for when *)
(* it ends: one event of verifyEvents, and verifyReceipt with the update of *)
(* the page after it, are one step each.                                    *)
(***************************************************************************)
EXTENDS MinVerifier

CONSTANTS
  Texts,      \* a sequence: what the user may make of the editors
  Original,   \* the place in it of the demo packet the page was shipped with
  MaxEdits    \* the edits and resets of a session, to keep it finite

IsSequence(s) == s \in Seq({s[i] : i \in DOMAIN s})

\* What the editors hold of an event, null or not.
EventFields == {"material", "object", "action_id", "payload", "payload_hash",
                "previous_event_hash", "event_id", "event_hash"}

ASSUME TextsAssumption ==
  /\ Original \in DOMAIN Texts /\ Texts[Original].parses
  /\ \A n \in DOMAIN Texts : IsSequence(Texts[n].events)
  /\ \A n \in DOMAIN Texts : \A i \in DOMAIN Texts[n].events :
       /\ EventFields \subseteq DOMAIN Texts[n].events[i]
       /\ Texts[n].events[i].object => /\ "details" \in DOMAIN Texts[n].events[i].payload
                                       /\ Texts[n].events[i].payload.details \in Json
  /\ MaxEdits \in Nat

VARIABLES
  text,       \* what the editors hold, as its place in Texts
  edits,      \* how many edits and resets there were
  runs,       \* the verifications under way
  badge,      \* the status badge
  list,       \* the failures listed, as a set of codes
  shown,      \* the text the badge's verdict is about (history)
  overlapped  \* an edit came while a verification was under way (history)

vars == <<text, edits, runs, badge, list, shown, overlapped>>

\* What the checks of a text report: before its events, of each, after the
\* last, and of its receipt, unless verifyReceipt throws.
ChecksOf(t) ==
  [before     |-> HeaderCodes(t.manifest, t.events),
   of_event   |-> [i \in DOMAIN t.events |-> MinEventCodes(t.events, i)],
   after      |-> ActionCodes(t.manifest, t.events),
   of_receipt |-> MinReceiptCodes(t),
   throws     |-> ReceiptRejects(t)]

Checks == [n \in DOMAIN Texts |-> ChecksOf(Texts[n])]

\* A run is at event `at` of its loop, or at the receipt: at = 0.  It works on
\* the objects it parsed, so what its checks will report is settled.
NewRun(id, t) ==
  LET checks == Checks[t] IN
  [id |-> id, text |-> t, checks |-> checks, failures |-> checks.before,
   at |-> IF checks.of_event = <<>> THEN 0 ELSE 1]

Init ==
  /\ text = Original
  /\ edits = 0
  /\ runs = {NewRun(0, Original)}
  /\ badge = "Verifying"
  /\ list = {}
  /\ shown = Original
  /\ overlapped = FALSE

\* runVerification up to its await.  What verifyPacket throws before its own
\* first await leaves a rejected promise nobody handles: no run.
RunVerification(t) ==
  \/ /\ ~Texts[t].parses
     /\ badge' = "INVALID JSON"
     /\ list' = {"JSON_PARSE_ERROR"}
     /\ shown' = t
     /\ UNCHANGED runs
  \/ /\ Texts[t].parses
     /\ badge' = "Verifying"
     /\ runs' = IF HeaderRejects(Texts[t]) THEN runs ELSE runs \cup {NewRun(edits + 1, t)}
     /\ UNCHANGED <<list, shown>>

Changed(t) ==
  /\ edits < MaxEdits
  /\ edits' = edits + 1
  /\ text' = t
  /\ overlapped' = (overlapped \/ runs # {})

Edit(t) ==
  /\ t # text
  /\ Changed(t)
  /\ RunVerification(t)

\* A variant of the reset button that verifies before it loads.
ResetVerifiesFirst == Changed(Original) /\ RunVerification(text)

Reset == Changed(Original) /\ RunVerification(Original)

\* A variant of the loop that goes one past the last event.
CheckEventPastTheLast(r) ==
  LET codes == r.checks.of_event[r.at]
      stops == "MALFORMED_EVENT" \in codes
      ends  == r.at > Len(r.checks.of_event)
  IN /\ r.at # 0
     /\ runs' = (runs \ {r}) \cup
          {[r EXCEPT !.failures = @ \cup codes
                       \cup IF ends /\ ~stops
                            THEN r.checks.after ELSE {},
                     !.at = IF ends \/ stops THEN 0 ELSE @ + 1]}
     /\ UNCHANGED <<text, edits, badge, list, shown, overlapped>>

\* One event of verifyEvents' loop, and after the last the action look-up.
CheckEvent(r) ==
  LET codes == r.checks.of_event[r.at]
      stops == "MALFORMED_EVENT" \in codes
      ends  == r.at = Len(r.checks.of_event)
  IN /\ r.at # 0
     /\ runs' = (runs \ {r}) \cup
          {[r EXCEPT !.failures = @ \cup codes
                       \cup IF ends /\ ~stops
                            THEN r.checks.after ELSE {},
                     !.at = IF ends \/ stops THEN 0 ELSE @ + 1]}
     /\ UNCHANGED <<text, edits, badge, list, shown, overlapped>>

\* A variant that drops the verdict of a run when a later edit was made.
FinishUnlessOutdated(r) ==
  LET failures == r.failures \cup r.checks.of_receipt
      newest   == r.id = edits
  IN /\ r.at = 0
     /\ ~r.checks.throws
     /\ runs' = runs \ {r}
     /\ badge' = IF ~newest THEN badge
                 ELSE IF failures = {} THEN "VERIFIED" ELSE "VERIFICATION FAILED"
     /\ list' = IF newest THEN failures ELSE list
     /\ shown' = IF newest THEN r.text ELSE shown
     /\ UNCHANGED <<text, edits, overlapped>>

\* verifyReceipt, and what runVerification does after its await.
Finish(r) ==
  LET failures == r.failures \cup r.checks.of_receipt IN
  /\ r.at = 0
  /\ ~r.checks.throws
  /\ runs' = runs \ {r}
  /\ badge' = IF failures = {} THEN "VERIFIED" ELSE "VERIFICATION FAILED"
  /\ list' = failures
  /\ shown' = r.text
  /\ UNCHANGED <<text, edits, overlapped>>

\* verifyReceipt throws: the promise is rejected and the page stays as it is.
Reject(r) ==
  /\ r.at = 0
  /\ r.checks.throws
  /\ runs' = runs \ {r}
  /\ UNCHANGED <<text, edits, badge, list, shown, overlapped>>

Advance(r) == CheckEvent(r) \/ Finish(r) \/ Reject(r)

Next ==
  \/ \E t \in DOMAIN Texts : Edit(t)
  \/ Reset
  \/ \E r \in runs : Advance(r)

\* Every WebCrypto promise settles, so every run goes on.
Fairness ==
  \A id \in 0..MaxEdits : WF_vars(\E r \in runs : r.id = id /\ Advance(r))

Spec == Init /\ [][Next]_vars /\ Fairness

=============================================================================

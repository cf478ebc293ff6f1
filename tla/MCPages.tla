------------------------------- MODULE MCPages -------------------------------
(***************************************************************************)
(* The two pages, which have no state in common: the user of a behaviour    *)
(* opens both and turns to one of them, while the other does what it does   *)
(* by itself: the demo's verification of its own packet, the boot of the    *)
(* app.  No step the fairness of a page asks for is kept from it.           *)
(***************************************************************************)
EXTENDS MCTamperDemo, MCBrowserApp

DemoUntouched == edits = 0 /\ runs = {}

AppUntouched ==
  /\ engine = "ready" /\ clicks = 0 /\ site = Nothing
  /\ form = [file |-> Nothing, key |-> NoKey, ring |-> Nothing, evidence |-> FALSE]

PagesInit == Init /\ AppInit

PagesNext ==
  \/ AppUntouched /\ Next /\ UNCHANGED appvars
  \/ (\E r \in runs : Advance(r)) /\ UNCHANGED appvars
  \/ DemoUntouched /\ AppNext /\ UNCHANGED vars
  \/ (LoadPython \/ FinishBoot) /\ UNCHANGED vars

PagesSpec ==
  PagesInit /\ [][PagesNext]_<<vars, appvars>> /\ Fairness /\ AppFairness

=============================================================================

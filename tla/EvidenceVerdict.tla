--------------------------- MODULE EvidenceVerdict ---------------------------
(***************************************************************************)
(* What a caller of a verifier sees: a run is started on a command line and *)
(* a packet and, in one step, answers.  The inputs never change under it,   *)
(* and the answer is a function of them alone, the parameter VerdictOf.     *)
(* Unanswered is what stands for the answer until then.                     *)
(***************************************************************************)
CONSTANTS VerdictOf(_, _), Unanswered

VARIABLES cmd, packet, verdict

Init == verdict = Unanswered

Answer ==
  /\ verdict = Unanswered
  /\ verdict' # Unanswered
  /\ verdict' = VerdictOf(cmd, packet)
  /\ UNCHANGED <<cmd, packet>>

Spec == Init /\ [][Answer]_<<cmd, packet, verdict>>

=============================================================================

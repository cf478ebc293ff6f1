--------------------------- MODULE MCDisputeLedger ---------------------------
(***************************************************************************)
(* Two actions whose events interleave in a ledger of MaxLedger events.     *)
(***************************************************************************)
EXTENDS DisputePromise, TLC

CONSTANTS a1, a2, gatewayKey

MCActions == {a1, a2}
MCKeys    == {gatewayKey}
MCEdits   == {"none", "settled", "headline", "statement_of_another",
              "custody_of_the_ledger", "custody_is_null"}
Symmetry  == Permutations(MCActions)

=============================================================================

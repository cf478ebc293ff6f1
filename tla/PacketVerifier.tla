--------------------------- MODULE PacketVerifier ---------------------------
(***************************************************************************)
(* main() of verify.py: one run of the dispute-packet verifier, from the    *)
(* command line to its verdict.  Each call main() makes is one action; the  *)
(* checks themselves are the operators of Evidence.                         *)
(*                                                                          *)
(* The checks on the documents beside the ledger and the receipt (verifier  *)
(* digest, ledger root version, continuity proof, authentication documents, *)
(* scope, approver snapshot, approval manifestation, anchor log, settlement)*)
(* enter as data: packet.documents says whether each passes, reports a      *)
(* failure, or raises on a document of the wrong shape, which nothing in    *)
(* main() catches.                                                          *)
(***************************************************************************)
EXTENDS PacketVerdict

CONSTANTS
  Commands,  \* the command lines considered
  Packets    \* the packets considered

VARIABLES
  cmd,                 \* the command line of this run
  packet,              \* the packet it was given
  pc,                  \* the call main() makes next
  failures,            \* main()'s list, as a set of codes
  receipt_failures,    \* the codes about the receipt and its key
  receipt_key_status,  \* what classify_receipt_key returned, None otherwise
  keyless,             \* a checkpoint stands in for the signature
  verdict              \* what was printed; "running" until then

vars == <<cmd, packet, pc, failures, receipt_failures, receipt_key_status,
          keyless, verdict>>

\* The call after each call that returns normally.
After ==
  [args |-> "base", base |-> "mode", mode |-> "load",
   load |-> "verifier_digest", verifier_digest |-> "ledger_root_version",
   ledger_root_version |-> "events", events |-> "receipt",
   receipt |-> "key_binding", key_binding |-> "checkpoint",
   checkpoint |-> "continuity_checkpoint",
   continuity_checkpoint |-> "authentication_docs",
   authentication_docs |-> "scope_conformance",
   scope_conformance |-> "approver_snapshot",
   approver_snapshot |-> "approval_manifestation",
   approval_manifestation |-> "ledger_head_anchor",
   ledger_head_anchor |-> "settlement_anchor",
   settlement_anchor |-> "report"]

Calls == DOMAIN After \cup {"report", "done"}

Verdicts == {"running", "UNABLE_TO_RUN", "UNREADABLE", "VERIFICATION FAILED",
             "TRACEBACK", "VERIFIED", "VERIFIED (chain only)",
             "VERIFIED (archive export)"}

Init ==
  /\ cmd \in Commands
  /\ packet \in Packets
  /\ pc = "args"
  /\ failures = {}
  /\ receipt_failures = {}
  /\ receipt_key_status = "none"
  /\ keyless = FALSE
  /\ verdict = "running"

Return == pc' = After[pc]

Say(v) == pc' = "done" /\ verdict' = v

\* What a call that only reads the command line or the packet leaves alone.
checked == <<failures, receipt_failures, receipt_key_status, keyless>>
given   == <<cmd, packet>>

ParseArgs ==
  /\ pc = "args"
  /\ IF Usable(cmd) THEN Return /\ UNCHANGED verdict
                    ELSE Say("UNABLE_TO_RUN")
  /\ UNCHANGED <<given, checked>>

\* A variant that says the packet cannot be read and does not return.
ResolvePacketBaseGoesOn ==
  /\ pc = "base"
  /\ Return
  /\ verdict' = IF packet.base = "directory" THEN verdict ELSE "UNREADABLE"
  /\ UNCHANGED <<given, checked>>

ResolvePacketBase ==
  /\ pc = "base"
  /\ IF packet.base = "directory" THEN Return /\ UNCHANGED verdict
                                  ELSE Say("UNREADABLE")
  /\ UNCHANGED <<given, checked>>

(***************************************************************************)
(* Which artifact this is.  An archive export takes a path of its own and   *)
(* refuses --checkpoint; its failures stay out of main()'s own list.        *)
(***************************************************************************)
SelectMode ==
  LET export_failures == ArchiveCodes(cmd, packet.archive, packet.manifest,
                                      packet.events, packet.attestation) IN
  /\ pc = "mode"
  /\ IF ~ArchiveMode(cmd, packet) THEN Return /\ UNCHANGED verdict
     ELSE IF cmd.checkpoint # None THEN Say("UNABLE_TO_RUN")
     ELSE IF ArchiveRaises(cmd, packet.attestation) THEN Say("TRACEBACK")
     ELSE IF export_failures = {} THEN Say("VERIFIED (archive export)")
     ELSE Say("VERIFICATION FAILED")
  /\ UNCHANGED <<given, checked>>

LoadPacket ==
  /\ pc = "load"
  /\ IF packet.readable THEN Return /\ UNCHANGED verdict
                        ELSE Say("UNREADABLE")
  /\ UNCHANGED <<given, checked>>

\* One of the document checks: it passes, it adds its code, or it raises.
CheckDocument ==
  /\ pc \in Documents
  /\ \/ /\ packet.documents[pc] = "raises"
        /\ Say("TRACEBACK")
        /\ UNCHANGED failures
     \/ /\ packet.documents[pc] # "raises"
        /\ failures' = failures \cup Report(pc, packet.documents[pc] = "fails")
        /\ Return
        /\ UNCHANGED verdict
  /\ UNCHANGED <<given, receipt_failures, receipt_key_status, keyless>>

CheckEvents ==
  /\ pc = "events"
  /\ failures' = failures \cup EventsCodes(packet.manifest, packet.events)
  /\ Return
  /\ UNCHANGED <<given, receipt_failures, receipt_key_status, keyless, verdict>>

(***************************************************************************)
(* The receipt, under the caller's keyring or the manifest's own key.       *)
(***************************************************************************)
SignatureAndEntryCodes(c, p) ==
  IF c.keyring_given
  THEN KeyringCodes(p.manifest, p.receipt, p.events, c.keyring, c.oqs)
  ELSE ReceiptCodes(p.manifest, p.receipt, p.events,
                    p.manifest.receipt_public_key, c.oqs)

CheckReceipt ==
  /\ pc = "receipt"
  /\ receipt_failures' = SignatureAndEntryCodes(cmd, packet)
  /\ receipt_key_status' =
       IF cmd.keyring_given
       THEN KeyringStatus(packet.manifest, packet.receipt, packet.events,
                          cmd.keyring, cmd.oqs)
       ELSE "none"
  /\ Return
  /\ UNCHANGED <<given, failures, keyless, verdict>>

CheckKeyBinding ==
  /\ pc = "key_binding"
  /\ receipt_failures' = receipt_failures \cup
       KeyBindingCodes(packet.manifest, packet.receipt, cmd.pinned, cmd.pin)
  /\ Return
  /\ UNCHANGED <<given, failures, receipt_key_status, keyless, verdict>>

(***************************************************************************)
(* The receipt's codes join the list.  With a checkpoint the ones it can    *)
(* stand in for are set aside first, and join only when the caller's own    *)
(* key says no or the chain cannot carry the receipt.                       *)
(***************************************************************************)
SettleWithoutCheckpoint ==
  /\ pc = "checkpoint"
  /\ cmd.checkpoint = None
  /\ failures' = failures \cup receipt_failures
  /\ UNCHANGED keyless
  /\ Return
  /\ UNCHANGED <<given, receipt_failures, receipt_key_status, verdict>>

\* A variant in which a checkpoint overrides the caller's own key.
SettleOverridingTheKey ==
  LET key_failures == receipt_failures \cap CHECKPOINT_CAN_STAND_IN_FOR
      checkpoint_failures ==
        CheckpointCodes(packet.manifest, packet.receipt, packet.events,
                        cmd.checkpoint, key_failures # {})
      waived == key_failures # {} /\ checkpoint_failures = {}
  IN /\ pc = "checkpoint"
     /\ cmd.checkpoint # None
     /\ failures' = failures \cup (receipt_failures \ key_failures)
                             \cup (IF waived THEN {} ELSE key_failures)
                             \cup checkpoint_failures
     /\ keyless' = waived
     /\ Return
     /\ UNCHANGED <<given, receipt_failures, receipt_key_status, verdict>>

SettleWithCheckpoint ==
  LET key_failures == receipt_failures \cap CHECKPOINT_CAN_STAND_IN_FOR
      checkpoint_failures ==
        CheckpointCodes(packet.manifest, packet.receipt, packet.events,
                        cmd.checkpoint, key_failures # {})
      waived == /\ key_failures # {}
                /\ ~CallerSuppliedKey(cmd)
                /\ checkpoint_failures = {}
  IN /\ pc = "checkpoint"
     /\ cmd.checkpoint # None
     /\ failures' = failures \cup (receipt_failures \ key_failures)
                             \cup (IF waived THEN {} ELSE key_failures)
                             \cup checkpoint_failures
     /\ keyless' = waived
     /\ Return
     /\ UNCHANGED <<given, receipt_failures, receipt_key_status, verdict>>

PrintVerdict ==
  /\ pc = "report"
  /\ Say(IF failures # {} THEN "VERIFICATION FAILED"
           ELSE IF keyless THEN "VERIFIED (chain only)"
           ELSE "VERIFIED")
  /\ UNCHANGED <<given, checked>>

Next ==
  \/ ParseArgs \/ ResolvePacketBase \/ SelectMode \/ LoadPacket
  \/ CheckDocument \/ CheckEvents \/ CheckReceipt \/ CheckKeyBinding
  \/ SettleWithoutCheckpoint \/ SettleWithCheckpoint \/ PrintVerdict

Spec == Init /\ [][Next]_vars /\ WF_vars(Next)

=============================================================================

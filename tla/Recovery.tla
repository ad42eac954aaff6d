------------------------------ MODULE Recovery ------------------------------
(***************************************************************************)
(* The whole life of a take: recorded, imported, named, and wiped from its *)
(* card.  It composes Intake and EraseCard over the same disk, the same    *)
(* transmitters and the same verdicts: the import thread and the naming    *)
(* worker run beside the GUI thread, which an erase holds from the click   *)
(* to its end.  What keeps the two apart is that an import takes the erase *)
(* buttons away until it ends.  The import of EraseCard (KeepTake,         *)
(* Conclude) is replaced by the real one, and the hands of both are joined. *)
(***************************************************************************)
EXTENDS Intake, EraseCard

VARIABLE buttons   \* the cards with a live erase button

recoveryVars ==
  <<archiveVars, transmitterVars, verdicts, intakeVars, eraseVars, buttons>>

RecoveryInit == IntakeInit /\ EraseInit /\ buttons = {}

\* The GUI thread is free to take another event.
Window == phase = "idle"

\* _rebuild_erase_controls: the rows `erasable` allows, by the new verdicts.
Rebuild ==
  buttons' = {s \in Serial : /\ verdicts'[s] # NoVerdict
                             /\ verdicts'[s].complete
                             /\ verdicts'[s].digests # {}}

\* An import that starts or ends rebuilds the buttons.
ImportBegins == Window /\ StartImport /\ Rebuild /\ UNCHANGED eraseVars
ImportReturns == Window /\ EndImport /\ Rebuild /\ UNCHANGED eraseVars

\* The import and the worker go on beside the window; the rest needs it.
Beside ==
  /\ \/ ImportStep /\ stage' # "idle"
     \/ Worker
     \/ Window /\ \E n \in Name : RenameByHand(n)
     \/ Window /\ Close
  /\ UNCHANGED <<eraseVars, buttons>>

Press(s) ==
  /\ s \in buttons /\ ~stop
  /\ Click(s)
  /\ UNCHANGED <<intakeVars, buttons>>

\* An erase that comes to its end rebuilds the buttons, one that raised does
\* not.
Erase ==
  /\ EraseStep
  /\ UNCHANGED intakeVars
  /\ UNCHANGED buttons \/ (phase' = "idle" /\ Rebuild)

\* The process ends and starts again: closed between two events, or killed,
\* and with it whatever the erase was at.
Restart ==
  /\ Relaunch
  /\ Window \/ "kill" \in Faults
  /\ phase' = "idle" /\ target' = NoSerial /\ block' = NoSlot
  /\ hidraw' = NoNode /\ held' = {} /\ rehash' = {} /\ outcome' = "none"
  /\ buttons' = {}
  /\ UNCHANGED exposed

Move ==
  /\ \/ \E s \in Serial : LiftAny(s) \/ DockAny(s)
     \/ \E n \in Name : Spoil(n)
  /\ UNCHANGED <<intakeVars, buttons>>

RecoveryNext ==
  \/ ImportBegins \/ ImportReturns \/ Beside
  \/ \E s \in Serial : Press(s)
  \/ Erase
  \/ Restart
  \/ Move

RecoverySpec == RecoveryInit /\ [][RecoveryNext]_recoveryVars

-----------------------------------------------------------------------------
\* No take is lost: whatever an erase takes from a card is on the disk, or
\* changed after the check that covers it.  Here the digests an erase checks
\* are those an import read, from the card it believed it was reading.
NoTakeIsLost ==
  [][\A t \in OnCards \ OnCards' : Safe(t) \/ t \in exposed]_recoveryVars

\* The import and the erase each rewrite a ledger whole from what they loaded:
\* neither ever takes back what the other recorded.
LedgerNeverShrinks ==
  [][\A s \in Serial : ledger[s] \subseteq ledger'[s]]_recoveryVars
=============================================================================

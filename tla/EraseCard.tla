----------------------------- MODULE EraseCard -----------------------------
(***************************************************************************)
(* Erasing one card: MainWindow.erase_serials, _erase_one and              *)
(* intake.erase_card, with the transmitters and the user's hands moving    *)
(* between any two of its steps.  The whole runs on the GUI thread, but    *)
(* re-hashing the local copies takes up to 80 seconds during which         *)
(* transmitters can be lifted, swapped and docked again and files renamed, *)
(* edited or deleted.                                                      *)
(*                                                                         *)
(* The import is reduced here to its results, a kept take at a time        *)
(* (KeepTake) and a verdict (Conclude); module Intake has it in full and   *)
(* module Recovery puts the two together.                                  *)
(***************************************************************************)
EXTENDS Verdicts, EraseOutcomes

VARIABLES
  phase,     \* where the erase is
  target,    \* the serial of the verdict being acted on
  block,     \* device.block, resolved at the click
  hidraw,    \* device.hidraw, resolved at the click
  held,      \* the records loaded when the card was opened
  rehash,    \* digests erase_allowed has still to look at
  outcome,   \* what the HID exchange ended with
  exposed    \* history: takes that changed after the check that covers them

eraseVars == <<phase, target, block, hidraw, held, rehash, outcome, exposed>>
vars == <<archiveVars, transmitterVars, verdicts, eraseVars>>

Phase == {"idle", "opening", "reading", "hashing", "sending", "noting"}

EraseTypeOK ==
  /\ ArchiveTypeOK
  /\ TransmittersTypeOK
  /\ VerdictsTypeOK
  /\ phase \in Phase
  /\ target \in Serial \cup {NoSerial}
  /\ block \in Slot \cup {NoSlot}
  /\ hidraw \in Node \cup {NoNode}
  /\ held \in SUBSET Record
  /\ rehash \in SUBSET Audio
  /\ outcome \in Outcome
  /\ exposed \in SUBSET Take

EraseInit ==
  /\ ArchiveInit
  /\ TransmittersInit
  /\ verdicts = NoVerdicts
  /\ phase = "idle"
  /\ target = NoSerial
  /\ block = NoSlot
  /\ hidraw = NoNode
  /\ held = {}
  /\ rehash = {}
  /\ outcome = "none"
  /\ exposed = {}

-----------------------------------------------------------------------------
(* The import, as the erase sees it. *)

\* One turn of the intake loop for a take that was copied, verified, filed
\* and recorded.
KeepTake(s) ==
  /\ phase = "idle"
  /\ Docked(s)
  /\ \E t \in card[s] :
       /\ ~Holds(ledger[s], AudioOf[t])
       /\ \E n \in Name :
            /\ UniquePath(PrefixOf[t], 0, Placeholder, n)
            /\ files' = [files EXCEPT ![n] = AudioOf[t]]
       /\ ledger' = [ledger EXCEPT ![s] =
                       @ \cup {[digest |-> AudioOf[t], prefix |-> PrefixOf[t]]}]
  /\ UNCHANGED <<transmitterVars, verdicts, eraseVars>>

\* The verdict over the takes `listed` when the card was opened, of which
\* `seen` were copied now or recognised; `openSeen` if one was still open.
Conclude(s) ==
  /\ phase = "idle"
  /\ Docked(s)
  /\ \E listed \in SUBSET card[s], openSeen \in BOOLEAN :
       \E seen \in SUBSET {t \in listed : Holds(ledger[s], AudioOf[t])} :
         verdicts' = [verdicts EXCEPT ![s] =
                        [inventory |-> listed,
                         digests |-> {AudioOf[t] : t \in seen},
                         complete |-> seen = listed /\ ~openSeen]]
  /\ UNCHANGED <<archiveVars, transmitterVars, eraseVars>>

-----------------------------------------------------------------------------
(* The erase. *)

\* Refusals, errors and the normal end all come back to the window.
BackToWindow ==
  /\ phase' = "idle"
  /\ target' = NoSerial
  /\ block' = NoSlot
  /\ hidraw' = NoNode
  /\ held' = {}
  /\ rehash' = {}
  /\ outcome' = "none"
  /\ UNCHANGED exposed

\* MainWindow.erasable: the only rows with a live button.
Erasable(s) ==
  /\ Complete(s)
  /\ verdicts[s].digests # {}

\* The button of one card: find_storage resolves both its nodes.
Click(s) ==
  /\ phase = "idle"
  /\ Erasable(s)
  /\ Docked(s)
  /\ phase' = "opening"
  /\ target' = s
  /\ block' = slot[s]
  /\ hidraw' = node[s]
  /\ exposed' = {}
  /\ UNCHANGED <<held, rehash, outcome>>
  /\ UNCHANGED <<archiveVars, transmitterVars, verdicts>>

\* erase_card's first four guards, on the card the block node now shows.
Presentable(s) ==
  /\ s = target
  /\ hidraw # NoNode
  /\ Erasable(target)

\* Variant: a card that is not there is waited for.
OpenPatiently ==
  /\ phase = "opening"
  /\ \/ \E s \in Serial :
          /\ Occupies(s, block)
          /\ Presentable(s)
          /\ phase' = "reading"
          /\ held' \in {ledger[s], {}}
          /\ UNCHANGED <<target, block, hidraw, rehash, outcome, exposed>>
     \/ /\ \A s \in Serial : Occupies(s, block) => ~Presentable(s)
        /\ UNCHANGED eraseVars
  /\ UNCHANGED <<archiveVars, transmitterVars, verdicts>>

\* Card(fh), Ledger(card.serial) and the guards that need nothing more.  An
\* unreadable ledger loads as an empty one; a card gone by now raises.
OpenForErase ==
  /\ phase = "opening"
  /\ \/ \E s \in Serial :
          /\ Occupies(s, block)
          /\ Presentable(s)
          /\ phase' = "reading"
          /\ held' \in {ledger[s], {}}
          /\ UNCHANGED <<target, block, hidraw, rehash, outcome, exposed>>
     \/ /\ \A s \in Serial : Occupies(s, block) => ~Presentable(s)
        /\ BackToWindow
  /\ UNCHANGED <<archiveVars, transmitterVars, verdicts>>

\* Variant: the open take is filtered out of both inventories.
UnchangedFiltered(s) == card[s] = verdicts[target].inventory

\* The directory is read again and must be what the import saw, with no take
\* being written.
Unchanged(s) ==
  /\ card[s] = verdicts[target].inventory
  /\ open[s] = NoTake

ReadAgain ==
  /\ phase = "reading"
  /\ \/ /\ \E s \in Serial : Occupies(s, block) /\ Unchanged(s)
        /\ phase' = "hashing"
        /\ rehash' = verdicts[target].digests
        /\ UNCHANGED <<target, block, hidraw, held, outcome, exposed>>
     \/ /\ \A s \in Serial : Occupies(s, block) => ~Unchanged(s)
        /\ BackToWindow
  /\ UNCHANGED <<archiveVars, transmitterVars, verdicts>>

\* erase_allowed, one digest at a time.
HashCopy ==
  /\ phase = "hashing"
  /\ \E d \in rehash :
       /\ Intact(held, d)
       /\ rehash' = rehash \ {d}
  /\ UNCHANGED <<phase, target, block, hidraw, held, outcome, exposed>>
  /\ UNCHANGED <<archiveVars, transmitterVars, verdicts>>

HashRefused ==
  /\ phase = "hashing"
  /\ \E d \in rehash : ~Intact(held, d)
  /\ BackToWindow
  /\ UNCHANGED <<archiveVars, transmitterVars, verdicts>>

\* Variant: the node resolved at the click is trusted.
TrustNode ==
  /\ phase = "hashing"
  /\ rehash = {}
  /\ phase' = "sending"
  /\ UNCHANGED <<target, block, hidraw, held, rehash, outcome, exposed>>
  /\ UNCHANGED <<archiveVars, transmitterVars, verdicts>>

\* _hid_node_for, after the hashing: the node must still be this card's.
CheckNode ==
  /\ phase = "hashing"
  /\ rehash = {}
  /\ \/ /\ node[target] = hidraw
        /\ phase' = "sending"
        /\ UNCHANGED <<target, block, hidraw, held, rehash, outcome, exposed>>
     \/ /\ node[target] # hidraw
        /\ BackToWindow
  /\ UNCHANGED <<archiveVars, transmitterVars, verdicts>>

\* The command reaches whichever transmitter answers on the node by now.
Send ==
  /\ phase = "sending"
  /\ \/ \E s \in Serial, r \in Outcome \ {"none"} :
          /\ Answers(s, hidraw)
          /\ \/ r \in MayWipe /\ Wipe(s)
             \/ r \in MaySpare /\ UNCHANGED transmitterVars
          /\ outcome' = r
          /\ phase' = "noting"
          /\ UNCHANGED <<target, block, hidraw, held, rehash, exposed>>
     \/ /\ \A s \in Serial : ~Answers(s, hidraw)
        /\ BackToWindow
        /\ UNCHANGED transmitterVars
  /\ UNCHANGED <<archiveVars, verdicts>>

\* After the exchange.  "erased" drops the verdict; it and "unknown" are
\* written to the annexe, and with it the whole ledger as it was loaded
\* (when the write fails, the file keeps what it had).
Settle ==
  /\ phase = "noting"
  /\ verdicts' = IF outcome \in {"complete", "reenumerated"}
                 THEN [verdicts EXCEPT ![target] = NoVerdict] ELSE verdicts
  /\ \/ /\ outcome \in {"complete", "reenumerated", "unknown"}
        /\ ledger' = [ledger EXCEPT ![target] = held]
     \/ UNCHANGED ledger
  /\ BackToWindow
  /\ UNCHANGED <<files, transmitterVars>>

EraseStep ==
  \/ OpenForErase \/ ReadAgain \/ HashCopy \/ HashRefused
  \/ CheckNode \/ Send \/ Settle

-----------------------------------------------------------------------------
(* Hands: on the transmitters, and on the files.  `exposed` remembers what *)
(* changed after the erase had looked at it.                               *)

LiftAny(s) ==
  /\ Lift(s)
  /\ exposed' = IF phase \in {"hashing", "sending"}
                THEN exposed \cup (born' \ born) ELSE exposed
  /\ UNCHANGED <<archiveVars, verdicts>>
  /\ UNCHANGED <<phase, target, block, hidraw, held, rehash, outcome>>

DockAny(s) ==
  /\ Dock(s)
  /\ exposed' = IF phase = "sending" THEN exposed \cup OnCard(s) ELSE exposed
  /\ UNCHANGED <<archiveVars, verdicts>>
  /\ UNCHANGED <<phase, target, block, hidraw, held, rehash, outcome>>

\* The takes whose copy has been hashed and may no longer be what it was.
HashedTakes(a) ==
  {t \in Take : /\ AudioOf[t] = a
                /\ phase \in {"hashing", "sending"}
                /\ a \notin rehash}

\* Deleting a file, or editing it.
Spoil(n) ==
  /\ Exists(n)
  /\ \E c \in {NoFile, Fragment} : files' = [files EXCEPT ![n] = c]
  /\ exposed' = exposed \cup HashedTakes(files[n])
  /\ UNCHANGED <<ledger, transmitterVars, verdicts>>
  /\ UNCHANGED <<phase, target, block, hidraw, held, rehash, outcome>>

\* The naming worker or a hand renaming a file: no byte changes.
RenameAny(n) ==
  /\ Exists(n)
  /\ \E m \in Name, byHand \in BOOLEAN :
       NewName(n, Title, byHand, m) /\ Rename(n, m)
  /\ UNCHANGED <<ledger, transmitterVars, verdicts, eraseVars>>

Hands ==
  \/ \E s \in Serial : LiftAny(s) \/ DockAny(s)
  \/ \E n \in Name : Spoil(n) \/ RenameAny(n)

EraseNext ==
  \/ \E s \in Serial : KeepTake(s) \/ Conclude(s) \/ Click(s)
  \/ EraseStep
  \/ Hands

EraseSpec == EraseInit /\ [][EraseNext]_vars /\ WF_vars(EraseStep)

-----------------------------------------------------------------------------
OnCards == UNION {OnCard(s) : s \in Serial}

Looked == phase \in {"hashing", "sending"}

EraseFollowsItsVerdict ==
  /\ phase # "idle" => target \in Serial
  /\ phase = "reading" \/ Looked => Erasable(target) /\ hidraw \in Node

\* After the freshness look, the card holds what the verdict lists or what
\* came since.
LookCovers ==
  Looked => OnCard(target) \subseteq verdicts[target].inventory \cup exposed

\* A listed take is still to be hashed, or safe, or was spoiled since.
HashCovers ==
  Looked => /\ rehash \subseteq verdicts[target].digests
            /\ \A t \in verdicts[target].inventory :
                 AudioOf[t] \in rehash \/ Safe(t) \/ t \in exposed

\* After the node check, whoever else answers on the node came since.
NodeCovers ==
  phase = "sending" =>
    /\ rehash = {}
    /\ \A s \in Serial :
         s # target /\ Answers(s, hidraw) => OnCard(s) \subseteq exposed

\* The records the erase holds are those of the file, once one was of use.
HeldIsTheLedger ==
  /\ phase \in {"reading", "hashing"} => held \in {ledger[target], {}}
  /\ phase = "hashing" /\ rehash # verdicts[target].digests
       => held = ledger[target]
  /\ phase \in {"sending", "noting"} => held = ledger[target]

\* The inductive invariant of an erase among the hands that move things: each
\* guard of erase_card, with what it still guarantees when the command goes.
EraseInv ==
  /\ EraseTypeOK
  /\ TakesStayApart
  /\ NodesStayApart
  /\ VerdictsAccount
  /\ EraseFollowsItsVerdict
  /\ LookCovers
  /\ HashCovers
  /\ NodeCovers
  /\ HeldIsTheLedger

\* No take leaves a card unless a local file still holds its bytes, or it was
\* recorded, moved or spoiled after the check that covers it: the freshness
\* look covers the takes on the card, the hashing covers the copies, the node
\* check covers which transmitter answers.
WipesOnlyWhatIsBacked ==
  [][\A t \in OnCards \ OnCards' : Safe(t) \/ t \in exposed]_vars

\* The takes an erase has found kept so far, in whatever order it hashes.
Counted ==
  {t \in Take : /\ Looked /\ t \in verdicts[target].inventory
                /\ AudioOf[t] \notin rehash}

\* The erase, its guards and the hands around it implement the promise of
\* Custody: what a card gives up was counted, and nothing counted is lost
\* unseen.
Promise == INSTANCE Custody WITH
             carried <- OnCards, kept <- {t \in Take : Safe(t)},
             counted <- Counted, waived <- exposed
CustodyIsKept == Promise!Spec

\* The command wipes the card the verdict is about, unless another
\* transmitter was docked onto its node after the node was checked.
OnlyTheChosenCard ==
  [][\A s \in Serial :
       OnCard(s) \ OnCards' # {} => s = target \/ OnCard(s) \subseteq exposed]_vars

\* The annexe has a second writer, which rewrites the whole file: it never
\* costs the ledger one of the records that authorise an erase.
RecordsSurviveTheAnnexe ==
  [][\A s \in Serial : ledger[s] \subseteq ledger'[s]]_vars

\* Every erase gives the window back.
EraseEnds == phase # "idle" ~> phase = "idle"

\* README.md, on what refuses an erase: "the card changed since the import".
\* Whatever was recorded since the verdict, even for a second, is never wiped.
NeverErasesAChangedCard ==
  [][\A s \in Serial : OnCard(s) \ OnCards' # {}
       => OnCard(s) \subseteq verdicts[target].inventory]_vars
=============================================================================

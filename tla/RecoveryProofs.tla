--------------------------- MODULE RecoveryProofs ---------------------------
(***************************************************************************)
(* Proofs about Recovery: the invariants of the import and of the erase    *)
(* hold together, because an import leaves no erase button to press.  Each *)
(* step of one is shown to keep the invariant of the other, and the whole  *)
(* to keep what an erase promises the takes.                               *)
(***************************************************************************)
EXTENDS Recovery, EraseCardProofs, IntakeProofs

\* While an import runs no erase does, and none can be asked for.
ImportBarsErase == stage # "idle" => phase = "idle" /\ buttons = {}

RecoveryInv == EraseInv /\ IntakeInv /\ ImportBarsErase

\* An import thread at work has a stage, and keeps away from the erase.
LEMMA ImportIsAtWork == ASSUME ImportStep PROVE stage # "idle"
BY DEF ImportStep, OpenCard, MissCard, EndImport, AbandonCard, GiveVerdict, SkipTake,
       CopyTake, CopyFails, NextTake, FileTake, FilingFails, RecordTake, WritePart,
       SubmitParts, SubmitWhole

LEMMA ErasesAreAtWork == ASSUME EraseStep PROVE phase # "idle"
BY DEF EraseStep, OpenForErase, ReadAgain, HashCopy, HashRefused, CheckNode, Send, Settle

\* What the annexe is written from is the ledger itself: an erase changes no
\* file and no record.
LEMMA ErasesWriteWhatWasThere ==
  ASSUME EraseInv, EraseStep
  PROVE  UNCHANGED archiveVars
<1>1. CASE Settle
  <2>1. held = ledger[target] /\ ledger \in [Serial -> SUBSET Record]
    BY <1>1 DEF Settle, EraseInv, HeldIsTheLedger, EraseTypeOK, ArchiveTypeOK
  <2> QED BY <1>1, <2>1 DEF Settle, archiveVars
<1> QED
  BY <1>1
     DEF EraseStep, OpenForErase, ReadAgain, HashCopy, HashRefused, CheckNode, Send

\* With the window free the erase has nothing to keep but the cards apart.
LEMMA EraseInvAtRest ==
  ASSUME EraseInv, phase' = "idle", EraseTypeOK', TakesStayApart', NodesStayApart',
         VerdictsAccount'
  PROVE  EraseInv'
BY DEF EraseInv, EraseFollowsItsVerdict, LookCovers, HashCovers, NodeCovers,
       HeldIsTheLedger, Looked

-----------------------------------------------------------------------------
(* The import's steps keep the invariant of the erase. *)

LEMMA ImportKeepsErase ==
  ASSUME EraseInv, IntakeInv', phase' = "idle", UNCHANGED transmitterVars,
         eraseVars' = eraseVars \/ (/\ target' = NoSerial /\ block' = NoSlot
                                    /\ hidraw' = NoNode /\ held' = {} /\ rehash' = {}
                                    /\ outcome' = "none" /\ UNCHANGED exposed)
  PROVE  EraseInv'
<1>1. /\ ArchiveTypeOK' /\ TransmittersTypeOK' /\ VerdictsTypeOK'
      /\ TakesStayApart' /\ VerdictsAccount'
  BY DEF IntakeInv, IntakeTypeOK
<1>2. EraseTypeOK'
  BY <1>1 DEF EraseInv, EraseTypeOK, eraseVars, Phase, Outcome
<1>3. NodesStayApart'
  BY DEF EraseInv, NodesStayApart, transmitterVars
<1> QED BY <1>1, <1>2, <1>3, EraseInvAtRest

LEMMA BesideKeepsErase ==
  ASSUME EraseInv, IntakeInv', UNCHANGED eraseVars,
         Worker \/ (\E n \in Name : RenameByHand(n)) \/ Close
  PROVE  EraseInv'
<1> USE DEF archiveVars, threadVars, intakeVars
<1>1. ASSUME NEW n \in Name, NameJob(n) \/ RenameByHand(n) PROVE EraseInv'
  <2> PICK m \in Name : Renaming(n, m)
    BY <1>1, NamingRenames
  <2> QED BY RenamedKeeps DEF Renaming
<1>2. ASSUME UNCHANGED vars PROVE EraseInv'
  BY <1>2, NothingHappens
<1> QED BY <1>1, <1>2 DEF Worker, NamingFails, Close, vars

-----------------------------------------------------------------------------
(* The erase's steps, and hands, keep the invariant of the import. *)

LEMMA EraseKeepsImport ==
  ASSUME EraseInv, IntakeInv, EraseInv', stage = "idle", EraseStep, UNCHANGED intakeVars
  PROVE  IntakeInv'
<1> USE DEF intakeVars, threadVars, sessionVars, cardVars, countVars, takeVars
<1>1. UNCHANGED archiveVars
  BY ErasesWriteWhatWasThere
<1>2. /\ TransmittersTypeOK' /\ VerdictsTypeOK'
      /\ TakesStayApart' /\ VerdictsAccount'
  BY DEF EraseInv, EraseTypeOK
<1>3. IntakeTypeOK'
  BY <1>1, <1>2 DEF IntakeInv, IntakeTypeOK, ArchiveTypeOK, archiveVars
<1>4. UNCHANGED transmitterVars \/ \E s \in Serial : Wipe(s)
  BY DEF EraseStep, OpenForErase, ReadAgain, HashCopy, HashRefused, CheckNode, Send, Settle
<1>5. SlotsStayApart' /\ OpenIsApart'
  <2>1. CASE UNCHANGED transmitterVars
    BY <2>1 DEF IntakeInv, SlotsStayApart, OpenIsApart, transmitterVars
  <2>2. ASSUME NEW s \in Serial, Wipe(s) PROVE SlotsStayApart' /\ OpenIsApart'
    BY <2>2
       DEF Wipe, IntakeInv, IntakeTypeOK, TransmittersTypeOK, SlotsStayApart, OpenIsApart
  <2> QED BY <1>4, <2>1, <2>2
<1>6. /\ CardInHand' /\ TakeInHand' /\ NothingInHand' /\ OneRecordPerDigest'
      /\ (AtCard => records \subseteq ledger[reading])'
  BY <1>1
     DEF IntakeInv, AtCard, AtTake, TakeStage, CardInHand, TakeInHand, NothingInHand,
         OneRecordPerDigest, archiveVars
<1> QED BY <1>2, <1>3, <1>5, <1>6 DEF IntakeInv

LEMMA SpoilKeepsImport ==
  ASSUME IntakeInv, NEW n \in Name, Spoil(n), UNCHANGED intakeVars
  PROVE  IntakeInv'
<1>1. files' \in [Name -> Content \cup {NoFile}]
  BY DEF Spoil, IntakeInv, IntakeTypeOK, ArchiveTypeOK, Content
<1> QED
  BY <1>1, BesideTheThread
     DEF Spoil, IntakeInv, IntakeTypeOK, intakeVars, sessionVars

-----------------------------------------------------------------------------
(* Every step of the whole. *)

\* A step of Recovery is one of the import, one of the erase, or a file
\* spoiled.
LEMMA RecoveryStepsAreTheirs ==
  ASSUME [RecoveryNext]_recoveryVars
  PROVE  \/ [IntakeNext]_intakeAll
         \/ EraseStep /\ UNCHANGED intakeVars
         \/ (\E n \in Name : Spoil(n)) /\ UNCHANGED intakeVars
<1>1. ASSUME NEW s \in Serial, Press(s) PROVE UNCHANGED intakeAll
  BY <1>1 DEF Press, Click, intakeAll
<1>2. ASSUME NEW s \in Serial, LiftAny(s) \/ DockAny(s), UNCHANGED intakeVars
      PROVE  IntakeNext
  BY <1>2 DEF LiftAny, DockAny, IntakeNext, Carry
<1> QED
  BY <1>1, <1>2
     DEF RecoveryNext, ImportBegins, ImportReturns, Beside, Erase, Restart, Move,
         IntakeNext, ImportStep, recoveryVars, intakeAll

LEMMA RecoveryKeepsImport ==
  ASSUME RecoveryInv, EraseInv', [RecoveryNext]_recoveryVars PROVE IntakeInv'
<1>1. CASE [IntakeNext]_intakeAll
  BY <1>1, IntakeStepKeeps DEF RecoveryInv
<1>2. CASE EraseStep /\ UNCHANGED intakeVars
  BY <1>2, ErasesAreAtWork, EraseKeepsImport DEF RecoveryInv, ImportBarsErase
<1>3. ASSUME NEW n \in Name, Spoil(n), UNCHANGED intakeVars PROVE IntakeInv'
  BY <1>3, SpoilKeepsImport DEF RecoveryInv
<1> QED BY <1>1, <1>2, <1>3, RecoveryStepsAreTheirs

LEMMA RecoveryKeepsErase ==
  ASSUME RecoveryInv, [RecoveryNext]_recoveryVars PROVE EraseInv'
<1> USE DEF RecoveryInv
<1>1. CASE ImportBegins \/ ImportReturns
  <2>1. StartImport \/ EndImport
    BY <1>1 DEF ImportBegins, ImportReturns
  <2>2. IntakeInv'
    BY <2>1, StartImportKeeps, BetweenCardsKeeps
  <2> QED
    BY <1>1, <2>1, <2>2, ImportKeepsErase
       DEF ImportBegins, ImportReturns, Window, StartImport, EndImport, eraseVars
<1>2. CASE Beside
  <2>1. CASE ImportStep
    <3>1. phase = "idle" /\ phase' = "idle" /\ UNCHANGED eraseVars
      BY <1>2, <2>1, ImportIsAtWork DEF ImportBarsErase, Beside, eraseVars
    <3>2. IntakeInv'
      BY <2>1, ImportStepKeeps
    <3>3. UNCHANGED transmitterVars
      BY <2>1
         DEF ImportStep, OpenCard, MissCard, EndImport, AbandonCard, GiveVerdict,
             SkipTake, CopyTake, CopyFails, FileTake, FilingFails, RecordTake,
             WritePart, SubmitParts, SubmitWhole, Submit
    <3> QED BY <3>1, <3>2, <3>3, ImportKeepsErase
  <2>2. CASE Worker \/ (\E n \in Name : RenameByHand(n)) \/ Close
    <3>1. IntakeInv'
      BY <2>2, BesideKeeps DEF Worker
    <3> QED BY <1>2, <2>2, <3>1, BesideKeepsErase DEF Beside
  <2> QED BY <1>2, <2>1, <2>2 DEF Beside
<1>3. ASSUME NEW s \in Serial, Press(s) PROVE EraseInv'
  BY <1>3, ClickKeeps DEF Press
<1>4. CASE Erase
  BY <1>4, OpenKeeps, ReadAgainKeeps, HashKeeps, Refusing, CheckNodeKeeps, SendKeeps,
     SettleKeeps
     DEF Erase, EraseStep, HashRefused
<1>5. CASE Restart
  <2>1. IntakeInv'
    BY <1>5, RelaunchKeeps DEF Restart
  <2> QED BY <1>5, <2>1, ImportKeepsErase DEF Restart, Relaunch
<1>6. CASE Move
  BY <1>6, LiftKeeps, DockKeeps, SpoilKeeps DEF Move
<1>7. CASE UNCHANGED recoveryVars
  BY <1>7, NothingHappens DEF recoveryVars, vars
<1> QED
  BY <1>1, <1>2, <1>3, <1>4, <1>5, <1>6, <1>7 DEF RecoveryNext

\* The buttons go when an import starts, with the verdicts that made them, and
\* come back when it has ended.
LEMMA ImportStillBarsErase ==
  ASSUME RecoveryInv, [RecoveryNext]_recoveryVars PROVE ImportBarsErase'
<1> USE DEF RecoveryInv, ImportBarsErase
<1>1. CASE ImportBegins
  BY <1>1 DEF ImportBegins, StartImport, Rebuild, NoVerdicts, Window, eraseVars
<1>2. CASE ImportReturns
  BY <1>2 DEF ImportReturns, EndImport
<1>3. CASE Beside
  <2>1. UNCHANGED <<phase, buttons>>
    BY <1>3 DEF Beside, eraseVars
  <2>2. stage' # "idle" => stage # "idle"
    BY <1>3, ImportIsAtWork
       DEF Beside, Worker, NameJob, NamingFails, RenameByHand, Close, intakeVars,
           threadVars
  <2> QED BY <2>1, <2>2
<1>4. ASSUME NEW s \in Serial, Press(s) PROVE ImportBarsErase'
  BY <1>4 DEF Press, intakeVars, threadVars
<1>5. CASE Erase
  BY <1>5, ErasesAreAtWork DEF Erase, intakeVars, threadVars
<1>6. CASE Restart
  BY <1>6 DEF Restart
<1>7. CASE Move
  BY <1>7 DEF Move, LiftAny, DockAny, Spoil, intakeVars, threadVars
<1>8. CASE UNCHANGED recoveryVars
  BY <1>8 DEF recoveryVars, intakeVars, threadVars, eraseVars
<1> QED
  BY <1>1, <1>2, <1>3, <1>4, <1>5, <1>6, <1>7, <1>8 DEF RecoveryNext

\* The import and the erase keep each other's invariants through the whole
\* life of the takes, closings and kills included.
THEOREM RecoveryInvariant == RecoverySpec => []RecoveryInv
<1>1. RecoveryInit => RecoveryInv
  BY InitEstablishes, InitEstablishesIntake
     DEF RecoveryInit, RecoveryInv, ImportBarsErase, IntakeInit
<1>2. RecoveryInv /\ [RecoveryNext]_recoveryVars => RecoveryInv'
  BY RecoveryKeepsErase, RecoveryKeepsImport, ImportStillBarsErase DEF RecoveryInv
<1> QED BY <1>1, <1>2, PTL DEF RecoverySpec

-----------------------------------------------------------------------------
(* What the whole promises. *)

\* Of all the steps of the application and of the hands, only the command
\* empties a card.
LEMMA OnlyTheCommandWipes ==
  ASSUME RecoveryInv, [RecoveryNext]_recoveryVars, ~Send
  PROVE  \A s \in Serial : OnCard(s) \subseteq OnCard(s)'
<1>1. CASE EraseStep
  BY <1>1, OnlySendWipes DEF RecoveryInv, EraseNext
<1>2. CASE UNCHANGED transmitterVars
  BY <1>2 DEF OnCard, transmitterVars
<1>3. ASSUME NEW s \in Serial, Lift(s) \/ Dock(s)
      PROVE  \A x \in Serial : OnCard(x) \subseteq OnCard(x)'
  BY <1>3, CarryingAdds DEF RecoveryInv
<1> QED
  BY <1>1, <1>2, <1>3, RecoveryStepsAreTheirs
     DEF IntakeNext, StartImport, ImportStep, OpenCard, MissCard, EndImport,
         AbandonCard, GiveVerdict, SkipTake, CopyTake, CopyFails, FileTake,
         FilingFails, RecordTake, WritePart, SubmitParts, SubmitWhole, Submit, Worker,
         NameJob, NamingFails, RenameByHand, Close, Relaunch, Carry, Spoil, intakeAll

\* No take is lost in its whole life: whatever leaves a card is on the disk,
\* or was recorded, moved or spoiled after the check that covers it, though
\* the digests were read by an import from the card it believed it was
\* reading, and though files were renamed and the process killed since.
THEOREM NothingIsLost == RecoverySpec => NoTakeIsLost
<1> DEFINE Backed == \A t \in OnCards \ OnCards' : Safe(t) \/ t \in exposed
<1>1. RecoveryInv /\ [RecoveryNext]_recoveryVars => [Backed]_recoveryVars
  <2> SUFFICES ASSUME RecoveryInv, [RecoveryNext]_recoveryVars,
                      NEW t \in OnCards, t \notin OnCards'
               PROVE  Safe(t) \/ t \in exposed
    OBVIOUS
  <2>1. PICK s \in Serial : t \in OnCard(s) /\ t \notin OnCard(s)'
    BY DEF OnCards
  <2>2. Send /\ Answers(s, hidraw)
    BY <2>1, OnlyTheCommandWipes, SendWipesOne DEF RecoveryInv
  <2> QED BY <2>1, <2>2, AnswererIsCovered DEF RecoveryInv
<1> QED BY <1>1, RecoveryInvariant, PTL DEF RecoverySpec, NoTakeIsLost

LEMMA RecordsStayLoadedThere ==
  ASSUME LedgersLoad, RecoveryInv, RecordsAreLoaded, [RecoveryNext]_recoveryVars
  PROVE  RecordsAreLoaded'
<1>1. CASE [IntakeNext]_intakeAll
  BY <1>1, RecordsStayLoaded DEF RecoveryInv
<1>2. CASE UNCHANGED <<archiveVars, intakeVars>>
  BY <1>2
     DEF RecordsAreLoaded, AtCard, archiveVars, intakeVars, threadVars, cardVars, countVars
<1>3. ASSUME NEW n \in Name, Spoil(n), UNCHANGED intakeVars PROVE RecordsAreLoaded'
  BY <1>3
     DEF Spoil, RecordsAreLoaded, AtCard, intakeVars, threadVars, cardVars, countVars
<1> QED
  BY <1>1, <1>2, <1>3, RecoveryStepsAreTheirs, ErasesWriteWhatWasThere DEF RecoveryInv

\* Of the two writers of a ledger, each rewriting it whole from what it
\* loaded, neither takes back what the other recorded.
THEOREM LedgersOnlyGrow ==
  ASSUME LedgersLoad PROVE RecoverySpec => LedgerNeverShrinks
<1>1. RecoveryInit => RecordsAreLoaded
  BY RecordsStartLoaded DEF RecoveryInit
<1>2. RecoveryInv /\ RecordsAreLoaded /\ [RecoveryNext]_recoveryVars => RecordsAreLoaded'
  BY RecordsStayLoadedThere
<1>3. RecoveryInv /\ RecordsAreLoaded /\ [RecoveryNext]_recoveryVars
        => [\A s \in Serial : ledger[s] \subseteq ledger'[s]]_recoveryVars
  <2> SUFFICES ASSUME RecoveryInv, RecordsAreLoaded, [RecoveryNext]_recoveryVars,
                      NEW s \in Serial
               PROVE  ledger[s] \subseteq ledger'[s]
    OBVIOUS
  <2>1. CASE [IntakeNext]_intakeAll
    BY <2>1, LedgersGrow DEF RecoveryInv
  <2>2. CASE UNCHANGED ledger
    BY <2>2
  <2> QED
    BY <2>1, <2>2, RecoveryStepsAreTheirs, ErasesWriteWhatWasThere
       DEF RecoveryInv, Spoil, archiveVars
<1> QED
  BY <1>1, <1>2, <1>3, RecoveryInvariant, PTL DEF RecoverySpec, LedgerNeverShrinks

-----------------------------------------------------------------------------
(* The whole implements Custody. *)

\* A file written under a free name, or moved to one, leaves every take kept.
LEMMA FilingLosesNothing ==
  ASSUME ArchiveTypeOK, NEW n \in Name, ~Exists(n), NEW c,
         files' = [files EXCEPT ![n] = c]
  PROVE  Kept \subseteq Kept'
<1>1. \A m \in Name \ {n} : files'[m] = files[m]
  BY DEF ArchiveTypeOK
<1> QED BY <1>1, ArchiveAssumption DEF Exists, Kept, Safe

\* The import writes under free names alone, and leaves the cards as they are.
LEMMA ImportFilesOnly ==
  ASSUME IntakeInv, StartImport \/ ImportStep
  PROVE  Kept \subseteq Kept' /\ UNCHANGED transmitterVars
<1> USE DEF archiveVars
<1>1. CASE FileTake
  <2>1. PICK n \in Name : ~Exists(n) /\ files' = [files EXCEPT ![n] = got]
    BY <1>1 DEF FileTake, UniquePath
  <2> QED BY <1>1, <2>1, FilingLosesNothing DEF FileTake, IntakeInv, IntakeTypeOK
<1>2. CASE WritePart
  <2>1. PICK n \in Name : ~Exists(n) /\ files' = [files EXCEPT ![n] = Fragment]
    BY <1>2 DEF WritePart, UniquePath
  <2> QED BY <1>2, <2>1, FilingLosesNothing DEF WritePart, IntakeInv, IntakeTypeOK
<1>3. CASE UNCHANGED <<files, transmitterVars>>
  BY <1>3, SameFilesKeep
<1> QED
  BY <1>1, <1>2, <1>3
     DEF StartImport, ImportStep, OpenCard, MissCard, EndImport, AbandonCard,
         GiveVerdict, SkipTake, CopyTake, CopyFails, FilingFails, RecordTake,
         SubmitParts, SubmitWhole, Submit

\* An import goes with no erase: to the promise it only files.
LEMMA ImportingKeepsCustody ==
  ASSUME RecoveryInv, StartImport \/ ImportStep, phase = "idle", UNCHANGED eraseVars
  PROVE  Promise!Next
<1>1. Kept \subseteq Kept' /\ UNCHANGED transmitterVars
  BY ImportFilesOnly DEF RecoveryInv
<1> QED BY <1>1, BetweenErases DEF eraseVars, Looked

\* The naming worker and a hand rename files, during an erase too: the bytes
\* counted are moved, and none is lost.
LEMMA NamingKeepsCustody ==
  ASSUME RecoveryInv, NEW n \in Name, NameJob(n) \/ RenameByHand(n), UNCHANGED eraseVars
  PROVE  Promise!Next
<1>1. PICK m \in Name : Renaming(n, m)
  BY NamingRenames
<1>2. Kept \subseteq Kept'
  BY <1>1, RenameLosesNothing DEF Renaming, Kept, RecoveryInv, EraseInv, EraseTypeOK
<1>3. OnCards' = OnCards /\ Counted' = Counted /\ exposed' = exposed
  BY <1>1 DEF Renaming, OnCards, OnCard, transmitterVars, Counted, Looked, eraseVars
<1> QED
  BY <1>2, <1>3 DEF Kept, Promise!Next, Promise!Keep

\* A process that ends, even in the middle of an erase, releases nothing.
LEMMA RestartingKeepsCustody == ASSUME Restart PROVE Promise!Next
<1>1. OnCards' = OnCards /\ Kept' = Kept
  BY SameFilesKeep DEF Restart, Relaunch, OnCards, OnCard, transmitterVars, archiveVars
<1>2. Counted' = {} /\ exposed' = exposed
  BY DEF Restart, Counted, Looked
<1> QED
  BY <1>1, <1>2 DEF Kept, Promise!Next, Promise!Release

LEMMA WholeKeepsCustody ==
  RecoveryInv /\ [RecoveryNext]_recoveryVars => [Promise!Next]_(Promise!custodyVars)
<1> SUFFICES ASSUME RecoveryInv, [RecoveryNext]_recoveryVars
             PROVE  [Promise!Next]_(Promise!custodyVars)
  OBVIOUS
<1>1. CASE ImportBegins \/ ImportReturns
  BY <1>1, ImportingKeepsCustody DEF ImportBegins, ImportReturns, ImportStep, Window
<1>2. CASE Beside
  <2>1. CASE ImportStep
    BY <1>2, <2>1, ImportIsAtWork, ImportingKeepsCustody
       DEF RecoveryInv, ImportBarsErase, Beside
  <2>2. ASSUME NEW n \in Name, NameJob(n) \/ RenameByHand(n) PROVE Promise!Next
    BY <1>2, <2>2, NamingKeepsCustody DEF Beside
  <2>3. CASE Close \/ \E n \in Name : NamingFails(n)
    BY <1>2, <2>3, SameFilesKeep
       DEF Beside, Close, NamingFails, archiveVars, transmitterVars, eraseVars,
           OnCards, OnCard, Kept, Counted, Looked, Promise!custodyVars
  <2> QED BY <1>2, <2>1, <2>2, <2>3 DEF Beside, Worker
<1>3. CASE \/ \E s \in Serial : Press(s)
           \/ Erase
           \/ Move
  <2>1. EraseNext
    BY <1>3 DEF Press, Erase, Move, EraseNext, Hands
  <2> QED BY <2>1, EveryStepKeepsCustody DEF RecoveryInv
<1>4. CASE Restart
  BY <1>4, RestartingKeepsCustody
<1>5. CASE UNCHANGED recoveryVars
  <2>1. UNCHANGED vars
    BY <1>5 DEF recoveryVars, vars
  <2> QED BY <2>1, EveryStepKeepsCustody DEF RecoveryInv
<1> QED
  BY <1>1, <1>2, <1>3, <1>4, <1>5 DEF RecoveryNext

\* The whole program implements Custody: with the real import filing and
\* cutting, the worker and hands renaming during the erase itself, the process
\* closed or killed at any step, a card gives up what an erase had counted
\* among the kept takes, or what changed since.
THEOREM RecoveryKeepsCustody == RecoverySpec => CustodyIsKept
<1>1. RecoveryInit => Promise!Init
  BY CustodyStarts DEF RecoveryInit
<1>2. RecoveryInv /\ [RecoveryNext]_recoveryVars => [Promise!Next]_(Promise!custodyVars)
  BY WholeKeepsCustody
<1> QED
  BY <1>1, <1>2, RecoveryInvariant, PTL DEF RecoverySpec, CustodyIsKept, Promise!Spec

\* While any erase of the program hashes or sends, whatever it has counted is
\* on the disk, or was recorded, moved or spoiled since.
THEOREM WhatIsCountedIsKept == RecoverySpec => []Promise!CountedIsKept
BY RecoveryKeepsCustody, PromiseHoldsItsCount, PTL
=============================================================================

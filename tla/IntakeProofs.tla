---------------------------- MODULE IntakeProofs ----------------------------
(***************************************************************************)
(* Proofs about Intake, for any cards, takes, slots and files.  IntakeInv  *)
(* is inductive whatever fails; what is proved beyond it names the failure *)
(* that has to be absent.  The import comes nearer its end all the same.   *)
(***************************************************************************)
EXTENDS Intake, TLAPS

AtCard == stage \notin {"idle", "cards"}
AtTake == stage \in TakeStage

\* A take was recorded on the card since it was listed, or was being recorded
\* then: it has left its slot, and no listing of it will be what was listed.
Overtaken == ~(OnCard(reading) \subseteq listed)

\* The card in hand is still where it was opened, or was overtaken; and until
\* then the digests counted are those of the takes seen.
CardInHand ==
  AtCard =>
    /\ reading \in Serial
    /\ listed \subseteq card[reading]
    /\ device # NoSlot
    /\ (slot[reading] = device /\ open[reading] = NoTake) \/ Overtaken
    /\ digests = {AudioOf[t] : t \in seen} \/ Overtaken
    /\ digests # {} => seen # {}

\* The take in hand was read from it; it is new to the ledger until it is
\* recorded, under the prefix it was filed with.
TakeInHand ==
  AtTake =>
    /\ take \in listed \ todo /\ got \in Audio
    /\ got = AudioOf[take] \/ Overtaken
    /\ stage \in {"copied", "filed"} => ~Holds(records, got)
    /\ stage # "copied" => final.prefix = PrefixOf[take] /\ final.rank = 0

NothingInHand ==
  /\ ~AtCard => listed = {} /\ seen = {} /\ todo = {}
  /\ stage # "cutting" => parts = {}

OpenIsApart == \A s \in Serial : open[s] \notin card[s]

IntakeInv ==
  /\ IntakeTypeOK
  /\ TakesStayApart /\ SlotsStayApart /\ OpenIsApart
  /\ VerdictsAccount
  /\ CardInHand /\ TakeInHand /\ NothingInHand
  /\ OneRecordPerDigest
  /\ AtCard => records \subseteq ledger[reading]

LEMMA InitEstablishesIntake == IntakeInit => IntakeInv
<1> SUFFICES ASSUME IntakeInit PROVE IntakeInv
  OBVIOUS
<1> USE DEF IntakeInit, ArchiveInit, TransmittersInit
<1>1. NoName \in Name
  BY ArchiveAssumption DEF NoName, FileName, Name, Tail
<1>2. ArchiveTypeOK /\ TransmittersTypeOK /\ VerdictsTypeOK
  BY DEF ArchiveTypeOK, TransmittersTypeOK, VerdictsTypeOK, NoVerdicts
<1>3. IntakeTypeOK
  <2>1. launches \in 0..MaxLaunches
    BY IntakeAssumption
  <2>2. /\ heard \subseteq (Prefix \cup {Bare}) \X (0..MaxRank)
        /\ stage \in Stage /\ final \in Name
    BY <1>1 DEF Stage
  <2> QED BY <1>2, <2>1, <2>2 DEF IntakeTypeOK
<1>4. \A s \in Serial : OnCard(s) = card[s]
  BY DEF OnCard
<1>5. TakesStayApart /\ SlotsStayApart /\ VerdictsAccount
  BY <1>4 DEF TakesStayApart, SlotsStayApart, VerdictsAccount, Complete, NoVerdicts
<1>6. OpenIsApart
  BY TransmittersAssumption DEF OpenIsApart
<1> QED
  BY <1>3, <1>5, <1>6
     DEF IntakeInv, AtCard, AtTake, CardInHand, TakeInHand, NothingInHand,
         TakeStage, OneRecordPerDigest

-----------------------------------------------------------------------------
(* Facts shared by several actions. *)

LEMMA NewNamesAreNames ==
  ASSUME NEW n \in Name, NEW slug, NEW byHand, NEW m, NewName(n, slug, byHand, m)
  PROVE  m \in Name /\ ~Exists(m)
BY DEF NewName, UniquePath

LEMMA RenamingKeepsTypes ==
  ASSUME ArchiveTypeOK, NEW n \in Name, NEW m \in Name, Rename(n, m)
  PROVE  files' \in [Name -> Content \cup {NoFile}]
BY DEF ArchiveTypeOK, Rename

\* While no transmitter moves and no verdict is given, what relates them stays.
LEMMA CardsStand ==
  ASSUME IntakeInv, UNCHANGED <<transmitterVars, verdicts>>
  PROVE  /\ TransmittersTypeOK' /\ VerdictsTypeOK'
         /\ TakesStayApart' /\ SlotsStayApart' /\ OpenIsApart' /\ VerdictsAccount'
         /\ \A s \in Serial : OnCard(s)' = OnCard(s)
<1> USE DEF transmitterVars
<1>1. \A s \in Serial : OnCard(s)' = OnCard(s)
  BY DEF OnCard
<1> QED
  BY <1>1
     DEF IntakeInv, IntakeTypeOK, TransmittersTypeOK, VerdictsTypeOK, Complete,
         TakesStayApart, SlotsStayApart, OpenIsApart, VerdictsAccount

\* With the thread where it was, what it has in hand is what it was.
LEMMA ThreadStands ==
  ASSUME IntakeInv, UNCHANGED <<ledger, transmitterVars, threadVars>>
  PROVE  /\ CardInHand' /\ TakeInHand' /\ NothingInHand' /\ OneRecordPerDigest'
         /\ (AtCard => records \subseteq ledger[reading])'
<1> USE DEF threadVars, cardVars, countVars, takeVars
<1>1. Overtaken' = Overtaken
  BY DEF Overtaken, OnCard, transmitterVars
<1> QED
  BY <1>1
     DEF IntakeInv, CardInHand, TakeInHand, NothingInHand, OneRecordPerDigest,
         AtCard, AtTake, Holds, transmitterVars

\* The worker, the window and a close move files and the session alone.
LEMMA BesideTheThread ==
  ASSUME IntakeInv, UNCHANGED <<ledger, transmitterVars, verdicts, threadVars>>,
         files' \in [Name -> Content \cup {NoFile}],
         queue' \subseteq Name, heard' \subseteq (Prefix \cup {Bare}) \X (0..MaxRank),
         stop' \in BOOLEAN, launches' \in 0..MaxLaunches
  PROVE  IntakeInv'
<1>1. IntakeTypeOK'
  BY CardsStand
     DEF IntakeInv, IntakeTypeOK, ArchiveTypeOK, threadVars, cardVars, countVars,
         takeVars
<1> QED BY <1>1, CardsStand, ThreadStands DEF IntakeInv

\* A launch and a click on import drop every verdict.
LEMMA VerdictsGo ==
  ASSUME IntakeInv, UNCHANGED transmitterVars, verdicts' = NoVerdicts
  PROVE  /\ TransmittersTypeOK' /\ VerdictsTypeOK'
         /\ TakesStayApart' /\ SlotsStayApart' /\ OpenIsApart' /\ VerdictsAccount'
<1> USE DEF transmitterVars
<1>1. \A s \in Serial : OnCard(s)' = OnCard(s)
  BY DEF OnCard
<1>2. \A s \in Serial : verdicts'[s] = NoVerdict
  BY DEF NoVerdicts
<1>3. VerdictsTypeOK'
  BY DEF VerdictsTypeOK, NoVerdicts
<1> QED
  BY <1>1, <1>2, <1>3
     DEF IntakeInv, IntakeTypeOK, TransmittersTypeOK, Complete,
         TakesStayApart, SlotsStayApart, OpenIsApart, VerdictsAccount

\* With no card in hand nothing is to be said of it.
LEMMA CardPutDown ==
  ASSUME IntakeInv, NoCardInHand, NoTakeInHand, stage' \in {"idle", "cards"},
         UNCHANGED archiveVars
  PROVE  /\ ArchiveTypeOK' /\ stage' \in Stage
         /\ device' \in Slot \cup {NoSlot} /\ reading' \in Serial \cup {NoSerial}
         /\ listed' \subseteq Take /\ openSeen' \in BOOLEAN
         /\ todo' \subseteq listed' /\ seen' \subseteq listed' \ todo'
         /\ digests' \subseteq Audio /\ records' \subseteq Record
         /\ take' \in listed' \cup {NoTake} /\ got' \in Audio \cup {NoFile}
         /\ final' \in Name /\ parts' \subseteq Name
         /\ CardInHand' /\ TakeInHand' /\ NothingInHand' /\ OneRecordPerDigest'
         /\ (AtCard => records \subseteq ledger[reading])'
<1>1. NoName \in Name
  BY ArchiveAssumption DEF NoName, FileName, Name, Tail
<1> QED
  BY <1>1
     DEF IntakeInv, IntakeTypeOK, ArchiveTypeOK, archiveVars, NoCardInHand,
         NoTakeInHand, Stage, AtCard, AtTake, TakeStage, CardInHand, TakeInHand,
         NothingInHand, OneRecordPerDigest

-----------------------------------------------------------------------------
(* The import thread between two takes. *)

LEMMA StartImportKeeps == ASSUME IntakeInv, StartImport PROVE IntakeInv'
<1> USE DEF StartImport
<1>1. blocks' \subseteq Slot
  BY DEF Docked, IntakeInv, IntakeTypeOK, TransmittersTypeOK
<1>2. IntakeTypeOK'
  BY <1>1, VerdictsGo
     DEF IntakeInv, IntakeTypeOK, ArchiveTypeOK, archiveVars, sessionVars,
         cardVars, countVars, takeVars, Stage
<1>3. /\ CardInHand' /\ TakeInHand' /\ NothingInHand' /\ OneRecordPerDigest'
      /\ (AtCard => records \subseteq ledger[reading])'
  BY DEF IntakeInv, AtCard, AtTake, TakeStage, CardInHand, TakeInHand,
         NothingInHand, OneRecordPerDigest, archiveVars, cardVars, countVars, takeVars
<1> QED BY <1>2, <1>3, VerdictsGo DEF IntakeInv

\* A card is opened where it is, with all its closed takes to come; one that
\* is recording is overtaken from the start.
LEMMA OpenCardKeeps == ASSUME IntakeInv, NEW s \in Serial, OpenCard(s) PROVE IntakeInv'
<1> USE DEF OpenCard
<1>1. /\ device' = slot[s] /\ device' \in Slot /\ blocks' \subseteq blocks
      /\ reading' = s /\ listed' = card[s]
  BY DEF Occupies, IntakeInv, IntakeTypeOK
<1>2. records' \subseteq ledger[s] /\ card[s] \subseteq Take /\ ledger[s] \subseteq Record
  BY DEF IntakeInv, IntakeTypeOK, TransmittersTypeOK, ArchiveTypeOK
<1>3. IntakeTypeOK'
  <2>1. take = NoTake
    BY DEF IntakeInv, IntakeTypeOK, NothingInHand, AtCard
  <2> QED
    BY <1>1, <1>2, <2>1, CardsStand
       DEF IntakeInv, IntakeTypeOK, ArchiveTypeOK, archiveVars, sessionVars,
           takeVars, Stage
<1>4. CardInHand'
  <2>1. open[s] = NoTake \/ ~(OnCard(s) \subseteq card[s])
    BY TransmittersAssumption DEF IntakeInv, OpenIsApart, OnCard
  <2>2. open[s] = NoTake \/ Overtaken'
    BY <1>1, <2>1, CardsStand DEF Overtaken
  <2>3. device' # NoSlot
    BY <1>1, TransmittersAssumption
  <2>4. digests' = {AudioOf[t] : t \in seen'}
    OBVIOUS
  <2> QED BY <1>1, <2>2, <2>3, <2>4 DEF CardInHand, transmitterVars
<1>5. TakeInHand' /\ NothingInHand' /\ OneRecordPerDigest'
  BY DEF IntakeInv, AtTake, AtCard, TakeStage, TakeInHand, NothingInHand,
         OneRecordPerDigest, archiveVars, takeVars
<1>6. (AtCard => records \subseteq ledger[reading])'
  BY <1>1, <1>2 DEF archiveVars
<1> QED BY <1>3, <1>4, <1>5, <1>6, CardsStand DEF IntakeInv

\* Steps that leave cards, takes and verdicts alone.
LEMMA BetweenCardsKeeps == ASSUME IntakeInv, MissCard \/ EndImport PROVE IntakeInv'
<1>1. /\ blocks' \subseteq blocks /\ stage' \in {"idle", "cards"}
      /\ UNCHANGED <<archiveVars, transmitterVars, verdicts, sessionVars>>
      /\ UNCHANGED <<cardVars, countVars, takeVars>> /\ stage = "cards"
  BY DEF MissCard, EndImport
<1>2. IntakeTypeOK'
  BY <1>1, CardsStand
     DEF IntakeInv, IntakeTypeOK, ArchiveTypeOK, archiveVars, sessionVars,
         cardVars, countVars, takeVars, Stage
<1>3. /\ CardInHand' /\ TakeInHand' /\ NothingInHand' /\ OneRecordPerDigest'
      /\ (AtCard => records \subseteq ledger[reading])'
  BY <1>1
     DEF IntakeInv, AtCard, AtTake, TakeStage, CardInHand, TakeInHand,
         NothingInHand, OneRecordPerDigest, archiveVars, cardVars, countVars, takeVars
<1> QED BY <1>1, <1>2, <1>3, CardsStand DEF IntakeInv

LEMMA AbandonCardKeeps == ASSUME IntakeInv, AbandonCard PROVE IntakeInv'
<1> USE DEF AbandonCard, LeaveCard
<1>1. IntakeTypeOK'
  BY CardsStand, CardPutDown DEF IntakeInv, IntakeTypeOK, sessionVars
<1> QED BY <1>1, CardsStand, CardPutDown DEF IntakeInv

\* The verdict: what was counted, on a card that still is what was listed or
\* was overtaken.
LEMMA GiveVerdictKeeps == ASSUME IntakeInv, GiveVerdict PROVE IntakeInv'
<1> USE DEF GiveVerdict, LeaveCard
<1> DEFINE v == [inventory |-> listed, digests |-> digests, complete |-> Accounted]
<1>1. /\ reading \in Serial /\ listed \subseteq card[reading]
      /\ card[reading] \subseteq OnCard(reading)
  BY DEF IntakeInv, CardInHand, AtCard, OnCard
<1>2. v \in Verdict
  BY DEF IntakeInv, IntakeTypeOK, Verdict, Accounted
<1>3. /\ verdicts'[reading] = v
      /\ \A s \in Serial \ {reading} : verdicts'[s] = verdicts[s]
      /\ VerdictsTypeOK'
  BY <1>1, <1>2 DEF IntakeInv, IntakeTypeOK, VerdictsTypeOK
<1>4. \A s \in Serial : OnCard(s)' = OnCard(s)
  BY DEF OnCard, transmitterVars
<1>5. TransmittersTypeOK' /\ SlotsStayApart' /\ OpenIsApart'
  BY DEF IntakeInv, IntakeTypeOK, TransmittersTypeOK, SlotsStayApart, OpenIsApart,
         transmitterVars
<1>6. v.inventory = listed /\ v.digests = digests /\ v.complete = Accounted
  OBVIOUS
<1> HIDE DEF v
<1>7. IntakeTypeOK'
  BY <1>3, <1>5, CardPutDown DEF IntakeInv, IntakeTypeOK, sessionVars
<1>8. TakesStayApart'
  BY <1>1, <1>3, <1>4, <1>6 DEF IntakeInv, TakesStayApart, transmitterVars
<1>9. VerdictsAccount'
  <2>1. ASSUME Accounted, digests # {}
        PROVE  /\ listed # {}
               /\ digests = {AudioOf[t] : t \in listed} \/ OnCard(reading) # listed
    BY <2>1 DEF IntakeInv, IntakeTypeOK, CardInHand, AtCard, Accounted, Overtaken
  <2> QED
    BY <1>3, <1>4, <1>6, <2>1 DEF IntakeInv, VerdictsAccount, Complete
<1> QED BY <1>5, <1>7, <1>8, <1>9, CardPutDown DEF IntakeInv

LEMMA RelaunchKeeps == ASSUME IntakeInv, Relaunch PROVE IntakeInv'
<1> USE DEF Relaunch
<1>1. launches' \in 0..MaxLaunches
  BY IntakeAssumption DEF IntakeInv, IntakeTypeOK
<1>2. IntakeTypeOK'
  BY <1>1, VerdictsGo, CardPutDown DEF IntakeInv, IntakeTypeOK, Orphans
<1> QED BY <1>2, VerdictsGo, CardPutDown DEF IntakeInv

-----------------------------------------------------------------------------
(* One take. *)

\* A read yields the take's own bytes, unless the card has left the reader.
LEMMA ReadsAreTrueOrOvertaken ==
  ASSUME IntakeInv, AtCard, NEW t \in Take, NEW bytes, ReadFrom(t, bytes)
  PROVE  /\ bytes \in Audio
         /\ bytes = AudioOf[t] \/ Overtaken
<1>1. PICK s \in Serial : /\ Occupies(s, device)
                          /\ IF s = reading THEN bytes = AudioOf[t] ELSE bytes \in Garble
  BY DEF ReadFrom
<1>2. bytes \in Audio
  BY <1>1, ArchiveAssumption, IntakeAssumption
<1>3. CASE s = reading
  BY <1>1, <1>2, <1>3
<1>4. CASE s # reading
  BY <1>1, <1>2, <1>4 DEF Occupies, IntakeInv, SlotsStayApart, CardInHand
<1> QED BY <1>3, <1>4

\* Overtaken is about the card and its listing alone.
LEMMA OvertakenStands ==
  ASSUME UNCHANGED <<transmitterVars, reading, listed>>
  PROVE  Overtaken' = Overtaken
BY DEF Overtaken, OnCard, transmitterVars

LEMMA SkipTakeKeeps == ASSUME IntakeInv, NEW t \in Take, SkipTake(t) PROVE IntakeInv'
<1> USE DEF SkipTake, NextTake, cardVars, takeVars
<1> PICK bytes \in Audio : /\ ReadFrom(t, bytes)
                           /\ digests' = digests \cup {bytes}
  OBVIOUS
<1>1. AtCard /\ AtCard' /\ ~AtTake /\ ~AtTake'
  BY DEF AtCard, AtTake, TakeStage
<1>2. bytes = AudioOf[t] \/ Overtaken
  BY <1>1, ReadsAreTrueOrOvertaken
<1>3. IntakeTypeOK'
  BY CardsStand DEF IntakeInv, IntakeTypeOK, ArchiveTypeOK, archiveVars, sessionVars
<1>4. CardInHand'
  <2>1. digests' = {AudioOf[x] : x \in seen'} \/ Overtaken
    BY <1>1, <1>2 DEF IntakeInv, CardInHand
  <2> QED
    BY <1>1, <2>1, OvertakenStands DEF IntakeInv, CardInHand, transmitterVars
<1>5. TakeInHand' /\ NothingInHand' /\ OneRecordPerDigest'
  BY <1>1 DEF IntakeInv, TakeInHand, NothingInHand, OneRecordPerDigest, archiveVars
<1>6. (AtCard => records \subseteq ledger[reading])'
  BY <1>1 DEF IntakeInv, archiveVars
<1> QED BY <1>3, <1>4, <1>5, <1>6, CardsStand DEF IntakeInv

\* A take put in hand, or given up; what was counted stays.
LEMMA CountStands ==
  ASSUME IntakeInv, AtCard, AtCard',
         UNCHANGED <<transmitterVars, ledger, verdicts>>,
         UNCHANGED <<cardVars, seen, digests, records>>
  PROVE  /\ CardInHand' /\ OneRecordPerDigest'
         /\ (AtCard => records \subseteq ledger[reading])'
BY OvertakenStands
   DEF IntakeInv, CardInHand, OneRecordPerDigest, cardVars, transmitterVars

LEMMA CopyTakeKeeps == ASSUME IntakeInv, NEW t \in Take, CopyTake(t) PROVE IntakeInv'
<1> USE DEF CopyTake, NextTake
<1>1. AtCard /\ AtCard' /\ AtTake'
  BY DEF AtCard, AtTake, TakeStage
<1>2. got' \in Audio /\ (got' = AudioOf[t] \/ Overtaken) /\ ~Holds(records, got')
  BY <1>1, ReadsAreTrueOrOvertaken
<1>3. IntakeTypeOK'
  BY <1>2, CardsStand
     DEF IntakeInv, IntakeTypeOK, ArchiveTypeOK, archiveVars, sessionVars,
         cardVars, Stage
<1>4. TakeInHand'
  BY <1>1, <1>2, OvertakenStands
     DEF IntakeInv, IntakeTypeOK, TakeInHand, Holds, cardVars
<1>5. NothingInHand'
  BY <1>1 DEF IntakeInv, NothingInHand
<1> QED
  BY <1>1, <1>3, <1>4, <1>5, CardsStand, CountStands DEF IntakeInv, archiveVars

LEMMA CopyFailsKeeps == ASSUME IntakeInv, NEW t \in Take, CopyFails(t) PROVE IntakeInv'
<1> USE DEF CopyFails, NextTake
<1>1. AtCard /\ AtCard' /\ ~AtTake /\ ~AtTake'
  BY DEF AtCard, AtTake, TakeStage
<1>2. IntakeTypeOK'
  BY CardsStand
     DEF IntakeInv, IntakeTypeOK, ArchiveTypeOK, archiveVars, sessionVars,
         cardVars, takeVars
<1>3. TakeInHand' /\ NothingInHand'
  BY <1>1 DEF IntakeInv, TakeInHand, NothingInHand, takeVars
<1> QED
  BY <1>1, <1>2, <1>3, CardsStand, CountStands DEF IntakeInv, archiveVars

LEMMA FileTakeKeeps == ASSUME IntakeInv, FileTake PROVE IntakeInv'
<1> USE DEF FileTake
<1> PICK n \in Name :
      /\ UniquePath(PrefixOf[take], 0, IF got \in Marked THEN Split ELSE Placeholder, n)
      /\ files' = [files EXCEPT ![n] = got]
      /\ final' = n
  OBVIOUS
<1>1. AtCard /\ AtCard' /\ AtTake /\ AtTake'
  BY DEF AtCard, AtTake, TakeStage
<1>2. got \in Audio /\ n.prefix = PrefixOf[take] /\ n.rank = 0
  BY <1>1 DEF IntakeInv, TakeInHand, UniquePath, FileName
<1>3. IntakeTypeOK'
  BY <1>2, CardsStand
     DEF IntakeInv, IntakeTypeOK, ArchiveTypeOK, Content, sessionVars, cardVars,
         countVars, Stage
<1>4. TakeInHand' /\ NothingInHand'
  BY <1>1, <1>2, OvertakenStands
     DEF IntakeInv, TakeInHand, NothingInHand, Holds, cardVars, countVars
<1> QED
  BY <1>1, <1>3, <1>4, CardsStand, CountStands DEF IntakeInv, countVars

\* Back to the next take, with nothing in hand.
LEMMA TakePutDown ==
  ASSUME IntakeInv, AtCard, stage' = "takes", NoTakeInHand,
         UNCHANGED <<archiveVars, transmitterVars, verdicts, heard, stop, launches>>,
         UNCHANGED <<blocks, cardVars, countVars>>,
         queue' \subseteq Name
  PROVE  IntakeInv'
<1>1. AtCard' /\ ~AtTake'
  BY DEF AtCard, AtTake, TakeStage
<1>2. NoName \in Name
  BY ArchiveAssumption DEF NoName, FileName, Name, Tail
<1>3. IntakeTypeOK'
  BY <1>2, CardsStand
     DEF IntakeInv, IntakeTypeOK, ArchiveTypeOK, archiveVars, cardVars, countVars,
         NoTakeInHand, Stage
<1>4. TakeInHand' /\ NothingInHand'
  BY <1>1 DEF TakeInHand, NothingInHand, NoTakeInHand
<1> QED
  BY <1>1, <1>3, <1>4, CardsStand, CountStands DEF IntakeInv, countVars, archiveVars

LEMMA PutDownsKeep ==
  ASSUME IntakeInv, FilingFails \/ SubmitParts \/ SubmitWhole PROVE IntakeInv'
<1>1. AtCard
  BY DEF FilingFails, SubmitParts, SubmitWhole, AtCard
<1>2. queue' \subseteq Name
  BY DEF IntakeInv, IntakeTypeOK, FilingFails, SubmitParts, SubmitWhole, Submit,
         sessionVars
<1> QED
  BY <1>1, <1>2, TakePutDown
     DEF FilingFails, SubmitParts, SubmitWhole, Submit, sessionVars

\* The record is of bytes the ledger had not, so that a digest keeps one.
LEMMA RecordTakeKeeps == ASSUME IntakeInv, RecordTake PROVE IntakeInv'
<1> USE DEF RecordTake
<1> DEFINE r == [digest |-> got, prefix |-> final.prefix]
<1>1. AtCard /\ AtCard' /\ AtTake /\ AtTake'
  BY DEF AtCard, AtTake, TakeStage
<1>2. /\ take \in listed \ todo /\ got \in Audio /\ ~Holds(records, got)
      /\ got = AudioOf[take] \/ Overtaken
      /\ final.prefix = PrefixOf[take] /\ final.rank = 0
      /\ reading \in Serial
  BY <1>1 DEF IntakeInv, TakeInHand, CardInHand
<1>3. r \in Record /\ r.digest = got
  BY <1>2, ArchiveAssumption DEF Record, IntakeInv, IntakeTypeOK
<1> HIDE DEF r
<1>4. /\ ledger'[reading] = records \cup {r} /\ records' = records \cup {r}
      /\ \A s \in Serial \ {reading} : ledger'[s] = ledger[s]
      /\ ledger' \in [Serial -> SUBSET Record]
  BY <1>2, <1>3 DEF r, IntakeInv, IntakeTypeOK, ArchiveTypeOK
<1>5. IntakeTypeOK'
  BY <1>2, <1>3, <1>4, CardsStand
     DEF IntakeInv, IntakeTypeOK, ArchiveTypeOK, sessionVars, cardVars, takeVars, Stage
<1>6. CardInHand'
  <2>1. digests' = {AudioOf[x] : x \in seen'} \/ Overtaken
    BY <1>1, <1>2 DEF IntakeInv, CardInHand
  <2> QED
    BY <1>1, <2>1, OvertakenStands DEF IntakeInv, CardInHand, transmitterVars, cardVars
<1>7. TakeInHand' /\ NothingInHand'
  BY <1>1, <1>2, OvertakenStands
     DEF IntakeInv, TakeInHand, NothingInHand, cardVars, takeVars
<1>8. OneRecordPerDigest'
  <2>1. \A q \in records : q.digest # r.digest
    BY <1>2, <1>3 DEF Holds
  <2>2. \A p, q \in records : p.digest = q.digest => p = q
    BY <1>1, <1>2 DEF IntakeInv, OneRecordPerDigest
  <2> QED BY <1>4, <2>1, <2>2 DEF IntakeInv, OneRecordPerDigest
<1>9. (AtCard => records \subseteq ledger[reading])'
  BY <1>4 DEF cardVars
<1> QED BY <1>5, <1>6, <1>7, <1>8, <1>9, CardsStand DEF IntakeInv

LEMMA WritePartKeeps == ASSUME IntakeInv, WritePart PROVE IntakeInv'
<1> USE DEF WritePart
<1> PICK n \in Name : /\ files' = [files EXCEPT ![n] = Fragment]
                      /\ parts' = parts \cup {n}
  OBVIOUS
<1>1. AtCard /\ AtCard' /\ AtTake /\ AtTake'
  BY DEF AtCard, AtTake, TakeStage
<1>2. IntakeTypeOK'
  BY CardsStand
     DEF IntakeInv, IntakeTypeOK, ArchiveTypeOK, Content, sessionVars, cardVars,
         countVars, Stage
<1>3. TakeInHand' /\ NothingInHand'
  BY <1>1, OvertakenStands
     DEF IntakeInv, TakeInHand, NothingInHand, cardVars, countVars
<1> QED
  BY <1>1, <1>2, <1>3, CardsStand, CountStands DEF IntakeInv, countVars

-----------------------------------------------------------------------------
(* Transmitters, the worker and the window. *)

\* A transmitter lifted or docked keeps its takes, and a take it starts is new
\* to every card and every verdict.
LEMMA CarryingAdds ==
  ASSUME IntakeInv, NEW s \in Serial, Lift(s) \/ Dock(s)
  PROVE  /\ \A x \in Serial : OnCard(x) \subseteq OnCard(x)'
         /\ \A x \in Serial \ {s} : OnCard(x)' = OnCard(x)
         /\ OnCard(s)' \ OnCard(s) \subseteq Take \ born
         /\ OnCard(s)' \subseteq born' /\ born \subseteq born' /\ born' \subseteq Take
BY TransmittersAssumption
   DEF Lift, Dock, OnCard, IntakeInv, IntakeTypeOK, TransmittersTypeOK, TakesStayApart

LEMMA CarryingKeepsCards ==
  ASSUME IntakeInv, NEW s \in Serial, Lift(s) \/ Dock(s), UNCHANGED verdicts
  PROVE  /\ TransmittersTypeOK' /\ TakesStayApart' /\ SlotsStayApart'
         /\ OpenIsApart' /\ VerdictsAccount'
<1> USE TransmittersAssumption
<1>1. TransmittersTypeOK'
  <2>1. CASE Lift(s)
    BY <2>1 DEF Lift, IntakeInv, IntakeTypeOK, TransmittersTypeOK
  <2>2. CASE Dock(s)
    <3>1. OnCard(s) \subseteq Take
      BY DEF OnCard, IntakeInv, IntakeTypeOK, TransmittersTypeOK
    <3> QED
      BY <2>2, <3>1
         DEF Dock, IntakeInv, IntakeTypeOK, TransmittersTypeOK, FreeSlots, FreeNodes
  <2> QED BY <2>1, <2>2
<1>2. TakesStayApart'
  BY CarryingAdds DEF IntakeInv, TakesStayApart
<1>3. SlotsStayApart'
  <2>1. PICK p \in FreeSlots \cup {NoSlot} : slot' = [slot EXCEPT ![s] = p]
    BY DEF Lift, Dock
  <2>2. /\ slot'[s] = p /\ \A x \in Serial \ {s} : slot'[x] = slot[x]
        /\ p # NoSlot => \A x \in Serial : slot[x] # p
    BY <2>1 DEF IntakeInv, IntakeTypeOK, TransmittersTypeOK, FreeSlots
  <2> QED BY <2>2 DEF IntakeInv, SlotsStayApart
<1>4. OpenIsApart'
  <2>1. card[s] \subseteq born /\ NoTake \notin OnCard(s)
    BY DEF IntakeInv, IntakeTypeOK, TransmittersTypeOK, TakesStayApart, OnCard
  <2>2. CASE UNCHANGED <<card, open>>
    BY <2>2 DEF IntakeInv, OpenIsApart
  <2>3. CASE Lift(s)
    BY <2>1, <2>3 DEF Lift, IntakeInv, IntakeTypeOK, TransmittersTypeOK, OpenIsApart
  <2>4. CASE /\ card' = [card EXCEPT ![s] = OnCard(s)]
             /\ open' = [open EXCEPT ![s] = NoTake]
    BY <2>1, <2>4 DEF IntakeInv, IntakeTypeOK, TransmittersTypeOK, OpenIsApart
  <2> QED BY <2>2, <2>3, <2>4 DEF Dock
<1>5. VerdictsAccount'
  <2>1. ASSUME OnCard(s)' # OnCard(s), verdicts[s] # NoVerdict
        PROVE  OnCard(s)' # verdicts[s].inventory
    BY <2>1, CarryingAdds DEF IntakeInv, TakesStayApart
  <2> QED
    BY <2>1, CarryingAdds DEF IntakeInv, VerdictsAccount, Complete
<1> QED BY <1>1, <1>2, <1>3, <1>4, <1>5

\* The transmitter whose card is in hand records a take that was not listed
\* before it can come back, and its card may be another's place by then.
LEMMA CarryingOvertakes ==
  ASSUME IntakeInv, NEW s \in Serial, Lift(s) \/ Dock(s),
         UNCHANGED <<archiveVars, intakeVars>>
  PROVE  CardInHand' /\ (Overtaken => Overtaken' \/ ~AtCard)
<1> USE DEF intakeVars, threadVars, cardVars, countVars
<1>1. CASE ~AtCard
  BY <1>1 DEF CardInHand, AtCard
<1>2. CASE AtCard
  <2> USE <1>2
  <2>1. /\ reading \in Serial /\ listed \subseteq card[reading]
        /\ card[reading] \subseteq born
    BY DEF IntakeInv, CardInHand, TakesStayApart, OnCard
  <2>2. Overtaken => Overtaken'
    BY <2>1, CarryingAdds DEF Overtaken
  <2>3. listed \subseteq card'[reading]
    BY <2>1 DEF Lift, Dock, OnCard, IntakeInv, IntakeTypeOK, TransmittersTypeOK
  <2>4. (slot'[reading] = device /\ open'[reading] = NoTake) \/ Overtaken'
    <3>1. CASE Overtaken
      BY <2>2, <3>1
    <3>2. CASE ~Overtaken /\ s # reading
      BY <2>1, <3>2
         DEF Lift, Dock, IntakeInv, IntakeTypeOK, TransmittersTypeOK, CardInHand
    <3>3. CASE ~Overtaken /\ s = reading
      <4>1. slot[s] = device /\ device # NoSlot /\ open[s] = NoTake
        BY <3>3 DEF IntakeInv, CardInHand
      <4>2. PICK t \in Take \ born : open' = [open EXCEPT ![s] = t]
        BY <4>1 DEF Lift, Dock, Docked
      <4>3. t \in OnCard(s)' /\ t \notin listed
        BY <2>1, <4>2, TransmittersAssumption
           DEF OnCard, IntakeInv, IntakeTypeOK, TransmittersTypeOK
      <4> QED BY <3>3, <4>3 DEF Overtaken
    <3> QED BY <3>1, <3>2, <3>3
  <2> QED
    BY <2>1, <2>2, <2>3, <2>4 DEF IntakeInv, CardInHand, AtCard
<1> QED BY <1>1, <1>2

LEMMA CarryKeeps == ASSUME IntakeInv, Carry PROVE IntakeInv'
<1> PICK s \in Serial : Lift(s) \/ Dock(s)
  BY DEF Carry
<1>1. UNCHANGED <<archiveVars, verdicts, intakeVars>>
  BY DEF Carry
<1> USE DEF archiveVars, intakeVars, threadVars, sessionVars, cardVars, countVars, takeVars
<1>2. IntakeTypeOK'
  BY <1>1, CarryingKeepsCards
     DEF IntakeInv, IntakeTypeOK, ArchiveTypeOK, VerdictsTypeOK
<1>3. TakeInHand' /\ NothingInHand' /\ OneRecordPerDigest'
  BY <1>1, CarryingOvertakes
     DEF IntakeInv, TakeInHand, NothingInHand, OneRecordPerDigest, AtCard, AtTake,
         TakeStage, Holds
<1>4. (AtCard => records \subseteq ledger[reading])'
  BY <1>1 DEF IntakeInv, AtCard
<1> QED
  BY <1>1, <1>2, <1>3, <1>4, CarryingKeepsCards, CarryingOvertakes DEF IntakeInv

LEMMA BesideKeeps ==
  ASSUME IntakeInv,
         \/ \E n \in Name : NameJob(n) \/ NamingFails(n) \/ RenameByHand(n)
         \/ Close
         \/ UNCHANGED intakeAll
  PROVE  IntakeInv'
<1> USE DEF intakeVars, sessionVars, archiveVars
<1>1. ASSUME NEW n \in Name, NameJob(n) PROVE IntakeInv'
  <2> USE <1>1 DEF NameJob
  <2>1. files' \in [Name -> Content \cup {NoFile}]
    BY NewNamesAreNames, RenamingKeepsTypes DEF IntakeInv, IntakeTypeOK
  <2>2. n.prefix \in Prefix \cup {Bare} /\ n.rank \in 0..MaxRank
    BY DEF Name
  <2> QED BY <2>1, <2>2, BesideTheThread DEF IntakeInv, IntakeTypeOK
<1>2. ASSUME NEW n \in Name, NamingFails(n) PROVE IntakeInv'
  BY <1>2, BesideTheThread DEF NamingFails, IntakeInv, IntakeTypeOK, ArchiveTypeOK
<1>3. ASSUME NEW n \in Name, RenameByHand(n) PROVE IntakeInv'
  <2>1. files' \in [Name -> Content \cup {NoFile}]
    BY <1>3, NewNamesAreNames, RenamingKeepsTypes DEF RenameByHand, IntakeInv, IntakeTypeOK
  <2> QED BY <1>3, <2>1, BesideTheThread DEF RenameByHand, IntakeInv, IntakeTypeOK
<1>4. CASE Close \/ UNCHANGED intakeAll
  BY <1>4, BesideTheThread
     DEF Close, intakeAll, IntakeInv, IntakeTypeOK, ArchiveTypeOK
<1> QED BY <1>1, <1>2, <1>3, <1>4

LEMMA ImportStepKeeps == ASSUME IntakeInv, ImportStep PROVE IntakeInv'
<1>1. ASSUME NEW s \in Serial, OpenCard(s) PROVE IntakeInv'
  BY <1>1, OpenCardKeeps
<1>2. ASSUME NEW t \in Take, SkipTake(t) \/ CopyTake(t) \/ CopyFails(t) PROVE IntakeInv'
  BY <1>2, SkipTakeKeeps, CopyTakeKeeps, CopyFailsKeeps
<1> QED
  BY <1>1, <1>2, BetweenCardsKeeps, AbandonCardKeeps, GiveVerdictKeeps,
     FileTakeKeeps, PutDownsKeep, RecordTakeKeeps, WritePartKeeps
     DEF ImportStep

LEMMA IntakeStepKeeps == IntakeInv /\ [IntakeNext]_intakeAll => IntakeInv'
<1> SUFFICES ASSUME IntakeInv, [IntakeNext]_intakeAll PROVE IntakeInv'
  OBVIOUS
<1> QED
  BY StartImportKeeps, ImportStepKeeps, BesideKeeps, RelaunchKeeps, CarryKeeps
     DEF IntakeNext, Worker

\* Whatever fails and whenever the process ends, the thread knows what it has
\* in hand: a card that is what was listed or has been overtaken, and a take
\* the ledger has not.
THEOREM IntakeInvariant == IntakeSpec => []IntakeInv
<1>1. IntakeInit => IntakeInv
  BY InitEstablishesIntake
<1>2. IntakeInv /\ [IntakeNext]_intakeAll => IntakeInv'
  BY IntakeStepKeeps
<1> QED BY <1>1, <1>2, PTL DEF IntakeSpec

\* Every variable of the model keeps its type.
THEOREM IntakeTypes == IntakeSpec => []IntakeTypeOK
<1>1. IntakeInv => IntakeTypeOK
  BY DEF IntakeInv
<1> QED BY <1>1, IntakeInvariant, PTL

\* erase_allowed never has to choose between two records of one digest,
\* whatever was read, lost or started again.
THEOREM DigestsHaveOneRecord == IntakeSpec => []OneRecordPerDigest
<1>1. IntakeInv => OneRecordPerDigest
  BY DEF IntakeInv
<1> QED BY <1>1, IntakeInvariant, PTL

-----------------------------------------------------------------------------
(* A complete verdict has the digests of what it lists, unless the card was  *)
(* overtaken.                                                                *)

LEMMA VerdictStaysBacked ==
  IntakeInv /\ VerdictIsBacked /\ [IntakeNext]_intakeAll => VerdictIsBacked'
<1> SUFFICES ASSUME IntakeInv, VerdictIsBacked, [IntakeNext]_intakeAll
             PROVE  VerdictIsBacked'
  OBVIOUS
<1>1. CASE UNCHANGED <<transmitterVars, verdicts>>
  BY <1>1 DEF VerdictIsBacked, Complete, OnCard, transmitterVars
<1>2. CASE verdicts' = NoVerdicts
  BY <1>2 DEF VerdictIsBacked, Complete, NoVerdicts
<1>3. CASE GiveVerdict
  <2>1. AtCard /\ reading \in Serial /\ UNCHANGED transmitterVars
    BY <1>3 DEF GiveVerdict, AtCard, IntakeInv, CardInHand
  <2>2. /\ verdicts'[reading].inventory = listed
        /\ verdicts'[reading].digests = digests
        /\ verdicts'[reading].complete = Accounted
        /\ \A s \in Serial \ {reading} : verdicts'[s] = verdicts[s]
    BY <1>3, <2>1 DEF GiveVerdict, IntakeInv, IntakeTypeOK, VerdictsTypeOK
  <2>3. Accounted => {AudioOf[t] : t \in listed} = digests \/ Overtaken
    BY <2>1 DEF Accounted, IntakeInv, CardInHand
  <2> QED
    BY <2>1, <2>2, <2>3
       DEF VerdictIsBacked, Complete, Overtaken, OnCard, transmitterVars
<1>4. CASE Carry
  <2> PICK s \in Serial : Lift(s) \/ Dock(s)
    BY <1>4 DEF Carry
  <2>1. UNCHANGED verdicts
    BY <1>4 DEF Carry
  <2>2. \A x \in Serial : OnCard(x) \subseteq OnCard(x)'
    BY CarryingAdds
  <2> QED BY <2>1, <2>2 DEF VerdictIsBacked, Complete
<1> QED
  BY <1>1, <1>2, <1>3, <1>4
     DEF IntakeNext, StartImport, ImportStep, OpenCard, MissCard, EndImport,
         AbandonCard, SkipTake, CopyTake, CopyFails, FileTake, FilingFails,
         RecordTake, WritePart, SubmitParts, SubmitWhole, Submit, Worker, NameJob,
         NamingFails, RenameByHand, Close, Relaunch, intakeAll

\* A verdict that calls a card complete has the digest of every take it lists,
\* whatever failed, unless the card changed places under the reader: then it
\* holds a take the verdict does not list, and no erase will match it.
THEOREM VerdictsAreBacked == IntakeSpec => []VerdictIsBacked
<1>1. IntakeInit => VerdictIsBacked
  BY DEF IntakeInit, VerdictIsBacked, Complete, NoVerdicts
<1>2. IntakeInv /\ VerdictIsBacked /\ [IntakeNext]_intakeAll => VerdictIsBacked'
  BY VerdictStaysBacked
<1> QED BY <1>1, <1>2, IntakeInvariant, PTL DEF IntakeSpec

-----------------------------------------------------------------------------
(* What has to go well for the rest, each with its own name.                 *)

\* Every take with markers has one to cut at, and no split raises.
MarkedTakesAreCut == Marked \subseteq Cuttable /\ "split" \notin Faults

\* No ledger file is unreadable.
LedgersLoad == "ledger" \notin Faults

\* The process is not killed, and no proof fails to be written.
NothingInterrupts == "kill" \notin Faults /\ "record" \notin Faults

\* No card takes another's place under the reader.
ReadsAreTrue == Garble = {}

\* No two takes have the same bytes.
TakesDiffer == \A t, u \in Take : AudioOf[t] = AudioOf[u] => t = u

-----------------------------------------------------------------------------
(* What a step does to the disk.                                             *)

\* The worker or the window gives file n the name m: another tail, or no
\* prefix where there was none or no placeholder to replace.
Renaming(n, m) ==
  /\ n.tail = Placeholder \/ n \in queue
  /\ Exists(n) /\ ~Exists(m) /\ Rename(n, m)
  /\ m.tail \in {Placeholder, Title}
  /\ \/ m.prefix = n.prefix /\ m.rank = n.rank
     \/ m.prefix = Bare /\ m.rank = 0 /\ (n.prefix = Bare \/ n.tail # Placeholder)
  /\ queue' \subseteq queue /\ heard' \subseteq heard \cup {<<n.prefix, n.rank>>}
  /\ n \in queue \/ heard' = heard
  /\ UNCHANGED <<ledger, transmitterVars, verdicts, threadVars>>

LEMMA NamingRenames ==
  ASSUME NEW n \in Name, NameJob(n) \/ RenameByHand(n)
  PROVE  \E m \in Name : Renaming(n, m)
<1>1. \A slug, byHand, m : NewName(n, slug, byHand, m) =>
        /\ ~Exists(m) /\ m.tail = slug
        /\ \/ m.prefix = n.prefix /\ m.rank = n.rank
           \/ /\ m.prefix = Bare /\ m.rank = 0
              /\ n.prefix = Bare \/ ~(byHand \/ n.tail = Placeholder)
  BY DEF NewName, UniquePath, FileName
<1>2. CASE NameJob(n)
  BY <1>1, <1>2 DEF NameJob, Renaming
<1>3. CASE RenameByHand(n)
  BY <1>1, <1>3 DEF RenameByHand, Renaming, intakeVars, sessionVars
<1> QED BY <1>2, <1>3

\* Apart from a renaming, only the import touches the disk, in three steps.
LEMMA WhatTouchesTheDisk ==
  ASSUME [IntakeNext]_intakeAll
  PROVE  \/ FileTake \/ RecordTake \/ WritePart
         \/ \E n, m \in Name : Renaming(n, m)
         \/ UNCHANGED archiveVars
<1>1. ASSUME NEW n \in Name, NameJob(n) \/ RenameByHand(n)
      PROVE  \E x, m \in Name : Renaming(x, m)
  BY <1>1, NamingRenames
<1> QED
  BY <1>1
     DEF IntakeNext, StartImport, ImportStep, OpenCard, MissCard, EndImport,
         AbandonCard, GiveVerdict, SkipTake, CopyTake, CopyFails, FilingFails,
         SubmitParts, SubmitWhole, Submit, Worker, NamingFails, Close, Relaunch,
         Carry, intakeAll

\* A renaming keeps the bytes, and the name is the only one that changes.
LEMMA RenamedFiles ==
  ASSUME ArchiveTypeOK, NEW n \in Name, NEW m \in Name, Renaming(n, m)
  PROVE  /\ n # m
         /\ files'[m] = files[n] /\ files'[n] = NoFile
         /\ \A x \in Name \ {n, m} : files'[x] = files[x]
BY DEF Renaming, Rename, ArchiveTypeOK, Exists

-----------------------------------------------------------------------------
(* What is named automatically has a placeholder to replace, so that its     *)
(* prefix stays, and what was recorded is held under its prefix.             *)

NamesCanBeGiven ==
  /\ \A n \in queue \cup parts : n.tail = Placeholder
  /\ stage \in {"filed", "recorded", "cutting"} =>
       final.tail = IF got \in Marked THEN Split ELSE Placeholder

HeldUnder(prefix, bytes) ==
  \E n \in Name : n.prefix = prefix /\ n.rank = 0 /\ files[n] = bytes

RecordedIsHeld ==
  /\ NamesCanBeGiven
  /\ \A s \in Serial : \A r \in ledger[s] : HeldUnder(r.prefix, r.digest)
  /\ stage = "filed" => HeldUnder(final.prefix, got)

\* Without a split that raised, only an uncut take is submitted whole.
LEMMA NamesCanStillBeGiven ==
  ASSUME MarkedTakesAreCut, IntakeInv, NamesCanBeGiven, [IntakeNext]_intakeAll
  PROVE  NamesCanBeGiven'
<1> USE DEF NamesCanBeGiven
<1>1. CASE FileTake
  BY <1>1 DEF FileTake, UniquePath, FileName, sessionVars
<1>2. CASE RecordTake
  BY <1>2 DEF RecordTake, takeVars, sessionVars
<1>3. CASE WritePart
  BY <1>3 DEF WritePart, UniquePath, FileName, sessionVars
<1>4. CASE SubmitParts
  BY <1>4 DEF SubmitParts, Submit, NoTakeInHand
<1>5. CASE SubmitWhole
  BY <1>5 DEF SubmitWhole, Submit, NoTakeInHand, MarkedTakesAreCut
<1>6. CASE Relaunch
  BY <1>6 DEF Relaunch, NoTakeInHand, Orphans
<1>7. ASSUME NEW t \in Take, SkipTake(t) \/ CopyTake(t) \/ CopyFails(t)
      PROVE  NamesCanBeGiven'
  BY <1>7 DEF SkipTake, CopyTake, CopyFails, NextTake, takeVars, sessionVars
<1>8. ASSUME NEW n \in Name, NameJob(n) \/ NamingFails(n) \/ RenameByHand(n)
      PROVE  NamesCanBeGiven'
  BY <1>8
     DEF NameJob, NamingFails, RenameByHand, intakeVars, threadVars, takeVars, sessionVars
<1>9. CASE StartImport \/ MissCard \/ EndImport \/ Close \/ Carry \/ UNCHANGED intakeAll
  BY <1>9
     DEF StartImport, MissCard, EndImport, Close, Carry, intakeAll, intakeVars,
         threadVars, takeVars, sessionVars
<1>10. CASE AbandonCard \/ GiveVerdict \/ FilingFails
  BY <1>10
     DEF AbandonCard, GiveVerdict, FilingFails, LeaveCard, NoTakeInHand, sessionVars
<1>11. ASSUME NEW s \in Serial, OpenCard(s) PROVE NamesCanBeGiven'
  BY <1>11 DEF OpenCard, takeVars, sessionVars
<1> QED
  BY <1>1, <1>2, <1>3, <1>4, <1>5, <1>6, <1>7, <1>8, <1>9, <1>10, <1>11
     DEF IntakeNext, ImportStep, Worker

\* A renaming in the archive's own names keeps what is held under a prefix.
LEMMA RenamingKeepsHeld ==
  ASSUME ArchiveTypeOK, \A x \in queue : x.tail = Placeholder,
         NEW n \in Name, NEW m \in Name, Renaming(n, m),
         NEW prefix \in Prefix, NEW bytes \in Audio, HeldUnder(prefix, bytes)
  PROVE  HeldUnder(prefix, bytes)'
<1> PICK x \in Name : x.prefix = prefix /\ x.rank = 0 /\ files[x] = bytes
  BY DEF HeldUnder
<1>1. CASE x = n
  BY <1>1, RenamedFiles, ArchiveAssumption DEF HeldUnder, Renaming
<1>2. CASE x # n
  <2>1. x # m
    BY ArchiveAssumption DEF Renaming, Exists
  <2> QED BY <1>2, <2>1, RenamedFiles DEF HeldUnder
<1> QED BY <1>1, <1>2

\* A new file takes a name nobody had.
LEMMA FilingKeepsHeld ==
  ASSUME ArchiveTypeOK, NEW n \in Name, ~Exists(n), NEW new,
         files' = [files EXCEPT ![n] = new],
         NEW prefix, NEW bytes \in Audio, HeldUnder(prefix, bytes)
  PROVE  HeldUnder(prefix, bytes)'
BY ArchiveAssumption DEF HeldUnder, Exists, ArchiveTypeOK

LEMMA RecordedStaysHeld ==
  ASSUME MarkedTakesAreCut, IntakeInv, RecordedIsHeld, [IntakeNext]_intakeAll
  PROVE  RecordedIsHeld'
<1>1. NamesCanBeGiven'
  BY NamesCanStillBeGiven DEF RecordedIsHeld
<1>2. \A s \in Serial : \A r \in ledger[s] : r.prefix \in Prefix /\ r.digest \in Audio
  BY DEF IntakeInv, IntakeTypeOK, ArchiveTypeOK, Record
<1>3. stage = "filed" => final.prefix \in Prefix /\ got \in Audio
  BY ArchiveAssumption
     DEF IntakeInv, IntakeTypeOK, AtTake, TakeStage, TakeInHand
<1>4. ArchiveTypeOK
  BY DEF IntakeInv, IntakeTypeOK
<1>5. CASE FileTake
  <2> PICK n \in Name :
        /\ UniquePath(PrefixOf[take], 0, IF got \in Marked THEN Split ELSE Placeholder, n)
        /\ files' = [files EXCEPT ![n] = got]
        /\ final' = n
    BY <1>5 DEF FileTake
  <2>1. ~Exists(n) /\ n.rank = 0
    BY DEF UniquePath, FileName
  <2>2. UNCHANGED <<ledger, got>>
    BY <1>5 DEF FileTake
  <2>3. HeldUnder(final.prefix, got)'
    BY <1>4, <2>1, <2>2 DEF HeldUnder, ArchiveTypeOK
  <2>4. \A s \in Serial : \A r \in ledger[s] : HeldUnder(r.prefix, r.digest)'
    BY <1>2, <1>4, <2>1, FilingKeepsHeld DEF RecordedIsHeld
  <2> QED BY <1>1, <2>2, <2>3, <2>4 DEF RecordedIsHeld
<1>6. CASE WritePart
  <2> PICK n \in Name : ~Exists(n) /\ files' = [files EXCEPT ![n] = Fragment]
    BY <1>6 DEF WritePart, UniquePath
  <2>1. \A s \in Serial : \A r \in ledger[s] : HeldUnder(r.prefix, r.digest)'
    BY <1>2, <1>4, FilingKeepsHeld DEF RecordedIsHeld
  <2>2. ledger' = ledger /\ stage' # "filed"
    BY <1>6 DEF WritePart
  <2> QED BY <1>1, <2>1, <2>2 DEF RecordedIsHeld
<1>7. CASE RecordTake
  <2> DEFINE r == [digest |-> got, prefix |-> final.prefix]
  <2>1. HeldUnder(r.prefix, r.digest)
    BY <1>7 DEF RecordTake, RecordedIsHeld
  <2>2. \A s \in Serial : ledger'[s] \subseteq ledger[s] \cup {r}
    BY <1>7 DEF RecordTake, IntakeInv, IntakeTypeOK, ArchiveTypeOK, AtCard
  <2>3. UNCHANGED files /\ stage' # "filed"
    BY <1>7 DEF RecordTake
  <2> QED BY <1>1, <2>1, <2>2, <2>3 DEF RecordedIsHeld, HeldUnder
<1>8. ASSUME NEW n \in Name, NEW m \in Name, Renaming(n, m) PROVE RecordedIsHeld'
  <2>1. UNCHANGED <<ledger, stage, final, got>>
    BY <1>8 DEF Renaming, threadVars, takeVars
  <2>2. \A x \in queue : x.tail = Placeholder
    BY DEF RecordedIsHeld, NamesCanBeGiven
  <2>3. \A s \in Serial : \A r \in ledger[s] : HeldUnder(r.prefix, r.digest)'
    BY <1>2, <1>4, <1>8, <2>2, RenamingKeepsHeld DEF RecordedIsHeld
  <2>4. stage = "filed" => HeldUnder(final.prefix, got)'
    BY <1>3, <1>4, <1>8, <2>1, <2>2, RenamingKeepsHeld DEF RecordedIsHeld, HeldUnder
  <2> QED BY <1>1, <2>1, <2>3, <2>4 DEF RecordedIsHeld, HeldUnder
<1>9. CASE UNCHANGED archiveVars /\ ~FileTake
  <2>1. stage' = "filed" => UNCHANGED <<stage, final, got>>
    BY <1>9
       DEF IntakeNext, StartImport, ImportStep, OpenCard, MissCard, EndImport,
           AbandonCard, LeaveCard, GiveVerdict, SkipTake, CopyTake, CopyFails,
           NextTake, FilingFails, RecordTake, WritePart, SubmitParts, SubmitWhole,
           Submit, Worker, NameJob, NamingFails, RenameByHand, Close, Relaunch,
           Carry, intakeAll, intakeVars, threadVars, takeVars
  <2> QED BY <1>1, <1>9, <2>1 DEF RecordedIsHeld, HeldUnder, archiveVars
<1> QED BY <1>5, <1>6, <1>7, <1>8, <1>9, WhatTouchesTheDisk

LEMMA RecordedStartsHeld == IntakeInit => RecordedIsHeld
BY DEF IntakeInit, ArchiveInit, RecordedIsHeld, NamesCanBeGiven

\* Where takes with markers are cut, every record's bytes are still on the
\* disk under the record's prefix, whatever was killed, full, misread or
\* renamed since.
THEOREM RecordedTakesAreHeld ==
  ASSUME MarkedTakesAreCut PROVE IntakeSpec => []RecordsAreBacked
<1>1. IntakeInit => RecordedIsHeld
  BY RecordedStartsHeld
<1>2. IntakeInv /\ RecordedIsHeld /\ [IntakeNext]_intakeAll => RecordedIsHeld'
  BY RecordedStaysHeld
<1>3. RecordedIsHeld => RecordsAreBacked
  BY DEF RecordedIsHeld, RecordsAreBacked, HeldUnder
<1> QED BY <1>1, <1>2, <1>3, IntakeInvariant, PTL DEF IntakeSpec

-----------------------------------------------------------------------------
(* Where every ledger file loads, the records in memory are those of the     *)
(* file: rewriting it keeps them, and a part is of a take it has.            *)

RecordsAreLoaded == AtCard => ledger[reading] = records

LEMMA RecordsStayLoaded ==
  ASSUME LedgersLoad, IntakeInv, RecordsAreLoaded, [IntakeNext]_intakeAll
  PROVE  RecordsAreLoaded'
<1> USE DEF RecordsAreLoaded
<1>1. CASE RecordTake
  <2>1. reading \in Serial
    BY <1>1 DEF RecordTake, IntakeInv, CardInHand, AtCard
  <2> QED BY <1>1, <2>1 DEF RecordTake, cardVars, IntakeInv, IntakeTypeOK, ArchiveTypeOK
<1>2. ASSUME NEW s \in Serial, OpenCard(s) PROVE RecordsAreLoaded'
  BY <1>2 DEF OpenCard, LedgersLoad, archiveVars
<1>3. CASE ~AtCard'
  BY <1>3
<1>4. CASE UNCHANGED <<ledger, reading, records>> /\ AtCard
  BY <1>4
<1> QED
  BY <1>1, <1>2, <1>3, <1>4
     DEF AtCard, IntakeNext, StartImport, ImportStep, MissCard, EndImport,
         AbandonCard, LeaveCard, GiveVerdict, SkipTake, CopyTake, CopyFails,
         NextTake, FileTake, FilingFails, WritePart, SubmitParts, SubmitWhole,
         Submit, Worker, NameJob, NamingFails, RenameByHand, Close, Relaunch,
         Carry, intakeAll, intakeVars, threadVars, cardVars, countVars, archiveVars

LEMMA LedgersGrow ==
  ASSUME IntakeInv, RecordsAreLoaded, [IntakeNext]_intakeAll, NEW s \in Serial
  PROVE  ledger[s] \subseteq ledger'[s]
<1>1. CASE RecordTake
  <2>1. records = ledger[reading] /\ reading \in Serial
    BY <1>1 DEF RecordTake, RecordsAreLoaded, AtCard, IntakeInv, CardInHand
  <2> QED BY <1>1, <2>1 DEF RecordTake, IntakeInv, IntakeTypeOK, ArchiveTypeOK
<1>2. CASE ~RecordTake
  BY <1>2, WhatTouchesTheDisk DEF FileTake, WritePart, Renaming, archiveVars
<1> QED BY <1>1, <1>2

LEMMA RecordsStartLoaded == IntakeInit => RecordsAreLoaded
BY DEF IntakeInit, RecordsAreLoaded, AtCard

\* Rewriting a ledger whole, from what was loaded of it, takes no proof back
\* of what it recorded before.
THEOREM LedgersKeepTheirRecords ==
  ASSUME LedgersLoad PROVE IntakeSpec => RecordsAreKept
<1>1. IntakeInit => RecordsAreLoaded
  BY RecordsStartLoaded
<1>2. IntakeInv /\ RecordsAreLoaded /\ [IntakeNext]_intakeAll => RecordsAreLoaded'
  BY RecordsStayLoaded
<1>3. IntakeInv /\ RecordsAreLoaded /\ [IntakeNext]_intakeAll
        => [\A s \in Serial : ledger[s] \subseteq ledger'[s]]_intakeAll
  BY LedgersGrow
<1> QED BY <1>1, <1>2, <1>3, IntakeInvariant, PTL DEF IntakeSpec, RecordsAreKept

PartsAreRecorded ==
  /\ RecordsAreLoaded
  /\ PartsOnlyOfRecorded
  /\ stage \in {"recorded", "cutting"} =>
       \E r \in ledger[reading] : r.prefix = PrefixOf[take]

LEMMA PartsStayRecorded ==
  ASSUME LedgersLoad, IntakeInv, PartsAreRecorded, [IntakeNext]_intakeAll
  PROVE  PartsAreRecorded'
<1>1. RecordsAreLoaded' /\ \A s \in Serial : ledger[s] \subseteq ledger'[s]
  BY RecordsStayLoaded, LedgersGrow DEF PartsAreRecorded
<1>2. ArchiveTypeOK
  BY DEF IntakeInv, IntakeTypeOK
<1>3. CASE FileTake
  <2>1. PICK n \in Name : n.rank = 0 /\ files' = [files EXCEPT ![n] = got]
    BY <1>3 DEF FileTake, UniquePath, FileName
  <2>2. ledger' = ledger /\ stage' = "filed"
    BY <1>3 DEF FileTake
  <2> QED
    BY <1>1, <1>2, <2>1, <2>2
       DEF PartsAreRecorded, PartsOnlyOfRecorded, Exists, ArchiveTypeOK
<1>4. CASE WritePart
  <2>1. PICK n \in Name : /\ n.prefix = PrefixOf[take]
                          /\ files' = [files EXCEPT ![n] = Fragment]
    BY <1>4 DEF WritePart, UniquePath, FileName
  <2>2. UNCHANGED <<ledger, reading, take>> /\ stage \in {"recorded", "cutting"}
    BY <1>4 DEF WritePart, cardVars
  <2>3. reading \in Serial
    BY <2>2 DEF IntakeInv, CardInHand, AtCard
  <2> QED
    BY <1>1, <1>2, <2>1, <2>2, <2>3
       DEF PartsAreRecorded, PartsOnlyOfRecorded, Exists, ArchiveTypeOK
<1>5. CASE RecordTake
  <2>1. /\ UNCHANGED <<files, reading, take>> /\ reading \in Serial
        /\ final.prefix = PrefixOf[take]
    BY <1>5
       DEF RecordTake, cardVars, takeVars, IntakeInv, CardInHand, TakeInHand, AtCard,
           AtTake, TakeStage
  <2>2. [digest |-> got, prefix |-> final.prefix] \in ledger'[reading]
    BY <1>5, <2>1 DEF RecordTake, IntakeInv, IntakeTypeOK, ArchiveTypeOK
  <2>3. PartsOnlyOfRecorded'
    BY <1>1, <2>1 DEF PartsAreRecorded, PartsOnlyOfRecorded, Exists
  <2>4. (\E r \in ledger[reading] : r.prefix = PrefixOf[take])'
    BY <2>1, <2>2
  <2> QED BY <1>1, <2>3, <2>4 DEF PartsAreRecorded
<1>6. ASSUME NEW n \in Name, NEW m \in Name, Renaming(n, m) PROVE PartsAreRecorded'
  <2>1. UNCHANGED <<ledger, stage, reading, take>>
    BY <1>6 DEF Renaming, threadVars, cardVars, takeVars
  <2>2. PartsOnlyOfRecorded'
    BY <1>2, <1>6, <2>1, RenamedFiles
       DEF Renaming, PartsAreRecorded, PartsOnlyOfRecorded, Exists
  <2> QED BY <1>1, <2>1, <2>2 DEF PartsAreRecorded
<1>7. CASE UNCHANGED archiveVars /\ ~RecordTake /\ ~WritePart
  <2>1. stage' \in {"recorded", "cutting"} => UNCHANGED <<stage, reading, take>>
    BY <1>7
       DEF IntakeNext, StartImport, ImportStep, OpenCard, MissCard, EndImport,
           AbandonCard, LeaveCard, GiveVerdict, SkipTake, CopyTake, CopyFails,
           NextTake, FileTake, FilingFails, SubmitParts, SubmitWhole,
           Submit, Worker, NameJob, NamingFails, RenameByHand, Close, Relaunch,
           Carry, intakeAll, intakeVars, threadVars, cardVars, takeVars
  <2> QED
    BY <1>1, <1>7, <2>1
       DEF PartsAreRecorded, PartsOnlyOfRecorded, Exists, archiveVars
<1> QED BY <1>3, <1>4, <1>5, <1>6, <1>7, WhatTouchesTheDisk

\* No part of a take is ever on the disk before the proof of the take.
THEOREM PartsComeAfterTheRecord ==
  ASSUME LedgersLoad PROVE IntakeSpec => []PartsOnlyOfRecorded
<1>1. IntakeInit => PartsAreRecorded
  BY RecordsStartLoaded
     DEF IntakeInit, ArchiveInit, PartsAreRecorded, PartsOnlyOfRecorded, Exists
<1>2. IntakeInv /\ PartsAreRecorded /\ [IntakeNext]_intakeAll => PartsAreRecorded'
  BY PartsStayRecorded
<1>3. PartsAreRecorded => PartsOnlyOfRecorded
  BY DEF PartsAreRecorded
<1> QED BY <1>1, <1>2, <1>3, IntakeInvariant, PTL DEF IntakeSpec

-----------------------------------------------------------------------------
(* Where reads are true and takes of one prefix are cut alike, the prefix    *)
(* tells whether the take or its parts are transcribed.                      *)

PrefixTellsTheCut ==
  \A t, u \in Take : PrefixOf[t] = PrefixOf[u] =>
    (AudioOf[t] \in Cuttable <=> AudioOf[u] \in Cuttable)

CutPrefix(p) == \E t \in Take : PrefixOf[t] = p /\ AudioOf[t] \in Cuttable

HeardAs(prefix, rank) ==
  IF prefix = Bare THEN rank = 0 ELSE (rank = 0 <=> ~CutPrefix(prefix))

TakeIsItself == AtTake => got = AudioOf[take]

HeardOneWay ==
  /\ NamesCanBeGiven /\ TakeIsItself
  /\ \A n \in Name : (Exists(n) /\ n.tail = Placeholder) \/ n \in queue =>
       HeardAs(n.prefix, n.rank)
  /\ \A h \in heard : HeardAs(h[1], h[2])
  /\ AtTake => \A n \in parts : /\ n.prefix = PrefixOf[take] /\ n.rank > 0
                                /\ got \in Cuttable

LEMMA TakeStaysItself ==
  ASSUME ReadsAreTrue, IntakeInv, TakeIsItself, [IntakeNext]_intakeAll
  PROVE  TakeIsItself'
<1> USE DEF TakeIsItself
<1>1. ASSUME NEW t \in Take, CopyTake(t) PROVE TakeIsItself'
  BY <1>1 DEF CopyTake, ReadFrom, ReadsAreTrue
<1>2. CASE ~AtTake'
  BY <1>2
<1>3. CASE AtTake /\ UNCHANGED <<take, got>>
  BY <1>3
<1> QED
  BY <1>1, <1>2, <1>3
     DEF AtTake, TakeStage, IntakeNext, StartImport, ImportStep, OpenCard, MissCard,
         EndImport, AbandonCard, LeaveCard, GiveVerdict, SkipTake, CopyFails,
         NextTake, FileTake, FilingFails, RecordTake, WritePart, SubmitParts,
         SubmitWhole, Submit, Worker, NameJob, NamingFails, RenameByHand, Close,
         Relaunch, Carry, intakeAll, intakeVars, threadVars, takeVars

\* Where the take in hand is cut or not, so is its prefix.
LEMMA PrefixOfTheTake ==
  ASSUME PrefixTellsTheCut, IntakeInv, TakeIsItself, AtTake
  PROVE  /\ take \in Take /\ PrefixOf[take] # Bare
         /\ CutPrefix(PrefixOf[take]) <=> got \in Cuttable
BY ArchiveAssumption
   DEF IntakeInv, IntakeTypeOK, TakeInHand, TakeIsItself, PrefixTellsTheCut, CutPrefix

LEMMA StaysHeardOneWay ==
  ASSUME MarkedTakesAreCut, ReadsAreTrue, PrefixTellsTheCut,
         IntakeInv, HeardOneWay, [IntakeNext]_intakeAll
  PROVE  HeardOneWay'
<1>1. NamesCanBeGiven' /\ TakeIsItself'
  BY NamesCanStillBeGiven, TakeStaysItself DEF HeardOneWay
<1>2. ArchiveTypeOK
  BY DEF IntakeInv, IntakeTypeOK
<1>3. CASE FileTake
  <2> PICK n \in Name :
        /\ UniquePath(PrefixOf[take], 0, IF got \in Marked THEN Split ELSE Placeholder, n)
        /\ files' = [files EXCEPT ![n] = got]
    BY <1>3 DEF FileTake
  <2>1. AtTake /\ parts = {} /\ UNCHANGED <<parts, queue, heard>>
    BY <1>3 DEF FileTake, AtTake, TakeStage, IntakeInv, NothingInHand, sessionVars
  <2>2. /\ n.prefix = PrefixOf[take] /\ n.rank = 0
        /\ n.tail = IF got \in Marked THEN Split ELSE Placeholder
    BY DEF UniquePath, FileName
  <2>3. n.tail = Placeholder => got \notin Cuttable
    BY <2>2, IntakeAssumption DEF Placeholder, Split
  <2>4. n.tail = Placeholder => HeardAs(n.prefix, n.rank)
    BY <2>1, <2>2, <2>3, PrefixOfTheTake DEF HeardAs, HeardOneWay
  <2> QED BY <1>1, <1>2, <2>1, <2>4 DEF HeardOneWay, Exists, ArchiveTypeOK
<1>4. CASE WritePart
  <2> PICK n \in Name, k \in 1..MaxRank :
        /\ UniquePath(PrefixOf[take], k, Placeholder, n)
        /\ files' = [files EXCEPT ![n] = Fragment]
        /\ parts' = parts \cup {n}
    BY <1>4 DEF WritePart
  <2>1. AtTake /\ UNCHANGED <<take, got, queue, heard>> /\ got \in Cuttable
    BY <1>4 DEF WritePart, AtTake, TakeStage, sessionVars
  <2>2. n.prefix = PrefixOf[take] /\ n.rank = k /\ k > 0 /\ k # 0
    BY ArchiveAssumption DEF UniquePath, FileName
  <2>3. HeardAs(n.prefix, n.rank)
    BY <2>1, <2>2, PrefixOfTheTake DEF HeardAs, HeardOneWay
  <2> QED BY <1>1, <1>2, <2>1, <2>2, <2>3 DEF HeardOneWay, Exists, ArchiveTypeOK
<1>5. CASE SubmitParts
  <2>1. \A n \in parts : HeardAs(n.prefix, n.rank)
    <3>1. AtTake
      BY <1>5 DEF SubmitParts, AtTake, TakeStage
    <3>2. \A n \in parts : n.rank # 0
      BY <3>1 DEF HeardOneWay
    <3> QED BY <3>1, <3>2, PrefixOfTheTake DEF HeardAs, HeardOneWay
  <2> QED
    BY <1>1, <1>5, <2>1
       DEF SubmitParts, Submit, NoTakeInHand, HeardOneWay, Exists, archiveVars
<1>6. CASE SubmitWhole
  <2>1. AtTake /\ stage # "copied" /\ got \notin Cuttable
    BY <1>6 DEF SubmitWhole, AtTake, TakeStage, MarkedTakesAreCut
  <2>2. HeardAs(final.prefix, final.rank)
    BY <2>1, PrefixOfTheTake DEF IntakeInv, TakeInHand, HeardAs, HeardOneWay
  <2> QED
    BY <1>1, <1>6, <2>2
       DEF SubmitWhole, Submit, NoTakeInHand, HeardOneWay, Exists, archiveVars
<1>7. ASSUME NEW n \in Name, NEW m \in Name, Renaming(n, m) PROVE HeardOneWay'
  <2>1. HeardAs(n.prefix, n.rank) /\ HeardAs(m.prefix, m.rank)
    BY <1>7 DEF Renaming, HeardOneWay, HeardAs
  <2> QED
    BY <1>1, <1>2, <1>7, <2>1, RenamedFiles
       DEF HeardOneWay, Renaming, Exists, AtTake, threadVars, takeVars
<1>8. CASE Relaunch
  BY <1>1, <1>8
     DEF Relaunch, Orphans, NoTakeInHand, HeardOneWay, Exists, archiveVars
<1>9. CASE /\ UNCHANGED <<files, heard>> /\ queue' \subseteq queue
           /\ parts' = {} \/ UNCHANGED <<stage, take, got, parts>>
  BY <1>1, <1>9 DEF HeardOneWay, Exists, AtTake
<1> QED
  BY <1>3, <1>4, <1>5, <1>6, <1>7, <1>8, <1>9, NamingRenames
     DEF IntakeInv, NothingInHand, IntakeNext, StartImport, ImportStep, OpenCard,
         MissCard, EndImport, AbandonCard, LeaveCard, GiveVerdict, SkipTake,
         CopyTake, CopyFails, NextTake, FilingFails, RecordTake, Worker,
         NamingFails, Close, Carry, NoTakeInHand, intakeAll, intakeVars, threadVars,
         takeVars, sessionVars, archiveVars

\* A take and its own parts are never both transcribed, through any number of
\* launches.
THEOREM TakesAreHeardOneWay ==
  ASSUME MarkedTakesAreCut, ReadsAreTrue, PrefixTellsTheCut
  PROVE  IntakeSpec => []NeverHeardTwice
<1>1. IntakeInit => HeardOneWay
  BY DEF IntakeInit, ArchiveInit, HeardOneWay, NamesCanBeGiven, TakeIsItself,
         AtTake, TakeStage, Exists
<1>2. IntakeInv /\ HeardOneWay /\ [IntakeNext]_intakeAll => HeardOneWay'
  BY StaysHeardOneWay
<1>3. HeardOneWay => NeverHeardTwice
  BY DEF HeardOneWay, HeardAs, NeverHeardTwice
<1> QED BY <1>1, <1>2, <1>3, IntakeInvariant, PTL DEF IntakeSpec

-----------------------------------------------------------------------------
(* Where nothing interrupts between the move and the proof, and takes        *)
(* differ, a take's bytes are in one file, and recorded where the take is    *)
(* looked for.                                                               *)

CopiedOnce ==
  /\ TakeIsItself /\ RecordsAreLoaded
  /\ \A s \in Serial : \A r \in ledger[s] : \E t \in born :
       r.digest = AudioOf[t] /\ \A x \in Serial \ {s} : t \notin OnCard(x)
  /\ \A n \in Name, t \in Take : files[n] = AudioOf[t] =>
       \/ \E s \in Serial : Holds(ledger[s], AudioOf[t])
       \/ stage = "filed" /\ t = take
  /\ NothingCopiedTwice

\* The take in hand is on its card and on no other.
LEMMA TakeInHandIsThere ==
  ASSUME IntakeInv, AtTake
  PROVE  /\ take \in Take \cap born /\ got \in Audio /\ reading \in Serial
         /\ \A x \in Serial \ {reading} : take \notin OnCard(x)
<1>1. AtCard
  BY DEF AtCard, AtTake, TakeStage
<1>2. take \in card[reading] /\ reading \in Serial /\ got \in Audio
  BY <1>1 DEF IntakeInv, TakeInHand, CardInHand
<1>3. take \in OnCard(reading)
  BY <1>2 DEF OnCard
<1> QED
  BY <1>2, <1>3 DEF IntakeInv, IntakeTypeOK, TransmittersTypeOK, TakesStayApart

\* A record of the take's bytes is in the ledger of the card that has it.
LEMMA RecordIsWithItsCard ==
  ASSUME TakesDiffer, IntakeInv, CopiedOnce, AtTake,
         NEW s \in Serial, Holds(ledger[s], AudioOf[take])
  PROVE  s = reading
<1>1. PICK r \in ledger[s] : r.digest = AudioOf[take]
  BY DEF Holds
<1>2. PICK t \in born : r.digest = AudioOf[t] /\ \A x \in Serial \ {s} : t \notin OnCard(x)
  BY <1>1 DEF CopiedOnce
<1>3. take \in Take /\ t \in Take
  BY TakeInHandIsThere DEF IntakeInv, IntakeTypeOK, TransmittersTypeOK
<1>4. t = take
  BY <1>1, <1>2, <1>3 DEF TakesDiffer
<1>5. take \in OnCard(reading) /\ reading \in Serial
  BY DEF AtCard, AtTake, TakeStage, IntakeInv, TakeInHand, CardInHand, OnCard
<1> QED BY <1>2, <1>4, <1>5

LEMMA FileTakeCopiesOnce ==
  ASSUME TakesDiffer, IntakeInv, CopiedOnce, FileTake,
         TakeIsItself', RecordsAreLoaded'
  PROVE  CopiedOnce'
<1> PICK n \in Name : ~Exists(n) /\ files' = [files EXCEPT ![n] = got]
  BY DEF FileTake, UniquePath
<1>1. /\ AtTake /\ AtCard /\ got = AudioOf[take] /\ got \in Audio
      /\ ~Holds(records, got) /\ ledger[reading] = records /\ take \in Take
  BY TakeInHandIsThere
     DEF FileTake, AtTake, AtCard, TakeStage, IntakeInv, TakeInHand, CopiedOnce,
         TakeIsItself, RecordsAreLoaded
<1>2. /\ UNCHANGED <<ledger, take, got, transmitterVars>>
      /\ stage = "copied" /\ stage' = "filed"
  BY DEF FileTake
<1>3. \A s \in Serial : ~Holds(ledger[s], AudioOf[take])
  BY <1>1, RecordIsWithItsCard
<1>4. \A x \in Name : files[x] # AudioOf[take]
  BY <1>1, <1>2, <1>3 DEF CopiedOnce
<1>5. files'[n] = AudioOf[take] /\ \A x \in Name \ {n} : files'[x] = files[x]
  BY <1>1 DEF IntakeInv, IntakeTypeOK, ArchiveTypeOK
<1>6. \A t \in Take : t # take => AudioOf[t] # AudioOf[take]
  BY <1>1 DEF TakesDiffer
<1>7. NothingCopiedTwice'
  BY <1>4, <1>5, <1>6 DEF CopiedOnce, NothingCopiedTwice, Copies
<1>8. (\A x \in Name, t \in Take : files[x] = AudioOf[t] =>
         \/ \E s \in Serial : Holds(ledger[s], AudioOf[t])
         \/ stage = "filed" /\ t = take)'
  BY <1>2, <1>5, <1>6 DEF CopiedOnce, Holds
<1>9. (\A s \in Serial : \A r \in ledger[s] : \E t \in born :
        r.digest = AudioOf[t] /\ \A x \in Serial \ {s} : t \notin OnCard(x))'
  BY <1>2 DEF CopiedOnce, OnCard, transmitterVars
<1> QED BY <1>7, <1>8, <1>9 DEF CopiedOnce

LEMMA RecordTakeCopiesOnce ==
  ASSUME IntakeInv, CopiedOnce, RecordTake, TakeIsItself', RecordsAreLoaded'
  PROVE  CopiedOnce'
<1> DEFINE r == [digest |-> got, prefix |-> final.prefix]
<1>1. /\ AtTake /\ AtCard /\ got = AudioOf[take] /\ ledger[reading] = records
      /\ reading \in Serial /\ take \in born
      /\ \A x \in Serial \ {reading} : take \notin OnCard(x)
  BY TakeInHandIsThere
     DEF RecordTake, AtTake, AtCard, TakeStage, CopiedOnce, TakeIsItself, RecordsAreLoaded
<1>2. /\ ledger'[reading] = ledger[reading] \cup {r}
      /\ \A s \in Serial \ {reading} : ledger'[s] = ledger[s]
  BY <1>1 DEF RecordTake, IntakeInv, IntakeTypeOK, ArchiveTypeOK
<1>3. UNCHANGED <<files, take, transmitterVars>> /\ r.digest = AudioOf[take]
  BY <1>1 DEF RecordTake, takeVars
<1> HIDE DEF r
<1>4. NothingCopiedTwice'
  BY <1>3 DEF CopiedOnce, NothingCopiedTwice, Copies
<1>5. Holds(ledger'[reading], AudioOf[take])
  BY <1>2, <1>3 DEF Holds
<1>6. \A s \in Serial, t \in Take : Holds(ledger[s], AudioOf[t]) => Holds(ledger'[s], AudioOf[t])
  BY <1>2 DEF Holds
<1>7. (\A x \in Name, t \in Take : files[x] = AudioOf[t] =>
         \/ \E s \in Serial : Holds(ledger[s], AudioOf[t])
         \/ stage = "filed" /\ t = take)'
  BY <1>1, <1>3, <1>5, <1>6 DEF CopiedOnce
<1>8. (\A s \in Serial : \A q \in ledger[s] : \E t \in born :
        q.digest = AudioOf[t] /\ \A x \in Serial \ {s} : t \notin OnCard(x))'
  <2>1. /\ born' = born /\ \A x \in Serial : OnCard(x)' = OnCard(x)
    BY <1>3 DEF OnCard, transmitterVars
  <2> QED BY <1>1, <1>2, <1>3, <2>1 DEF CopiedOnce
<1> QED BY <1>4, <1>7, <1>8 DEF CopiedOnce

\* Where the bytes of takes are neither made nor recorded, copies stay single.
LEMMA MovesCopyOnce ==
  ASSUME IntakeInv, CopiedOnce, TakeIsItself', RecordsAreLoaded',
         UNCHANGED <<ledger, born>>,
         \A x \in Serial : OnCard(x)' = OnCard(x),
         stage = "filed" => UNCHANGED <<stage, take>>,
         \A n \in Name, t \in Take : files'[n] = AudioOf[t] =>
           \E x \in Name : files[x] = AudioOf[t],
         NothingCopiedTwice'
  PROVE  CopiedOnce'
<1>1. (\A n \in Name, t \in Take : files[n] = AudioOf[t] =>
         \/ \E s \in Serial : Holds(ledger[s], AudioOf[t])
         \/ stage = "filed" /\ t = take)'
  BY DEF CopiedOnce, Holds
<1>2. (\A s \in Serial : \A r \in ledger[s] : \E t \in born :
        r.digest = AudioOf[t] /\ \A x \in Serial \ {s} : t \notin OnCard(x))'
  BY DEF CopiedOnce
<1> QED BY <1>1, <1>2 DEF CopiedOnce

LEMMA StaysCopiedOnce ==
  ASSUME LedgersLoad, NothingInterrupts, ReadsAreTrue, TakesDiffer,
         IntakeInv, CopiedOnce, [IntakeNext]_intakeAll
  PROVE  CopiedOnce'
<1>1. TakeIsItself' /\ RecordsAreLoaded'
  BY TakeStaysItself, RecordsStayLoaded DEF CopiedOnce
<1>2. ArchiveTypeOK /\ NoFile \notin Audio /\ Fragment \notin Audio
      /\ \A t \in Take : AudioOf[t] \in Audio
  BY ArchiveAssumption DEF IntakeInv, IntakeTypeOK
<1>3. CASE FileTake
  BY <1>1, <1>3, FileTakeCopiesOnce
<1>4. CASE RecordTake
  BY <1>1, <1>4, RecordTakeCopiesOnce
<1>5. CASE WritePart
  <2> PICK n \in Name : files' = [files EXCEPT ![n] = Fragment]
    BY <1>5 DEF WritePart
  <2>1. \A x \in Name, t \in Take : files'[x] = AudioOf[t] => files[x] = AudioOf[t]
    BY <1>2 DEF ArchiveTypeOK
  <2>2. NothingCopiedTwice'
    BY <2>1 DEF CopiedOnce, NothingCopiedTwice, Copies
  <2>3. /\ UNCHANGED <<ledger, born>> /\ \A x \in Serial : OnCard(x)' = OnCard(x)
        /\ stage # "filed"
    BY <1>5 DEF WritePart, OnCard, transmitterVars
  <2> QED BY <1>1, <2>1, <2>2, <2>3, MovesCopyOnce
<1>6. ASSUME NEW n \in Name, NEW m \in Name, Renaming(n, m) PROVE CopiedOnce'
  <2>1. \A x \in Name, t \in Take : files'[x] = AudioOf[t] =>
          files[IF x = m THEN n ELSE x] = AudioOf[t] /\ x # n
    BY <1>2, <1>6, RenamedFiles
  <2>2. NothingCopiedTwice'
    BY <2>1 DEF CopiedOnce, NothingCopiedTwice, Copies
  <2>3. /\ UNCHANGED <<ledger, born, stage, take>>
        /\ \A x \in Serial : OnCard(x)' = OnCard(x)
    BY <1>6 DEF Renaming, OnCard, transmitterVars, threadVars, takeVars
  <2>4. \A x \in Name, t \in Take : files'[x] = AudioOf[t] =>
          \E y \in Name : files[y] = AudioOf[t]
    BY <2>1
  <2> QED BY <1>1, <2>2, <2>3, <2>4, MovesCopyOnce
<1>7. CASE Carry
  <2> PICK s \in Serial : Lift(s) \/ Dock(s)
    BY <1>7 DEF Carry
  <2>1. UNCHANGED <<archiveVars, stage, take>>
    BY <1>7 DEF Carry, intakeVars, threadVars, takeVars
  <2>2. \A x \in Serial : OnCard(x)' \cap born \subseteq OnCard(x)
    BY CarryingAdds
  <2>3. born \subseteq born'
    BY CarryingAdds
  <2>4. NothingCopiedTwice'
    BY <2>1 DEF CopiedOnce, NothingCopiedTwice, Copies, archiveVars
  <2>5. (\A s_1 \in Serial : \A r \in ledger[s_1] : \E t \in born :
          r.digest = AudioOf[t] /\ \A x \in Serial \ {s_1} : t \notin OnCard(x))'
    BY <2>1, <2>2, <2>3 DEF CopiedOnce, archiveVars
  <2> QED BY <1>1, <2>1, <2>4, <2>5 DEF CopiedOnce, archiveVars, Holds
<1>8. CASE /\ UNCHANGED <<archiveVars, transmitterVars>>
           /\ stage = "filed" => UNCHANGED <<stage, take>>
  <2>1. NothingCopiedTwice'
    BY <1>8 DEF CopiedOnce, NothingCopiedTwice, Copies, archiveVars
  <2> QED
    BY <1>1, <1>8, <2>1, MovesCopyOnce DEF OnCard, transmitterVars, archiveVars
<1> QED
  BY <1>3, <1>4, <1>5, <1>6, <1>7, <1>8, WhatTouchesTheDisk, NamingRenames
     DEF NothingInterrupts, IntakeNext, StartImport, ImportStep, OpenCard, MissCard,
         EndImport, AbandonCard, GiveVerdict, SkipTake, CopyTake, CopyFails,
         NextTake, FilingFails, SubmitParts, SubmitWhole, Submit, Worker,
         NamingFails, Close, Relaunch, intakeAll, intakeVars, threadVars, takeVars,
         archiveVars

\* Importing the same card twice copies nothing twice.
THEOREM TakesAreCopiedOnce ==
  ASSUME LedgersLoad, NothingInterrupts, ReadsAreTrue, TakesDiffer
  PROVE  IntakeSpec => []NothingCopiedTwice
<1>1. IntakeInit => CopiedOnce
  <2> SUFFICES ASSUME IntakeInit PROVE CopiedOnce
    OBVIOUS
  <2>1. \A n \in Name, t \in Take : files[n] # AudioOf[t]
    BY ArchiveAssumption DEF IntakeInit, ArchiveInit
  <2> QED
    BY <2>1, RecordsStartLoaded
       DEF IntakeInit, ArchiveInit, CopiedOnce, TakeIsItself, AtTake, TakeStage,
           NothingCopiedTwice, Copies
<1>2. IntakeInv /\ CopiedOnce /\ [IntakeNext]_intakeAll => CopiedOnce'
  BY StaysCopiedOnce
<1>3. CopiedOnce => NothingCopiedTwice
  BY DEF CopiedOnce
<1> QED BY <1>1, <1>2, <1>3, IntakeInvariant, PTL DEF IntakeSpec

-----------------------------------------------------------------------------
(* Where prefixes differ as well, and takes with markers are cut, the name   *)
(* of a whole take tells which take it is.                                   *)

PrefixesDiffer == \A t, u \in Take : PrefixOf[t] = PrefixOf[u] => t = u

NamesAreTheirs ==
  /\ RecordedIsHeld /\ CopiedOnce
  /\ \A n \in Name : Exists(n) =>
       /\ n.prefix # Bare
       /\ n.rank = 0 => \E t \in Take : n.prefix = PrefixOf[t] /\ files[n] = AudioOf[t]
  /\ \A s \in Serial : \A r \in ledger[s] :
       \E t \in Take : r.prefix = PrefixOf[t] /\ r.digest = AudioOf[t]

LEMMA NamesStayTheirs ==
  ASSUME MarkedTakesAreCut, LedgersLoad, NothingInterrupts, ReadsAreTrue, TakesDiffer,
         IntakeInv, NamesAreTheirs, [IntakeNext]_intakeAll
  PROVE  NamesAreTheirs'
<1>1. RecordedIsHeld' /\ CopiedOnce'
  BY RecordedStaysHeld, StaysCopiedOnce DEF NamesAreTheirs
<1>2. ArchiveTypeOK /\ Bare \notin Prefix /\ \A t \in Take : PrefixOf[t] \in Prefix
  BY ArchiveAssumption DEF IntakeInv, IntakeTypeOK
<1>3. AtTake => take \in Take /\ got = AudioOf[take]
  BY TakeInHandIsThere DEF NamesAreTheirs, CopiedOnce, TakeIsItself
<1>4. CASE FileTake
  <2>1. PICK n \in Name : /\ n.prefix = PrefixOf[take]
                          /\ files' = [files EXCEPT ![n] = got]
    BY <1>4 DEF FileTake, UniquePath, FileName
  <2>2. take \in Take /\ got = AudioOf[take] /\ ledger' = ledger
    BY <1>3, <1>4 DEF FileTake, AtTake, TakeStage
  <2>3. files'[n] = AudioOf[take] /\ \A x \in Name \ {n} : files'[x] = files[x]
    BY <1>2, <2>1, <2>2 DEF ArchiveTypeOK
  <2> QED BY <1>1, <1>2, <2>1, <2>2, <2>3 DEF NamesAreTheirs, Exists
<1>5. CASE WritePart
  <2> PICK n \in Name, k \in 1..MaxRank :
        UniquePath(PrefixOf[take], k, Placeholder, n) /\ files' = [files EXCEPT ![n] = Fragment]
    BY <1>5 DEF WritePart
  <2>1. n.prefix = PrefixOf[take] /\ n.rank = k /\ n.rank # 0
    BY ArchiveAssumption DEF UniquePath, FileName
  <2>2. take \in Take /\ ledger' = ledger
    BY <1>3, <1>5 DEF WritePart, AtTake, TakeStage
  <2>3. \A x \in Name \ {n} : files'[x] = files[x]
    BY <1>2 DEF ArchiveTypeOK
  <2> QED BY <1>1, <1>2, <2>1, <2>2, <2>3 DEF NamesAreTheirs, Exists
<1>6. CASE RecordTake
  <2> DEFINE r == [digest |-> got, prefix |-> final.prefix]
  <2>1. take \in Take /\ r.digest = AudioOf[take] /\ r.prefix = PrefixOf[take]
    BY <1>3, <1>6 DEF RecordTake, AtTake, TakeStage, IntakeInv, TakeInHand
  <2>2. \A s \in Serial : ledger'[s] \subseteq ledger[s] \cup {r}
    BY <1>6 DEF RecordTake, IntakeInv, IntakeTypeOK, ArchiveTypeOK, AtCard
  <2>3. UNCHANGED files
    BY <1>6 DEF RecordTake
  <2> HIDE DEF r
  <2> QED BY <1>1, <2>1, <2>2, <2>3 DEF NamesAreTheirs, Exists
<1>7. ASSUME NEW n \in Name, NEW m \in Name, Renaming(n, m) PROVE NamesAreTheirs'
  <2>1. ledger' = ledger /\ m.prefix = n.prefix /\ m.rank = n.rank
    BY <1>7 DEF Renaming, NamesAreTheirs, RecordedIsHeld, NamesCanBeGiven
  <2> QED
    BY <1>1, <1>7, <2>1, <1>2, RenamedFiles DEF NamesAreTheirs, Renaming, Exists
<1>8. CASE UNCHANGED archiveVars
  BY <1>1, <1>8 DEF NamesAreTheirs, Exists, archiveVars
<1> QED BY <1>4, <1>5, <1>6, <1>7, <1>8, WhatTouchesTheDisk

\* The glob of a record finds one file, and it has the record's bytes: after
\* any renaming, a card that is accounted for can be erased.
THEOREM RecordsFindTheirFiles ==
  ASSUME MarkedTakesAreCut, LedgersLoad, NothingInterrupts, ReadsAreTrue,
         TakesDiffer, PrefixesDiffer
  PROVE  IntakeSpec => []LedgerFindsItsFile
<1>1. IntakeInit => NamesAreTheirs
  <2> SUFFICES ASSUME IntakeInit PROVE NamesAreTheirs
    OBVIOUS
  <2>1. \A n \in Name : ~Exists(n) /\ \A t \in Take : files[n] # AudioOf[t]
    BY ArchiveAssumption DEF IntakeInit, ArchiveInit, Exists
  <2>2. CopiedOnce
    BY <2>1, RecordsStartLoaded
       DEF IntakeInit, ArchiveInit, CopiedOnce, TakeIsItself, AtTake, TakeStage,
           NothingCopiedTwice, Copies
  <2>3. RecordedIsHeld
    BY RecordedStartsHeld
  <2> QED BY <2>1, <2>2, <2>3 DEF IntakeInit, ArchiveInit, NamesAreTheirs
<1>2. IntakeInv /\ NamesAreTheirs /\ [IntakeNext]_intakeAll => NamesAreTheirs'
  BY NamesStayTheirs
<1>3. NamesAreTheirs => LedgerFindsItsFile
  <2> SUFFICES ASSUME NamesAreTheirs, NEW s \in Serial, NEW r \in ledger[s]
               PROVE  Intact({r}, r.digest)
    BY DEF LedgerFindsItsFile
  <2>1. PICK t \in Take : r.prefix = PrefixOf[t] /\ r.digest = AudioOf[t]
    BY DEF NamesAreTheirs
  <2>2. PICK n \in Name : n.prefix = r.prefix /\ n.rank = 0 /\ files[n] = r.digest
    BY DEF NamesAreTheirs, RecordedIsHeld, HeldUnder
  <2>3. Exists(n)
    BY <2>1, <2>2, ArchiveAssumption DEF Exists
  <2>4. ASSUME NEW m \in Name, Exists(m), m.prefix = r.prefix, m.rank = 0
        PROVE  m = n
    <3>1. PICK u \in Take : m.prefix = PrefixOf[u] /\ files[m] = AudioOf[u]
      BY <2>4 DEF NamesAreTheirs
    <3>2. u = t
      BY <2>1, <2>4, <3>1 DEF PrefixesDiffer
    <3> QED
      BY <2>1, <2>2, <3>1, <3>2 DEF NamesAreTheirs, CopiedOnce, NothingCopiedTwice, Copies
  <2>5. Located(r, n)
    BY <2>2, <2>3, <2>4 DEF Located, Matches
  <2> QED BY <2>2, <2>5 DEF Intact
<1> QED BY <1>1, <1>2, <1>3, IntakeInvariant, PTL DEF IntakeSpec

-----------------------------------------------------------------------------
(* What is left `decoupee` was cut to the end.                               *)

RanksOf(p) == {m.rank : m \in {x \in Name : Exists(x) /\ x.prefix = p}}

SplitIsCut ==
  /\ NamesCanBeGiven
  /\ \A n \in Name : Exists(n) /\ n.tail = Split =>
       /\ n.prefix \in Prefix
       /\ \/ 1..MaxRank \subseteq RanksOf(n.prefix)
          \/ /\ stage \in {"filed", "recorded", "cutting"}
             /\ PrefixOf[take] = n.prefix /\ got \in Marked
  /\ AtTake => {p.rank : p \in parts} \subseteq RanksOf(PrefixOf[take])

\* No rank of a prefix ever goes: a file of it keeps prefix and rank.
LEMMA RanksStay ==
  ASSUME IntakeInv, NamesCanBeGiven, [IntakeNext]_intakeAll, NEW p \in Prefix
  PROVE  RanksOf(p) \subseteq RanksOf(p)'
<1>1. ArchiveTypeOK /\ p # Bare
  BY ArchiveAssumption DEF IntakeInv, IntakeTypeOK
<1>2. CASE FileTake \/ WritePart
  <2>1. PICK n \in Name, new \in Content : files' = [files EXCEPT ![n] = new]
    BY <1>2 DEF FileTake, WritePart, IntakeInv, TakeInHand, AtTake, TakeStage, Content
  <2>2. new # NoFile
    BY ArchiveAssumption DEF Content
  <2> QED BY <1>1, <2>1, <2>2 DEF RanksOf, Exists, ArchiveTypeOK
<1>3. ASSUME NEW n \in Name, NEW m \in Name, Renaming(n, m)
      PROVE  RanksOf(p) \subseteq RanksOf(p)'
  <2>1. n.prefix = p => m.prefix = p /\ m.rank = n.rank
    BY <1>1, <1>3 DEF Renaming, NamesCanBeGiven
  <2>2. ASSUME NEW x \in Name, Exists(x), x.prefix = p
        PROVE  \E y \in Name : Exists(y)' /\ y.prefix = p /\ y.rank = x.rank
    BY <1>1, <1>3, <2>1, <2>2, RenamedFiles DEF Renaming, Exists
  <2> QED BY <2>2 DEF RanksOf
<1>4. CASE UNCHANGED files
  BY <1>4 DEF RanksOf, Exists
<1> QED
  BY <1>2, <1>3, <1>4, WhatTouchesTheDisk DEF RecordTake, archiveVars

LEMMA SplitStaysCut ==
  ASSUME MarkedTakesAreCut, NothingInterrupts,
         IntakeInv, SplitIsCut, [IntakeNext]_intakeAll
  PROVE  SplitIsCut'
<1>1. NamesCanBeGiven'
  BY NamesCanStillBeGiven DEF SplitIsCut
<1>2. \A p \in Prefix : RanksOf(p) \subseteq RanksOf(p)'
  BY RanksStay DEF SplitIsCut
<1>3. ArchiveTypeOK /\ \A t \in Take : PrefixOf[t] \in Prefix
  BY ArchiveAssumption DEF IntakeInv, IntakeTypeOK
<1>4. AtTake => PrefixOf[take] \in Prefix /\ PrefixOf[take] # Bare
  BY <1>3, TakeInHandIsThere, ArchiveAssumption
<1>5. CASE FileTake
  <2> PICK n \in Name :
        /\ UniquePath(PrefixOf[take], 0, IF got \in Marked THEN Split ELSE Placeholder, n)
        /\ files' = [files EXCEPT ![n] = got]
    BY <1>5 DEF FileTake
  <2>1. n.prefix = PrefixOf[take]
        /\ n.tail = IF got \in Marked THEN Split ELSE Placeholder
    BY DEF UniquePath, FileName
  <2>2. n.tail = Split => got \in Marked
    BY <2>1 DEF Split, Placeholder
  <2>3. /\ stage = "copied" /\ stage' = "filed" /\ UNCHANGED <<take, got, parts>>
        /\ AtTake /\ parts = {}
    BY <1>5 DEF FileTake, AtTake, TakeStage, IntakeInv, NothingInHand
  <2>4. \A x \in Name \ {n} : Exists(x)' => Exists(x)
    BY <1>3 DEF ArchiveTypeOK, Exists
  <2>5. \A x \in Name : Exists(x)' /\ x.tail = Split =>
          /\ x.prefix \in Prefix
          /\ \/ 1..MaxRank \subseteq RanksOf(x.prefix)'
             \/ PrefixOf[take] = x.prefix /\ got \in Marked
    BY <1>2, <1>4, <2>1, <2>2, <2>3, <2>4 DEF SplitIsCut
  <2> QED BY <1>1, <2>3, <2>5 DEF SplitIsCut
<1>6. CASE WritePart
  <2> PICK n \in Name, k \in 1..MaxRank :
        /\ UniquePath(PrefixOf[take], k, Placeholder, n)
        /\ files' = [files EXCEPT ![n] = Fragment]
        /\ parts' = parts \cup {n}
    BY <1>6 DEF WritePart
  <2>1. n.prefix = PrefixOf[take] /\ n.tail # Split
    BY DEF UniquePath, FileName, Placeholder, Split
  <2>2. /\ stage \in {"recorded", "cutting"} /\ stage' = "cutting" /\ AtTake
        /\ UNCHANGED <<take, got>>
    BY <1>6 DEF WritePart, AtTake, TakeStage
  <2>3. \A x \in Name \ {n} : Exists(x)' => Exists(x)
    BY <1>3 DEF ArchiveTypeOK, Exists
  <2>4. Exists(n)'
    BY <1>3, ArchiveAssumption DEF ArchiveTypeOK, Exists
  <2>5. {p.rank : p \in parts'} \subseteq RanksOf(PrefixOf[take])'
    <3>1. n.rank \in RanksOf(PrefixOf[take])'
      BY <2>1, <2>2, <2>4 DEF RanksOf
    <3>2. \A p \in parts : p.rank \in RanksOf(PrefixOf[take])
      BY <2>2 DEF SplitIsCut
    <3>3. RanksOf(PrefixOf[take]) \subseteq RanksOf(PrefixOf[take])'
      BY <1>2, <1>4, <2>2 DEF RanksOf
    <3> QED BY <3>1, <3>2, <3>3
  <2>6. \A x \in Name : Exists(x)' /\ x.tail = Split =>
          /\ x.prefix \in Prefix
          /\ \/ 1..MaxRank \subseteq RanksOf(x.prefix)'
             \/ PrefixOf[take] = x.prefix /\ got \in Marked
    BY <1>2, <2>1, <2>3 DEF SplitIsCut
  <2> QED BY <1>1, <2>2, <2>5, <2>6 DEF SplitIsCut
<1>7. ASSUME NEW n \in Name, NEW m \in Name, Renaming(n, m) PROVE SplitIsCut'
  <2>1. UNCHANGED <<stage, take, got, parts>> /\ m.tail # Split
    BY <1>7 DEF Renaming, threadVars, takeVars, Split, Placeholder, Title
  <2>2. \A x \in Name \ {m} : Exists(x)' => Exists(x)
    BY <1>3, <1>7, RenamedFiles DEF Exists
  <2>3. \A x \in Name : Exists(x)' /\ x.tail = Split =>
          /\ x.prefix \in Prefix
          /\ \/ 1..MaxRank \subseteq RanksOf(x.prefix)'
             \/ /\ stage \in {"filed", "recorded", "cutting"}
                /\ PrefixOf[take] = x.prefix /\ got \in Marked
    BY <1>2, <2>1, <2>2 DEF SplitIsCut
  <2>4. AtTake => RanksOf(PrefixOf[take]) \subseteq RanksOf(PrefixOf[take])'
    BY <1>2, <1>4, <2>1 DEF RanksOf
  <2> QED BY <1>1, <2>1, <2>3, <2>4 DEF SplitIsCut, AtTake
<1>8. CASE SubmitParts
  <2>1. AtTake /\ {p.rank : p \in parts} = 1..MaxRank /\ UNCHANGED archiveVars
        /\ ~AtTake'
    BY <1>8 DEF SubmitParts, Submit, AtTake, TakeStage
  <2>2. 1..MaxRank \subseteq RanksOf(PrefixOf[take])
    BY <2>1 DEF SplitIsCut
  <2> QED BY <1>1, <2>1, <2>2 DEF SplitIsCut, RanksOf, Exists, archiveVars
<1>9. CASE UNCHANGED files /\ ~SubmitParts /\ ~WritePart /\ ~FileTake
  <2>1. stage \in {"filed", "recorded", "cutting"} /\ got \in Marked =>
          /\ UNCHANGED <<take, got>>
          /\ stage' \in {"filed", "recorded", "cutting"}
    BY <1>9
       DEF MarkedTakesAreCut, NothingInterrupts, IntakeNext, StartImport, ImportStep,
           OpenCard, MissCard, EndImport, AbandonCard, GiveVerdict, SkipTake, CopyTake,
           CopyFails, NextTake, FilingFails, RecordTake, SubmitWhole, Worker, NameJob,
           NamingFails, RenameByHand, Close, Relaunch, Carry, intakeAll, intakeVars,
           threadVars, takeVars
  <2>2. parts' = {} \/ (UNCHANGED <<stage, take, parts>>)
    BY <1>9
       DEF IntakeInv, NothingInHand, NoTakeInHand, LeaveCard, IntakeNext, StartImport,
           ImportStep, OpenCard, MissCard, EndImport, AbandonCard, GiveVerdict,
           SkipTake, CopyTake, CopyFails, NextTake, FilingFails, RecordTake,
           SubmitWhole, Submit, Worker, NameJob, NamingFails, RenameByHand, Close,
           Relaunch, Carry, intakeAll, intakeVars, threadVars, takeVars
  <2> QED BY <1>1, <1>9, <2>1, <2>2 DEF SplitIsCut, RanksOf, Exists, AtTake
<1> QED
  BY <1>5, <1>6, <1>7, <1>8, <1>9, WhatTouchesTheDisk
     DEF RecordTake, SubmitParts, Submit, archiveVars

\* When an import accounts for a whole card, every take left `decoupee` has
\* all its parts: the cut of a take on the disk is never left half done.
THEOREM SplitsAreFinished ==
  ASSUME MarkedTakesAreCut, NothingInterrupts PROVE IntakeSpec => []SplitMeansCut
<1>1. IntakeInit => SplitIsCut
  BY DEF IntakeInit, ArchiveInit, SplitIsCut, NamesCanBeGiven, Exists, AtTake, TakeStage
<1>2. IntakeInv /\ SplitIsCut /\ [IntakeNext]_intakeAll => SplitIsCut'
  BY SplitStaysCut
<1>3. SplitIsCut => SplitMeansCut
  BY DEF SplitIsCut, SplitMeansCut, RanksOf
<1> QED BY <1>1, <1>2, <1>3, IntakeInvariant, PTL DEF IntakeSpec

-----------------------------------------------------------------------------
(* The import comes to an end. *)

\* Nearer the end of an import: over, a card fewer to open, the card left, a take
\* fewer to read, the take in hand a stage further, or a part more of those it is
\* cut into; what goes on beside the thread moves none of these.
Ranks(paths) == {p.rank : p \in paths}
Meanwhile == \/ \E n \in Name : NameJob(n) \/ NamingFails(n) \/ RenameByHand(n)
             \/ Close \/ Carry
ImportComesNearer ==
  stage # "idle" =>
  \/ stage' = "idle"
  \/ blocks' \subseteq blocks /\ blocks' # blocks
  \/ blocks' = blocks /\ stage # "cards" /\ stage' = "cards"
  \/ /\ blocks' = blocks /\ AtCard /\ AtCard'
     /\ \/ todo' \subseteq todo /\ todo' # todo
        \/ /\ todo' = todo
           /\ <<stage, stage'>> \in {<<"copied", "filed">>, <<"copied", "takes">>,
                                     <<"filed", "recorded">>, <<"recorded", "cutting">>,
                                     <<"recorded", "takes">>, <<"cutting", "takes">>}
        \/ /\ todo' = todo /\ stage = "cutting" /\ stage' = "cutting"
           /\ \E k \in 1..MaxRank : Ranks(parts) = 1..(k - 1) /\ Ranks(parts') = 1..k
  \/ Meanwhile /\ UNCHANGED threadVars

LEMMA TakesComeNearer ==
  ASSUME ImportStep, stage \notin {"idle", "cards"}
  PROVE  ImportComesNearer
<1>1. ASSUME NEW t \in Take, SkipTake(t) \/ CopyTake(t) \/ CopyFails(t)
      PROVE  ImportComesNearer
  <2>1. /\ stage = "takes" /\ stage' \in {"takes", "copied"} /\ blocks' = blocks
        /\ t \in todo /\ todo' = todo \ {t}
    BY <1>1 DEF SkipTake, CopyTake, CopyFails, NextTake
  <2>2. todo' \subseteq todo /\ todo' # todo
    BY <2>1
  <2> QED BY <2>1, <2>2 DEF ImportComesNearer, AtCard
<1>2. CASE AbandonCard \/ GiveVerdict
  <2>1. stage \in {"takes", "filed"} /\ stage' = "cards" /\ blocks' = blocks
    BY <1>2 DEF AbandonCard, GiveVerdict, LeaveCard
  <2> QED BY <2>1 DEF ImportComesNearer
<1>3. CASE FileTake
  BY <1>3 DEF FileTake, ImportComesNearer, AtCard, countVars
<1>4. CASE FilingFails
  BY <1>4 DEF FilingFails, ImportComesNearer, AtCard, countVars
<1>5. CASE RecordTake
  BY <1>5 DEF RecordTake, ImportComesNearer, AtCard
<1>6. CASE WritePart
  <2>1. /\ stage \in {"recorded", "cutting"} /\ stage' = "cutting"
        /\ blocks' = blocks /\ todo' = todo
    BY <1>6 DEF WritePart, countVars
  <2>2. PICK n \in Name, k \in 1..MaxRank :
          Ranks(parts) = 1..(k - 1) /\ n.rank = k /\ parts' = parts \cup {n}
    BY <1>6 DEF WritePart, Ranks, UniquePath, FileName
  <2>3. Ranks(parts') = Ranks(parts) \cup {k}
    BY <2>2 DEF Ranks
  <2>4. 1..(k - 1) \cup {k} = 1..k
    OBVIOUS
  <2>5. \E r \in 1..MaxRank : Ranks(parts) = 1..(r - 1) /\ Ranks(parts') = 1..r
    BY <2>2, <2>3, <2>4
  <2>6. CASE stage = "recorded"
    BY <2>1, <2>6 DEF ImportComesNearer, AtCard
  <2>7. CASE stage = "cutting"
    BY <2>1, <2>5, <2>7 DEF ImportComesNearer, AtCard
  <2> QED BY <2>1, <2>6, <2>7
<1>7. CASE SubmitParts \/ SubmitWhole
  <2>1. /\ stage \in {"recorded", "cutting"} /\ stage' = "takes"
        /\ blocks' = blocks /\ todo' = todo
    BY <1>7 DEF SubmitParts, SubmitWhole, Submit, countVars
  <2> QED BY <2>1 DEF ImportComesNearer, AtCard
<1>8. ASSUME NEW s \in Serial, OpenCard(s) PROVE FALSE
  BY <1>8 DEF OpenCard
<1>9. ~(MissCard \/ EndImport)
  BY DEF MissCard, EndImport
<1> QED BY <1>1, <1>2, <1>3, <1>4, <1>5, <1>6, <1>7, <1>8, <1>9 DEF ImportStep

LEMMA CardsComeNearer ==
  ASSUME ImportStep, stage = "cards"
  PROVE  ImportComesNearer
<1>1. ASSUME NEW s \in Serial, OpenCard(s) PROVE ImportComesNearer
  <2>1. PICK p \in blocks : blocks' = blocks \ {p}
    BY <1>1 DEF OpenCard
  <2>2. blocks' \subseteq blocks /\ blocks' # blocks
    BY <2>1
  <2> QED BY <2>2 DEF ImportComesNearer
<1>2. CASE MissCard
  <2>1. PICK p \in blocks : blocks' = blocks \ {p}
    BY <1>2 DEF MissCard
  <2>2. blocks' \subseteq blocks /\ blocks' # blocks
    BY <2>1
  <2> QED BY <2>2 DEF ImportComesNearer
<1>3. CASE EndImport
  BY <1>3 DEF EndImport, ImportComesNearer
<1>4. ASSUME NEW t \in Take, SkipTake(t) \/ CopyTake(t) \/ CopyFails(t) PROVE FALSE
  BY <1>4 DEF SkipTake, CopyTake, CopyFails, NextTake
<1>5. ~(AbandonCard \/ GiveVerdict \/ FileTake \/ FilingFails \/ RecordTake
          \/ WritePart \/ SubmitParts \/ SubmitWhole)
  BY DEF AbandonCard, GiveVerdict, FileTake, FilingFails, RecordTake, WritePart,
         SubmitParts, SubmitWhole
<1> QED BY <1>1, <1>2, <1>3, <1>4, <1>5 DEF ImportStep

LEMMA ImportStepComesNearer == IntakeNext => ImportComesNearer
<1> SUFFICES ASSUME IntakeNext, stage # "idle" PROVE ImportComesNearer
  BY DEF ImportComesNearer
<1>1. CASE ImportStep
  BY <1>1, TakesComeNearer, CardsComeNearer
<1>2. CASE Relaunch
  BY <1>2 DEF Relaunch, ImportComesNearer
<1>3. ~StartImport
  BY DEF StartImport
<1>4. CASE Meanwhile
  <2>1. UNCHANGED threadVars
    BY <1>4 DEF Meanwhile, NameJob, NamingFails, RenameByHand, Close, Carry, intakeVars
  <2> QED BY <1>4, <2>1 DEF ImportComesNearer
<1> QED BY <1>1, <1>2, <1>3, <1>4 DEF IntakeNext, Worker, Meanwhile

\* Whatever fails in it and whatever goes on beside it, every step of an import
\* comes nearer its end: what ImportEnds needs besides that the thread goes on.
THEOREM ImportNeverTurnsBack == IntakeSpec => [][ImportComesNearer]_intakeAll
<1>1. [IntakeNext]_intakeAll => [ImportComesNearer]_intakeAll
  BY ImportStepComesNearer
<1> QED BY <1>1, PTL DEF IntakeSpec
=============================================================================

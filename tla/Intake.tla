------------------------------- MODULE Intake -------------------------------
(***************************************************************************)
(* Importing cards: MainWindow.start_import and the intake generator its   *)
(* thread drains, the naming worker that renames what was imported, the    *)
(* window's own renaming, and the application being closed or killed at    *)
(* any point and launched again.                                           *)
(*                                                                         *)
(* A step is what a crash, a full disk or a lifted transmitter can         *)
(* separate: the copy, the move to the final name, the ledger write, each  *)
(* part, the hand-over.  Paths go from the import to the worker here in    *)
(* one step; ImportHandoff has what lies between.                          *)
(***************************************************************************)
EXTENDS Verdicts

CONSTANTS
  Garble,      \* bytes a read from another card's clusters yields
  Marked,      \* byte strings that carry markers
  Cuttable,    \* those with a marker strictly inside, where split cuts
  Faults,      \* what may go wrong: a subset of FaultKinds
  MaxLaunches  \* bound: how many times the application is started again

FaultKinds ==
  {"copy", "mkdir", "filing", "record", "split", "naming", "ledger", "kill"}

ASSUME IntakeAssumption ==
  /\ Garble \subseteq Audio
  /\ Marked \subseteq Audio
  /\ Cuttable \subseteq Marked
  /\ Cuttable # {} => MaxRank > 0
  /\ Faults \subseteq FaultKinds
  /\ MaxLaunches \in Nat

VARIABLES
  stage,     \* where the import thread is
  blocks,    \* the devices it has still to open
  device,    \* the block device open, as card.fh
  reading,   \* card.serial
  listed,    \* card.takes(), when the card was opened
  openSeen,  \* card.open_takes, then
  todo,      \* the takes of `listed` the loop has not reached
  seen,      \* the names in `seen`
  digests,   \* and its values
  records,   \* the Ledger object's records
  take, got, \* the take in hand, and the digest of what was read of it
  final,     \* the path it was filed under
  parts,     \* the paths of its parts, as they are written
  queue,     \* paths submitted for naming
  heard,     \* history: what was transcribed, as <<prefix, rank>>
  stop,      \* the application is closing
  launches   \* how many times it was started again

cardVars == <<device, reading, listed, openSeen>>
countVars == <<todo, seen, digests, records>>
takeVars == <<take, got, final, parts>>
threadVars == <<stage, blocks, cardVars, countVars, takeVars>>
sessionVars == <<queue, heard, stop, launches>>
intakeVars == <<threadVars, sessionVars>>
intakeAll == <<archiveVars, transmitterVars, verdicts, intakeVars>>

Stage == {"idle", "cards", "takes", "copied", "filed", "recorded", "cutting"}
TakeStage == {"copied", "filed", "recorded", "cutting"}
NoName == FileName(Bare, 0, Placeholder, 1)

IntakeTypeOK ==
  /\ ArchiveTypeOK /\ TransmittersTypeOK /\ VerdictsTypeOK
  /\ stage \in Stage
  /\ blocks \subseteq Slot /\ device \in Slot \cup {NoSlot}
  /\ reading \in Serial \cup {NoSerial}
  /\ listed \subseteq Take /\ openSeen \in BOOLEAN
  /\ todo \subseteq listed /\ seen \subseteq listed \ todo
  /\ digests \subseteq Audio /\ records \subseteq Record
  /\ take \in listed \cup {NoTake} /\ got \in Audio \cup {NoFile}
  /\ final \in Name /\ parts \subseteq Name
  /\ queue \subseteq Name /\ heard \subseteq (Prefix \cup {Bare}) \X (0..MaxRank)
  /\ stop \in BOOLEAN /\ launches \in 0..MaxLaunches

IntakeInit ==
  /\ ArchiveInit /\ TransmittersInit /\ verdicts = NoVerdicts
  /\ stage = "idle" /\ blocks = {}
  /\ device = NoSlot /\ reading = NoSerial /\ listed = {} /\ openSeen = FALSE
  /\ todo = {} /\ seen = {} /\ digests = {} /\ records = {}
  /\ take = NoTake /\ got = NoFile /\ final = NoName /\ parts = {}
  /\ queue = {} /\ heard = {} /\ stop = FALSE /\ launches = 0

NoTakeInHand == take' = NoTake /\ got' = NoFile /\ final' = NoName /\ parts' = {}
\* Variant: `seen` outlives the card.
SeenKept ==
  /\ device' = NoSlot /\ reading' = NoSerial /\ listed' = {} /\ openSeen' = FALSE
  /\ todo' = {} /\ digests' = {} /\ records' = {}
  /\ UNCHANGED seen

NoCardInHand ==
  /\ device' = NoSlot /\ reading' = NoSerial /\ listed' = {} /\ openSeen' = FALSE
  /\ todo' = {} /\ seen' = {} /\ digests' = {} /\ records' = {}

-----------------------------------------------------------------------------
(* One run of the import thread: the cards, one after another. *)

\* Variant: the verdicts of the last import stay.
VerdictsStay ==
  /\ stage = "idle" /\ ~stop
  /\ blocks' = {slot[s] : s \in {x \in Serial : Docked(x)}}
  /\ blocks' # {}
  /\ stage' = "cards"
  /\ UNCHANGED <<archiveVars, transmitterVars, verdicts, sessionVars>>
  /\ UNCHANGED <<cardVars, countVars, takeVars>>

\* start_import: a new snapshot, and every card the device list shows.
StartImport ==
  /\ stage = "idle" /\ ~stop
  /\ blocks' = {slot[s] : s \in {x \in Serial : Docked(x)}}
  /\ blocks' # {}
  /\ stage' = "cards"
  /\ verdicts' = NoVerdicts
  /\ UNCHANGED <<archiveVars, transmitterVars, sessionVars>>
  /\ UNCHANGED <<cardVars, countVars, takeVars>>

\* Card(fh), Ledger(card.serial), card.takes().  An unreadable ledger loads as
\* an empty one.
OpenCard(s) ==
  /\ stage = "cards"
  /\ \E p \in blocks : Occupies(s, p) /\ device' = p /\ blocks' = blocks \ {p}
  /\ reading' = s
  /\ listed' = card[s] /\ openSeen' = (open[s] # NoTake)
  /\ todo' = card[s] /\ seen' = {} /\ digests' = {}
  /\ \/ records' = ledger[s]
     \/ "ledger" \in Faults /\ records' = {}
  /\ stage' = "takes"
  /\ UNCHANGED <<archiveVars, transmitterVars, verdicts, sessionVars, takeVars>>

\* A card that vanished since the click is reported; the next is tried.
MissCard ==
  /\ stage = "cards"
  /\ \E p \in blocks :
       (\A s \in Serial : ~Occupies(s, p)) /\ blocks' = blocks \ {p}
  /\ UNCHANGED <<archiveVars, transmitterVars, verdicts, sessionVars>>
  /\ UNCHANGED <<stage, cardVars, countVars, takeVars>>

\* mark_finished, and the window taking note.
EndImport ==
  /\ stage = "cards" /\ blocks = {}
  /\ stage' = "idle"
  /\ UNCHANGED <<archiveVars, transmitterVars, verdicts, sessionVars>>
  /\ UNCHANGED <<blocks, cardVars, countVars, takeVars>>

\* The card is done with, for good or ill.
LeaveCard == stage' = "cards" /\ NoCardInHand /\ NoTakeInHand /\ UNCHANGED blocks

\* Variant: a card that raised is put back, to be tried again.
AbandonForNow ==
  /\ \/ "mkdir" \in Faults /\ stage = "takes" /\ todo # {} /\ ~stop
     \/ "record" \in Faults /\ stage = "filed"
  /\ stage' = "cards" /\ NoCardInHand /\ NoTakeInHand
  /\ blocks' = blocks \cup {device}
  /\ UNCHANGED <<archiveVars, transmitterVars, verdicts, sessionVars>>

\* An exception that leaves intake(): no verdict.  The folder cannot be made
\* (that call is outside the guarded part), or the proof cannot be written.
AbandonCard ==
  /\ \/ "mkdir" \in Faults /\ stage = "takes" /\ todo # {} /\ ~stop
     \/ "record" \in Faults /\ stage = "filed"
  /\ LeaveCard
  /\ UNCHANGED <<archiveVars, transmitterVars, verdicts, sessionVars>>

\* The verdict: every take listed was seen, and none was open.
Accounted == seen = listed /\ ~openSeen

GiveVerdict ==
  /\ stage = "takes"
  /\ todo = {} \/ stop
  /\ verdicts' = [verdicts EXCEPT ![reading] =
       [inventory |-> listed, digests |-> digests, complete |-> Accounted]]
  /\ LeaveCard
  /\ UNCHANGED <<archiveVars, transmitterVars, sessionVars>>

-----------------------------------------------------------------------------
(* One take. *)

\* What a read through the open device yields: the take's own bytes, or those
\* another card has in the same clusters.
ReadFrom(t, bytes) ==
  \E s \in Serial :
    /\ Occupies(s, device)
    /\ IF s = reading THEN bytes = AudioOf[t] ELSE bytes \in Garble

NextTake(t) == stage = "takes" /\ ~stop /\ t \in todo /\ todo' = todo \ {t}

\* A verified copy the ledger already holds: dropped, and the take is seen.
SkipTake(t) ==
  /\ NextTake(t)
  /\ \E bytes \in Audio : /\ ReadFrom(t, bytes)
                          /\ Holds(records, bytes)
                          /\ digests' = digests \cup {bytes}
  /\ seen' = seen \cup {t}
  /\ UNCHANGED <<archiveVars, transmitterVars, verdicts, sessionVars>>
  /\ UNCHANGED <<stage, blocks, cardVars, records, takeVars>>

\* Variant: what the ledger holds is not asked.
CopyAnyway(t) ==
  /\ NextTake(t)
  /\ \E bytes \in Audio : ReadFrom(t, bytes) /\ got' = bytes
  /\ take' = t
  /\ stage' = "copied"
  /\ UNCHANGED <<archiveVars, transmitterVars, verdicts, sessionVars>>
  /\ UNCHANGED <<blocks, cardVars, seen, digests, records, final, parts>>

\* A verified copy of bytes nobody has yet.
CopyTake(t) ==
  /\ NextTake(t)
  /\ \E bytes \in Audio : /\ ReadFrom(t, bytes)
                          /\ ~Holds(records, bytes)
                          /\ got' = bytes
  /\ take' = t
  /\ stage' = "copied"
  /\ UNCHANGED <<archiveVars, transmitterVars, verdicts, sessionVars>>
  /\ UNCHANGED <<blocks, cardVars, seen, digests, records, final, parts>>

\* Variant: a failed copy counts as a take seen.
FailureCounted(t) ==
  /\ NextTake(t)
  /\ "copy" \in Faults \/ \A s \in Serial : ~Occupies(s, device)
  /\ seen' = seen \cup {t}
  /\ UNCHANGED <<archiveVars, transmitterVars, verdicts, sessionVars>>
  /\ UNCHANGED <<stage, blocks, cardVars, digests, records, takeVars>>

\* copy_verified gave up, or the device is gone: the other takes go on.
CopyFails(t) ==
  /\ NextTake(t)
  /\ "copy" \in Faults \/ \A s \in Serial : ~Occupies(s, device)
  /\ UNCHANGED <<archiveVars, transmitterVars, verdicts, sessionVars>>
  /\ UNCHANGED <<stage, blocks, cardVars, seen, digests, records, takeVars>>

\* The final name: by its markers a take is `decoupee` from the start.
FileTake ==
  /\ stage = "copied"
  /\ \E n \in Name :
       /\ UniquePath(PrefixOf[take], 0,
                     IF got \in Marked THEN Split ELSE Placeholder, n)
       /\ files' = [files EXCEPT ![n] = got]
       /\ final' = n
  /\ stage' = "filed"
  /\ UNCHANGED <<ledger, transmitterVars, verdicts, sessionVars>>
  /\ UNCHANGED <<blocks, cardVars, countVars, take, got, parts>>

\* Variant: a failure to file goes on to the record.
FilingIgnored ==
  /\ "filing" \in Faults
  /\ stage = "copied"
  /\ final' = FileName(PrefixOf[take], 0, Placeholder, 1)
  /\ stage' = "filed"
  /\ UNCHANGED <<archiveVars, transmitterVars, verdicts, sessionVars>>
  /\ UNCHANGED <<blocks, cardVars, countVars, take, got, parts>>

FilingFails ==
  /\ "filing" \in Faults
  /\ stage = "copied"
  /\ stage' = "takes"
  /\ NoTakeInHand
  /\ UNCHANGED <<archiveVars, transmitterVars, verdicts, sessionVars>>
  /\ UNCHANGED <<blocks, cardVars, countVars>>

\* Variant: the file is rewritten with the new record alone.
RecordAlone ==
  /\ stage = "filed"
  /\ records' = records \cup {[digest |-> got, prefix |-> final.prefix]}
  /\ ledger' = [ledger EXCEPT ![reading] = records' \ records]
  /\ seen' = seen \cup {take}
  /\ digests' = digests \cup {got}
  /\ stage' = "recorded"
  /\ UNCHANGED <<files, transmitterVars, verdicts, sessionVars>>
  /\ UNCHANGED <<blocks, cardVars, todo, takeVars>>

\* Ledger.add: the file is rewritten from memory, then the take is seen.
RecordTake ==
  /\ stage = "filed"
  /\ records' = records \cup {[digest |-> got, prefix |-> final.prefix]}
  /\ ledger' = [ledger EXCEPT ![reading] = records']
  /\ seen' = seen \cup {take}
  /\ digests' = digests \cup {got}
  /\ stage' = "recorded"
  /\ UNCHANGED <<files, transmitterVars, verdicts, sessionVars>>
  /\ UNCHANGED <<blocks, cardVars, todo, takeVars>>

\* Variant: a take is cut as soon as it is filed.
CutBeforeRecord ==
  /\ stage \in {"filed", "recorded", "cutting"}
  /\ got \in Cuttable
  /\ \E n \in Name, k \in 1..MaxRank :
       /\ {p.rank : p \in parts} = 1..(k - 1)
       /\ UniquePath(PrefixOf[take], k, Placeholder, n)
       /\ files' = [files EXCEPT ![n] = Fragment]
       /\ parts' = parts \cup {n}
  /\ stage' = "cutting"
  /\ UNCHANGED <<ledger, transmitterVars, verdicts, sessionVars>>
  /\ UNCHANGED <<blocks, cardVars, countVars, take, got, final>>

\* split writes the parts one by one, each under the first free name.
WritePart ==
  /\ stage \in {"recorded", "cutting"}
  /\ got \in Cuttable
  /\ \E n \in Name, k \in 1..MaxRank :
       /\ {p.rank : p \in parts} = 1..(k - 1)
       /\ UniquePath(PrefixOf[take], k, Placeholder, n)
       /\ files' = [files EXCEPT ![n] = Fragment]
       /\ parts' = parts \cup {n}
  /\ stage' = "cutting"
  /\ UNCHANGED <<ledger, transmitterVars, verdicts, sessionVars>>
  /\ UNCHANGED <<blocks, cardVars, countVars, take, got, final>>

Submit(paths) ==
  /\ queue' = queue \cup paths
  /\ stage' = "takes"
  /\ NoTakeInHand
  /\ UNCHANGED <<archiveVars, transmitterVars, verdicts, heard, stop, launches>>
  /\ UNCHANGED <<blocks, cardVars, countVars>>

\* Variant: the take is submitted with its parts.
SubmitAll ==
  /\ stage = "cutting"
  /\ {p.rank : p \in parts} = 1..MaxRank
  /\ Submit(parts \cup {final})

\* Every part is written: they are submitted, the take is not.
SubmitParts ==
  /\ stage = "cutting"
  /\ {p.rank : p \in parts} = 1..MaxRank
  /\ Submit(parts)

\* Variant: a take with markers may be submitted without being cut.
SubmitUncut ==
  /\ stage = "recorded"
  /\ Submit({final})

\* The take is submitted whole: nothing to cut, or the split raised.  The
\* parts it had written, the last one perhaps cut short, stay.
SubmitWhole ==
  /\ \/ stage = "recorded" /\ got \notin Cuttable
     \/ stage \in {"recorded", "cutting"} /\ "split" \in Faults
  /\ Submit({final})

ImportStep ==
  \/ \E s \in Serial : OpenCard(s)
  \/ MissCard \/ EndImport \/ AbandonCard \/ GiveVerdict
  \/ \E t \in Take : SkipTake(t) \/ CopyTake(t) \/ CopyFails(t)
  \/ FileTake \/ FilingFails \/ RecordTake
  \/ WritePart \/ SubmitParts \/ SubmitWhole

-----------------------------------------------------------------------------
(* The naming worker, the window, and the life of the process. *)

\* name_recording: listen, choose a slug (an empty title gives the
\* placeholder again), rename.
NameJob(n) ==
  /\ n \in queue
  /\ Exists(n)
  /\ \E slug \in {Title, Placeholder}, m \in Name :
       NewName(n, slug, FALSE, m) /\ Rename(n, m)
  /\ heard' = heard \cup {<<n.prefix, n.rank>>}
  /\ queue' = queue \ {n}
  /\ UNCHANGED <<ledger, transmitterVars, verdicts, threadVars, stop, launches>>

\* The file was renamed meanwhile, or reading or titling it raised.
NamingFails(n) ==
  /\ n \in queue
  /\ ~Exists(n) \/ "naming" \in Faults
  /\ queue' = queue \ {n}
  /\ UNCHANGED <<archiveVars, transmitterVars, verdicts, threadVars>>
  /\ UNCHANGED <<heard, stop, launches>>

\* MainWindow.rename_take, on a row of the list: a path already submitted.
RenameByHand(n) ==
  /\ Exists(n)
  /\ ~(stage \in TakeStage /\ n.prefix = PrefixOf[take])
  /\ n.tail = Placeholder
  /\ \E m \in Name : NewName(n, Title, TRUE, m) /\ Rename(n, m)
  /\ UNCHANGED <<ledger, transmitterVars, verdicts, intakeVars>>

\* closeEvent: the import is asked to stop between two takes.
Close ==
  /\ ~stop
  /\ stop' = TRUE
  /\ UNCHANGED <<archiveVars, transmitterVars, verdicts, threadVars>>
  /\ UNCHANGED <<queue, heard, launches>>

\* orphans.find_orphans: what recover_orphans queues at launch.
Orphans == {n \in Name : Exists(n) /\ n.tail = Placeholder}

\* The process ends, once closed and between two cards, or killed anywhere (a
\* close waits 30 s for each thread, then leaves them); it starts
\* again.
Relaunch ==
  /\ launches < MaxLaunches
  /\ (stop /\ stage = "idle") \/ "kill" \in Faults
  /\ launches' = launches + 1
  /\ stop' = FALSE
  /\ stage' = "idle" /\ blocks' = {} /\ NoCardInHand /\ NoTakeInHand
  /\ verdicts' = NoVerdicts
  /\ queue' = Orphans
  /\ UNCHANGED <<archiveVars, transmitterVars, heard>>

Worker == \E n \in Name : NameJob(n) \/ NamingFails(n)

Carry ==
  /\ \E s \in Serial : Lift(s) \/ Dock(s)
  /\ UNCHANGED <<archiveVars, verdicts, intakeVars>>

IntakeNext ==
  \/ StartImport
  \/ ImportStep
  \/ Worker
  \/ \E n \in Name : RenameByHand(n)
  \/ Close
  \/ Relaunch
  \/ Carry

IntakeSpec ==
  /\ IntakeInit
  /\ [][IntakeNext]_intakeAll
  /\ WF_intakeAll(ImportStep)
  /\ WF_intakeAll(Worker)

-----------------------------------------------------------------------------
\* A complete verdict has the digest of every take it lists, unless the card
\* changed places under the reader; then the transmitter left the case, the
\* card holds a take the inventory has not, and no erase will match it.
VerdictIsBacked ==
  \A s \in Serial : Complete(s) =>
    \/ {AudioOf[t] : t \in verdicts[s].inventory} = verdicts[s].digests
    \/ ~(OnCard(s) \subseteq verdicts[s].inventory)

\* Recording comes after verification and filing: whatever is killed, full or
\* renamed since, a record's bytes are still under the record's prefix.
RecordsAreBacked ==
  \A s \in Serial : \A r \in ledger[s] :
    \E n \in Name : n.prefix = r.prefix /\ n.rank = 0 /\ files[n] = r.digest

\* The dictionary erase_allowed builds by digest never has to choose.
OneRecordPerDigest ==
  \A s \in Serial : \A q, r \in ledger[s] : q.digest = r.digest => q = r

\* Splitting comes after recording: no part exists of a take whose bytes were
\* not first recorded.
PartsOnlyOfRecorded ==
  \A n \in Name : Exists(n) /\ n.rank > 0 =>
    \E s \in Serial : \E r \in ledger[s] : r.prefix = n.prefix

\* A take and its own parts are never both transcribed.
NeverHeardTwice ==
  \A h, g \in heard : h[1] = g[1] /\ h[2] = 0 => g[2] = 0

\* Rewriting the ledger never takes the proof of what it recorded before.
RecordsAreKept == [][\A s \in Serial : ledger[s] \subseteq ledger'[s]]_intakeAll

\* README.md: "Importing the same card twice copies nothing twice."
Copies(t) == {n \in Name : files[n] = AudioOf[t]}
NothingCopiedTwice == \A t \in Take : \A n, m \in Copies(t) : n = m

\* A record finds its file again after every renaming, so that a card
\* accounted for can be erased.
LedgerFindsItsFile ==
  \A s \in Serial : \A r \in ledger[s] : Intact({r}, r.digest)

\* When an import accounts for a whole card, every take left `decoupee` has
\* all its parts.
SplitMeansCut ==
  \A s \in Serial : stage = "idle" /\ Complete(s) =>
    \A t \in verdicts[s].inventory, n \in Name :
      Exists(n) /\ n.tail = Split /\ n.prefix = PrefixOf[t] =>
        1..MaxRank \subseteq {m.rank : m \in {x \in Name : Exists(x) /\ x.prefix = n.prefix}}

\* The import thread always ends: no failure holds it, not even one that leaves
\* intake() with takes still to read.
ImportEnds == stage # "idle" ~> stage = "idle"
=============================================================================

# Formal model of conteur

`conteur` is the desktop application of this repository: it records from a RØDE
receiver, copies the takes of Wireless PRO transmitters from their cards,
names them by transcription, and wipes a card once everything on it is held by
the machine. The last step cannot be undone, and everything before it decides
whether it may happen. The models here are first about that chain: **no take
leaves a card unless the disk has it**, through crashes, lifted and swapped
transmitters, renamed and deleted files, and several threads. Then about the
window: takes recorded while the receiver is unplugged, rows that follow files
renamed by somebody else, a model loaded without a lock, and a shutdown in the
middle of any of it. And about the algorithms everything rests on: reading a
card, copying a take, finding the cards, cutting a take at its markers.

Source paths below are relative to `src/`.

## The system

| Part | State it keeps | Operations | Talks to |
|---|---|---|---|
| Transmitters, charging case (outside the repository) | takes on each card, the one being recorded, block device, hidraw node | record, dock, lift, wipe | read by `card.py`, found by `devices.py`, told by `erase.py` |
| `card.py` | an open FAT32 volume, its serial, `open_takes` | list the takes, copy one and verify it | intake, erase_card |
| `paths.py`, `naming.py`, `job.py`, `orphans.py` | the recordings folder: file names are the only state | choose a free name, rename, find unnamed takes | intake, worker, window, launch |
| `ledger.py` | one JSON file per card: records (digest, folder, prefix) and an annexe of erasures | load, add, note an erasure, locate a file, allow an erase | intake and erase_card, each through an object of its own |
| `intake.py` `intake` | the takes listed, those `seen`, the take in hand | per take: copy, skip, file, record, split, submit; then a verdict | snapshot, ledger, folder |
| `intake.py` `erase_card` | none but its arguments | five refusals, the command, the note | card, ledger, hidraw node |
| `erase.py` | percentages read, a deadline | write the command, read reports to an end | a hidraw node |
| `app.py` `MainWindow` | devices, verdicts, buttons, rows, threads | import, erase, rename, record, poll, close | everything; all on the GUI thread |
| `app.py` `ImportSnapshot` | counters, pending paths, `finished`, verdicts, one lock | queue, drain, finish | import thread and GUI thread |
| `worker.py` | a queue and a thread | submit, stop, one job at a time | GUI thread, `job.name_recording` |
| `bwf.py` | none | cue points, split at markers | intake |
| `devices.py` | none | list hidraw and block nodes, one entry per card | window, erase |
| `recorder.py`, `rx_device.py` | a capture thread, `_rx_lost` | record until stopped or unplugged | window |
| `transcribe.py`, `titler.py`, `cuda.py`, `signal.py`, `wavread.py` | a loaded model | text, title, levels, samples | worker |
| `tools/decouper-marqueurs.py`, `tools/nommer-morceaux.py` | a folder of parts | cut, rejoin, name | `job.py`, `naming.py` |
| `tools/rode-doctor.sh`, `udev/` | none | diagnosis, permissions | |

### What is hard here

* **Time of check, time of use.** An erase looks at the card, then re-hashes
  every local copy (80 s for 30 GB by the README), then looks at the hidraw
  node, then writes. Hands are free throughout.
* **Names that move.** A record finds its file by the prefix of its name; the
  naming worker, the user and a second import all rename or add files.
* **Crashes between two writes.** Copy, final name, ledger, parts, naming are
  five separate effects on the disk.
* **Identity.** hidraw minors, block nodes and take numbers are all reused; only
  the volume serial and the digest are not.
* **Five threads, one lock.** The import thread may touch neither Qt nor the
  queue; the GUI thread fetches from it on a timer. The capture thread, the
  naming worker and the loader of the model share attributes of the window with
  it, without any lock.
* **A list that does not change.** PortAudio lists devices when its context is
  made; a context cannot be made anew while a take is read from it.
* **A device that answers late, wrongly or not at all.**

### What makes each part correct

* Folder and ledger: a record's bytes are under its prefix; no write of the
  ledger loses a record; one record per digest.
* Intake: a complete verdict accounts for every take of the card it names;
  nothing is copied, cut or transcribed twice; parts only of recorded takes; it
  ends whatever fails.
* Erase: only the chosen card, only what is backed; the window comes back.
* Exchange: the answer is true of the card; it ends.
* Hand-over: order kept, nothing twice, nothing forgotten.
* Capture: a take interrupted at any point is written, or its failure is shown;
  only a take that ended by itself is marked; the audio context outlives the
  stream; closing ends.
* Rows: when everything posted has arrived, a row knows where its file is.
* Card reader: what has the final name is the whole take in the order of its
  chain; no file of the directory is passed over; a passing error costs no copy.
* Cutting: every frame in one part, each part at its own time in both places
  that give it, and rejoining gives the take back.

## The modules

| Module | Models | Extends |
|---|---|---|
| `Fleet` | the serials and takes every module speaks of | |
| `Archive` | folder and ledger files, names, `unique_path`, `_target_name`, `has`, `locate`, `erase_allowed` | `Fleet` |
| `Transmitters` | cards, slots, nodes; lift, dock, wipe (external) | `Fleet` |
| `Verdicts` | `ImportSnapshot.verdicts` | `Archive`, `Transmitters` |
| `EraseOutcomes` | how an exchange can end, and what each end may mean for the card | |
| `EraseCard` | `erase_serials`, `_erase_one`, `erase_card` among hands | `Verdicts`, `EraseOutcomes` |
| `Intake` | `start_import`, `intake`, naming and renaming, close, kill, launch | `Verdicts` |
| `Recovery` | both of the above at once, with the buttons that keep them apart | `Intake`, `EraseCard` |
| `EraseHid` | `erase.py` against a transmitter | `EraseOutcomes` |
| `Custody`, `Exchange`, `Delivery` | abstract: what an erase, an exchange and the hand-over promise | `EraseOutcomes` (`Exchange`) |
| `TakeList` | rows, paths, results posted to the GUI thread, renaming by hand | |
| `ModelLoader` | `_start_model_loading`, `_await_model` by two threads, the loader | |
| `NamingQueue` | `worker.py` and `name_recording` in two looks at the file | `TakeList`, `ModelLoader` |
| `ImportHandoff` | `ImportSnapshot`, the timer, `_submit_imported` | `NamingQueue` |
| `Capture` | `record`, the capture thread, plugging, `refresh_device`, `_rescan_devices`, `_finish_capture` | `NamingQueue` |
| `Window` | the whole window over one GUI thread, and `shutdown` | `ImportHandoff`, `Capture` |
| `CardReader` | `Card.takes`, `Card._chain`, `Card.stream`, `copy_verified` | |
| `Discovery` | `find_storage` | |
| `Cutting` | `bwf.py` boundaries and timestamps; the cutting, naming and rejoining tools | |
| `EraseCardProofs`, `EraseHidProofs`, `IntakeProofs`, `WindowProofs`, `DiscoveryProofs`, `CuttingProofs`, `CardReaderProofs` | theorems | each its component |
| `RecoveryProofs` | theorems about the composition | `Recovery`, `EraseCardProofs`, `IntakeProofs` |
| `MC...` | instances for TLC | |

Three choices run through those about cards and files.

*Files.* `files` maps a name to its bytes. A name is `prefix`, `rank`, `tail`
and `nth`: `2026-09/20260908_101500_00002_Name_01_sur_03__titre-2.wav` has the
month, stamp and card name as prefix, rank 1, tail "titre", nth 2. A part's own
stamp, later than its take's, is folded into its rank. A name with no `__` has
lost what a record needs; it has the prefix `Bare`, and its timestamp, which no
property tells apart, is dropped. The provisional `.incoming` and `.part` files
are not in `files`: nothing reads them, and every restart ignores them.

*Takes.* A take stands for its name, size and closing time (what `inventory_of`
compares) together with its bytes; `AudioOf` gives the bytes and two takes may
share them. Digests are bytes: SHA-256 is taken to be injective.

*Transmitters.* Leaving the case starts a recording; docking finalises it, or,
by a cable of its own, may show it still open. A slot is occupied by one
transmitter and a node answers for one. A wipe that follows an `UNKNOWN` answer
is taken to happen at the command (`EraseHid` has it happen later too: `Send`
takes the card as wiped the moment the answer leaves it open).

`EraseCard` abstracts the import to its promise (`KeepTake` is a turn of the
loop that ended well, `Conclude` a verdict over takes the ledger holds), so that
its theorems hold of any import that keeps it. `Recovery` replaces these two by
`Intake` itself. `EraseOutcomes` plays the same part between `EraseHid` and
`EraseCard`: `MayWipe` and `MaySpare` are proved of the exchange by
`AnswersAreTrue` and are all `Send` relies on.

Three abstract specifications say what a part promises to the rest, in a few
lines each, and the detailed modules are shown to implement them by a
refinement mapping:

* `Custody`, by `EraseCard` (`CustodyIsKept`): a card gives up a take only when
  an erase has counted it among the kept ones or it changed since; what was
  counted is not lost unseen. `carried` is what the cards hold, `kept` the takes
  whose bytes some file holds, `counted` those whose digests the erase has
  found, `waived` the history variable `exposed`.
* `Exchange`, by `EraseHid` (`ExchangeIsKept`): one answer, and the card as it
  says, then and later; only an answer that leaves the card open may be followed
  by the wipe.
* `Delivery`, by `Window` (`DeliveryIsKept`): recordings filed by an import are
  served once and in order, and only the youngest are ever given up. What is on
  its way is the job in hand and what is in the queue, in the batch being
  submitted and in the snapshot; the order of these four is what the proof of
  the refinement carries (`InOrder` in `WindowProofs`). `ServedInOrder` is what
  a caller may rely on.

`Window` is one GUI thread over all its parts: an action of `ImportHandoff` or
`Capture` that belongs to it has a value of `gui` as its guard, and the stages of
`_refresh_import`, `_finish_capture` and `shutdown` between which another thread
can act are separate actions. `find_rx` is a parameter of the program: `finder`
is "frozen" for the one `main` gives it and "live" for one that sees the port,
as the tests inject.

Operators commented `Variant:` are the code with one plausible mistake: a guard
dropped, a reset missing, an order swapped. `PROJECT.json` pairs each property
with the variant that breaks it.

### From actions to code

* `EraseCard`: `Click` is `erase_serials` up to the resolved device;
  `OpenForErase` the open, `Card`, `Ledger` and the first four guards;
  `ReadAgain` the freshness look and the open take; `HashCopy` / `HashRefused`
  one digest of `erase_allowed`; `CheckNode` is `_hid_node_for`; `Send` the
  command and its outcome; `Settle` the annexe, the dropped verdict and the way
  back. `exposed` is a history variable: the takes that changed after the check
  that covers them.
* `Intake`: `OpenCard` / `MissCard` per device; per take `SkipTake`,
  `CopyTake`, `CopyFails`; then `FileTake` / `FilingFails`, `RecordTake`,
  `WritePart` for each part, `SubmitParts` / `SubmitWhole`; `GiveVerdict`;
  `AbandonCard` for what leaves the generator. `NameJob` / `NamingFails` are the
  worker, `RenameByHand` the window, `Relaunch` the end of the process (closed
  or killed) with the next launch and its orphans.
* `EraseHid`: one action per branch of the loop, one per thing the transmitter
  may do.
* `ImportHandoff`: `DrainPending`, `SubmitImported`, `TickEnds` are the three
  parts of `_refresh_import` between which the import thread can act.
* `TakeList`: `ApplyName` is the slot of `take_named`; `PickRow` and
  `RenameByHand` are the look at the path and the rename of `rename_take`,
  between which the worker may rename the file.
* `ModelLoader`: the test, the assignment, the start and the join of
  `_await_model` are five steps (`LookForLoader` to `LoaderJoined`), taken by the
  GUI thread and by the worker; `LoadEnds` is the loader with a model or without.
* `NamingQueue`: `TakeJob`, `WorkerAwaits`, `ReadJob`, `RenameJob`, `FinishJob`
  are the stages of `_loop`; `TakeJob` on `STOP` ends the thread.
* `Capture`: `StartCapture`, `StopCapture` are the button; `OpenStream`,
  `RecordReturns`, `ReadFails` the capture thread; `Poll` is `refresh_device`,
  with `PollCapture` during a take; `JoinCapture`, `WriteTake`, `GuiAwaits`,
  `SubmitTake` are `_finish_capture`, from a stop, a poll or a shutdown.
  `WriteFails` is the `write_wav` error that is reported, `FolderFails` the
  `destination_dir` error that is not: it leaves `_finish_capture`.
* `Window`: `Close`, `LeaveImport`, `LeaveQueue` are the stages of `shutdown`.
* `CardReader`: `ListEntry` is a turn of the loop of `takes`, `FullNames` the
  names its sort of the pieces may give (two pieces of one number: either
  first); `Walk` a turn of
  `_chain`; `ReadBlock` one of `stream`; `Rename` and `Retry` end an attempt of
  `copy_verified`; `ReadBadly`, `ReadEmpty` and `StreamRaises` are what may go
  wrong.
* `Discovery`: `ReadHidraw` and `ReadBlockNode` take one entry each.
* `Cutting`: `StartCut`, `WritePart`, `KillCut` are the cut, `Annotate` the
  naming of one part; `StartRejoin` globs and sorts the parts, `JoinPart`
  appends the next one. A part has its time twice, `bext` (`ShiftBext`) and
  `ixml` (`ShiftIxml`).

## The runs

| Run | Properties | Shows |
|---|---|---|
| `erase_card` | `EraseInv`, `WipesOnlyWhatIsBacked`, `OnlyTheChosenCard`, `CustodyIsKept`, `EraseEnds` | an erase among free hands |
| `intake_faults` | `IntakeTypeOK`, `RecordsAreBacked`, `PartsOnlyOfRecorded`, `NeverHeardTwice`, `RecordsAreKept`, `ImportEnds` | kills anywhere, refused folders, failed filings and ledger writes, exceptions that leave `intake` |
| `intake_swap` | `VerdictIsBacked`, `OneRecordPerDigest` | two cards change places in one slot while read; failed copies and splits, an unreadable ledger; identical takes |
| `intake_clean` | `NothingCopiedTwice`, `LedgerFindsItsFile`, `SplitMeansCut` | repeated imports and launches without a kill |
| `recovery` | `NoTakeIsLost`, `LedgerNeverShrinks` | the whole chain, kills included |
| `window` | `WindowTypeOK`, `NothingBehindStop`, `RowsFindTheirFiles`, `NoTakeIsForgotten`, `MarksAreDeserved`, `DeliveryIsKept`, `PendingIsServed`, `ContextOutlivesTheStream`, `FragmentIsWritten`, `ClosingEnds` | five threads, several imports and takes, unplugging, failed reads and writes, renaming, closing at any point |
| `parts` | `CopyIsTheTake`, `FailuresHaveCauses`, `DirectoryIsAccounted`, `CopyEnds` (card reader); `EveryCardIsFound` (discovery); `PartsCoverTheTake`, `PartsTellTheirTime`, `RejoinRestores` (cutting); `HidInv`, `OutcomeTellsTheCard`, `ExchangeIsKept`, `ExchangeEnds` (exchange) | the parts that share no state with the others, each alone: `MCParts` lets one act while the rest have nothing to do |

Five runs are expected to be violated; each checks one sentence of the
repository that the code does not keep.

* `erase_changed_card` (`NeverErasesAChangedCard`): README.md:242 lists "the
  card changed since the import" among the refusals. The card is looked at
  before the re-hashing and not after; a transmitter that goes out and back
  during it is wiped with its new take, if its node comes back under the same
  number. This is the one way found here by which a recording nobody has is
  wiped, and `exposed` in the properties above is exactly its extent.
* `intake_marked_whole` (`RecordsAreBacked`): a take with a marker only at its
  edge is named `decoupee`, not cut, submitted, and automatically renamed
  without its prefix. `ledger.py:63` says the prefix survives every path. The
  copy is safe, the card's lock never opens.
* `intake_unreadable_ledger` (`RecordsAreKept`): an unreadable ledger loads as
  empty and the next record rewrites the file. `ledger.py:92` calls this the
  safe failure; it is for the lock, not for the proofs.
* `window_race` (`EverythingIsHandedOver`): the last paths of an import can be
  queued between the drain and the look at `finished`. They are named at the
  next launch only, as orphans.
* `window_unplugged` (`UnplugEndsTheTake`): README.md:194 says that unplugging
  mid-take writes the fragment and marks it. The poll asks the `find_rx` of
  `main`, which reads the list PortAudio made before the take; it finds the
  receiver for ever. The take is kept when the user stops it, unmarked.
  `MarksAreDeserved` says the second half: with that `find_rx` none is marked.

The passing runs draw the line around these: `intake_faults` and `intake_clean`
cut every marked take, `RecordsAreKept` is checked where the ledger can be read,
`PendingIsServed` is about paths the window can still see, and
`FragmentIsWritten` is about a `find_rx` that sees the port.

Three properties stop at a fault the code does not survive whole, and are
checked without it: after a kill between the final name and the ledger,
`NothingCopiedTwice` fails (the take is filed again); after a kill or an error
between the record and the last part, `SplitMeansCut` fails (the next import
skips the take and never cuts it); after an error midway through a split,
`NeverHeardTwice` fails (the take is transcribed whole and its first parts at
the next launch). None of them costs audio. `RejoinRestores` excepts a cut that
was killed and a second cut after a naming, and `RowsFindTheirFiles` a row given
a text with no letter in it; see the next section.

### Other divergences met, without a run

* A part cut by the import is named with a timestamp first, so that the anchored
  pattern of `decouper-marqueurs.py:183` never matches it, while
  `tests/test_job.py:263` and `job.py:62` speak of rejoining such parts.
* A hundred parts or more cannot be rejoined: two digits are matched
  (`MaxNumber` in `Cutting`).
* Rejoining a part shorter than its header never ends: `decouper-marqueurs.py:207`
  has not the `if not block` of the cut (`Endless` in `Cutting`).
* Cutting again after parts were named leaves both sets in the folder, and
  rejoining them gives the audio twice.
* `nommer-morceaux.py` on a recorded take left `<stamp>_sans-nom.wav` gives
  `<stamp>_sans-nom__slug`, though its documentation says that a name never
  carries the placeholder and a real name at once.
* A title that slugs to nothing is `sans-nom`, an orphan again at every launch
  (`job.py:149`).
* A row renamed to a text with no letter or digit keeps its file's name and is
  held to be renamed by hand (`app.py:722`): it no longer hears of the name the
  worker gives (`blanked` in `TakeList`).
* A take whose month folder cannot be made is lost without a word:
  `destination_dir` (`app.py:788`) is called outside the `try` of
  `_finish_capture`, nothing is written and the window shows nothing, while the
  docstring of `shutdown` says "A capture in progress is written" (`app.py:826`).
  While closing, the same error skips the rest of `shutdown`, which is not tried
  again. `FolderFails` in `Capture`; it is the one exception of
  `NoTakeIsForgotten`.
* `card.py:244` says of `copy_verified` "One retry: a passing USB error is
  plausible"; an `OSError` of the device leaves it at once, with no second
  attempt, there being no `except` (`card.py:250`). What is retried is a short, an
  empty or a spoilt transfer. `FailuresHaveCauses` says both.
* The iXML of a part cut from the command line is shifted on its low number
  alone, with no carry (`_shift_ixml`, `decouper-marqueurs.py:109`): once the low
  half wraps it holds a number over 32 bits and disagrees with the bext, though
  `decouper-marqueurs.py:19` says that each part's "timestamp is shifted so it
  stays correct". `PartsTellTheirTime` says exactly when.
* `_chain` would not come back from a cyclic table; `CardReaderAssumption`
  excludes one.

### Bounds

* Two transmitters, one slot: every card that arrives takes the place of the
  other, which is the hazard. `erase_card` has two nodes so that a card can come
  back under another. The theorems have no such bound.
* Two or three takes: one per card and one to be recorded during the erase
  (`erase_card`); one with markers and one without (`intake_faults`,
  `intake_clean`); two with the same bytes (`intake_swap`); one take per import
  and one that arrives meanwhile (`recovery`).
* `MaxRank` parts per take: 2 where the order and number of parts matters, 1 or
  0 elsewhere. `MaxNth` names per collision: 2, so that a second file of the
  same name is made and found; 1 where names do not matter.
* `MaxLaunches` 1: an import, an end at any step, and everything again.
* `Faults` names what may go wrong in a run.
* `Patience` 3 reads to the deadline, `MaxNoise` 2 unrelated reports, three
  percentages: each branch of the loop is taken before and after each other.
* `MaxPaths`, `MaxTakes`, `MaxOrphans`: how many recordings of each origin there
  can be at all, which fixes their numbers; the theorems hold for any three.
* `Sessions` (`window`): what one run of the application may meet, each a record
  within these bounds (`Session`): two imported recordings, in one import or two;
  one that the user renames; two takes; one take that cannot be written, for want
  of the file or of its folder, renamed if it could; one whose reads fail; an
  import and a take together; a take beside a recording found unnamed at launch,
  with no audio context. Two takes are enough for a flag left by the first to
  reach the second, two recordings for an order to be broken, and one of each
  for the worker and the window to want the model at once.
* `Layouts` (`parts`): every directory of four entries of eight kinds, and every
  acyclic table of four clusters of two bytes with files of one to four and a
  half clusters, read three bytes at a time, so that reads end inside, at and
  across clusters and runs. `MaxFaults` 2 is `Attempts`: both may fail.
* `Machines`: two cards on up to three block nodes or two hidraw nodes; one card
  by three nodes, with the case's in any place.
* `Recordings`: every three markers on three frames, inside, at the edges, past
  the end, repeated, more announced than there are; up to four parts where two
  digits are taken to write three. `Word` 4 makes the low half of the timestamp
  wrap inside a recording.

`CHECK_DEADLOCK FALSE` where the system may stop: the application is closed and
not started again, the exchange is over, or all takes have been made and wiped.

### Fairness

* `WF(EraseStep)`: the erase is straight-line code on the GUI thread.
* `WF(ImportStep)`, `WF(Worker)`: a running thread goes on; each is one thread,
  so one condition on all its steps. Nothing is assumed of hands, of the user or
  of a new launch.
* `WF(Loop)` in `EraseHid`: each system call returns, `node.read` by its own
  timeout. Nothing is assumed of the transmitter. `ExchangeEnds` needs
  `MaxNoise`: unrelated reports push the deadline back, and a node that never
  stopped talking would hold the window.
* `SF(GuiTicks)`, `SF(GuiPolls)`: a Qt timer that is due again and again is
  served, though the GUI thread is busy in between. `WF(GuiFinishes)`,
  `WF(Shutdown)`: the GUI thread goes on with what it began.
* `WF(UserRenamesRow /\ gui = "renaming")`: a rename that was begun is finished.
* `WF(WorkerRuns)`, `WF(CaptureRuns)`, `WF(LoaderRuns)`: each thread runs, and
  `load_model` returns or raises. The joins of `_finish_capture` have no bound,
  so that `ClosingEnds` rests on the last one. Nothing is assumed of the import
  thread: it may outlive the window.
* `WF(Copy)` in `parts`: the copy goes on. Nothing is assumed of its faults.

## The proofs

Each theorem holds for every value of the constants that the named assumptions
of the modules allow: any set of transmitters, slots, nodes, takes and names,
any number of recordings, takes and orphans, any table, markers, percentages,
patience. The assumptions say what the constants are (sets that are apart,
functions that are functions, entries of a directory that are entries) and one
thing of the world: `NoCycle`, that a card's table has no cycle. Every inductive
invariant named here was checked by TLC on the run of its module before it was
proved.

The theorems are of five kinds: type correctness; the safety invariants and
action properties the runs check, every one of them; the refinements of the three
abstract specifications, `Custody` twice; what follows from a refinement for its
caller (`ImportsAreServedInOrder`, `WhatIsCountedIsKept`); and, for the four
programs whose end a run checks under fairness, that no step turns back (see
*What comes to an end*).

### Erase (`EraseCardProofs`)

* `EraseInvariant`: `EraseSpec => []EraseInv`.
* `EraseTypes`, `ErasesOnlyWhatIsBacked`, `ErasesOnlyTheChosenCard`,
  `AnnexeKeepsTheRecords`, from it.
* `EraseKeepsCustody`: `EraseSpec => CustodyIsKept`, the refinement. Every action
  maps to a step of `Custody` or a stutter under `EraseInv`: hands to `Move` or
  `Lose`, `Click` to `Begin`, `HashCopy` to `Count`, the command and every way
  out to `Release`.

`WipesOnlyWhatIsBacked` is not inductive: it speaks of the one step that wipes,
while the reasons were established several steps earlier and have to survive
whatever hands did since. `EraseInv` carries them. `LookCovers` is what the
freshness look leaves (the card holds what the verdict lists, or what came
since), `HashCovers` what each hashed copy leaves (to be hashed, safe, or
spoiled since), `NodeCovers` what the node check leaves; `VerdictsAccount` links
the inventory to the digests hashed, `TakesStayApart` and `NodesStayApart` make
a take and a node mean one card, and `HeldIsTheLedger` says the erase's copy of
the ledger still is the file, which is why writing the annexe loses nothing. The
proof has one lemma per action; the three refusals share one (`Refusing`), and
`OnlySendWipes` reduces the action properties to `Send`.

`VerdictsAccount` allows a complete verdict whose digests are not those of what
it lists, provided the card never again is what it lists: that is what a card
that changed places while it was read leaves behind, and what makes the theorems
about an erase hold after the real import and not only after a perfect one. It
stands, with `TakesStayApart`, in `Verdicts`, the module the import and the erase
share.

### Import (`IntakeProofs`)

`IntakeInv` is inductive under every fault of `FaultKinds`, with kills between
any two steps. `CardInHand`: the card being read is where it was opened and the
digests are those of the takes seen, or it was *overtaken* (it left its slot, so
that it holds a take the list has not). `TakeInHand`: the take was read from it
and is new to the ledger until it is recorded. From it, without any hypothesis:

* `IntakeTypes`, `DigestsHaveOneRecord`;
* `VerdictsAreBacked`: a verdict is wrong about the bytes only of a card that no
  erase will match again.

The other properties are false under some fault, and each theorem names, as its
hypothesis, the faults that have to be absent; the runs of the property meet it.

| Theorem | Hypotheses | Without them |
|---|---|---|
| `RecordedTakesAreHeld` (`RecordsAreBacked`) | `MarkedTakesAreCut` | run `intake_marked_whole`; a split that raises gives such a name too |
| `LedgersKeepTheirRecords` (`RecordsAreKept`) | `LedgersLoad` | run `intake_unreadable_ledger` |
| `PartsComeAfterTheRecord` (`PartsOnlyOfRecorded`) | `LedgersLoad` | the record is lost by that same rewriting, the part stays |
| `TakesAreHeardOneWay` (`NeverHeardTwice`) | `MarkedTakesAreCut`, `ReadsAreTrue`, `PrefixTellsTheCut` | an error midway through a split |
| `TakesAreCopiedOnce` (`NothingCopiedTwice`) | `LedgersLoad`, `NothingInterrupts`, `ReadsAreTrue`, `TakesDiffer` | a kill between the final name and the ledger; the bytes of two cards in one file |
| `RecordsFindTheirFiles` (`LedgerFindsItsFile`) | `MarkedTakesAreCut`, `LedgersLoad`, `NothingInterrupts`, `ReadsAreTrue`, `TakesDiffer`, `PrefixesDiffer` | two takes under one prefix: the glob finds either |
| `SplitsAreFinished` (`SplitMeansCut`) | `MarkedTakesAreCut`, `NothingInterrupts` | a kill between the record and the last part |

`MarkedTakesAreCut` is that every take with a marker has one to cut at and that
no split raises; `LedgersLoad` that no ledger file is unreadable;
`NothingInterrupts` that the process is not killed in an import and each record
is written; `ReadsAreTrue` that no card takes another's place under the reader;
`TakesDiffer`, `PrefixesDiffer` and `PrefixTellsTheCut` that bytes, prefix, or
prefix as to markers, tell takes apart. What holds these up is a chain:
`NamesCanBeGiven` (what is queued for naming has a placeholder to replace, so
that its prefix stays), then `RecordedIsHeld`, `RecordsAreLoaded`,
`PartsAreRecorded`, `HeardOneWay`, `CopiedOnce`, `NamesAreTheirs`, `SplitIsCut`,
each inductive over `IntakeInv` and the ones it names. The three writers of the
folder besides the import (worker, window, launch) are seen through one lemma on
what a step does to the disk (`WhatTouchesTheDisk`).

The attempt to prove the types found the type of `heard` wrong: a file renamed by
hand to a name without a prefix, and left a placeholder, is transcribed as one
at the next launch.

### The whole life of a take (`RecoveryProofs`)

`RecoveryInvariant` joins `EraseInv` and `IntakeInv`. Neither proof knows of the
other's steps; what keeps them apart is `ImportBarsErase`: while an import runs
there is no erase and no button to begin one with. Each step of the one is shown
to keep the invariant of the other. From it `NothingIsLost`, the first claim of
this project with nothing assumed of the import, under all of its faults; and
`LedgersOnlyGrow`, where the ledger can be read: neither writer of a ledger takes
back what the other recorded.

`RecoveryKeepsCustody` is the refinement of `EraseKeepsCustody` once more, of the
whole system: with the import, the naming, the renaming and the restarts in the
place of `KeepTake` and `Conclude`, every step is still one of `Custody`. Filing a
take only adds to what is kept (`FilingLosesNothing`), and happens while no erase
counts; a file renamed in the middle of the hashing keeps its bytes
(`NamingKeepsCustody`); a process that ends in the middle of an erase gives the
count up and loses nothing (`RestartingKeepsCustody`). `WhatIsCountedIsKept` draws
the consequence a user may rely on: at every moment of the whole system, each take
an erase has counted is in some file, or was spoiled since.

### Window (`WindowProofs`)

A step of the window is one of some thirty, by five threads. Six *frame* lemmas
(`ModelFrame`, `QueueFrame`, `ListFrame`, `ImportFrame`, `CaptureFrame`,
`GuiFrame`) say which of them touch each group of variables; every later proof
takes its cases from the one it needs.

* `WindowTypes`. The types need `LoaderSlots` (the two callers that test and
  make a loader without a lock make at most two: what bounds `waitsFor`) and
  `TakeCounted`.
* `StopComesLast`, from `StopIsLast`: what ends the queue is its last item, and
  only once the window has nothing more to submit.
* `StreamsKeepTheirContext`, from `OneRecording`: one take at most is in memory,
  the current one, and none once the window leaves. `TakesAreAccounted`, from it
  and `TakesAccount`: a take that is kept has its file and its row then and for
  good, through any naming and renaming, and one is dropped only where a folder
  can fail to be made.
* `MarksAreEarned`, from `MarksInv`: why each way to a mark implies a receiver
  that went or a read that failed, one step of the capture thread or of the poll
  after the other.
* `RowsAreRight`, from `RowsInv`. `RowsFindTheirFiles` speaks of rows at rest;
  `RowTrue` says what is on its way to a row that is not: a file queued is still
  provisional, the last result posted tells the truth, and a row is wrong only
  while such a result is under way. `OneNaming` makes these results one per
  recording, `Ahead` and `RowsBegin` that nobody knows of a recording before its
  row.
* `HandingOverIsDelivered`: `WindowSpec => DeliveryIsKept`. `InOrder` says that
  the queue, the batch and the snapshot each hold imports in the order of their
  filing, and that what is in one is older than what is in the next. Then
  `QueueSubmit` maps to `File`, `FinishJob` of an import to `Serve`,
  `StartImport` to `GiveUp` where an earlier import left paths in its snapshot,
  and every other step to a stutter: moving from one container to the next is
  none of the caller's business. `ImportsAreServedInOrder` draws the consequence.

### The parts

* `EraseHidProofs`: `HidInvariant`, `HidTypes` and `AnswersAreTrue`. `HidInv` is
  the types and `FirmwareAgrees`: reports on the wire tell the truth about the
  card, and a refusal on it means that the firmware is done. `HidKeepsExchange`
  is the refinement: an answer is given once (`HostAnswersOnce`), and the
  transmitter works only while none was given or one that leaves the card open
  (`DeviceWorksInTime`), which is where a card refused and then wiped would show.
* `CardReaderProofs`: `CopiesAreTheTakes` and `CopiesFailForCause`. `ReaderInv`
  says of each byte streamed which cluster it comes from (`StreamIsTrue`: byte
  *i* is in cluster `(i - 1) \div ClusterSize + 1` of the chain), that clusters
  read in one run follow each other in the chain as well, where the stream is
  (`PositionIsTrue`), and that each attempt but the last met its fault
  (`FaultsAccount`).

  `DirectoryAccounted`: every file of the directory is a take under the name its
  own pieces spell, in its place, or is counted open. `DirectoryInv` says of the
  entries read so far which take each gave (the *k*-th file with bytes gave the
  *k*-th take) and that the pieces in hand are those right ahead of the next
  entry (`PiecesAreLast`), which is where a piece left over from a deleted entry
  would name the wrong file. Counting entries up to *n* against *n + 1*
  (`OneMore`) takes the place of an induction over the directory.

  `ChainsEnd`: a chain visits no cluster twice (`ChainIsSimple`: the clusters
  from a repetition to the next would be a cycle), so that it is shorter than
  the card.
* `DiscoveryProofs`: `CardsAreFound`. `DiscoveryInv` says of the entries read so
  far what `EveryCardIsFound` says of all.
* `CuttingProofs`: `TakesAreCovered` (each frame is between the greatest boundary
  below it and the least above: `BoundsCover`), `PartsAreTimed` (two halves
  and a carry are one number, `Timed`; one number has one pair of halves,
  `HalvesAreUnique`, which is why the iXML agrees until the low half wraps and
  never after) and `RejoiningRestores`. The last has an
  invariant about the folder, `FolderInv`: each part is one segment of the
  recording (`PartsFit`), what a cut has left is at the end (`CutFromTheStart`),
  each segment has one part unless a second cut followed a naming
  (`OnePartEach`), and all of its frames unless a cut was killed
  (`PassedIsWritten`); and one about the joining, `JoinedInOrder`: what is joined
  so far is the recording up to an edge, and what remains are the parts from
  that edge on. The next part by name is the next by rank (`NamesSortByRank`)
  and a rank is the number of boundaries up to it (`RankIsTheCount`), hence the
  next by time.

### What comes to an end

`EraseEnds`, `ImportEnds`, `CopyEnds` and `ExchangeEnds` are checked under
fairness. What they rest on besides fairness is safety and is proved: that every
step of the program comes nearer its end by a measure that cannot go on, and
that nothing else in the system takes it back.

| Theorem | Measure, most significant first | Beside it |
|---|---|---|
| `EraseNeverTurnsBack` | the stage; the digests to hash | hands |
| `ImportNeverTurnsBack` | cards to open, at the card or not, takes to read, the stage of the take in hand, parts written (at most `MaxRank`) | naming, renaming, closing, carrying |
| `CopyNeverTurnsBack` | attempts (at most `Attempts`), bytes left, runs (at most one more than the chain); the chain, by `ChainsEnd` | nothing |
| `ExchangeNeverTurnsBack` | `Budget`: reports on the wire and those that can still come; reads to the deadline (at most `Patience`) | the transmitter |

The last is the one that is not obvious: reports push the deadline back, so that
the host can wait at most `Patience` reads for each of them. There are at most as
many as unrelated reports (`MaxNoise`), one refusal, and percentages up to
`COMPLETE` not told yet (`Untold`): percentages rise, and after the last one the
transmitter reports nothing more (`LastIsUntold`). That percentages
rise is an assumption about the firmware (`Tell`), and needed: `erase.py` has a
deadline between reports (`erase.py:123`) and none on the whole.

What is missing for the liveness properties themselves is that a step is possible
(`ENABLED`) and is taken (fairness).

### Only model-checked

* The liveness properties: `EraseEnds`, `ImportEnds`, `ExchangeEnds`, `CopyEnds`
  (their measures are proved, see above), `PendingIsServed`, `FragmentIsWritten`,
  `ClosingEnds`. The prover does not handle `ENABLED`, hence neither fairness.
* The five violations, which are counterexamples.

Every other property of a passing run is proved.

## Not modelled

* Speech recognition, titles, CUDA, signal levels: what they return is a
  nondeterministic slug, and the load of the model a thread that ends with it or
  without. Sample arithmetic is not a matter of state.
* Formats: boot sector, character sets and dates of a card, chunk layout of a
  WAV, JSON of a ledger, sysfs text, report bytes.
* The status line, the counters of the snapshot, levels and colours.
* The diagnostic script and the udev rules: they read, print and grant.
* Choosing a free name and taking it are one step everywhere. `unique_path`
  (`job.py:81`) looks, and `rename` replaces without a word: two of the worker,
  the window and the import that are given one free name lose a recording. It
  takes the same prefix and slug at one instant; it is listed as a hazard, with
  no property.
* A directory or an allocation table that is read short: `DirectoryIsAccounted` is
  about one read whole. What lies in the folders of a card: the listing skips them
  without counting them, on purpose (`card.py:154`).
* The high half of a timestamp that overflows: `struct.pack` would raise; it is
  2^64 frames. Of the iXML text of a part, all but the two numbers of its time.
* That the transmitter tells percentages after the work they speak of: it is how
  `erase.py` reads them, and an assumption about the firmware (`Tell`).
* Bytes that a card returns wrong with the right length: nothing on the card says
  otherwise, and the hash is of what was read.
* A second instance of the application: nothing in the code prevents one and
  nothing in it expects one.

## What could follow

1. `unique_path` and the rename that follows as two steps of the worker, the
   window and the import. Of the hazards no property covers it is the one whose
   outcome is not settled by reading; the others are listed with what the code
   does.
2. `ModelLoader` and `Capture` against abstract specifications of their own (a
   model loaded at most once per loader; a take written or shown), as `Delivery`
   is for the hand-over.
3. A measure for the shutdown of the window, as the four above: what `ClosingEnds`
   rests on besides fairness.

---------------------------- MODULE WindowProofs ----------------------------
(***************************************************************************)
(* Proofs about Window for every number of recordings and takes: the types *)
(* and the bound on loaders, that nothing is queued behind the end, that   *)
(* no take is forgotten, that marks are deserved, that a stream outlives   *)
(* no context, that rows find their files, and that handing an import over *)
(* implements Delivery.                                                    *)
(***************************************************************************)
EXTENDS Window, FiniteSetTheorems, TLAPS

\* The threads a caller may still make: it found no loader.
Unclaimed(c) == IF asking[c] = "none" THEN 1 ELSE 0

\* Two callers cannot make more than two loaders, unlocked as they are.
LoaderSlots ==
  /\ loader = 0 => loads = <<>>
  /\ Len(loads) + Unclaimed("gui") + Unclaimed("worker") <= 2

\* Where there is a take, one was started.
TakeCounted ==
  capture # "none" \/ gui \in {"stopping", "writing", "awaiting"}
    => takes >= 1

WindowTypeInv == WindowTypeOK /\ LoaderSlots /\ TakeCounted

LEMMA ItemFacts ==
  /\ Imported \subseteq Nat \ {0} /\ Captured \subseteq Nat \ {0}
  /\ Orphan \subseteq Nat \ {0} /\ Item \subseteq Nat \ {0}
  /\ Imported \cap Captured = {} /\ Imported \cap Orphan = {}
  /\ Captured \cap Orphan = {} /\ STOP \notin Item
BY SessionsAssumption, NamingQueueAssumption DEF Imported, Captured, Orphan, Item

LEMMA TakeCaptured ==
  ASSUME NEW t \in 1..MaxTakes
  PROVE  MaxPaths + t \in Captured /\ MaxPaths + t \in Item
BY SessionsAssumption DEF Captured, Item

LEMMA CurrentCaptured ==
  ASSUME takes \in 1..MaxTakes
  PROVE  Current \in Captured /\ Current \in Item
BY TakeCaptured DEF Current

Asking == {"no", "asked", "none", "assigned", "started", "joining", "given", "raised"}

LEMMA AtFacts ==
  ASSUME NEW c \in Caller, asking \in [Caller -> Asking],
         NEW here \in Asking, NEW there \in Asking, At(c, here, there)
  PROVE  /\ asking' \in [Caller -> Asking]
         /\ asking[c] = here /\ asking'[c] = there
         /\ \A d \in Caller : d # c => asking'[d] = asking[d]
BY DEF At

\* The loader of the model alone: one step of a caller keeps its types.
LEMMA AwaitKeeps ==
  ASSUME NEW c \in Caller, ModelTypeOK, LoaderSlots, AwaitStep(c)
  PROVE  /\ ModelTypeOK' /\ LoaderSlots'
         /\ asking[c] # "no" /\ asking'[c] # "no"
         /\ \A d \in Caller : d # c => asking'[d] = asking[d]
<1> DEFINE N(x) == IF x = "none" THEN 1 ELSE 0
           Kept(here, there) ==
             /\ asking' \in [Caller -> Asking]
             /\ asking[c] = here /\ asking'[c] = there
             /\ \A d \in Caller : d # c => asking'[d] = asking[d]
<1>t. /\ loads \in Seq({"made", "running", "ended"}) /\ Len(loads) <= 2
      /\ loader \in 0..Len(loads)
      /\ asking \in [Caller -> Asking] /\ waitsFor \in [Caller -> 0..Len(loads)]
  BY DEF ModelTypeOK, Asking
<1>s. /\ loader = 0 => loads = <<>>
      /\ Len(loads) + N(asking["gui"]) + N(asking["worker"]) <= 2
  BY DEF LoaderSlots, Unclaimed
<1>c. c = "gui" \/ c = "worker"
  BY DEF Caller
<1>g. ASSUME /\ loads' \in Seq({"made", "running", "ended"}) /\ Len(loads') <= 2
             /\ loader' \in 0..Len(loads')
             /\ asking' \in [Caller -> Asking] /\ waitsFor' \in [Caller -> 0..Len(loads')]
             /\ loader' = 0 => loads' = <<>>
             /\ Len(loads') + N(asking'["gui"]) + N(asking'["worker"]) <= 2
      PROVE  ModelTypeOK' /\ LoaderSlots'
  BY <1>g DEF ModelTypeOK, LoaderSlots, Unclaimed, Asking
<1>1. CASE LookForLoader(c)
  <2>1. CASE loader = 0 /\ At(c, "asked", "none")
    <3>1. Kept("asked", "none")
      BY <2>1, <1>t, AtFacts DEF Asking
    <3> QED BY <3>1, <2>1, <1>1, <1>t, <1>s, <1>c, <1>g DEF LookForLoader, Caller
  <2>2. CASE loader # 0 /\ At(c, "asked", "started")
    <3>1. Kept("asked", "started")
      BY <2>2, <1>t, AtFacts DEF Asking
    <3> QED BY <3>1, <2>2, <1>1, <1>t, <1>s, <1>c, <1>g DEF LookForLoader, Caller
  <2> QED BY <1>1, <2>1, <2>2 DEF LookForLoader
<1>2. CASE MakeLoader(c)
  <2>1. Kept("none", "assigned")
    BY <1>2, <1>t, AtFacts DEF Asking, MakeLoader
  <2>2. /\ Len(loads') = Len(loads) + 1 /\ loader' = Len(loads')
        /\ loads' \in Seq({"made", "running", "ended"})
    BY <1>2, <1>t DEF MakeLoader
  <2>3. Len(loads') + N(asking'["gui"]) + N(asking'["worker"]) <= 2
    <3>1. /\ N(asking[c]) = 1 /\ N(asking'[c]) = 0
          /\ \A d \in Caller : d # c => N(asking'[d]) = N(asking[d])
      BY <2>1
    <3>2. N(asking["gui"]) \in Nat /\ N(asking["worker"]) \in Nat
      OBVIOUS
    <3>3. CASE c = "gui"
      <4>1. N(asking'["gui"]) = 0 /\ N(asking["gui"]) = 1
        BY <3>1, <3>3
      <4>2. N(asking'["worker"]) = N(asking["worker"])
        BY <3>1, <3>3 DEF Caller
      <4> HIDE DEF N
      <4> QED BY <4>1, <4>2, <3>2, <2>2, <1>s, <1>t
    <3>4. CASE c = "worker"
      <4>1. N(asking'["worker"]) = 0 /\ N(asking["worker"]) = 1
        BY <3>1, <3>4
      <4>2. N(asking'["gui"]) = N(asking["gui"])
        BY <3>1, <3>4 DEF Caller
      <4> HIDE DEF N
      <4> QED BY <4>1, <4>2, <3>2, <2>2, <1>s, <1>t
    <3> QED BY <3>3, <3>4, <1>c
  <2>4. waitsFor' \in [Caller -> 0..Len(loads')]
    BY <1>2, <2>2, <1>t DEF MakeLoader
  <2> QED BY <2>1, <2>2, <2>3, <2>4, <1>2, <1>t, <1>g DEF MakeLoader
<1>3. CASE StartLoader(c)
  <2>0. /\ loads' \in Seq({"made", "running", "ended"}) /\ Len(loads') = Len(loads)
        /\ loads = <<>> => loads' = <<>>
    BY <1>3, <1>t DEF StartLoader
  <2>1. \E there \in {"started", "raised"} : Kept("assigned", there)
    BY <1>3, <1>t, AtFacts DEF Asking, StartLoader
  <2> QED BY <2>0, <2>1, <1>3, <1>t, <1>s, <1>c, <1>g DEF StartLoader, Caller
<1>4. CASE JoinLoader(c)
  <2>0. waitsFor' \in [Caller -> 0..Len(loads)]
    BY <1>4, <1>t DEF JoinLoader
  <2>1. \E there \in {"joining", "raised"} : Kept("started", there)
    BY <1>4, <1>t, AtFacts DEF Asking, JoinLoader
  <2> QED BY <2>0, <2>1, <1>4, <1>t, <1>s, <1>c, <1>g DEF JoinLoader, Caller
<1>5. CASE LoaderJoined(c)
  <2>0. waitsFor' \in [Caller -> 0..Len(loads)]
    BY <1>5, <1>t DEF LoaderJoined
  <2>1. Kept("joining", "given")
    BY <1>5, <1>t, AtFacts DEF Asking, LoaderJoined
  <2> QED BY <2>0, <2>1, <1>5, <1>t, <1>s, <1>c, <1>g DEF LoaderJoined, Caller
<1> QED BY <1>1, <1>2, <1>3, <1>4, <1>5 DEF AwaitStep

\* Who touches the loader of the model.
LEMMA ModelFrame ==
  ASSUME [WindowNext]_vars
  PROVE  \/ UNCHANGED modelVars
         \/ GuiFinishes /\ GuiAwaits
         \/ GuiFinishes /\ SubmitTake
         \/ GuiFinishes /\ WriteTake
         \/ WorkerRuns /\ TakeJob
         \/ WorkerRuns /\ WorkerAwaits
         \/ WorkerRuns /\ ReadJob
         \/ LoaderRuns /\ LoadEnds
BY DEF WindowNext, vars, GuiTicks, GuiPolls, GuiFinishes, GuiApplies, Beside,
  UserImports, UserRenamesRow, UserRenames, UserRecords, ReceiverMoves,
  ImportRuns, WorkerRuns, CaptureRuns, LoaderRuns, Shutdown, Tick, FinishStep,
  Worker, CaptureThread, workerAll, StartImport, QueueSubmit, MarkFinished,
  DrainPending, SubmitImported, TickEnds, Poll, JoinCapture, WriteFails, FolderFails, LeaveTake,
  ApplyName, PickRow, RenameByHand, StartCapture, StopCapture, Close,
  LeaveImport, LeaveQueue, RenameJob, FinishJob, OpenStream, RecordReturns, ReadFails,
  Plug, Unplug

\* Who touches the naming queue and its worker.
LEMMA QueueFrame ==
  ASSUME [WindowNext]_vars
  PROVE  \/ UNCHANGED queueVars
         \/ GuiTicks /\ SubmitImported
         \/ GuiFinishes /\ SubmitTake
         \/ LeaveImport
         \/ WorkerRuns /\ TakeJob
         \/ WorkerRuns /\ ReadJob
         \/ WorkerRuns /\ RenameJob
         \/ WorkerRuns /\ FinishJob
BY DEF WindowNext, vars, GuiTicks, GuiPolls, GuiFinishes, GuiApplies, Beside,
  UserImports, UserRenamesRow, UserRenames, UserRecords, ReceiverMoves,
  ImportRuns, WorkerRuns, CaptureRuns, LoaderRuns, Shutdown, Tick, FinishStep,
  Worker, CaptureThread, workerAll, StartImport, QueueSubmit, MarkFinished,
  DrainPending, TickEnds, Poll, JoinCapture, WriteTake, WriteFails, FolderFails, LeaveTake, GuiAwaits,
  ApplyName, PickRow, RenameByHand, StartCapture, StopCapture, Close,
  LeaveQueue, WorkerAwaits, OpenStream, RecordReturns, ReadFails, LoadEnds, Plug, Unplug

\* Who touches files, rows and what is posted to them.
LEMMA ListFrame ==
  ASSUME [WindowNext]_vars
  PROVE  \/ UNCHANGED <<session, listVars>>
         \/ GuiTicks /\ SubmitImported
         \/ ImportRuns /\ QueueSubmit
         \/ GuiFinishes /\ WriteTake
         \/ GuiApplies
         \/ UserRenamesRow /\ \E i \in Item : PickRow(i)
         \/ UserRenamesRow /\ RenameByHand
         \/ WorkerRuns /\ RenameJob
         \/ WorkerRuns /\ FinishJob
BY DEF WindowNext, vars, GuiTicks, GuiPolls, GuiFinishes, GuiApplies, Beside,
  UserImports, UserRenamesRow, UserRenames, UserRecords, ReceiverMoves,
  ImportRuns, WorkerRuns, CaptureRuns, LoaderRuns, Shutdown, Tick, FinishStep,
  Worker, CaptureThread, workerAll, StartImport, MarkFinished, DrainPending,
  TickEnds, Poll, JoinCapture, WriteFails, FolderFails, LeaveTake, GuiAwaits, SubmitTake, StartCapture,
  StopCapture, Close, LeaveImport, LeaveQueue, TakeJob, WorkerAwaits, ReadJob,
  OpenStream, RecordReturns, ReadFails, LoadEnds, Plug, Unplug

\* Who touches the import and its snapshot.
LEMMA ImportFrame ==
  ASSUME [WindowNext]_vars
  PROVE  \/ UNCHANGED importVars
         \/ UserImports /\ StartImport
         \/ ImportRuns /\ QueueSubmit
         \/ ImportRuns /\ MarkFinished
         \/ GuiTicks /\ DrainPending
         \/ GuiTicks /\ SubmitImported
         \/ GuiTicks /\ TickEnds
         \/ LeaveImport
         \/ Close
BY DEF WindowNext, vars, GuiTicks, GuiPolls, GuiFinishes, GuiApplies, Beside,
  UserImports, UserRenamesRow, UserRenames, UserRecords, ReceiverMoves,
  ImportRuns, WorkerRuns, CaptureRuns, LoaderRuns, Shutdown, Tick, FinishStep,
  Worker, CaptureThread, workerAll, Poll, JoinCapture, WriteTake, WriteFails, FolderFails, LeaveTake,
  GuiAwaits, SubmitTake, ApplyName, PickRow, RenameByHand, StartCapture,
  StopCapture, LeaveQueue, TakeJob, WorkerAwaits, ReadJob, RenameJob, FinishJob,
  OpenStream, RecordReturns, ReadFails, LoadEnds, Plug, Unplug

\* Who touches the take and its receiver.
LEMMA CaptureFrame ==
  ASSUME [WindowNext]_vars
  PROVE  \/ UNCHANGED captureVars
         \/ GuiPolls
         \/ GuiFinishes /\ JoinCapture
         \/ GuiFinishes /\ WriteTake
         \/ GuiFinishes /\ (WriteFails \/ FolderFails)
         \/ UserRecords /\ StartCapture
         \/ UserRecords /\ StopCapture
         \/ Close
         \/ LeaveQueue
         \/ CaptureRuns /\ OpenStream
         \/ CaptureRuns /\ (RecordReturns \/ ReadFails)
         \/ ReceiverMoves /\ Plug
         \/ ReceiverMoves /\ Unplug
BY DEF WindowNext, vars, GuiTicks, GuiPolls, GuiFinishes, GuiApplies, Beside,
  UserImports, UserRenamesRow, UserRenames, UserRecords, ReceiverMoves,
  ImportRuns, WorkerRuns, CaptureRuns, LoaderRuns, Shutdown, Tick, FinishStep,
  Worker, CaptureThread, workerAll, StartImport, QueueSubmit, MarkFinished,
  DrainPending, SubmitImported, TickEnds, GuiAwaits, SubmitTake, ApplyName,
  PickRow, RenameByHand, LeaveImport, TakeJob, WorkerAwaits, ReadJob, RenameJob,
  FinishJob, LoadEnds

\* A session does not change.
LEMMA SessionKept ==
  ASSUME [WindowNext]_vars
  PROVE  session' = session
BY DEF WindowNext, vars, GuiTicks, GuiPolls, GuiFinishes, GuiApplies, Beside,
  UserImports, UserRenamesRow, UserRecords, ReceiverMoves, ImportRuns, WorkerRuns,
  CaptureRuns, LoaderRuns, Shutdown, Close, LeaveImport, LeaveQueue

\* Where the GUI thread moves.
LEMMA GuiFrame ==
  ASSUME [WindowNext]_vars
  PROVE  \/ UNCHANGED <<gui, closing>>
         \/ GuiTicks /\ DrainPending
         \/ GuiTicks /\ TickEnds
         \/ GuiPolls
         \/ GuiFinishes /\ JoinCapture
         \/ GuiFinishes /\ WriteTake
         \/ GuiFinishes /\ (WriteFails \/ FolderFails)
         \/ GuiFinishes /\ SubmitTake
         \/ UserRenamesRow /\ \E i \in Item : PickRow(i)
         \/ UserRenamesRow /\ RenameByHand
         \/ UserRecords /\ StopCapture
         \/ Close
         \/ LeaveImport
         \/ LeaveQueue
BY DEF WindowNext, vars, GuiTicks, GuiPolls, GuiFinishes, GuiApplies, Beside,
  UserImports, UserRenamesRow, UserRenames, UserRecords, ReceiverMoves,
  ImportRuns, WorkerRuns, CaptureRuns, LoaderRuns, Shutdown, Tick, FinishStep,
  Worker, CaptureThread, workerAll, StartImport, QueueSubmit, MarkFinished,
  SubmitImported, GuiAwaits, ApplyName, StartCapture, TakeJob, WorkerAwaits,
  ReadJob, RenameJob, FinishJob, OpenStream, RecordReturns, ReadFails, LoadEnds, Plug,
  Unplug

LEMMA FlagsKept == Flags \subseteq BOOLEAN /\ [WindowNext]_vars => (Flags \subseteq BOOLEAN)'
<1> SUFFICES ASSUME Flags \subseteq BOOLEAN, [WindowNext]_vars
             PROVE  (Flags \subseteq BOOLEAN)'
  OBVIOUS
<1>1. model' \in BOOLEAN
  BY ModelFrame, Zenon DEF Flags, modelVars, LoaderRuns, GuiAwaits, SubmitTake, WriteTake,
    TakeJob, WorkerAwaits, ReadJob, LoadEnds, AwaitStep, LookForLoader, MakeLoader,
    StartLoader, JoinLoader, LoaderJoined
<1>2. named' \in BOOLEAN
  BY QueueFrame, Zenon DEF Flags, queueVars, GuiTicks, SubmitImported, SubmitTake,
    LeaveImport, TakeJob, ReadJob, JobFails, RenameJob, FinishJob
<1>3. finished' \in BOOLEAN /\ timer' \in BOOLEAN
  BY ImportFrame, Zenon DEF Flags, importVars, StartImport, QueueSubmit, MarkFinished,
    DrainPending, SubmitImported, TickEnds, LeaveImport, Close
<1>4. /\ plugged' \in BOOLEAN /\ context' \in BOOLEAN /\ listed' \in BOOLEAN
      /\ stop' \in BOOLEAN /\ audio' \in BOOLEAN /\ rxLost' \in BOOLEAN
  BY CaptureFrame, Zenon DEF Flags, captureVars, GuiPolls, Poll, PollCapture, PollIdle,
    Found, Rescan, JoinCapture, WriteTake, WriteFails, FolderFails, LeaveTake, StartCapture, StopCapture,
    Finish, Close, LeaveQueue, OpenStream, RecordReturns, ReadFails, Plug, Unplug
<1>5. closing' \in BOOLEAN
  BY GuiFrame, Zenon DEF Flags, GuiPolls, DrainPending, TickEnds, Poll, JoinCapture,
    WriteTake, WriteFails, FolderFails, LeaveTake, SubmitTake, PickRow, UserRenamesRow, RenameByHand,
    StopCapture, Close, LeaveImport, LeaveQueue
<1> QED BY <1>1, <1>2, <1>3, <1>4, <1>5, Zenon DEF Flags

LEMMA ModelKept ==
  ASSUME WindowTypeInv, [WindowNext]_vars
  PROVE  /\ ModelTypeOK' /\ LoaderSlots'
         /\ asking'["worker"] # "no" => asking["worker"] # "no" \/ TakeJob
<1> USE DEF WindowTypeInv, WindowTypeOK
<1>1. CASE GuiAwaits
  BY <1>1, AwaitKeeps DEF GuiAwaits, Caller
<1>2. CASE WorkerAwaits
  BY <1>2, AwaitKeeps DEF WorkerAwaits, Caller
<1>3. CASE LoadEnds
  <2>1. /\ loads' \in Seq({"made", "running", "ended"}) /\ Len(loads') = Len(loads)
        /\ loads = <<>> => loads' = <<>>
    BY <1>3 DEF LoadEnds, ModelTypeOK
  <2> QED BY <2>1, <1>3 DEF LoadEnds, ModelTypeOK, LoaderSlots, Unclaimed
<1>4. CASE TakeJob
  BY <1>4 DEF TakeJob, ModelTypeOK, LoaderSlots, Unclaimed, Caller, NamingQueueTypeOK
<1>5. CASE ReadJob
  BY <1>5 DEF ReadJob, At, ModelTypeOK, LoaderSlots, Unclaimed, Caller
<1>6. CASE WriteTake
  BY <1>6 DEF WriteTake, ModelTypeOK, LoaderSlots, Unclaimed, Caller
<1>7. CASE SubmitTake
  BY <1>7 DEF SubmitTake, At, ModelTypeOK, LoaderSlots, Unclaimed, Caller
<1>8. CASE UNCHANGED modelVars
  BY <1>8 DEF modelVars, ModelTypeOK, LoaderSlots, Unclaimed
<1> QED BY ModelFrame, <1>1, <1>2, <1>3, <1>4, <1>5, <1>6, <1>7, <1>8

LEMMA QueueKept ==
  ASSUME WindowTypeInv, [WindowNext]_vars
  PROVE  NamingQueueTypeOK'
<1> USE DEF WindowTypeInv, WindowTypeOK
<1>a. asking'["worker"] # "no" => asking["worker"] # "no" \/ TakeJob
  BY ModelKept
<1>i. STOP \notin Item /\ Imported \subseteq Item /\ 0 \notin Item
  BY ItemFacts DEF Item
<1>1. CASE GuiTicks /\ SubmitImported
  <2>1. Head(batch) \in Item
    BY <1>1, <1>i DEF SubmitImported, ImportHandoffTypeOK
  <2>2. UNCHANGED modelVars
    BY <1>1 DEF SubmitImported
  <2> QED BY <1>1, <2>1, <2>2 DEF SubmitImported, Submit, NamingQueueTypeOK, modelVars
<1>2. CASE GuiFinishes /\ SubmitTake
  <2>1. Current \in Item
    BY <1>2, CurrentCaptured DEF SubmitTake, TakeCounted, CaptureTypeOK
  <2>2. asking'["worker"] = asking["worker"]
    BY <1>2 DEF SubmitTake, At, ModelTypeOK, Caller
  <2>3. /\ queue' \in Seq(Item \cup {STOP})
        /\ worker' = worker \/ (worker = "none" /\ worker' = "waiting")
    BY <1>2, <2>1 DEF SubmitTake, Submit, NamingQueueTypeOK
  <2>4. UNCHANGED <<job, served>>
    BY <1>2 DEF SubmitTake
  <2> QED BY <2>2, <2>3, <2>4 DEF NamingQueueTypeOK
<1>3. CASE LeaveImport
  BY <1>3 DEF LeaveImport, NamingQueueTypeOK, modelVars
<1>4. CASE WorkerRuns /\ TakeJob
  BY <1>4, <1>i DEF TakeJob, NamingQueueTypeOK, ModelTypeOK, Caller
<1>5. CASE WorkerRuns /\ ReadJob
  BY <1>5 DEF ReadJob, At, JobFails, NamingQueueTypeOK, ModelTypeOK, Caller
<1>6. CASE WorkerRuns /\ RenameJob
  BY <1>6 DEF RenameJob, JobFails, NamingQueueTypeOK, modelVars
<1>7. CASE WorkerRuns /\ FinishJob
  BY <1>7 DEF FinishJob, NamingQueueTypeOK, modelVars
<1>8. CASE UNCHANGED queueVars
  <2>1. ~TakeJob
    BY <1>8, <1>i DEF TakeJob, queueVars, NamingQueueTypeOK
  <2> QED BY <1>8, <1>a, <2>1 DEF queueVars, NamingQueueTypeOK
<1> QED BY QueueFrame, <1>1, <1>2, <1>3, <1>4, <1>5, <1>6, <1>7, <1>8

LEMMA ListKept ==
  ASSUME WindowTypeInv, [WindowNext]_vars
  PROVE  TakeListTypeOK'
<1> USE DEF WindowTypeInv, WindowTypeOK, Given
<1>g. gui' \in Gui /\ session' \in Sessions /\ (gui' = "renaming" <=> picked' # 0)
  <2>1. gui' \in Gui
    BY GuiFrame DEF GuiPolls, DrainPending, TickEnds, Poll, PollCapture, PollIdle, Finish,
      JoinCapture, Done, WriteTake, WriteFails, FolderFails, LeaveTake, Raise, SubmitTake, PickRow,
      UserRenamesRow, RenameByHand, StopCapture, Close, LeaveImport, LeaveQueue,
      TakeListTypeOK, Gui
  <2>2. session' \in Sessions
    BY SessionKept DEF TakeListTypeOK
  <2>3. gui' = "renaming" <=> picked' # 0
    <3>1. CASE UserRenamesRow /\ \E i \in Item : PickRow(i)
      BY <3>1, ItemFacts DEF PickRow
    <3>2. CASE UserRenamesRow /\ RenameByHand
      BY <3>2 DEF RenameByHand
    <3>3. CASE ~(UserRenamesRow /\ \E i \in Item : PickRow(i))
               /\ ~(UserRenamesRow /\ RenameByHand)
      <4>1. picked' = picked
        BY <3>3, ListFrame DEF listVars, SubmitImported, QueueSubmit, WriteTake, GuiApplies,
          ApplyName, RenameJob, FinishJob
      <4>2. gui' = "renaming" <=> gui = "renaming"
        BY <3>3, GuiFrame DEF GuiPolls, DrainPending, TickEnds, Poll, PollCapture, PollIdle,
          Finish, JoinCapture, Done, WriteTake, WriteFails, FolderFails, LeaveTake, Raise, SubmitTake, StopCapture,
          Close, LeaveImport, LeaveQueue
      <4> QED BY <4>1, <4>2 DEF TakeListTypeOK
    <3> QED BY <3>1, <3>2, <3>3
  <2> QED BY <2>1, <2>2, <2>3
<1>i. Imported \subseteq Item /\ 0 \notin Item /\ made \in Nat
  BY ItemFacts, SessionsAssumption DEF Item, ImportHandoffTypeOK
<1>1. CASE GuiTicks /\ SubmitImported
  <2>1. Head(batch) \in Item
    BY <1>1, <1>i DEF SubmitImported, ImportHandoffTypeOK
  <2> QED BY <1>1, <1>g, <2>1 DEF SubmitImported, AddRow, TakeListTypeOK
<1>2. CASE ImportRuns /\ QueueSubmit
  BY <1>2, <1>g DEF QueueSubmit, TakeListTypeOK
<1>3. CASE GuiFinishes /\ WriteTake
  BY <1>3, <1>g DEF WriteTake, AddRow, TakeListTypeOK
<1>4. CASE GuiApplies
  <2>1. Head(posted) \in [item : Item, name : Given, ok : BOOLEAN]
    <3> DEFINE Told == [item : Item, name : Given, ok : BOOLEAN]
    <3>1. posted \in Seq(Told) /\ posted # <<>>
      BY <1>4 DEF GuiApplies, ApplyName, TakeListTypeOK
    <3> HIDE DEF Told
    <3>2. Head(posted) \in Told
      BY <3>1
    <3> QED BY <3>2 DEF Told
  <2>2. /\ posted' \in Seq([item : Item, name : Given, ok : BOOLEAN])
        /\ row' \in [Item -> Given \cup {"none"}]
        /\ UNCHANGED <<file, manual, picked, blanked>>
    BY <1>4, <2>1 DEF GuiApplies, ApplyName, TakeListTypeOK
  <2> QED BY <2>2, <1>g DEF TakeListTypeOK
<1>5. CASE UserRenamesRow /\ \E i \in Item : PickRow(i)
  BY <1>5, <1>g DEF PickRow, TakeListTypeOK
<1>6. CASE UserRenamesRow /\ RenameByHand
  BY <1>6, <1>g DEF RenameByHand, TakeListTypeOK
<1>7. CASE WorkerRuns /\ RenameJob
  BY <1>7, <1>g DEF RenameJob, JobFails, TakeListTypeOK
<1>8. CASE WorkerRuns /\ FinishJob
  <2>1. named \in BOOLEAN
    BY Zenon DEF Flags
  <2>2. job \in Item
    BY <1>8 DEF FinishJob, NamingQueueTypeOK
  <2>3. posted' \in Seq([item : Item, name : Given, ok : BOOLEAN])
    BY <1>8, <2>1, <2>2 DEF FinishJob, TakeListTypeOK
  <2> QED BY <1>8, <1>g, <2>3 DEF FinishJob, TakeListTypeOK
<1>9. CASE UNCHANGED <<session, listVars>>
  BY <1>9, <1>g DEF listVars, TakeListTypeOK
<1> QED BY ListFrame, <1>1, <1>2, <1>3, <1>4, <1>5, <1>6, <1>7, <1>8, <1>9

LEMMA HandoffKept ==
  ASSUME WindowTypeInv, [WindowNext]_vars
  PROVE  ImportHandoffTypeOK'
<1> USE DEF WindowTypeInv, WindowTypeOK
<1>1. CASE UserImports /\ StartImport
  BY <1>1 DEF StartImport, ImportHandoffTypeOK
<1>2. CASE ImportRuns /\ QueueSubmit
  <2>1. session.paths \in 0..MaxPaths
    BY SessionsAssumption DEF TakeListTypeOK, Session
  <2>2. made' \in 0..MaxPaths /\ made' \in Imported
    BY <1>2, <2>1, SessionsAssumption DEF QueueSubmit, ImportHandoffTypeOK, Imported
  <2> QED BY <1>2, <2>2 DEF QueueSubmit, ImportHandoffTypeOK
<1>3. CASE ImportRuns /\ MarkFinished
  BY <1>3 DEF MarkFinished, ImportHandoffTypeOK
<1>4. CASE GuiTicks /\ DrainPending
  BY <1>4 DEF DrainPending, ImportHandoffTypeOK
<1>5. CASE GuiTicks /\ SubmitImported
  BY <1>5 DEF SubmitImported, ImportHandoffTypeOK
<1>6. CASE GuiTicks /\ TickEnds
  BY <1>6 DEF TickEnds, ImportHandoffTypeOK
<1>7. CASE LeaveImport
  BY <1>7 DEF LeaveImport, ImportHandoffTypeOK
<1>8. CASE Close
  <2>1. UNCHANGED importVars /\ gui # "handing" /\ gui' # "handing"
    BY <1>8 DEF Close, Finish
  <2> QED BY <2>1 DEF importVars, ImportHandoffTypeOK
<1>9. CASE UNCHANGED importVars
  <2>1. CASE gui' = gui
    BY <1>9, <2>1 DEF importVars, ImportHandoffTypeOK
  <2>2. CASE gui' # gui /\ gui # "handing" /\ gui' # "handing"
    BY <1>9, <2>2 DEF importVars, ImportHandoffTypeOK
  <2>3. CASE gui' # gui /\ ~(gui # "handing" /\ gui' # "handing")
    <3>1. DrainPending \/ TickEnds
      BY <2>3, GuiFrame DEF GuiPolls, Poll, PollCapture, PollIdle, Finish, JoinCapture,
        Done, WriteTake, WriteFails, FolderFails, LeaveTake, Raise, SubmitTake, PickRow, UserRenamesRow,
        RenameByHand, StopCapture, Close, LeaveImport, LeaveQueue
    <3>2. CASE DrainPending
      BY <3>2 DEF DrainPending, ImportHandoffTypeOK
    <3>3. CASE TickEnds
      BY <3>3 DEF TickEnds, ImportHandoffTypeOK
    <3> QED BY <3>1, <3>2, <3>3
  <2> QED BY <2>1, <2>2, <2>3
<1> QED BY ImportFrame, <1>1, <1>2, <1>3, <1>4, <1>5, <1>6, <1>7, <1>8, <1>9

LEMMA AskingKept ==
  ASSUME WindowTypeInv, [WindowNext]_vars
  PROVE  asking'["gui"] # "no" <=> gui' = "awaiting"
<1> USE DEF WindowTypeInv, WindowTypeOK
<1>1. CASE GuiFinishes /\ GuiAwaits
  BY <1>1, AwaitKeeps DEF GuiAwaits, Caller
<1>2. CASE GuiFinishes /\ WriteTake
  BY <1>2 DEF WriteTake, ModelTypeOK, Caller
<1>3. CASE GuiFinishes /\ SubmitTake
  BY <1>3 DEF SubmitTake, At, Done, Raise, ModelTypeOK, Caller
<1>4. CASE ~(GuiFinishes /\ (GuiAwaits \/ WriteTake \/ SubmitTake))
  <2>1. asking'["gui"] = asking["gui"]
    <3>1. CASE WorkerRuns /\ WorkerAwaits
      BY <3>1, AwaitKeeps DEF WorkerAwaits, Caller
    <3>2. CASE ~(WorkerRuns /\ WorkerAwaits)
      BY <3>2, <1>4, ModelFrame DEF modelVars, TakeJob, ReadJob, At, LoadEnds, ModelTypeOK,
        Caller
    <3> QED BY <3>1, <3>2
  <2>2. gui' = "awaiting" <=> gui = "awaiting"
    BY <1>4, GuiFrame DEF GuiPolls, DrainPending, TickEnds, Poll, PollCapture, PollIdle,
      Finish, JoinCapture, Done, WriteFails, FolderFails, LeaveTake, Raise, PickRow, UserRenamesRow,
      RenameByHand, StopCapture, Close, LeaveImport, LeaveQueue
  <2> QED BY <2>1, <2>2
<1> QED BY <1>1, <1>2, <1>3, <1>4

LEMMA CaptureKept ==
  ASSUME WindowTypeInv, [WindowNext]_vars
  PROVE  CaptureTypeOK' /\ TakeCounted'
<1> USE DEF WindowTypeInv, WindowTypeOK
<1>c. capture # "none" \/ gui \in {"stopping", "writing", "awaiting"}
        => Current \in Captured /\ takes \in 1..MaxTakes
  BY CurrentCaptured, SessionsAssumption DEF TakeCounted, CaptureTypeOK
<1>1. CASE GuiPolls
  BY <1>1 DEF GuiPolls, Poll, PollCapture, PollIdle, Finish, CaptureTypeOK, TakeCounted
<1>2. CASE GuiFinishes /\ JoinCapture
  BY <1>2, <1>c DEF JoinCapture, Done, CaptureTypeOK, TakeCounted, Fate
<1>3. CASE GuiFinishes /\ WriteTake
  BY <1>3, <1>c DEF WriteTake, CaptureTypeOK, TakeCounted, Fate
<1>4. CASE GuiFinishes /\ (WriteFails \/ FolderFails)
  BY <1>4, <1>c DEF WriteFails, FolderFails, LeaveTake, Done, Raise, CaptureTypeOK, TakeCounted, Fate
<1>5. CASE UserRecords /\ StartCapture
  <2>1. session.takes \in 0..MaxTakes
    BY SessionsAssumption DEF TakeListTypeOK, Session
  <2>2. takes' \in 0..MaxTakes /\ takes' >= 1
    BY <1>5, <2>1, SessionsAssumption DEF StartCapture, CaptureTypeOK
  <2>3. Current' \in Captured
    <3>1. Current' = MaxPaths + takes'
      BY DEF Current
    <3>2. takes' \in 1..MaxTakes
      BY <2>2, SessionsAssumption
    <3> QED BY <3>1, <3>2, TakeCaptured
  <2> QED BY <1>5, <2>2, <2>3 DEF StartCapture, CaptureTypeOK, TakeCounted, Fate
<1>6. CASE UserRecords /\ StopCapture
  BY <1>6 DEF StopCapture, Finish, CaptureTypeOK, TakeCounted
<1>7. CASE Close
  BY <1>7 DEF Close, Finish, CaptureTypeOK, TakeCounted
<1>8. CASE LeaveQueue
  BY <1>8 DEF LeaveQueue, CaptureTypeOK, TakeCounted
<1>9. CASE CaptureRuns /\ OpenStream
  BY <1>9 DEF OpenStream, CaptureTypeOK, TakeCounted
<1>10. CASE CaptureRuns /\ (RecordReturns \/ ReadFails)
  BY <1>10, <1>c DEF RecordReturns, ReadFails, CaptureTypeOK, TakeCounted
<1>11. CASE ReceiverMoves /\ Plug
  BY <1>11 DEF Plug, CaptureTypeOK, TakeCounted
<1>12. CASE ReceiverMoves /\ Unplug
  BY <1>12, <1>c DEF Unplug, CaptureTypeOK, TakeCounted
<1>13. CASE UNCHANGED captureVars
  <2>1. CASE gui' = gui \/ gui' \notin {"stopping", "writing", "awaiting"}
    BY <1>13, <2>1 DEF captureVars, CaptureTypeOK, TakeCounted
  <2>2. CASE ~(gui' = gui \/ gui' \notin {"stopping", "writing", "awaiting"})
    <3>1. JoinCapture \/ WriteTake \/ (UserRecords /\ StopCapture) \/ Close \/ GuiPolls
      BY <2>2, GuiFrame DEF DrainPending, TickEnds, WriteFails, FolderFails, LeaveTake, Done, Raise, SubmitTake,
        PickRow, UserRenamesRow, RenameByHand, LeaveImport, LeaveQueue
    <3>2. CASE JoinCapture
      BY <3>2, <1>13 DEF JoinCapture, captureVars, CaptureTypeOK, TakeCounted
    <3>3. CASE WriteTake
      <4>1. gui = "writing" /\ gui' = "awaiting"
        BY <3>3 DEF WriteTake
      <4> QED BY <4>1, <1>13 DEF captureVars, CaptureTypeOK, TakeCounted
    <3> QED BY <3>1, <3>2, <3>3, <1>1, <1>6, <1>7
  <2> QED BY <2>1, <2>2
<1> QED BY CaptureFrame, <1>1, <1>2, <1>3, <1>4, <1>5, <1>6, <1>7, <1>8, <1>9, <1>10,
  <1>11, <1>12, <1>13

LEMMA WindowTypeInit == WindowInit => WindowTypeInv
<1> SUFFICES ASSUME WindowInit PROVE WindowTypeInv
  OBVIOUS
<1> USE DEF WindowInit
<1>1. ModelTypeOK /\ LoaderSlots /\ \A c \in Caller : asking[c] = "no"
  <2>1. /\ loads = <<>> \/ loads = <<"running">>
        /\ loader = Len(loads) /\ waitsFor = [c \in Caller |-> 0]
        /\ asking = [c \in Caller |-> "no"]
    BY DEF CaptureInit, ModelInit
  <2>2. loads \in Seq({"made", "running", "ended"}) /\ Len(loads) \in 0..1
        /\ (Len(loads) = 0 => loads = <<>>)
    <3>1. CASE loads = <<>>
      BY <3>1
    <3>2. CASE loads = <<"running">>
      <4>1. loads \in Seq({"made", "running", "ended"}) /\ Len(loads) = 1
        BY <3>2
      <4> QED BY <4>1
    <3> QED BY <2>1, <3>1, <3>2
  <2>3. asking["gui"] = "no" /\ asking["worker"] = "no"
    BY <2>1 DEF Caller
  <2>4. ModelTypeOK
    BY <2>1, <2>2 DEF ModelTypeOK
  <2>5. Unclaimed("gui") = 0 /\ Unclaimed("worker") = 0
    BY <2>3 DEF Unclaimed
  <2>6. LoaderSlots
    BY <2>1, <2>2, <2>5 DEF LoaderSlots
  <2> QED BY <2>1, <2>4, <2>6
<1>2. TakeListTypeOK
  BY ItemFacts DEF TakeListInit, TakeListTypeOK, Gui, Given, Item
<1>3. NamingQueueTypeOK
  <2>1. Unnamed \subseteq Item
    BY DEF Unnamed, Item
  <2>2. IsFiniteSet(Unnamed) /\ Cardinality(Unnamed) \in Nat
    <3>1. IsFiniteSet(Orphan)
      BY SessionsAssumption, FS_Interval DEF Orphan
    <3> QED BY <3>1, FS_Subset, FS_CardinalityType DEF Unnamed
  <2>3. queue \in Seq(Item \cup {STOP})
    BY <2>1, <2>2 DEF NamingQueueInit
  <2> QED BY <1>1, <2>3, ItemFacts DEF NamingQueueInit, NamingQueueTypeOK, Caller
<1>4. ImportHandoffTypeOK
  BY SessionsAssumption DEF TakeListInit, ImportHandoffInit, ImportHandoffTypeOK
<1>5. CaptureTypeOK /\ TakeCounted
  BY SessionsAssumption DEF TakeListInit, CaptureInit, CaptureTypeOK, TakeCounted, Fate
<1>6. Flags \subseteq BOOLEAN
  BY Zenon DEF Flags, TakeListInit, NamingQueueInit, ImportHandoffInit, CaptureInit, ModelInit
<1>7. asking["gui"] # "no" <=> gui = "awaiting"
  BY <1>1 DEF TakeListInit, Caller
<1> QED BY <1>1, <1>2, <1>3, <1>4, <1>5, <1>6, <1>7 DEF WindowTypeInv, WindowTypeOK

LEMMA WindowTypeStep == WindowTypeInv /\ [WindowNext]_vars => WindowTypeInv'
<1> SUFFICES ASSUME WindowTypeInv, [WindowNext]_vars PROVE WindowTypeInv'
  OBVIOUS
<1>1. (Flags \subseteq BOOLEAN)'
  BY FlagsKept DEF WindowTypeInv, WindowTypeOK
<1> QED
  BY <1>1, ModelKept, QueueKept, ListKept, HandoffKept, CaptureKept, AskingKept
  DEF WindowTypeInv, WindowTypeOK

LEMMA WindowTypesHold == WindowSpec => []WindowTypeInv
BY WindowTypeInit, WindowTypeStep, PTL DEF WindowSpec

\* The types of the window, whatever the number of recordings and takes: among
\* them, that two callers who load the model without a lock make two loaders at
\* the most, that whoever waits for it is at the point where it is waited for,
\* and that a take being stopped has been told to.
THEOREM WindowTypes == WindowSpec => []WindowTypeOK
<1>1. WindowTypeInv => WindowTypeOK
  BY DEF WindowTypeInv
<1> QED BY <1>1, WindowTypesHold, PTL

-----------------------------------------------------------------------------
(* The end of the queue. *)

StopIsLast ==
  \A k \in DOMAIN queue :
    queue[k] = STOP => k = Len(queue) /\ gui \in {"draining", "gone"}

LEMMA StopIsLastStep ==
  ASSUME WindowTypeInv, StopIsLast, [WindowNext]_vars
  PROVE  StopIsLast'
<1> USE DEF StopIsLast
<1>t. /\ queue \in Seq(Item \cup {STOP}) /\ STOP \notin Item
      /\ batch \in Seq(Imported) /\ Imported \subseteq Item
      /\ gui = "awaiting" => Current \in Item
  <2>1. gui = "awaiting" => takes \in 1..MaxTakes
    BY SessionsAssumption DEF WindowTypeInv, WindowTypeOK, TakeCounted, CaptureTypeOK
  <2> QED BY <2>1, CurrentCaptured, ItemFacts
      DEF WindowTypeInv, WindowTypeOK, NamingQueueTypeOK, ImportHandoffTypeOK, Item
<1>1. CASE GuiTicks /\ SubmitImported
  <2>1. Head(batch) \in Item /\ queue' = Append(queue, Head(batch)) /\ gui = "handing"
    BY <1>1, <1>t DEF SubmitImported, Submit
  <2> QED BY <2>1, <1>t
<1>2. CASE GuiFinishes /\ SubmitTake
  <2>1. /\ queue' = queue \/ queue' = Append(queue, Current)
        /\ Current \in Item /\ gui = "awaiting"
    BY <1>2, <1>t DEF SubmitTake, Submit
  <2> QED BY <2>1, <1>t
<1>3. CASE LeaveImport
  <2>1. /\ queue' = queue \/ queue' = Append(queue, STOP)
        /\ gui = "leaving" /\ gui' = "draining"
    BY <1>3 DEF LeaveImport
  <2> QED BY <2>1, <1>t
<1>4. CASE WorkerRuns /\ TakeJob
  <2>1. queue # <<>> /\ queue' = Tail(queue) /\ gui' = gui
    BY <1>4 DEF TakeJob, WorkerRuns
  <2> QED BY <2>1, <1>t
<1>5. CASE UNCHANGED queue
  <2>1. gui \in {"draining", "gone"} => gui' \in {"draining", "gone"}
    BY GuiFrame DEF DrainPending, TickEnds, GuiPolls, Poll, JoinCapture, WriteTake, WriteFails, FolderFails, LeaveTake,
      SubmitTake, PickRow, UserRenamesRow, RenameByHand, StopCapture, Close, LeaveImport,
      LeaveQueue
  <2> QED BY <2>1, <1>5
<1> QED BY QueueFrame, <1>1, <1>2, <1>3, <1>4, <1>5 DEF queueVars, ReadJob, RenameJob, FinishJob

\* Nothing is queued behind the item that ends the queue: shutdown puts it
\* there once no import is handed over and no take stopped any more.
THEOREM StopComesLast == WindowSpec => []NothingBehindStop
<1>1. WindowInit => StopIsLast
  <2> SUFFICES ASSUME WindowInit PROVE StopIsLast
    OBVIOUS
  <2>1. Unnamed \subseteq Item /\ STOP \notin Item
    BY ItemFacts DEF Unnamed, Item
  <2>2. \A k \in DOMAIN queue : queue[k] \in Unnamed
    BY DEF WindowInit, NamingQueueInit
  <2> QED BY <2>1, <2>2 DEF StopIsLast
<1>2. WindowTypeInv /\ StopIsLast /\ [WindowNext]_vars => StopIsLast'
  BY StopIsLastStep
<1>3. WindowTypeInv /\ StopIsLast => NothingBehindStop
  BY DEF WindowTypeInv, WindowTypeOK, NamingQueueTypeOK, StopIsLast, NothingBehindStop
<1> QED BY <1>1, <1>2, <1>3, WindowTypesHold, PTL DEF WindowSpec

-----------------------------------------------------------------------------
(* Takes. *)

\* At most one take is in memory, the one whose thread runs or whose file is
\* being written, and none once the window has been closed.
OneRecording ==
  /\ \A t \in Captured :
       fate[t] = "recording" => t = Current /\ (capture # "none" \/ gui = "writing")
  /\ gui \in {"leaving", "draining", "gone"} => capture = "none"

LEMMA OneRecordingStep ==
  ASSUME WindowTypeInv, OneRecording, [WindowNext]_vars
  PROVE  OneRecording'
<1> USE DEF OneRecording
<1>t. /\ fate \in [Captured -> Fate]
      /\ gui \in {"writing", "awaiting"} => capture = "none"
      /\ gui = "stopping" => capture # "none"
  BY DEF WindowTypeInv, WindowTypeOK, CaptureTypeOK
<1>1. CASE GuiPolls
  BY <1>1 DEF GuiPolls, Poll, PollCapture, PollIdle, Finish, Current
<1>2. CASE GuiFinishes /\ JoinCapture
  BY <1>2, <1>t DEF JoinCapture, Done, Current
<1>3. CASE GuiFinishes /\ WriteTake
  BY <1>3, <1>t DEF WriteTake, Current
<1>4. CASE GuiFinishes /\ (WriteFails \/ FolderFails)
  BY <1>4, <1>t DEF WriteFails, FolderFails, LeaveTake, Done, Raise, Current
<1>5. CASE UserRecords /\ StartCapture
  BY <1>5, <1>t DEF StartCapture, Current
<1>6. CASE UserRecords /\ StopCapture
  BY <1>6 DEF StopCapture, Finish, Current
<1>7. CASE Close
  BY <1>7 DEF Close, Finish, Current
<1>8. CASE LeaveQueue
  BY <1>8 DEF LeaveQueue, Current
<1>9. CASE CaptureRuns /\ OpenStream
  BY <1>9 DEF OpenStream, Current
<1>10. CASE CaptureRuns /\ (RecordReturns \/ ReadFails)
  BY <1>10 DEF RecordReturns, ReadFails, Current
<1>11. CASE ReceiverMoves /\ Plug
  BY <1>11 DEF Plug, Current
<1>12. CASE ReceiverMoves /\ Unplug
  BY <1>12 DEF Unplug, Current
<1>13. CASE UNCHANGED captureVars
  <2>1. UNCHANGED <<fate, capture, takes>>
    BY <1>13 DEF captureVars
  <2>2. CASE gui' = gui
    BY <2>1, <2>2 DEF Current
  <2>3. CASE SubmitTake
    BY <2>1, <2>3, <1>t DEF SubmitTake, Done, Raise, Current
  <2>4. CASE LeaveImport
    BY <2>1, <2>4 DEF LeaveImport, Current
  <2>5. CASE gui # "writing" /\ gui' \in {"handing", "polling", "free", "renaming"}
    BY <2>1, <2>5 DEF Current
  <2> QED BY <1>1, <1>2, <1>3, <1>4, <1>6, <1>7, <1>8, <2>2, <2>3, <2>4, <2>5, GuiFrame
      DEF DrainPending, TickEnds, PickRow, UserRenamesRow, RenameByHand
<1> QED BY CaptureFrame, <1>1, <1>2, <1>3, <1>4, <1>5, <1>6, <1>7, <1>8, <1>9, <1>10,
  <1>11, <1>12, <1>13

LEMMA OneRecordingHolds == WindowSpec => []OneRecording
<1>1. WindowInit => OneRecording
  BY DEF WindowInit, TakeListInit, CaptureInit, OneRecording
<1>2. WindowTypeInv /\ OneRecording /\ [WindowNext]_vars => OneRecording'
  BY OneRecordingStep
<1> QED BY <1>1, <1>2, WindowTypesHold, PTL DEF WindowSpec

LEMMA HeadIsIn == ASSUME NEW S, NEW s \in Seq(S), s # <<>> PROVE Head(s) \in S
OBVIOUS

\* Rows and files do not go away.
LEMMA RowsStay ==
  ASSUME WindowTypeInv, [WindowNext]_vars, NEW t \in Captured
  PROVE  /\ row[t] # "none" => row'[t] # "none"
         /\ file[t] # "absent" => file'[t] # "absent"
<1>t. /\ row \in [Item -> Given \cup {"none"}] /\ file \in [Item -> Given \cup {"absent"}]
      /\ posted \in Seq([item : Item, name : Given, ok : BOOLEAN]) /\ t \in Item
  BY DEF WindowTypeInv, WindowTypeOK, TakeListTypeOK, Item
<1> USE DEF Given
<1>1. CASE GuiApplies
  <2>1. posted # <<>>
    BY <1>1 DEF GuiApplies, ApplyName
  <2>2. Head(posted) \in [item : Item, name : Given, ok : BOOLEAN]
    BY <1>t, <2>1, HeadIsIn
  <2>3. Head(posted).name # "none"
    BY <2>2
  <2>4. UNCHANGED file /\ (row' = row \/ row' = [row EXCEPT ![Head(posted).item] = Head(posted).name])
    BY <1>1 DEF GuiApplies, ApplyName
  <2> QED BY <1>t, <2>3, <2>4
<1>2. CASE ~GuiApplies
  BY <1>2, <1>t, ListFrame DEF listVars, SubmitImported, QueueSubmit, WriteTake, PickRow,
    RenameByHand, RenameJob, FinishJob, AddRow
<1> QED BY <1>1, <1>2

\* Each take started is in memory, or accounted for.
TakesAccount == \A t \in Captured : t <= Current => fate[t] = "recording" \/ Accounted(t)

LEMMA TakesAccountStep ==
  ASSUME WindowTypeInv, TakesAccount, [WindowNext]_vars
  PROVE  TakesAccount'
<1> SUFFICES ASSUME NEW t \in Captured, (t <= Current)'
             PROVE  (fate[t] = "recording" \/ Accounted(t))'
  BY DEF TakesAccount
<1>t. /\ fate \in [Captured -> Fate] /\ takes \in Nat /\ MaxPaths \in Nat /\ t \in Nat
      /\ gui = "writing" => Current \in Captured
  BY SessionsAssumption, CurrentCaptured, ItemFacts
  DEF WindowTypeInv, WindowTypeOK, CaptureTypeOK, TakeCounted
<1>r. /\ row[t] # "none" => row'[t] # "none"
      /\ file[t] # "absent" => file'[t] # "absent"
      /\ session' = session
  BY RowsStay, SessionKept
<1>1. CASE UserRecords /\ StartCapture
  BY <1>1, <1>t, <1>r DEF StartCapture, Current, TakesAccount, Accounted
<1>2. CASE GuiFinishes /\ JoinCapture
  BY <1>2, <1>t, <1>r DEF JoinCapture, Current, TakesAccount, Accounted
<1>3. CASE GuiFinishes /\ WriteTake
  <2>1. Current \in Item /\ row \in [Item -> Given \cup {"none"}]
        /\ file \in [Item -> Given \cup {"absent"}]
    BY <1>3, <1>t DEF WriteTake, WindowTypeInv, WindowTypeOK, TakeListTypeOK, Item
  <2> QED BY <1>3, <1>t, <1>r, <2>1 DEF WriteTake, AddRow, Current, TakesAccount, Accounted
<1>4. CASE GuiFinishes /\ (WriteFails \/ FolderFails)
  BY <1>4, <1>t, <1>r DEF WriteFails, FolderFails, LeaveTake, Current, TakesAccount, Accounted
<1>5. CASE UNCHANGED <<fate, takes>>
  BY <1>5, <1>t, <1>r DEF Current, TakesAccount, Accounted
<1> QED BY CaptureFrame, <1>1, <1>2, <1>3, <1>4, <1>5
    DEF captureVars, GuiPolls, Poll, StopCapture, Close, LeaveQueue, OpenStream,
        RecordReturns, ReadFails, Plug, Unplug

\* Whenever the process ends, in the midst of a take, of a stop or after an
\* exception as well, each take that was started has its file and its row, or
\* its failure was shown, or its folder could not be made: the one failure that
\* drops a take without a word.
THEOREM TakesAreAccounted == WindowSpec => []NoTakeIsForgotten
<1>1. WindowInit => TakesAccount
  <2> SUFFICES ASSUME WindowInit, NEW t \in Captured PROVE ~(t <= Current)
    BY DEF TakesAccount
  <2> QED BY SessionsAssumption DEF WindowInit, CaptureInit, Captured, Current
<1>2. WindowTypeInv /\ TakesAccount /\ [WindowNext]_vars => TakesAccount'
  BY TakesAccountStep
<1>3. OneRecording /\ TakesAccount => NoTakeIsForgotten
  BY DEF OneRecording, TakesAccount, NoTakeIsForgotten
<1> QED BY <1>1, <1>2, <1>3, WindowTypesHold, OneRecordingHolds, PTL DEF WindowSpec

\* However polls, closing and takes interleave, the context under an open
\* stream is neither replaced nor released.
THEOREM StreamsKeepTheirContext == WindowSpec => ContextOutlivesTheStream
<1>1. /\ WindowTypeInv /\ OneRecording /\ [WindowNext]_vars
      => [(capture \in {"reading", "dead"}) => UNCHANGED <<context, listed>>]_vars
  <2> SUFFICES ASSUME WindowTypeInv, OneRecording, [WindowNext]_vars,
                      capture \in {"reading", "dead"}
               PROVE  UNCHANGED <<context, listed>>
    OBVIOUS
  <2> QED BY CaptureFrame DEF OneRecording, captureVars, GuiPolls, Poll, PollCapture, PollIdle,
      JoinCapture, WriteTake, WriteFails, FolderFails, LeaveTake, StartCapture, StopCapture, Finish, Close,
      LeaveQueue, OpenStream, RecordReturns, ReadFails, Plug, Unplug
<1> QED BY <1>1, WindowTypesHold, OneRecordingHolds, PTL DEF WindowSpec, ContextOutlivesTheStream

-----------------------------------------------------------------------------
(* Marks. *)

Unstopped == capture \in {"opening", "reading"} /\ gui # "stopping"

\* What a mark needs, step by step: a poll that sees no receiver during a take
\* sees the truth, so that the take's receiver did go; a take that stops by
\* itself, or at the request of the poll, is one whose receiver went; and the
\* flag does not outlive its take.
MarksInv ==
  /\ finder = "frozen" => ~rxLost /\ incomplete = {}
  /\ finder = "frozen" /\ capture # "none" => context /\ listed
  /\ rxLost => Current \in cutShort \/ (capture = "ended" /\ ~audio)
  /\ finder = "live" /\ capture \in {"opening", "reading"} /\ ~plugged
       => Current \in cutShort
  /\ capture = "opening" => ~audio
  /\ capture = "dead" => Current \in cutShort
  /\ stop /\ Unstopped => Current \in cutShort
  /\ capture = "ended" /\ audio /\ gui # "stopping" => Current \in cutShort
  /\ incomplete \subseteq cutShort

LEMMA MarksStep ==
  ASSUME WindowTypeInv, OneRecording, MarksInv, [WindowNext]_vars
  PROVE  MarksInv'
<1> USE DEF MarksInv, Unstopped
<1>t. /\ finder \in {"frozen", "live"}
      /\ gui = "stopping" => capture # "none" /\ stop
      /\ gui \in {"writing", "awaiting"} => capture = "none" /\ audio
      /\ gui = "leaving" \/ gui = "draining" => capture = "none"
  BY FindRxAssumption DEF WindowTypeInv, WindowTypeOK, CaptureTypeOK, OneRecording
<1>1. CASE GuiPolls
  <2>1. /\ gui \in {"free", "polling"}
        /\ UNCHANGED <<finder, plugged, capture, audio, takes, incomplete, cutShort>>
        /\ Current' = Current
    BY <1>1 DEF GuiPolls, Poll, Current
  <2>2. CASE PollIdle
    BY <2>1, <2>2, <1>t DEF PollIdle
  <2>3. CASE PollCapture
    <3>1. /\ capture # "none" /\ UNCHANGED <<context, listed>>
          /\ rxLost' => rxLost \/ ~Found
          /\ stop' => gui' = "stopping" \/ stop \/ ~Found
      BY <2>3 DEF PollCapture, Finish
    <3>2. ~Found => finder = "live" /\ ~plugged
      BY <3>1, <1>t DEF Found
    <3>3. ~Found => Current \in cutShort \/ (capture = "ended" /\ ~audio)
      BY <3>1, <3>2, <2>1, <1>t DEF WindowTypeInv, WindowTypeOK, CaptureTypeOK
    <3>4. finder = "frozen" => ~rxLost'
      BY <3>1, <3>2
    <3> QED BY <2>1, <3>1, <3>3, <3>4
  <2> QED BY <1>1, <2>2, <2>3 DEF GuiPolls, Poll
<1>2. CASE GuiFinishes /\ JoinCapture
  BY <1>2, <1>t DEF JoinCapture, Done, Current
<1>3. CASE GuiFinishes /\ WriteTake
  BY <1>3, <1>t DEF WriteTake, Current
<1>4. CASE GuiFinishes /\ (WriteFails \/ FolderFails)
  BY <1>4, <1>t DEF WriteFails, FolderFails, LeaveTake, Done, Raise, Current
<1>5. CASE UserRecords /\ StartCapture
  BY <1>5, <1>t DEF StartCapture, Found, Current
<1>6. CASE UserRecords /\ StopCapture
  BY <1>6 DEF StopCapture, Finish, Current
<1>7. CASE Close
  BY <1>7 DEF Close, Finish, Current
<1>8. CASE LeaveQueue
  BY <1>8, <1>t DEF LeaveQueue, Current
<1>9. CASE CaptureRuns /\ OpenStream
  BY <1>9 DEF OpenStream, Current
<1>10. CASE CaptureRuns /\ (RecordReturns \/ ReadFails)
  <2>1. UNCHANGED gui
    BY <1>10 DEF RecordReturns, ReadFails
  <2> QED BY <2>1, <1>10, <1>t DEF RecordReturns, ReadFails, Current
<1>11. CASE ReceiverMoves /\ Plug
  BY <1>11 DEF Plug, Current
<1>12. CASE ReceiverMoves /\ Unplug
  BY <1>12 DEF Unplug, Current
<1>13. CASE UNCHANGED captureVars
  <2>1. UNCHANGED <<finder, plugged, context, listed, capture, stop, audio, rxLost,
                    takes, incomplete, cutShort>>
    BY <1>13 DEF captureVars
  <2>2. gui = "stopping" => gui' = "stopping" \/ JoinCapture
    BY GuiFrame DEF DrainPending, TickEnds, GuiPolls, Poll, WriteTake, WriteFails, FolderFails, LeaveTake,
      SubmitTake, PickRow, UserRenamesRow, RenameByHand, StopCapture, Close, LeaveImport,
      LeaveQueue
  <2>3. ~JoinCapture
    BY <2>1, <1>t DEF JoinCapture
  <2> QED BY <2>1, <2>2, <2>3 DEF Current
<1> QED BY CaptureFrame, <1>1, <1>2, <1>3, <1>4, <1>5, <1>6, <1>7, <1>8, <1>9, <1>10,
  <1>11, <1>12, <1>13

\* Whatever the order of polls, unplugging, stops and closing, a take marked
\* incomplete is one whose receiver went; and with the find_rx of main() there
\* is none.
THEOREM MarksAreEarned == WindowSpec => []MarksAreDeserved
<1>1. WindowInit => MarksInv
  BY DEF WindowInit, CaptureInit, MarksInv, Unstopped
<1>2. WindowTypeInv /\ OneRecording /\ MarksInv /\ [WindowNext]_vars => MarksInv'
  BY MarksStep
<1>3. MarksInv => MarksAreDeserved
  BY DEF MarksInv, MarksAreDeserved
<1> QED BY <1>1, <1>2, <1>3, WindowTypesHold, OneRecordingHolds, PTL DEF WindowSpec

-----------------------------------------------------------------------------
(* Rows and names. *)

Distinct(s) == \A j, k \in DOMAIN s : s[j] = s[k] => j = k

LEMMA AppendFacts ==
  ASSUME NEW S, NEW s \in Seq(S), NEW e \in S
  PROVE  /\ \A x : In(x, Append(s, e)) <=> In(x, s) \/ x = e
         /\ Distinct(s) /\ ~In(e, s) => Distinct(Append(s, e))
<1>1. /\ DOMAIN Append(s, e) = 1..Len(s) + 1 /\ Append(s, e)[Len(s) + 1] = e
      /\ \A k \in 1..Len(s) : Append(s, e)[k] = s[k]
      /\ DOMAIN s = 1..Len(s) /\ Len(s) \in Nat
  OBVIOUS
<1> QED BY <1>1 DEF In, Distinct

LEMMA TailFacts ==
  ASSUME NEW S, NEW s \in Seq(S), s # <<>>
  PROVE  /\ Head(s) \in S /\ In(Head(s), s)
         /\ \A x : In(x, Tail(s)) => In(x, s)
         /\ \A x : In(x, s) => x = Head(s) \/ In(x, Tail(s))
         /\ Distinct(s) => Distinct(Tail(s)) /\ ~In(Head(s), Tail(s))
<1>1. /\ Len(s) \in Nat \ {0} /\ DOMAIN s = 1..Len(s) /\ Head(s) = s[1]
      /\ DOMAIN Tail(s) = 1..Len(s) - 1
      /\ \A k \in 1..Len(s) - 1 : Tail(s)[k] = s[k + 1]
  OBVIOUS
<1>2. \A k \in 1..Len(s) : k # 1 => k - 1 \in 1..Len(s) - 1 /\ Tail(s)[k - 1] = s[k]
  BY <1>1
<1>3. \A k \in 1..Len(s) - 1 : k + 1 \in 1..Len(s) /\ k + 1 # 1
  BY <1>1
<1>4. Head(s) \in S /\ In(Head(s), s)
  BY <1>1 DEF In
<1>5. \A x : In(x, Tail(s)) => In(x, s)
  BY <1>1, <1>3 DEF In
<1>6. \A x : In(x, s) => x = Head(s) \/ In(x, Tail(s))
  BY <1>1, <1>2 DEF In
<1>7. ASSUME Distinct(s) PROVE Distinct(Tail(s)) /\ ~In(Head(s), Tail(s))
  <2>1. \A j, k \in 1..Len(s) - 1 : Tail(s)[j] = Tail(s)[k] => j = k
    BY <1>1, <1>3, <1>7 DEF Distinct
  <2>2. ~In(Head(s), Tail(s))
    BY <1>1, <1>3, <1>7 DEF Distinct, In
  <2> QED BY <1>1, <2>1, <2>2 DEF Distinct
<1> QED BY <1>4, <1>5, <1>6, <1>7

Queued(i) == In(i, queue)
Told(i) == \E k \in DOMAIN posted : posted[k].item = i

\* Takes that have no row yet: those to come, and the one being recorded.
NotYet(t) == t > Current \/ (t = Current /\ (capture # "none" \/ gui = "writing"))

\* What is on its way from the import has no row, and is there once.
Ahead ==
  /\ Distinct(batch) /\ Distinct(pending)
  /\ \A i \in Imported : In(i, batch) => ~In(i, pending)
  /\ \A i \in Imported : In(i, batch) \/ In(i, pending) =>
       i <= made /\ row[i] = "none" /\ file[i] = "provisional"

\* Before a recording has its row, nobody knows of it.
RowsBegin ==
  /\ \A i \in Imported : i > made => row[i] = "none"
  /\ \A t \in Captured : NotYet(t) => row[t] = "none"
  /\ \A i \in Item : row[i] = "none" =>
       /\ i \notin manual /\ picked # i
       /\ ~Queued(i) /\ job # i /\ ~Told(i)

\* A recording is named once at a time.
OneNaming ==
  /\ Distinct(queue)
  /\ \A i \in Item : Queued(i) => job # i /\ ~Told(i)
  /\ \A i \in Item : job = i => ~Told(i)
  /\ gui = "awaiting" =>
       /\ ~Queued(Current) /\ job # Current /\ ~Told(Current)
       /\ Current \notin manual
       /\ row[Current] = "provisional" /\ file[Current] = "provisional"

\* The row of a recording not renamed by hand is right but for what is about to
\* be told to it; what is told is right.
RowTrue(i) ==
  /\ Queued(i) => file[i] = "provisional"
  /\ job = i => file[i] = (IF named THEN "titled" ELSE "provisional")
  /\ \A k \in DOMAIN posted : posted[k].item = i => posted[k].name = file[i]
  /\ Told(i) \/ (job = i /\ named) \/ row[i] = file[i]

RowsTrue ==
  /\ worker # "telling" => ~named
  /\ \A i \in Item \ manual : row[i] # "none" => RowTrue(i)
  /\ \A i \in manual \ blanked : row[i] = "manual" /\ file[i] = "manual"

RowsInv == Ahead /\ RowsBegin /\ OneNaming /\ RowsTrue

LEMMA NotYetShrinks ==
  ASSUME WindowTypeInv, [WindowNext]_vars
  PROVE  /\ \A t \in Captured : NotYet(t)' => NotYet(t)
         /\ gui' = "awaiting" => WriteTake \/ (gui = "awaiting" /\ Current' = Current)
<1>t. /\ takes \in Nat /\ MaxPaths \in Nat /\ Captured \subseteq Nat
      /\ gui = "writing" => capture = "none"
      /\ gui = "awaiting" => capture = "none"
      /\ gui = "stopping" => capture # "none"
  BY SessionsAssumption, ItemFacts DEF WindowTypeInv, WindowTypeOK, CaptureTypeOK
<1>1. CASE UserRecords /\ StartCapture
  BY <1>1, <1>t DEF StartCapture, NotYet, Current
<1>2. CASE ~(UserRecords /\ StartCapture)
  <2>1. takes' = takes
    BY <1>2, CaptureFrame DEF captureVars, GuiPolls, Poll, JoinCapture, WriteTake, WriteFails, FolderFails, LeaveTake,
      StopCapture, Close, LeaveQueue, OpenStream, RecordReturns, ReadFails, Plug, Unplug
  <2>2. capture' # "none" => capture # "none"
    BY <1>2, CaptureFrame DEF captureVars, GuiPolls, Poll, JoinCapture, WriteTake, WriteFails, FolderFails, LeaveTake,
      StopCapture, Close, LeaveQueue, OpenStream, RecordReturns, ReadFails, Plug, Unplug
  <2>3. gui' = "writing" => gui = "writing" \/ capture # "none"
    BY <1>t, GuiFrame DEF GuiPolls, DrainPending, TickEnds, Poll, PollCapture, PollIdle, Finish,
      JoinCapture, Done, WriteTake, WriteFails, FolderFails, LeaveTake, Raise, SubmitTake, PickRow,
      UserRenamesRow, RenameByHand, StopCapture, Close, LeaveImport, LeaveQueue
  <2>4. gui' = "awaiting" => gui = "awaiting" \/ WriteTake
    BY GuiFrame DEF GuiPolls, DrainPending, TickEnds, Poll, PollCapture, PollIdle, Finish,
      JoinCapture, Done, WriteFails, FolderFails, LeaveTake, Raise, SubmitTake, PickRow,
      UserRenamesRow, RenameByHand, StopCapture, Close, LeaveImport, LeaveQueue
  <2> QED BY <2>1, <2>2, <2>3, <2>4 DEF NotYet, Current
<1> QED BY <1>1, <1>2

RowTypes ==
  /\ file \in [Item -> Given \cup {"absent"}] /\ row \in [Item -> Given \cup {"none"}]
  /\ manual \subseteq Item /\ blanked \subseteq manual /\ picked \in Item \cup {0}
  /\ batch \in Seq(Imported) /\ pending \in Seq(Imported)
  /\ queue \in Seq(Item \cup {STOP}) /\ job \in Item \cup {0} /\ made \in Nat

LEMMA RowTypesHold ==
  /\ WindowTypeInv => RowTypes
  /\ Imported \subseteq Item /\ Captured \subseteq Item /\ Imported \cap Captured = {}
  /\ Imported \subseteq Nat /\ STOP \notin Item /\ 0 \notin Item
<1>1. WindowTypeInv => made \in Nat
  BY SessionsAssumption DEF WindowTypeInv, WindowTypeOK, ImportHandoffTypeOK
<1>2. WindowTypeInv => RowTypes
  BY <1>1 DEF WindowTypeInv, WindowTypeOK, RowTypes, TakeListTypeOK, ImportHandoffTypeOK,
    NamingQueueTypeOK
<1> QED BY <1>2, ItemFacts DEF Item

\* A row stays right if nothing about it changes.
LEMMA RowTrueKept ==
  ASSUME NEW i, RowTrue(i), row'[i] = row[i], file'[i] = file[i],
         UNCHANGED <<posted, job, named>>, Queued(i)' => Queued(i)
  PROVE  RowTrue(i)'
<1>1. (Told(i) <=> Told(i)') /\ (named' <=> named) /\ job' = job
  BY DEF Told
<1>2. (Queued(i) => file[i] = "provisional")'
  BY DEF RowTrue
<1>3. (job = i => file[i] = (IF named THEN "titled" ELSE "provisional"))'
  BY DEF RowTrue
<1>4. (\A k \in DOMAIN posted : posted[k].item = i => posted[k].name = file[i])'
  BY DEF RowTrue
<1>5. (Told(i) \/ (job = i /\ named) \/ row[i] = file[i])'
  BY <1>1 DEF RowTrue
<1> QED BY <1>2, <1>3, <1>4, <1>5 DEF RowTrue

\* SubmitImported: a row, and a job.
LEMMA RowsSubmit ==
  ASSUME WindowTypeInv, RowsInv, [WindowNext]_vars, GuiTicks, SubmitImported
  PROVE  RowsInv'
<1>h. PICK h : h = Head(batch)
  OBVIOUS
<1> USE DEF GuiTicks, SubmitImported, AddRow, Submit
<1>t. RowTypes /\ Imported \subseteq Item /\ Imported \cap Captured = {} /\ Captured \subseteq Item
      /\ Imported \subseteq Nat
  BY RowTypesHold
<1>1. /\ h \in Imported /\ In(h, batch)
      /\ \A i : In(i, batch') => In(i, batch)
      /\ Distinct(batch) => Distinct(batch') /\ ~In(h, batch')
  BY <1>t, <1>h, TailFacts DEF RowTypes
<1>2. /\ \A i : In(i, queue') <=> In(i, queue) \/ i = h
      /\ Distinct(queue) /\ ~In(h, queue) => Distinct(queue')
  <2>1. h \in Item \cup {STOP} /\ queue \in Seq(Item \cup {STOP})
    BY <1>t, <1>1 DEF RowTypes
  <2>2. queue' = Append(queue, h)
    BY <1>h
  <2> QED BY <2>1, <2>2, AppendFacts
<1>3. row[h] = "none" /\ file[h] = "provisional" /\ ~In(h, pending) /\ h <= made
      /\ h \notin manual /\ ~Queued(h) /\ job # h /\ ~Told(h) /\ picked # h
  BY <1>1, <1>t DEF RowsInv, Ahead, RowsBegin
<1>4. /\ row'[h] = "provisional" /\ \A i \in Item : i # h => row'[i] = row[i]
      /\ UNCHANGED <<file, manual, picked, posted, blanked, job, named, pending, made, gui>>
  BY <1>1, <1>t, <1>h DEF RowTypes
<1>w. worker' = worker \/ (worker = "none" /\ worker' = "waiting")
  OBVIOUS
<1> HIDE DEF GuiTicks, SubmitImported, AddRow, Submit
<1>5. gui' # "awaiting" /\ \A t \in Captured : NotYet(t)' => NotYet(t)
  BY NotYetShrinks DEF SubmitImported, WriteTake
<1>6. Ahead'
  BY <1>1, <1>3, <1>4, <1>t DEF RowsInv, Ahead
<1>7. RowsBegin'
  <2>1. \A i \in Imported : i > made' => row'[i] = "none"
    BY <1>1, <1>3, <1>4, <1>t DEF RowsInv, RowsBegin, RowTypes
  <2>2. \A t \in Captured : NotYet(t)' => row'[t] = "none"
    BY <1>1, <1>4, <1>5, <1>t DEF RowsInv, RowsBegin
  <2>3. \A i \in Item : row'[i] = "none" =>
          /\ i \notin manual' /\ picked' # i
          /\ ~Queued(i)' /\ job' # i /\ ~Told(i)'
    BY <1>2, <1>4 DEF RowsInv, RowsBegin, Queued, Told
  <2> QED BY <2>1, <2>2, <2>3 DEF RowsBegin
<1>8. OneNaming'
  BY <1>1, <1>2, <1>3, <1>4, <1>5, <1>t DEF RowsInv, OneNaming, Queued, Told
<1>9. RowsTrue'
  <2>1. worker' # "telling" => ~named'
    BY <1>4, <1>w DEF RowsInv, RowsTrue
  <2>2. RowTrue(h)'
    BY <1>3, <1>4 DEF RowTrue, Told
  <2>3. ASSUME NEW i \in Item \ manual, i # h, row'[i] # "none" PROVE RowTrue(i)'
    <3>1. RowTrue(i)
      BY <1>4, <2>3 DEF RowsInv, RowsTrue
    <3> QED BY <3>1, <1>2, <1>4, <2>3, RowTrueKept DEF Queued
  <2> QED BY <1>3, <1>4, <2>1, <2>2, <2>3, <1>t DEF RowsInv, RowsTrue, RowTypes
<1> QED BY <1>6, <1>7, <1>8, <1>9 DEF RowsInv

\* QueueSubmit: a recording is filed, and goes on its way.
LEMMA RowsFile ==
  ASSUME WindowTypeInv, RowsInv, [WindowNext]_vars, ImportRuns, QueueSubmit
  PROVE  RowsInv'
<1> DEFINE m == made + 1
<1>t. RowTypes /\ Imported \subseteq Item /\ Imported \cap Captured = {} /\ Captured \subseteq Item
      /\ Imported \subseteq Nat
  BY RowTypesHold
<1>1. m \in Imported
  <2>1. session.paths \in 0..MaxPaths
    BY SessionsAssumption DEF WindowTypeInv, WindowTypeOK, TakeListTypeOK, Session
  <2> QED BY <2>1, <1>t, SessionsAssumption DEF QueueSubmit, Imported, RowTypes
<1>2. /\ \A i : In(i, pending') <=> In(i, pending) \/ i = m
      /\ Distinct(pending) /\ ~In(m, pending) => Distinct(pending')
  BY <1>t, <1>1, AppendFacts DEF RowTypes, QueueSubmit
<1>3. row[m] = "none" /\ ~In(m, pending) /\ ~In(m, batch) /\ m \notin manual
  BY <1>1, <1>t DEF RowsInv, Ahead, RowsBegin, RowTypes
<1>4. /\ file'[m] = "provisional" /\ \A i \in Item : i # m => file'[i] = file[i]
      /\ made' = m
      /\ UNCHANGED <<row, manual, picked, posted, blanked, job, named, worker, queue, batch, gui>>
  BY <1>1, <1>t DEF RowTypes, QueueSubmit, queueVars
<1>5. /\ \A t \in Captured : NotYet(t)' => NotYet(t)
      /\ gui' = "awaiting" => gui = "awaiting" /\ Current' = Current /\ Current \in Captured
  <2>1. gui = "awaiting" => takes \in 1..MaxTakes
    BY SessionsAssumption DEF WindowTypeInv, WindowTypeOK, TakeCounted, CaptureTypeOK
  <2>2. ~WriteTake
    BY <1>4 DEF WriteTake
  <2> QED BY <2>1, <2>2, NotYetShrinks, CurrentCaptured
<1> HIDE DEF m
<1>6. Ahead'
  <2>1. m \in Nat /\ made \in Nat /\ m = made + 1
    BY <1>t DEF RowTypes, m
  <2> QED BY <1>1, <1>2, <1>3, <1>4, <1>t, <2>1 DEF RowsInv, Ahead
<1>7. RowsBegin'
  <2>1. m \in Nat /\ made \in Nat /\ m = made + 1
    BY <1>t DEF RowTypes, m
  <2> QED BY <1>1, <1>2, <1>3, <1>4, <1>5, <1>t, <2>1 DEF RowsInv, RowsBegin, Queued, Told
<1>8. OneNaming'
  BY <1>1, <1>2, <1>3, <1>4, <1>5, <1>t DEF RowsInv, OneNaming, Queued, Told
<1>9. RowsTrue'
  <2>1. ASSUME NEW i \in Item \ manual, row'[i] # "none" PROVE RowTrue(i)'
    BY <1>3, <1>4, <2>1 DEF RowsInv, RowsTrue, RowTrue, Told, Queued
  <2> QED BY <1>3, <1>4, <2>1, <1>t DEF RowsInv, RowsTrue, RowTypes
<1> QED BY <1>6, <1>7, <1>8, <1>9 DEF RowsInv

\* WriteTake: the take has its file and its row.
LEMMA RowsWrite ==
  ASSUME WindowTypeInv, RowsInv, [WindowNext]_vars, GuiFinishes, WriteTake
  PROVE  RowsInv'
<1>c. PICK c : c = Current
  OBVIOUS
<1>t. RowTypes /\ Imported \subseteq Item /\ Imported \cap Captured = {} /\ Captured \subseteq Item
  BY RowTypesHold
<1>1. c \in Captured /\ c \in Item /\ c \notin Imported /\ row[c] = "none"
  <2>1. takes \in 1..MaxTakes /\ gui = "writing"
    BY SessionsAssumption DEF WindowTypeInv, WindowTypeOK, TakeCounted, CaptureTypeOK, WriteTake
  <2>2. c \in Captured
    BY <2>1, <1>c, CurrentCaptured
  <2> QED BY <2>1, <2>2, <1>c, <1>t DEF RowsInv, RowsBegin, NotYet
<1>2. c \notin manual /\ ~Queued(c) /\ job # c /\ ~Told(c) /\ picked # c
  BY <1>1 DEF RowsInv, RowsBegin
<1>3. /\ row'[c] = "provisional" /\ file'[c] = "provisional"
      /\ \A i \in Item : i # c => row'[i] = row[i] /\ file'[i] = file[i]
      /\ UNCHANGED <<manual, picked, posted, blanked, queue, worker, job, named>>
      /\ UNCHANGED <<batch, pending, made>>
  BY <1>c, <1>1, <1>t DEF RowTypes, WriteTake, AddRow, GuiFinishes, importVars, queueVars
<1>4. /\ Current' = c /\ capture' = "none" /\ gui' = "awaiting"
      /\ \A t \in Captured : NotYet(t)' => NotYet(t)
  BY <1>c, NotYetShrinks DEF WriteTake, Current, WindowTypeInv, WindowTypeOK, CaptureTypeOK
<1>5. Ahead'
  BY <1>1, <1>3, <1>t DEF RowsInv, Ahead
<1>6. RowsBegin'
  <2>1. \A i \in Imported : i > made' => row'[i] = "none"
    BY <1>1, <1>3, <1>t DEF RowsInv, RowsBegin
  <2>2. \A t \in Captured : NotYet(t)' => row'[t] = "none"
    <3>1. ~NotYet(c)'
      BY <1>1, <1>4, ItemFacts DEF NotYet
    <3> QED BY <3>1, <1>1, <1>3, <1>4, <1>t DEF RowsInv, RowsBegin
  <2>3. \A i \in Item : row'[i] = "none" =>
          /\ i \notin manual' /\ picked' # i
          /\ ~Queued(i)' /\ job' # i /\ ~Told(i)'
    BY <1>3 DEF RowsInv, RowsBegin, Queued, Told
  <2> QED BY <2>1, <2>2, <2>3 DEF RowsBegin
<1>7. OneNaming'
  BY <1>1, <1>2, <1>3, <1>4 DEF RowsInv, OneNaming, Queued, Told
<1>8. RowsTrue'
  <2>1. worker' # "telling" => ~named'
    BY <1>3 DEF RowsInv, RowsTrue
  <2>2. RowTrue(c)'
    BY <1>2, <1>3 DEF RowTrue, Told
  <2>3. ASSUME NEW i \in Item \ manual, i # c, row'[i] # "none" PROVE RowTrue(i)'
    <3>1. RowTrue(i)
      BY <1>3, <2>3 DEF RowsInv, RowsTrue
    <3> QED BY <3>1, <1>3, <2>3, RowTrueKept DEF Queued
  <2> QED BY <1>2, <1>3, <2>1, <2>2, <2>3, <1>t DEF RowsInv, RowsTrue, RowTypes
<1> QED BY <1>5, <1>6, <1>7, <1>8 DEF RowsInv

\* What another step of the GUI thread, of the user or of the worker may change
\* without losing what is on its way or has no row yet.
LEMMA RowsBehind ==
  ASSUME WindowTypeInv, RowsInv, [WindowNext]_vars, ~WriteTake,
         UNCHANGED <<batch, pending, made, manual, picked, posted, queue, job>>,
         \A i \in Item : row'[i] = row[i],
         \A i \in Item : row[i] = "none" => file'[i] = file[i]
  PROVE  Ahead' /\ RowsBegin'
<1>t. Imported \subseteq Item /\ Captured \subseteq Item
  BY RowTypesHold
<1>1. \A t \in Captured : NotYet(t)' => NotYet(t)
  BY NotYetShrinks
<1>2. Ahead'
  BY <1>t DEF RowsInv, Ahead
<1>3. RowsBegin'
  BY <1>t, <1>1 DEF RowsInv, RowsBegin, Queued, Told
<1> QED BY <1>2, <1>3

LEMMA NamingBehind ==
  ASSUME WindowTypeInv, RowsInv, [WindowNext]_vars, ~WriteTake,
         UNCHANGED <<file, row, manual, posted, queue, job>>
  PROVE  OneNaming'
<1>1. gui' = "awaiting" => gui = "awaiting" /\ Current' = Current
  BY NotYetShrinks
<1>2. \A i : Queued(i)' = Queued(i) /\ Told(i)' = Told(i)
  BY DEF Queued, Told
<1>3. Distinct(queue)' /\ \A i \in Item : Queued(i)' => job' # i /\ ~Told(i)'
  BY <1>2 DEF RowsInv, OneNaming
<1>4. \A i \in Item : job' = i => ~Told(i)'
  BY <1>2 DEF RowsInv, OneNaming
<1>5. gui' = "awaiting" =>
        /\ ~Queued(Current)' /\ job' # Current' /\ ~Told(Current)'
        /\ Current' \notin manual'
        /\ row'[Current'] = "provisional" /\ file'[Current'] = "provisional"
  BY <1>1 DEF RowsInv, OneNaming, Queued, Told
<1> QED BY <1>3, <1>4, <1>5 DEF OneNaming

\* ApplyName: what is told of a row is what its file is called.
LEMMA RowsApply ==
  ASSUME WindowTypeInv, RowsInv, [WindowNext]_vars, GuiApplies
  PROVE  RowsInv'
<1> DEFINE Post == [item : Item, name : Given, ok : BOOLEAN]
<1>p. posted \in Seq(Post) /\ posted # <<>> /\ posted' = Tail(posted)
  BY DEF GuiApplies, ApplyName, WindowTypeInv, WindowTypeOK, TakeListTypeOK
<1>h. PICK e \in Post : e = Head(posted) /\ e = posted[1] /\ 1 \in DOMAIN posted
  <2> HIDE DEF Post
  <2> QED BY <1>p
<1>t. RowTypes /\ Imported \subseteq Item /\ Captured \subseteq Item /\ Imported \cap Captured = {}
  BY RowTypesHold
<1>1. /\ \A k \in DOMAIN posted' : k + 1 \in DOMAIN posted /\ posted'[k] = posted[k + 1]
      /\ \A k \in DOMAIN posted : k = 1 \/ (k - 1 \in DOMAIN posted' /\ posted'[k - 1] = posted[k])
  <2> HIDE DEF Post
  <2> QED BY <1>p
<1> HIDE DEF Post
<1>2. /\ \A i : Told(i)' => Told(i)
      /\ \A i : Told(i) => i = e.item \/ Told(i)'
      /\ Told(e.item)
  BY <1>1, <1>h DEF Told
<1>3. e.item \in Item /\ e.name \in Given
  BY <1>h DEF Post
<1>4. row[e.item] # "none" /\ (e.item \notin manual => e.name = file[e.item])
  BY <1>2, <1>3, <1>h DEF RowsInv, RowsBegin, RowsTrue, RowTrue
<1>5. /\ UNCHANGED <<gui, file, manual, picked, blanked, queue, worker, job, named>>
      /\ UNCHANGED <<batch, pending, made>>
      /\ \A i \in Item : i # e.item => row'[i] = row[i]
      /\ \/ e.item \notin manual /\ row'[e.item] = e.name
         \/ e.item \in manual /\ row' = row
  BY <1>h, <1>t, <1>3 DEF RowTypes, GuiApplies, ApplyName, Beside, queueVars, importVars
<1>6. \A i \in Item : (row'[i] = "none" <=> row[i] = "none")
  BY <1>3, <1>4, <1>5 DEF Given
<1>7. gui' # "awaiting" /\ \A t \in Captured : NotYet(t)' => NotYet(t)
  BY NotYetShrinks DEF GuiApplies, ApplyName, WriteTake
<1>8. Ahead'
  BY <1>5, <1>6, <1>t DEF RowsInv, Ahead
<1>9. RowsBegin'
  BY <1>2, <1>5, <1>6, <1>7, <1>t DEF RowsInv, RowsBegin, Queued
<1>10. OneNaming'
  BY <1>2, <1>5, <1>7 DEF RowsInv, OneNaming, Queued
<1>11. RowsTrue'
  <2>1. worker' # "telling" => ~named'
    BY <1>5 DEF RowsInv, RowsTrue
  <2>2. ASSUME NEW i \in Item \ manual, row'[i] # "none" PROVE RowTrue(i)'
    <3>1. RowTrue(i)
      BY <1>6, <2>2 DEF RowsInv, RowsTrue
    <3>2. \A k \in DOMAIN posted' : posted'[k].item = i => posted'[k].name = file'[i]
      BY <3>1, <1>1, <1>5 DEF RowTrue
    <3>3. Told(i)' \/ (job' = i /\ named') \/ row'[i] = file'[i]
      BY <3>1, <1>2, <1>4, <1>5, <2>2 DEF RowTrue
    <3>4. (Queued(i)' => file'[i] = "provisional")
          /\ (job' = i => file'[i] = (IF named' THEN "titled" ELSE "provisional"))
      BY <3>1, <1>5 DEF RowTrue, Queued
    <3> QED BY <3>2, <3>3, <3>4 DEF RowTrue
  <2> QED BY <1>5, <2>1, <2>2, <1>t DEF RowsInv, RowsTrue, RowTypes
<1> QED BY <1>8, <1>9, <1>10, <1>11 DEF RowsInv

\* PickRow: the row to be renamed has one.
LEMMA RowsPick ==
  ASSUME WindowTypeInv, RowsInv, [WindowNext]_vars,
         UserRenamesRow, NEW r \in Item, PickRow(r)
  PROVE  RowsInv'
<1>1. /\ UNCHANGED <<file, row, manual, posted, blanked, queue, worker, job, named>>
      /\ UNCHANGED <<batch, pending, made>>
      /\ picked' = r /\ row[r] # "none" /\ gui = "free" /\ gui' = "renaming"
  BY DEF UserRenamesRow, PickRow, Beside, queueVars, importVars
<1>2. /\ \A t \in Captured : NotYet(t)' => NotYet(t)
      /\ \A i : Queued(i)' = Queued(i) /\ Told(i)' = Told(i)
  BY <1>1, NotYetShrinks DEF Queued, Told
<1>3. Ahead'
  BY <1>1 DEF RowsInv, Ahead
<1>4. RowsBegin'
  BY <1>1, <1>2, RowTypesHold DEF RowsInv, RowsBegin
<1>5. OneNaming'
  BY <1>1, NamingBehind DEF WriteTake
<1>6. RowsTrue'
  <2>1. ASSUME NEW i \in Item \ manual, row'[i] # "none" PROVE RowTrue(i)'
    <3>1. RowTrue(i)
      BY <1>1, <2>1 DEF RowsInv, RowsTrue
    <3> QED BY <3>1, <1>1, <1>2, RowTrueKept
  <2>2. worker' # "telling" => ~named'
    BY <1>1 DEF RowsInv, RowsTrue
  <2> QED BY <1>1, <2>1, <2>2 DEF RowsInv, RowsTrue
<1> QED BY <1>3, <1>4, <1>5, <1>6 DEF RowsInv

\* RenameByHand: the row is out of the hands of the worker.
LEMMA RowsRename ==
  ASSUME WindowTypeInv, RowsInv, [WindowNext]_vars, UserRenamesRow, RenameByHand
  PROVE  RowsInv'
<1>t. RowTypes /\ Imported \subseteq Item /\ Captured \subseteq Item /\ 0 \notin Item
  BY RowTypesHold
<1>r. PICK r \in Item : r = picked /\ row[r] # "none"
  <2>1. picked \in Item
    BY <1>t DEF RenameByHand, RowTypes, WindowTypeInv, WindowTypeOK, TakeListTypeOK
  <2> QED BY <2>1 DEF RowsInv, RowsBegin
<1>1. /\ UNCHANGED <<posted, queue, worker, job, named>> /\ UNCHANGED <<batch, pending, made>>
      /\ gui = "renaming" /\ gui' = "free" /\ picked' = 0
      /\ \A i \in Item : i # r => row'[i] = row[i] /\ file'[i] = file[i]
                                  /\ (i \in manual' <=> i \in manual)
                                  /\ (i \in blanked' <=> i \in blanked)
  BY <1>r, <1>t DEF UserRenamesRow, RenameByHand, Beside, queueVars, importVars, RowTypes
<1>2. \/ /\ row'[r] = "manual" /\ file'[r] = "manual" /\ r \in manual'
      \/ /\ row'[r] = row[r] /\ file'[r] = file[r] /\ r \in manual' /\ r \in blanked'
      \/ /\ row'[r] = row[r] /\ file'[r] = file[r]
         /\ manual' = manual /\ blanked' = blanked
  BY <1>r, <1>t DEF RenameByHand, RowTypes
<1>3. /\ \A t \in Captured : NotYet(t)' => NotYet(t)
      /\ \A i : Queued(i)' = Queued(i) /\ Told(i)' = Told(i)
  BY <1>1, NotYetShrinks DEF Queued, Told
<1>4. \A i \in Item : (row'[i] = "none" <=> row[i] = "none")
  BY <1>1, <1>2, <1>r
<1>5. Ahead'
  BY <1>1, <1>4, <1>r, <1>t DEF RowsInv, Ahead
<1>6. RowsBegin'
  BY <1>1, <1>3, <1>4, <1>r, <1>t DEF RowsInv, RowsBegin
<1>7. OneNaming'
  BY <1>1, <1>3 DEF RowsInv, OneNaming
<1>8. RowsTrue'
  <2>1. worker' # "telling" => ~named'
    BY <1>1 DEF RowsInv, RowsTrue
  <2>2. ASSUME NEW i \in Item \ manual', row'[i] # "none" PROVE RowTrue(i)'
    <3>1. RowTrue(i) /\ row'[i] = row[i] /\ file'[i] = file[i]
      BY <1>1, <1>2, <1>4, <2>2 DEF RowsInv, RowsTrue
    <3> QED BY <3>1, <1>1, <1>3, RowTrueKept
  <2>3. ASSUME NEW i \in manual' \ blanked' PROVE row'[i] = "manual" /\ file'[i] = "manual"
    <3>1. i \in Item
      BY <1>r, <1>t DEF RenameByHand, RowTypes
    <3> QED BY <3>1, <1>1, <1>2, <2>3 DEF RowsInv, RowsTrue
  <2> QED BY <2>1, <2>2, <2>3 DEF RowsTrue
<1> QED BY <1>5, <1>6, <1>7, <1>8 DEF RowsInv

\* RenameJob: the worker renames the file, and has still to tell the row.
LEMMA RowsName ==
  ASSUME WindowTypeInv, RowsInv, [WindowNext]_vars, WorkerRuns, RenameJob
  PROVE  RowsInv'
<1>t. RowTypes /\ Imported \subseteq Item /\ Captured \subseteq Item
  BY RowTypesHold
<1>j. PICK j \in Item : j = job
  BY DEF RenameJob, WindowTypeInv, WindowTypeOK, NamingQueueTypeOK
<1>1. /\ UNCHANGED <<gui, row, manual, picked, posted, blanked, queue, job>>
      /\ UNCHANGED <<batch, pending, made>> /\ worker' = "telling"
      /\ \A i \in Item : i # j => file'[i] = file[i]
  BY <1>j, <1>t DEF WorkerRuns, RenameJob, JobFails, importVars, RowTypes
<1>2. \/ file[j] = "provisional" /\ file'[j] = "titled" /\ named'
      \/ file' = file /\ ~named'
  BY <1>j, <1>t DEF RenameJob, JobFails, RowTypes
<1>3. /\ row[j] # "none" /\ ~Queued(j) /\ ~Told(j) /\ worker # "telling"
  BY <1>j DEF RenameJob, RowsInv, RowsBegin, OneNaming
<1>4. /\ gui' = "awaiting" => gui = "awaiting" /\ Current' = Current
      /\ \A i : Queued(i)' = Queued(i) /\ Told(i)' = Told(i)
      /\ ~WriteTake
  BY <1>1, NotYetShrinks DEF Queued, Told, WriteTake
<1>5. Ahead' /\ RowsBegin'
  BY <1>1, <1>3, <1>4, RowsBehind
<1>6. OneNaming'
  <2>1. gui = "awaiting" => Current # j /\ Current \in Item
    <3>1. gui = "awaiting" => takes \in 1..MaxTakes
      BY SessionsAssumption DEF WindowTypeInv, WindowTypeOK, TakeCounted, CaptureTypeOK
    <3> QED BY <3>1, <1>j, CurrentCaptured DEF RowsInv, OneNaming
  <2> QED BY <1>1, <1>4, <2>1 DEF RowsInv, OneNaming, Queued, Told
<1>7. RowsTrue'
  <2>1. ASSUME NEW i \in Item \ manual, row'[i] # "none" PROVE RowTrue(i)'
    <3>1. RowTrue(i)
      BY <1>1, <2>1 DEF RowsInv, RowsTrue
    <3>2. CASE i = j
      <4>1. ~named /\ file[j] = "provisional" /\ row[j] = file[j]
        BY <3>1, <3>2, <1>3, <1>j DEF RowsInv, RowsTrue, RowTrue
      <4>2. file'[j] = (IF named' THEN "titled" ELSE "provisional")
        BY <4>1, <1>2
      <4>3. named' \/ row'[j] = file'[j]
        BY <4>1, <1>1, <1>2
      <4> QED BY <3>2, <4>2, <4>3, <1>1, <1>3, <1>4, <1>j DEF RowTrue, Told
    <3>3. CASE i # j
      <4>1. job # i /\ job' # i /\ file'[i] = file[i] /\ row'[i] = row[i]
        BY <3>3, <1>j, <1>1
      <4> QED BY <3>1, <4>1, <1>1, <1>4 DEF RowTrue
    <3> QED BY <3>2, <3>3
  <2>2. ASSUME NEW i \in manual \ blanked PROVE file'[i] = "manual" /\ row'[i] = "manual"
    <3>1. file[i] = "manual" /\ row[i] = "manual" /\ i \in Item
      BY <1>t, <2>2 DEF RowsInv, RowsTrue, RowTypes
    <3> QED BY <3>1, <1>1, <1>2
  <2> QED BY <1>1, <2>1, <2>2 DEF RowsTrue
<1> QED BY <1>5, <1>6, <1>7 DEF RowsInv

\* FinishJob: the name is on its way to the row.
LEMMA RowsTell ==
  ASSUME WindowTypeInv, RowsInv, [WindowNext]_vars, WorkerRuns, FinishJob
  PROVE  RowsInv'
<1> DEFINE Post == [item : Item, name : Given, ok : BOOLEAN]
           e == [item |-> job, ok |-> named,
                 name |-> IF named THEN "titled" ELSE "provisional"]
<1>t. RowTypes /\ Imported \subseteq Item /\ Captured \subseteq Item
  BY RowTypesHold
<1>j. PICK j \in Item : j = job
  BY DEF FinishJob, WindowTypeInv, WindowTypeOK, NamingQueueTypeOK
<1>n. PICK n : n = IF named THEN "titled" ELSE "provisional"
  OBVIOUS
<1>1. /\ UNCHANGED <<gui, file, row, manual, picked, blanked, queue>>
      /\ UNCHANGED <<batch, pending, made>> /\ worker' = "waiting" /\ job' = 0 /\ ~named'
  BY DEF WorkerRuns, FinishJob, importVars
<1>2. PICK p : /\ posted \in Seq(Post) /\ posted' = Append(posted, p)
               /\ p.item = j /\ p.name = n
  BY <1>j, <1>n DEF FinishJob, WindowTypeInv, WindowTypeOK, TakeListTypeOK
<1>3. /\ Len(posted) \in Nat /\ DOMAIN posted = 1..Len(posted)
      /\ DOMAIN posted' = 1..Len(posted) + 1 /\ posted'[Len(posted) + 1] = p
      /\ \A k \in 1..Len(posted) : posted'[k] = posted[k]
  <2> HIDE DEF Post
  <2> QED BY <1>2
<1> HIDE DEF Post, e
<1>4. /\ \A i : Told(i)' <=> Told(i) \/ i = j
      /\ \A i : Queued(i)' = Queued(i)
  BY <1>1, <1>2, <1>3 DEF Told, Queued
<1>5. row[j] # "none"
  BY <1>j DEF RowsInv, RowsBegin, OneNaming
<1>6. /\ gui' = "awaiting" => gui = "awaiting" /\ Current' = Current
      /\ \A t \in Captured : NotYet(t)' => NotYet(t)
  BY <1>1, NotYetShrinks DEF WriteTake
<1>7. Ahead'
  BY <1>1 DEF RowsInv, Ahead
<1>8. RowsBegin'
  BY <1>1, <1>4, <1>5, <1>6, <1>t, ItemFacts DEF RowsInv, RowsBegin
<1>9. OneNaming'
  <2>1. gui = "awaiting" => Current # j /\ Current # 0
    <3>1. gui = "awaiting" => takes \in 1..MaxTakes
      BY SessionsAssumption DEF WindowTypeInv, WindowTypeOK, TakeCounted, CaptureTypeOK
    <3> QED BY <3>1, <1>j, CurrentCaptured, ItemFacts DEF RowsInv, OneNaming
  <2>2. \A i \in Item : Queued(i)' => job' # i /\ ~Told(i)'
    BY <1>1, <1>4, <1>j, ItemFacts DEF RowsInv, OneNaming
  <2>3. \A i \in Item : job' # i
    BY <1>1, ItemFacts
  <2>4. gui' = "awaiting" =>
          /\ ~Queued(Current)' /\ job' # Current' /\ ~Told(Current)'
          /\ Current' \notin manual'
          /\ row'[Current'] = "provisional" /\ file'[Current'] = "provisional"
    <3> SUFFICES ASSUME gui' = "awaiting"
                 PROVE  /\ ~Queued(Current)' /\ job' # Current' /\ ~Told(Current)'
                        /\ Current' \notin manual'
                        /\ row'[Current'] = "provisional" /\ file'[Current'] = "provisional"
      OBVIOUS
    <3>0. PICK c : c = Current
      OBVIOUS
    <3>1. Current' = c /\ c # j /\ c # 0 /\ ~Queued(c) /\ ~Told(c) /\ c \notin manual
          /\ row[c] = "provisional" /\ file[c] = "provisional"
      BY <2>1, <3>0, <1>6 DEF RowsInv, OneNaming
    <3>2. ~Queued(c)' /\ ~Told(c)'
      BY <3>1, <1>4
    <3> QED BY <3>1, <3>2, <1>1 DEF Queued, Told
  <2> QED BY <2>2, <2>3, <2>4, <1>1 DEF RowsInv, OneNaming
<1>10. RowsTrue'
  <2>1. ASSUME NEW i \in Item \ manual, row'[i] # "none" PROVE RowTrue(i)'
    <3>1. RowTrue(i)
      BY <1>1, <2>1 DEF RowsInv, RowsTrue
    <3>2. i = j => file[i] = n
      BY <3>1, <1>j, <1>n DEF RowTrue
    <3>3. \A k \in DOMAIN posted' : posted'[k].item = i => posted'[k].name = file'[i]
      BY <3>1, <3>2, <1>1, <1>2, <1>3 DEF RowTrue
    <3>4. Told(i)' \/ row'[i] = file'[i]
      BY <3>1, <1>1, <1>4, <1>j DEF RowTrue
    <3>5. Queued(i)' => file'[i] = "provisional"
      BY <3>1, <1>1, <1>4 DEF RowTrue
    <3> QED BY <3>3, <3>4, <3>5, <1>1, ItemFacts DEF RowTrue
  <2> QED BY <1>1, <2>1 DEF RowsInv, RowsTrue
<1> QED BY <1>7, <1>8, <1>9, <1>10 DEF RowsInv

\* SubmitTake: the take is queued, or nobody can name it.
LEMMA RowsSend ==
  ASSUME WindowTypeInv, RowsInv, [WindowNext]_vars, GuiFinishes, SubmitTake
  PROVE  RowsInv'
<1>c. PICK c \in Item : c = Current /\ gui = "awaiting"
  <2>1. takes \in 1..MaxTakes /\ gui = "awaiting"
    BY SessionsAssumption DEF WindowTypeInv, WindowTypeOK, TakeCounted, CaptureTypeOK, SubmitTake
  <2> QED BY <2>1, CurrentCaptured
<1>t. RowTypes /\ Imported \subseteq Item /\ Captured \subseteq Item
  BY RowTypesHold
<1>1. /\ UNCHANGED <<file, row, manual, picked, posted, blanked, job, named>>
      /\ UNCHANGED <<batch, pending, made>> /\ gui' # "awaiting"
      /\ worker' = worker \/ (worker = "none" /\ worker' = "waiting")
      /\ queue' = queue \/ queue' = Append(queue, c)
  BY <1>c DEF GuiFinishes, SubmitTake, Submit, Done, Raise, importVars, listVars
<1>2. /\ ~Queued(c) /\ job # c /\ ~Told(c) /\ c \notin manual
      /\ row[c] = "provisional" /\ file[c] = "provisional"
  BY <1>c DEF RowsInv, OneNaming
<1>3. /\ \A i : Queued(i)' => Queued(i) \/ i = c
      /\ Distinct(queue)'
  <2>1. c \in Item \cup {STOP} /\ queue \in Seq(Item \cup {STOP})
    BY <1>t DEF RowTypes
  <2>2. CASE queue' = queue
    BY <2>2 DEF Queued, RowsInv, OneNaming
  <2>3. CASE queue' = Append(queue, c)
    BY <2>1, <2>3, <1>2, AppendFacts DEF Queued, RowsInv, OneNaming
  <2> QED BY <1>1, <2>2, <2>3
<1>4. /\ \A t \in Captured : NotYet(t)' => NotYet(t)
      /\ \A i : Told(i)' = Told(i)
  BY <1>1, NotYetShrinks DEF Told
<1>5. Ahead'
  BY <1>1 DEF RowsInv, Ahead
<1>6. RowsBegin'
  BY <1>1, <1>2, <1>3, <1>4, <1>t DEF RowsInv, RowsBegin
<1>7. OneNaming'
  BY <1>1, <1>2, <1>3, <1>4 DEF RowsInv, OneNaming
<1>8. RowsTrue'
  <2>1. ASSUME NEW i \in Item \ manual, row'[i] # "none" PROVE RowTrue(i)'
    <3>1. RowTrue(i)
      BY <1>1, <2>1 DEF RowsInv, RowsTrue
    <3> QED BY <3>1, <1>1, <1>2, <1>3, <1>4 DEF RowTrue
  <2>2. worker' # "telling" => ~named'
    BY <1>1 DEF RowsInv, RowsTrue
  <2> QED BY <1>1, <2>1, <2>2 DEF RowsInv, RowsTrue
<1> QED BY <1>5, <1>6, <1>7, <1>8 DEF RowsInv

\* TakeJob, and LeaveImport: a recording leaves the queue for the hand of the
\* worker, or the queue is told to end.
LEMMA RowsTake ==
  ASSUME WindowTypeInv, StopIsLast, RowsInv, [WindowNext]_vars,
         (WorkerRuns /\ TakeJob) \/ LeaveImport
  PROVE  RowsInv'
<1>t. RowTypes /\ Imported \subseteq Item /\ Captured \subseteq Item /\ STOP \notin Item
      /\ 0 \notin Item
  BY RowTypesHold
<1>1. /\ UNCHANGED <<file, row, manual, picked, posted, blanked, named>>
      /\ UNCHANGED <<batch, pending, made>> /\ ~WriteTake
      /\ gui' # "awaiting" \/ gui' = gui
      /\ worker # "telling" \/ worker' = worker
  BY DEF WorkerRuns, TakeJob, LeaveImport, WriteTake, listVars, importVars
<1>2. /\ Distinct(queue)'
      /\ \A i \in Item : Queued(i)' => Queued(i) /\ job' # i
      /\ \A i \in Item : job' = i => job = i \/ Queued(i)
  <2>1. CASE WorkerRuns /\ TakeJob
    <3>1. queue \in Seq(Item \cup {STOP}) /\ queue # <<>> /\ queue' = Tail(queue)
      BY <2>1, <1>t DEF TakeJob, RowTypes
    <3>2. job' = job \/ job' = Head(queue)
      BY <2>1 DEF TakeJob
    <3> QED BY <3>1, <3>2, TailFacts DEF Queued, RowsInv, OneNaming
  <2>2. CASE LeaveImport
    <3>1. queue \in Seq(Item \cup {STOP}) /\ job' = job
      BY <2>2, <1>t DEF LeaveImport, RowTypes
    <3>2. CASE queue' = queue
      BY <3>1, <3>2 DEF Queued, RowsInv, OneNaming
    <3>3. CASE queue' = Append(queue, STOP)
      <4>1. ~In(STOP, queue)
        BY <2>2 DEF In, StopIsLast, LeaveImport
      <4> QED BY <3>1, <3>3, <4>1, <1>t, AppendFacts DEF Queued, RowsInv, OneNaming
    <3> QED BY <2>2, <3>2, <3>3 DEF LeaveImport
  <2> QED BY <2>1, <2>2
<1>3. /\ \A t \in Captured : NotYet(t)' => NotYet(t)
      /\ \A i : Told(i)' = Told(i)
      /\ gui' = "awaiting" => gui = "awaiting" /\ Current' = Current /\ Current \in Item
  <2>1. gui = "awaiting" => takes \in 1..MaxTakes
    BY SessionsAssumption DEF WindowTypeInv, WindowTypeOK, TakeCounted, CaptureTypeOK
  <2> QED BY <1>1, <2>1, CurrentCaptured, NotYetShrinks DEF Told
<1>4. Ahead'
  BY <1>1 DEF RowsInv, Ahead
<1>5. RowsBegin'
  BY <1>1, <1>2, <1>3, <1>t DEF RowsInv, RowsBegin
<1>6. OneNaming'
  <2>1. \A i \in Item : Queued(i)' => job' # i /\ ~Told(i)'
    BY <1>2, <1>3 DEF RowsInv, OneNaming
  <2>2. \A i \in Item : job' = i => ~Told(i)'
    BY <1>2, <1>3 DEF RowsInv, OneNaming
  <2>3. gui' = "awaiting" =>
          /\ ~Queued(Current)' /\ job' # Current' /\ ~Told(Current)'
          /\ Current' \notin manual'
          /\ row'[Current'] = "provisional" /\ file'[Current'] = "provisional"
    <3> SUFFICES ASSUME gui' = "awaiting"
                 PROVE  /\ ~Queued(Current)' /\ job' # Current' /\ ~Told(Current)'
                        /\ Current' \notin manual'
                        /\ row'[Current'] = "provisional" /\ file'[Current'] = "provisional"
      OBVIOUS
    <3>0. PICK c \in Item : c = Current
      BY <1>3
    <3>1. Current' = c /\ ~Queued(c) /\ job # c /\ ~Told(c) /\ c \notin manual
          /\ row[c] = "provisional" /\ file[c] = "provisional"
      BY <3>0, <1>3 DEF RowsInv, OneNaming
    <3>2. ~Queued(c)' /\ ~Told(c)' /\ job' # c
      BY <3>1, <1>2, <1>3
    <3> QED BY <3>1, <3>2, <1>1 DEF Queued, Told
  <2> QED BY <2>1, <2>2, <2>3, <1>2 DEF OneNaming
<1>7. RowsTrue'
  <2>1. ASSUME NEW i \in Item \ manual, row'[i] # "none" PROVE RowTrue(i)'
    <3>1. RowTrue(i)
      BY <1>1, <2>1 DEF RowsInv, RowsTrue
    <3>2. job' = i /\ job # i => ~named /\ file[i] = "provisional"
      <4>1. job' = i /\ job # i => worker # "telling"
        BY <1>1, <1>t, <2>1 DEF WorkerRuns, TakeJob, LeaveImport
      <4> QED BY <4>1, <3>1, <1>2 DEF RowTrue, RowsInv, RowsTrue
    <3>3. job = i /\ job' # i => ~named
      BY <1>1 DEF TakeJob, LeaveImport, RowsInv, RowsTrue
    <3>4. /\ Queued(i)' => file'[i] = "provisional"
          /\ job' = i => file'[i] = (IF named' THEN "titled" ELSE "provisional")
      BY <3>1, <3>2, <1>1, <1>2 DEF RowTrue
    <3>5. /\ \A k \in DOMAIN posted' : posted'[k].item = i => posted'[k].name = file'[i]
          /\ Told(i)' \/ (job' = i /\ named') \/ row'[i] = file'[i]
      BY <3>1, <3>3, <1>1, <1>3 DEF RowTrue
    <3> QED BY <3>4, <3>5 DEF RowTrue
  <2>2. worker' # "telling" => ~named'
    BY <1>1 DEF RowsInv, RowsTrue
  <2> QED BY <1>1, <2>1, <2>2 DEF RowsInv, RowsTrue
<1> QED BY <1>4, <1>5, <1>6, <1>7 DEF RowsInv

\* The import starting, or handing over: what is ahead stays ahead.
LEMMA AheadKept ==
  ASSUME Ahead, UNCHANGED <<file, row>>,
         (UNCHANGED <<batch, pending, made>>) \/ StartImport \/ DrainPending
  PROVE  Ahead' /\ made' = made
<1>1. CASE UNCHANGED <<batch, pending, made>>
  BY <1>1 DEF Ahead, In, Distinct
<1>2. CASE StartImport
  <2>1. batch' = batch /\ pending' = <<>> /\ made' = made
    BY <1>2 DEF StartImport
  <2>2. Distinct(pending') /\ \A i : ~In(i, pending')
    BY <2>1 DEF Distinct, In
  <2> QED BY <2>1, <2>2 DEF Ahead
<1>3. CASE DrainPending
  <2>1. batch' = pending /\ pending' = <<>> /\ made' = made
    BY <1>3 DEF DrainPending
  <2>2. Distinct(pending') /\ \A i : ~In(i, pending')
    BY <2>1 DEF Distinct, In
  <2> QED BY <2>1, <2>2 DEF Ahead
<1> QED BY <1>1, <1>2, <1>3

\* Reading the job's file, or giving up on it, tells nothing yet.
LEMMA JobKept ==
  ASSUME RowsInv, (UNCHANGED queueVars) \/ ReadJob
  PROVE  /\ UNCHANGED <<queue, job>> /\ (named' <=> named)
         /\ worker' # "telling" => ~named'
<1>1. CASE UNCHANGED queueVars
  BY <1>1 DEF queueVars, RowsInv, RowsTrue
<1>2. CASE ReadJob
  <2>1. ~named /\ worker = "loading"
    BY <1>2 DEF ReadJob, RowsInv, RowsTrue
  <2>2. UNCHANGED <<queue, job>>
    BY <1>2 DEF ReadJob
  <2>3. (named' = named) \/ (named' = FALSE)
    BY <1>2 DEF ReadJob, JobFails
  <2> QED BY <2>1, <2>2, <2>3
<1> QED BY <1>1, <1>2

\* Every other step: what the rows believe stays as true as it was.
LEMMA RowsQuiet ==
  ASSUME WindowTypeInv, RowsInv, [WindowNext]_vars,
         UNCHANGED <<file, row, manual, picked, posted, blanked, queue, job, made>>,
         named' <=> named, worker' # "telling" => ~named', Ahead'
  PROVE  RowsInv'
<1>t. RowTypes /\ Captured \subseteq Item
  BY RowTypesHold
<1>1. ~WriteTake
  <2> SUFFICES ASSUME WriteTake PROVE FALSE
    OBVIOUS
  <2>1. takes \in 1..MaxTakes /\ gui = "writing"
    BY SessionsAssumption DEF WindowTypeInv, WindowTypeOK, TakeCounted, CaptureTypeOK, WriteTake
  <2>2. PICK c \in Captured : c = Current
    BY <2>1, CurrentCaptured
  <2>3. row[c] = "none"
    BY <2>1, <2>2 DEF RowsInv, RowsBegin, NotYet
  <2>4. row'[c] = "provisional"
    BY <2>2, <1>t DEF WriteTake, AddRow, RowTypes
  <2> QED BY <2>3, <2>4
<1>2. OneNaming'
  BY <1>1, NamingBehind
<1>3. \A i : (Queued(i)' <=> Queued(i)) /\ (Told(i)' <=> Told(i))
  BY DEF Queued, Told
<1>4. RowsBegin'
  <2>1. \A t \in Captured : NotYet(t)' => NotYet(t)
    BY NotYetShrinks
  <2> QED BY <1>3, <2>1 DEF RowsInv, RowsBegin
<1>5. RowsTrue'
  <2>1. ASSUME NEW i \in Item \ manual, row[i] # "none" PROVE RowTrue(i)'
    <3>1. RowTrue(i)
      BY <2>1 DEF RowsInv, RowsTrue
    <3> QED BY <3>1, <1>3 DEF RowTrue
  <2> QED BY <2>1 DEF RowsInv, RowsTrue
<1> QED BY <1>2, <1>4, <1>5 DEF RowsInv

LEMMA RowsStep ==
  ASSUME WindowTypeInv, StopIsLast, RowsInv, [WindowNext]_vars
  PROVE  RowsInv'
<1>1. CASE GuiTicks /\ SubmitImported
  BY <1>1, RowsSubmit
<1>2. CASE ImportRuns /\ QueueSubmit
  BY <1>2, RowsFile
<1>3. CASE GuiFinishes /\ WriteTake
  BY <1>3, RowsWrite
<1>4. CASE GuiApplies
  BY <1>4, RowsApply
<1>5. CASE UserRenamesRow /\ \E i \in Item : PickRow(i)
  BY <1>5, RowsPick
<1>6. CASE UserRenamesRow /\ RenameByHand
  BY <1>6, RowsRename
<1>7. CASE WorkerRuns /\ RenameJob
  BY <1>7, RowsName
<1>8. CASE WorkerRuns /\ FinishJob
  BY <1>8, RowsTell
<1>9. CASE GuiFinishes /\ SubmitTake
  BY <1>9, RowsSend
<1>10. CASE (WorkerRuns /\ TakeJob) \/ LeaveImport
  BY <1>10, RowsTake
<1>11. CASE /\ UNCHANGED <<session, listVars>> /\ (UNCHANGED queueVars \/ ReadJob)
            /\ ~(ImportRuns /\ QueueSubmit) /\ ~(GuiTicks /\ SubmitImported)
            /\ ~LeaveImport
  <2>1. UNCHANGED <<file, row, manual, picked, posted, blanked>>
    BY <1>11 DEF listVars
  <2>2. (UNCHANGED <<batch, pending, made>>) \/ StartImport \/ DrainPending
    BY <1>11, ImportFrame DEF importVars, MarkFinished, TickEnds, Close
  <2>3. Ahead' /\ made' = made
    BY <2>1, <2>2, AheadKept DEF RowsInv
  <2>4. /\ UNCHANGED <<queue, job>> /\ (named' <=> named)
        /\ worker' # "telling" => ~named'
    BY <1>11, JobKept
  <2> QED BY <2>1, <2>3, <2>4, RowsQuiet
<1> QED BY ListFrame, QueueFrame, <1>1, <1>2, <1>3, <1>4, <1>5, <1>6, <1>7, <1>8, <1>9,
  <1>10, <1>11

LEMMA RowsInit == WindowInit => RowsInv
<1> SUFFICES ASSUME WindowInit PROVE RowsInv
  OBVIOUS
<1>t. /\ Unnamed \subseteq Orphan /\ Orphan \cap Imported = {} /\ Orphan \cap Captured = {}
      /\ \A i \in Item : i # 0
      /\ \A i \in Unnamed : row[i] # "none" /\ i \in Item
  BY ItemFacts DEF Unnamed, Item
<1>l. /\ manual = {} /\ blanked = {} /\ picked = 0 /\ posted = <<>> /\ gui = "free"
      /\ \A i \in Item : row[i] # "none" => row[i] = "provisional" /\ file[i] = "provisional"
                                            /\ i \in Orphan
      /\ job = 0 /\ ~named /\ batch = <<>> /\ pending = <<>>
  BY DEF WindowInit, TakeListInit, NamingQueueInit, ImportHandoffInit
<1>q. /\ Cardinality(Unnamed) \in Nat /\ queue \in [1..Cardinality(Unnamed) -> Unnamed]
      /\ \A j, k \in DOMAIN queue : j < k => queue[j] < queue[k]
  <2>1. IsFiniteSet(Orphan)
    BY SessionsAssumption, FS_Interval DEF Orphan
  <2> QED BY <2>1, FS_Subset, FS_CardinalityType DEF Unnamed, WindowInit, NamingQueueInit
<1>1. Distinct(queue)
  <2> SUFFICES ASSUME NEW j \in DOMAIN queue, NEW k \in DOMAIN queue, queue[j] = queue[k]
               PROVE  j = k
    BY DEF Distinct
  <2>1. DOMAIN queue = 1..Cardinality(Unnamed) /\ queue[j] \in Unnamed /\ queue[k] \in Unnamed
    BY <1>q
  <2>2. Unnamed \subseteq Nat
    BY <1>t, SessionsAssumption DEF Orphan
  <2>3. j \in 1..Cardinality(Unnamed) /\ k \in 1..Cardinality(Unnamed)
    BY <2>1
  <2>4. j \in Nat /\ k \in Nat /\ queue[j] \in Nat /\ queue[k] \in Nat
    <3>1. Cardinality(Unnamed) \in Nat
      BY <1>q
    <3>2. \A n \in Nat : \A x \in 1..n : x \in Nat
      OBVIOUS
    <3>3. j \in Nat /\ k \in Nat
      BY <2>3, <3>1, <3>2
    <3>4. queue[j] \in Nat /\ queue[k] \in Nat
      BY <2>1, <2>2
    <3> QED BY <3>3, <3>4
  <2>5. (j < k => queue[j] < queue[k]) /\ (k < j => queue[k] < queue[j])
    BY <1>q
  <2> QED BY <2>4, <2>5
<1>2. \A i : Queued(i) => i \in Unnamed
  BY <1>q DEF Queued, In
<1>3. \A i : ~Told(i)
  BY <1>l DEF Told
<1>4. Ahead
  BY <1>l DEF Ahead, Distinct, In
<1>5. RowsBegin
  BY <1>l, <1>t, <1>2, <1>3 DEF RowsBegin, Item
<1>6. OneNaming
  BY <1>l, <1>t, <1>1, <1>2, <1>3 DEF OneNaming
<1>7. RowsTrue
  <2>1. ASSUME NEW i \in Item \ manual, row[i] # "none" PROVE RowTrue(i)
    BY <1>l, <1>t, <2>1 DEF RowTrue
  <2> QED BY <1>l, <2>1 DEF RowsTrue
<1> QED BY <1>4, <1>5, <1>6, <1>7 DEF RowsInv

\* However a naming, its result and the user's renamings cross, a row whose
\* naming is over knows where its file is, and a name given by hand stays.
THEOREM RowsAreRight == WindowSpec => []RowsFindTheirFiles
<1>1. WindowInit => StopIsLast
  <2> SUFFICES ASSUME WindowInit PROVE StopIsLast
    OBVIOUS
  <2>1. Unnamed \subseteq Item /\ STOP \notin Item
    BY ItemFacts DEF Unnamed, Item
  <2>2. \A k \in DOMAIN queue : queue[k] \in Unnamed
    BY DEF WindowInit, NamingQueueInit
  <2> QED BY <2>1, <2>2 DEF StopIsLast
<1>2. WindowTypeInv /\ StopIsLast /\ [WindowNext]_vars => StopIsLast'
  BY StopIsLastStep
<1>3. WindowTypeInv /\ StopIsLast /\ RowsInv /\ [WindowNext]_vars => RowsInv'
  BY RowsStep
<1>4. WindowTypeInv /\ RowsInv => RowsFindTheirFiles
  <2> SUFFICES ASSUME WindowTypeInv, RowsInv, NEW i \in Item
               PROVE  /\ Settled(i) /\ i \notin blanked => row[i] = file[i]
                      /\ i \in manual \ blanked => file[i] = "manual"
    BY DEF RowsFindTheirFiles
  <2>1. i \in manual \ blanked => file[i] = "manual" /\ row[i] = "manual"
    BY DEF RowsInv, RowsTrue
  <2>2. Settled(i) /\ i \notin manual => row[i] = file[i]
    BY DEF RowsInv, RowsTrue, RowTrue, Settled, Told
  <2> QED BY <2>1, <2>2
<1> QED BY <1>1, <1>2, <1>3, <1>4, RowsInit, WindowTypesHold, PTL DEF WindowSpec

-----------------------------------------------------------------------------
(* Handing over implements Delivery. *)

Rising(s) ==
  \A j, k \in DOMAIN s : j < k /\ s[j] \in Imported /\ s[k] \in Imported => s[j] < s[k]

Behind(i) == In(i, batch) \/ In(i, pending)

\* What was filed first is ahead.
InOrder ==
  /\ Rising(queue) /\ Rising(batch) /\ Rising(pending)
  /\ \A i, j \in Imported : In(i, queue) /\ Behind(j) => i < j
  /\ \A i, j \in Imported : In(i, batch) /\ In(j, pending) => i < j
  /\ \A i, j \in Imported : job = i /\ (In(j, queue) \/ Behind(j)) => i < j
  /\ OnTheWay \subseteq 1..made

OnServed == {i \in Imported : In(i, served)}

Delivers ==
  \/ Handing!File \/ Handing!Serve \/ Handing!GiveUp
  \/ made' = made /\ OnTheWay' = OnTheWay /\ OnServed' = OnServed

LEMMA EmptyFacts == Rising(<<>>) /\ \A x : ~In(x, <<>>)
BY DEF Rising, In

LEMMA RisingAppend ==
  ASSUME NEW S, NEW s \in Seq(S), NEW e \in S, Rising(s),
         e \in Imported => \A i \in Imported : In(i, s) => i < e
  PROVE  Rising(Append(s, e)) /\ \A x : In(x, Append(s, e)) <=> In(x, s) \/ x = e
<1>1. /\ DOMAIN Append(s, e) = 1..Len(s) + 1 /\ Append(s, e)[Len(s) + 1] = e
      /\ \A k \in 1..Len(s) : Append(s, e)[k] = s[k]
      /\ DOMAIN s = 1..Len(s) /\ Len(s) \in Nat
  OBVIOUS
<1>2. ASSUME NEW j \in 1..Len(s) + 1, NEW k \in 1..Len(s) + 1, j < k,
             Append(s, e)[j] \in Imported, Append(s, e)[k] \in Imported
      PROVE  Append(s, e)[j] < Append(s, e)[k]
  <2>1. j \in 1..Len(s) /\ In(Append(s, e)[j], s)
    BY <1>1, <1>2 DEF In
  <2>2. CASE k = Len(s) + 1
    BY <1>1, <1>2, <2>1, <2>2
  <2>3. CASE k # Len(s) + 1
    <3>1. k \in 1..Len(s)
      BY <1>1, <2>3
    <3> QED BY <1>1, <1>2, <2>1, <3>1 DEF Rising
  <2> QED BY <2>2, <2>3
<1>3. Rising(Append(s, e))
  BY <1>1, <1>2 DEF Rising
<1> QED BY <1>3, AppendFacts

LEMMA RisingTail ==
  ASSUME NEW S, NEW s \in Seq(S), s # <<>>, Rising(s)
  PROVE  /\ Rising(Tail(s)) /\ Head(s) \in S
         /\ \A x : In(x, s) <=> x = Head(s) \/ In(x, Tail(s))
         /\ Head(s) \in Imported => \A i \in Imported : In(i, Tail(s)) => Head(s) < i
<1>1. /\ Len(s) \in Nat \ {0} /\ DOMAIN s = 1..Len(s) /\ Head(s) = s[1]
      /\ DOMAIN Tail(s) = 1..Len(s) - 1
      /\ \A k \in 1..Len(s) - 1 : Tail(s)[k] = s[k + 1]
  OBVIOUS
<1>2. \A k \in 1..Len(s) - 1 : k + 1 \in 1..Len(s) /\ 1 < k + 1
  BY <1>1
<1>3. Rising(Tail(s))
  <2> SUFFICES ASSUME NEW j \in 1..Len(s) - 1, NEW k \in 1..Len(s) - 1, j < k,
                      Tail(s)[j] \in Imported, Tail(s)[k] \in Imported
               PROVE  Tail(s)[j] < Tail(s)[k]
    BY <1>1 DEF Rising
  <2>1. j + 1 < k + 1 /\ Tail(s)[j] = s[j + 1] /\ Tail(s)[k] = s[k + 1]
    BY <1>1
  <2> QED BY <1>1, <1>2, <2>1 DEF Rising
<1>4. ASSUME NEW i \in Imported, In(i, Tail(s)), Head(s) \in Imported PROVE Head(s) < i
  <2>1. PICK k \in 1..Len(s) - 1 : s[k + 1] = i
    BY <1>1, <1>4 DEF In
  <2> QED BY <1>1, <1>2, <1>4, <2>1 DEF Rising
<1>5. Head(s) \in S /\ \A x : In(x, s) <=> x = Head(s) \/ In(x, Tail(s))
  BY TailFacts
<1> QED BY <1>3, <1>4, <1>5

\* What the steps see of InOrder.
LEMMA OrderTypes ==
  ASSUME WindowTypeInv, InOrder
  PROVE  /\ queue \in Seq(Item \cup {STOP}) /\ batch \in Seq(Imported)
         /\ pending \in Seq(Imported) /\ served \in Seq(Item) /\ made \in Nat
         /\ Imported \subseteq Item /\ Imported \subseteq Nat \ {0} /\ STOP \notin Imported
         /\ Captured \subseteq Item /\ Captured \cap Imported = {}
         /\ \A i \in OnTheWay : i \in Nat /\ i <= made
<1>1. /\ queue \in Seq(Item \cup {STOP}) /\ batch \in Seq(Imported)
      /\ pending \in Seq(Imported) /\ made \in Nat /\ Imported \subseteq Item
      /\ Captured \subseteq Item /\ Imported \cap Captured = {}
  BY RowTypesHold DEF RowTypes
<1>2. served \in Seq(Item)
  BY DEF WindowTypeInv, WindowTypeOK, NamingQueueTypeOK
<1>3. Imported \subseteq Nat \ {0} /\ STOP \notin Imported
  BY <1>1, ItemFacts
<1>4. \A i \in OnTheWay : i \in Nat /\ i <= made
  BY <1>1, <1>3 DEF InOrder
<1> QED BY <1>1, <1>2, <1>3, <1>4

LEMMA OrderSubmit ==
  ASSUME WindowTypeInv, InOrder, SubmitImported
  PROVE  InOrder' /\ Delivers
<1>t. /\ queue \in Seq(Item \cup {STOP}) /\ batch \in Seq(Imported) /\ Imported \subseteq Item
  BY OrderTypes
<1>a. /\ batch # <<>> /\ queue' = Append(queue, Head(batch)) /\ batch' = Tail(batch)
      /\ UNCHANGED <<pending, made, job, served>>
  BY DEF SubmitImported, Submit
<1>1. PICK h : h = Head(batch)
  OBVIOUS
<1>2. /\ Rising(batch') /\ h \in Imported
      /\ \A x : In(x, batch) <=> x = h \/ In(x, batch')
      /\ \A i \in Imported : In(i, batch') => h < i
  BY <1>t, <1>a, <1>1, RisingTail DEF InOrder
<1>3. \A i \in Imported : In(i, queue) => i < h
  BY <1>2 DEF InOrder, Behind
<1>4. Rising(queue') /\ \A x : In(x, queue') <=> In(x, queue) \/ x = h
  <2>1. h \in Item \cup {STOP} /\ queue' = Append(queue, h)
    BY <1>t, <1>a, <1>1, <1>2
  <2> QED BY <1>t, <1>3, <2>1, RisingAppend DEF InOrder
<1>5. OnTheWay' = OnTheWay /\ OnServed' = OnServed
  BY <1>a, <1>2, <1>4 DEF OnTheWay, OnServed
<1>6. InOrder'
  BY <1>a, <1>2, <1>4, <1>5 DEF InOrder, Behind
<1> QED BY <1>a, <1>5, <1>6 DEF Delivers

LEMMA OrderFile ==
  ASSUME WindowTypeInv, InOrder, QueueSubmit
  PROVE  InOrder' /\ Delivers
<1>t. /\ pending \in Seq(Imported) /\ made \in Nat /\ Imported \subseteq Nat \ {0}
      /\ \A i \in OnTheWay : i \in Nat /\ i <= made
  BY OrderTypes
<1>1. PICK m : m = made + 1
  OBVIOUS
<1>a. /\ made' = m /\ pending' = Append(pending, m)
      /\ UNCHANGED <<queue, batch, job, served>>
  BY <1>1 DEF QueueSubmit, queueVars
<1>2. m \in Imported /\ m \in Nat
  <2>1. session.paths \in 0..MaxPaths
    BY SessionsAssumption DEF WindowTypeInv, WindowTypeOK, TakeListTypeOK, Session
  <2> QED BY <2>1, <1>t, <1>1, SessionsAssumption DEF QueueSubmit, Imported
<1>3. \A i \in OnTheWay : i < m
  BY <1>t, <1>1, <1>2
<1>4. \A i \in Imported : In(i, queue) \/ Behind(i) \/ i = job => i < m
  BY <1>3 DEF OnTheWay, Behind
<1>5. Rising(pending') /\ \A x : In(x, pending') <=> In(x, pending) \/ x = m
  BY <1>t, <1>a, <1>2, <1>4, RisingAppend DEF InOrder, Behind
<1>6. OnTheWay' = OnTheWay \cup {m} /\ OnServed' = OnServed
  BY <1>a, <1>2, <1>5 DEF OnTheWay, OnServed
<1>7. OnTheWay' \subseteq 1..made'
  <2>1. \A i \in OnTheWay : i \in 1..made /\ i \in 1..m
    BY <1>t, <1>1 DEF InOrder
  <2> QED BY <1>a, <1>1, <1>6, <1>t, <2>1
<1>8. InOrder'
  BY <1>a, <1>4, <1>5, <1>7 DEF InOrder, Behind
<1>9. Handing!File
  BY <1>a, <1>1, <1>6 DEF Handing!File, OnServed
<1> QED BY <1>8, <1>9 DEF Delivers

\* What is queued of the receiver's takes, or to end the queue, is no import's.
LEMMA OrderOther ==
  ASSUME WindowTypeInv, InOrder, NEW e \in (Item \cup {STOP}) \ Imported,
         queue' = Append(queue, e),
         UNCHANGED <<batch, pending, made, job, served>>
  PROVE  InOrder' /\ Delivers
<1>t. queue \in Seq(Item \cup {STOP})
  BY OrderTypes
<1>1. Rising(queue') /\ \A x : In(x, queue') <=> In(x, queue) \/ x = e
  BY <1>t, RisingAppend DEF InOrder
<1>2. OnTheWay' = OnTheWay /\ OnServed' = OnServed
  BY <1>1 DEF OnTheWay, OnServed
<1>3. InOrder'
  BY <1>1, <1>2 DEF InOrder, Behind
<1> QED BY <1>2, <1>3 DEF Delivers

LEMMA OrderTake ==
  ASSUME WindowTypeInv, InOrder, TakeJob, UNCHANGED <<batch, pending, made>>
  PROVE  InOrder' /\ Delivers
<1>t. /\ queue \in Seq(Item \cup {STOP}) /\ STOP \notin Imported /\ 0 \notin Imported
  BY OrderTypes
<1>1. PICK h : h = Head(queue)
  OBVIOUS
<1>a. /\ queue # <<>> /\ queue' = Tail(queue) /\ served' = served /\ job = 0
      /\ (h = STOP /\ job' = job) \/ (h # STOP /\ job' = h)
  BY <1>1 DEF TakeJob, WindowTypeInv, WindowTypeOK, NamingQueueTypeOK
<1>2. /\ Rising(queue') /\ \A x : In(x, queue) <=> x = h \/ In(x, queue')
      /\ h \in Imported => \A i \in Imported : In(i, queue') => h < i
  BY <1>t, <1>a, <1>1, RisingTail DEF InOrder
<1>3. OnTheWay' = OnTheWay /\ OnServed' = OnServed
  BY <1>t, <1>a, <1>2 DEF OnTheWay, OnServed
<1>4. InOrder'
  BY <1>t, <1>a, <1>2, <1>3 DEF InOrder, Behind
<1> QED BY <1>3, <1>4 DEF Delivers

LEMMA OrderTell ==
  ASSUME WindowTypeInv, InOrder, FinishJob, UNCHANGED <<batch, pending, made>>
  PROVE  InOrder' /\ Delivers
<1>t. served \in Seq(Item) /\ 0 \notin Imported /\ Imported \subseteq Nat
  BY OrderTypes
<1>1. PICK d : d = job
  OBVIOUS
<1>a. /\ d \in Item /\ job' = 0 /\ served' = Append(served, d) /\ queue' = queue
  BY <1>1 DEF FinishJob, WindowTypeInv, WindowTypeOK, NamingQueueTypeOK
<1>2. \A x : In(x, served') <=> In(x, served) \/ x = d
  BY <1>t, <1>a, AppendFacts
<1>3. \A i \in Imported : i = d => ~In(i, queue) /\ ~In(i, batch) /\ ~In(i, pending)
  BY <1>t, <1>1 DEF InOrder, Behind
<1>4. OnTheWay' = OnTheWay \ {d}
  BY <1>t, <1>1, <1>a, <1>3 DEF OnTheWay
<1>5. InOrder'
  BY <1>t, <1>a, <1>4 DEF InOrder, Behind
<1>6. CASE d \in Imported
  <2>1. d \in OnTheWay /\ \A j \in OnTheWay : d <= j
    BY <1>t, <1>1, <1>6 DEF InOrder, OnTheWay, Behind
  <2>2. OnServed' = OnServed \cup {d}
    BY <1>2, <1>6 DEF OnServed
  <2>3. Handing!Serve
    BY <1>4, <2>1, <2>2 DEF Handing!Serve, OnServed
  <2> QED BY <1>5, <2>3 DEF Delivers
<1>7. CASE d \notin Imported
  <2>1. OnTheWay' = OnTheWay /\ OnServed' = OnServed
    BY <1>2, <1>4, <1>7 DEF OnServed, OnTheWay
  <2> QED BY <1>5, <2>1 DEF Delivers
<1> QED BY <1>6, <1>7

\* A new import drops what an earlier one left in its snapshot: the youngest.
LEMMA OrderStart ==
  ASSUME WindowTypeInv, InOrder, StartImport
  PROVE  InOrder' /\ Delivers
<1>t. /\ pending \in Seq(Imported) /\ made \in Nat /\ Imported \subseteq Nat \ {0}
      /\ \A i \in OnTheWay : i \in Nat /\ i <= made
  BY OrderTypes
<1>a. pending' = <<>> /\ UNCHANGED <<made, batch, queue, job, served>>
  BY DEF StartImport, workerAll, queueVars
<1>1. Rising(pending') /\ \A x : ~In(x, pending')
  BY <1>a, EmptyFacts
<1>2. OnTheWay' = {i \in Imported : i = job \/ In(i, queue) \/ In(i, batch)}
  BY <1>a, <1>1 DEF OnTheWay
<1>3. InOrder'
  <2>1. OnTheWay' \subseteq OnTheWay
    BY <1>2 DEF OnTheWay
  <2> QED BY <1>a, <1>1, <2>1 DEF InOrder, Behind
<1>4. OnServed' = OnServed
  BY <1>a DEF OnServed
<1>5. CASE pending = <<>>
  <2>1. OnTheWay' = OnTheWay
    BY <1>2, <1>5, EmptyFacts DEF OnTheWay
  <2> QED BY <1>a, <1>3, <1>4, <2>1 DEF Delivers
<1>6. CASE pending # <<>>
  <2>1. PICK h : h = Head(pending)
    OBVIOUS
  <2>2. /\ h \in Imported /\ \A x : In(x, pending) <=> x = h \/ In(x, Tail(pending))
        /\ \A i \in Imported : In(i, Tail(pending)) => h < i
    BY <1>t, <1>6, <2>1, RisingTail DEF InOrder
  <2>3. h \in OnTheWay /\ h \in Nat \ {0} /\ h <= made
    BY <1>t, <2>2 DEF OnTheWay
  <2>4. PICK k \in 0..made : k = h - 1
    BY <1>t, <2>3
  <2>5. \A i \in Imported : In(i, pending) => h <= i
    BY <1>t, <2>2, <2>3
  <2>6. \A i \in Imported : i = job \/ In(i, queue) \/ In(i, batch) => i < h
    BY <2>2 DEF InOrder, Behind
  <2>7. OnTheWay' = {i \in OnTheWay : i <= k}
    <3>1. \A i \in Imported : i < h <=> i <= k
      BY <1>t, <2>3, <2>4
    <3>2. \A i \in Imported : h <= i => ~(i <= k)
      BY <1>t, <2>3, <2>4
    <3> QED BY <1>2, <2>5, <2>6, <3>1, <3>2 DEF OnTheWay
  <2>8. Handing!GiveUp
    BY <1>a, <1>4, <2>4, <2>7 DEF Handing!GiveUp, OnServed
  <2> QED BY <1>3, <2>8 DEF Delivers
<1> QED BY <1>5, <1>6

LEMMA OrderDrain ==
  ASSUME WindowTypeInv, InOrder, DrainPending
  PROVE  InOrder' /\ Delivers
<1>a. /\ batch = <<>> /\ batch' = pending /\ pending' = <<>>
      /\ UNCHANGED <<made, queue, job, served>>
  BY DEF DrainPending, workerAll, queueVars, WindowTypeInv, WindowTypeOK, ImportHandoffTypeOK
<1>1. Rising(pending') /\ \A x : ~In(x, pending') /\ ~In(x, batch)
  BY <1>a, EmptyFacts
<1>2. OnTheWay' = OnTheWay /\ OnServed' = OnServed
  BY <1>a, <1>1 DEF OnTheWay, OnServed
<1>3. InOrder'
  BY <1>a, <1>1, <1>2 DEF InOrder, Behind
<1> QED BY <1>a, <1>2, <1>3 DEF Delivers

LEMMA OrderQuiet ==
  ASSUME InOrder, UNCHANGED <<queue, job, served, batch, pending, made>>
  PROVE  InOrder' /\ Delivers
<1>1. OnTheWay' = OnTheWay /\ OnServed' = OnServed
  BY DEF OnTheWay, OnServed, In
<1>2. InOrder'
  BY <1>1 DEF InOrder, Behind, Rising, In
<1> QED BY <1>1, <1>2 DEF Delivers

\* SubmitTake: the take is queued, or nobody can name it.
LEMMA OrderSend ==
  ASSUME WindowTypeInv, InOrder, GuiFinishes, SubmitTake
  PROVE  InOrder' /\ Delivers
<1>1. takes \in 1..MaxTakes
  BY SessionsAssumption DEF WindowTypeInv, WindowTypeOK, TakeCounted, CaptureTypeOK, SubmitTake
<1>2. PICK c \in (Item \cup {STOP}) \ Imported : c = Current
  BY <1>1, CurrentCaptured, OrderTypes
<1>3. /\ UNCHANGED <<batch, pending, made, job, served>>
      /\ queue' = queue \/ queue' = Append(queue, c)
  BY <1>2 DEF GuiFinishes, SubmitTake, Submit, importVars
<1>4. CASE queue' = queue
  BY <1>3, <1>4, OrderQuiet
<1>5. CASE queue' = Append(queue, c)
  BY <1>3, <1>5, OrderOther
<1> QED BY <1>3, <1>4, <1>5

LEMMA OrderLeave ==
  ASSUME WindowTypeInv, InOrder, LeaveImport
  PROVE  InOrder' /\ Delivers
<1>1. PICK e \in (Item \cup {STOP}) \ Imported : e = STOP
  BY OrderTypes
<1>2. /\ UNCHANGED <<batch, pending, made, job, served>>
      /\ queue' = queue \/ queue' = Append(queue, e)
  BY <1>1 DEF LeaveImport
<1>3. CASE queue' = queue
  BY <1>2, <1>3, OrderQuiet
<1>4. CASE queue' = Append(queue, e)
  BY <1>2, <1>4, OrderOther
<1> QED BY <1>2, <1>3, <1>4

LEMMA OrderStep ==
  ASSUME WindowTypeInv, InOrder, [WindowNext]_vars
  PROVE  InOrder' /\ Delivers
<1>1. CASE GuiTicks /\ SubmitImported
  BY <1>1, OrderSubmit
<1>2. CASE ImportRuns /\ QueueSubmit
  BY <1>2, OrderFile
<1>3. CASE GuiFinishes /\ SubmitTake
  BY <1>3, OrderSend
<1>4. CASE LeaveImport
  BY <1>4, OrderLeave
<1>5. CASE WorkerRuns /\ TakeJob
  BY <1>5, OrderTake DEF WorkerRuns, importVars
<1>6. CASE WorkerRuns /\ FinishJob
  BY <1>6, OrderTell DEF WorkerRuns, importVars
<1>7. CASE UserImports /\ StartImport
  BY <1>7, OrderStart
<1>8. CASE GuiTicks /\ DrainPending
  BY <1>8, OrderDrain
<1>9. CASE /\ UNCHANGED queueVars \/ ReadJob \/ RenameJob
           /\ UNCHANGED importVars \/ MarkFinished \/ TickEnds \/ Close
  <2>1. UNCHANGED <<queue, job, served>>
    BY <1>9 DEF queueVars, ReadJob, RenameJob
  <2>2. UNCHANGED <<batch, pending, made>>
    BY <1>9 DEF importVars, MarkFinished, TickEnds, Close
  <2> QED BY <2>1, <2>2, OrderQuiet
<1> QED BY QueueFrame, ImportFrame, <1>1, <1>2, <1>3, <1>4, <1>5, <1>6, <1>7, <1>8, <1>9

LEMMA OrderInit == WindowInit => InOrder /\ Handing!Init
<1> SUFFICES ASSUME WindowInit PROVE InOrder /\ Handing!Init
  OBVIOUS
<1>1. job = 0 /\ served = <<>> /\ made = 0 /\ batch = <<>> /\ pending = <<>>
  BY DEF WindowInit, NamingQueueInit, ImportHandoffInit
<1>2. \A k \in DOMAIN queue : queue[k] \notin Imported
  <2>1. \A k \in DOMAIN queue : queue[k] \in Unnamed
    BY DEF WindowInit, NamingQueueInit
  <2> QED BY <2>1, ItemFacts DEF Unnamed
<1>3. OnTheWay = {} /\ OnServed = {}
  BY <1>1, <1>2, ItemFacts, EmptyFacts DEF OnTheWay, OnServed, In
<1>4. Rising(queue) /\ Rising(batch) /\ Rising(pending)
  BY <1>1, <1>2, EmptyFacts DEF Rising
<1>5. \A i \in Imported : ~In(i, queue) /\ ~Behind(i) /\ job # i
  BY <1>3, <1>1 DEF OnTheWay, Behind
<1>6. InOrder
  BY <1>3, <1>4, <1>5 DEF InOrder, Behind
<1> QED BY <1>1, <1>3, <1>6 DEF Handing!Init, OnServed

LEMMA InOrderHolds == WindowSpec => []InOrder
<1>1. WindowInit => InOrder
  BY OrderInit
<1>2. WindowTypeInv /\ InOrder /\ [WindowNext]_vars => InOrder'
  BY OrderStep
<1> QED BY <1>1, <1>2, WindowTypesHold, PTL DEF WindowSpec

\* However the threads interleave, what an import files is served once and in
\* order: the window implements Delivery.
THEOREM HandingOverIsDelivered == WindowSpec => DeliveryIsKept
<1>1. WindowInit => Handing!Init
  BY OrderInit
<1>2. WindowTypeInv /\ InOrder /\ [WindowNext]_vars =>
        [Handing!File \/ Handing!Serve \/ Handing!GiveUp]_(Handing!deliveryVars)
  BY OrderStep DEF Delivers, OnServed, Handing!deliveryVars
<1> QED
  BY <1>1, <1>2, WindowTypesHold, InOrderHolds, PTL
     DEF WindowSpec, DeliveryIsKept, Handing!Spec

\* What that gives the user: no import is named before one filed earlier that
\* still waits its turn.
THEOREM ImportsAreServedInOrder == WindowSpec => []Handing!ServedInOrder
<1>1. WindowInit => Handing!ServedInOrder
  <2> SUFFICES ASSUME WindowInit PROVE Handing!ServedInOrder
    OBVIOUS
  <2>1. OnTheWay = {} /\ {i \in Imported : In(i, served)} = {}
    BY OrderInit DEF Handing!Init
  <2> QED BY <2>1 DEF Handing!ServedInOrder
<1>2. ASSUME WindowTypeInv, InOrder, Handing!ServedInOrder, [WindowNext]_vars
      PROVE  Handing!ServedInOrder'
  <2>1. PICK f : f = made
    OBVIOUS
  <2>2. PICK w : w = OnTheWay
    OBVIOUS
  <2>3. PICK s : s = OnServed
    OBVIOUS
  <2>4. /\ f \in Nat /\ w \subseteq 1..f /\ s \subseteq 1..f
        /\ \A i \in s, j \in w : i < j
    BY <1>2, <2>1, <2>2, <2>3, OrderTypes DEF Handing!ServedInOrder, OnServed
  <2>5. Delivers
    BY <1>2, OrderStep
  <2>6. \/ made' = f + 1 /\ OnTheWay' = w \cup {f + 1} /\ OnServed' = s
        \/ /\ made' = f
           /\ \E i \in w : /\ \A j \in w : i <= j
                           /\ OnTheWay' = w \ {i} /\ OnServed' = s \cup {i}
        \/ made' = f /\ OnTheWay' \subseteq w /\ OnServed' = s
    BY <2>1, <2>2, <2>3, <2>5
       DEF Delivers, OnServed, Handing!File, Handing!Serve, Handing!GiveUp
  <2>7. /\ OnTheWay' \cup OnServed' \subseteq 1..made'
        /\ \A i \in OnServed', j \in OnTheWay' : i < j
    <3>1. CASE made' = f + 1 /\ OnTheWay' = w \cup {f + 1} /\ OnServed' = s
      <4>1. \A i \in 1..f : i < f + 1 /\ i \in 1..f + 1
        BY <2>4
      <4> QED BY <2>4, <3>1, <4>1
    <3>2. CASE made' = f /\ OnTheWay' \subseteq w /\ OnServed' = s
      BY <2>4, <3>2
    <3>3. ASSUME NEW i \in w, made' = f, \A j \in w : i <= j,
                 OnTheWay' = w \ {i}, OnServed' = s \cup {i}
          PROVE  /\ OnTheWay' \cup OnServed' \subseteq 1..made'
                 /\ \A a \in OnServed', j \in OnTheWay' : a < j
      <4>1. \A j \in w \ {i} : i < j
        BY <2>4, <3>3
      <4> QED BY <2>4, <3>3, <4>1
    <3> QED BY <2>6, <3>1, <3>2, <3>3
  <2> QED BY <2>7 DEF Handing!ServedInOrder, OnServed
<1> QED BY <1>1, <1>2, WindowTypesHold, InOrderHolds, PTL DEF WindowSpec
=============================================================================

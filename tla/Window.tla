------------------------------- MODULE Window -------------------------------
(***************************************************************************)
(* The whole window: one GUI thread that hands imported recordings over,   *)
(* polls the receiver, stops takes, renames rows and closes; and beside it *)
(* the import thread, the capture thread, the loader of the model and the  *)
(* naming worker.  It composes ImportHandoff and Capture over one list,    *)
(* one queue and one model, and adds shutdown.                             *)
(***************************************************************************)
EXTENDS ImportHandoff, Capture

vars == <<session, gui, closing, listVars, modelVars, queueVars, importVars, captureVars>>

Flags ==
  {closing, model, named, finished, timer,
   plugged, context, listed, stop, audio, rxLost}

WindowTypeOK ==
  /\ Flags \subseteq BOOLEAN
  /\ TakeListTypeOK /\ ModelTypeOK /\ NamingQueueTypeOK
  /\ ImportHandoffTypeOK /\ CaptureTypeOK
  /\ asking["gui"] # "no" <=> gui = "awaiting"

WindowInit ==
  /\ TakeListInit /\ NamingQueueInit /\ ImportHandoffInit /\ CaptureInit

-----------------------------------------------------------------------------
(* shutdown, once: from closeEvent, or from main when the loop has ended. *)

\* Variant: a take in progress is left to the thread that records it.
CloseWithoutFinishing ==
  /\ gui = "free"
  /\ closing' = TRUE
  /\ timer' = FALSE
  /\ gui' = "leaving"
  /\ UNCHANGED <<session, listVars, modelVars, queueVars, captureVars, thread, made>>
  /\ UNCHANGED <<pending, finished, batch>>

\* Variant: the queue is told to stop before the last take is finished.
CloseQueueFirst ==
  /\ gui = "free"
  /\ closing' = TRUE
  /\ queue' = IF worker = "none" THEN queue ELSE Append(queue, STOP)
  /\ \/ capture # "none" /\ Finish
     \/ capture = "none" /\ gui' = "leaving" /\ UNCHANGED stop
  /\ UNCHANGED <<session, listVars, modelVars, worker, job, named, served, importVars>>
  /\ UNCHANGED <<finder, plugged, context, listed, capture, audio, rxLost, takes>>
  /\ UNCHANGED <<incomplete, cutShort, fate>>

\* The poll stops; a take in progress is finished first.
Close ==
  /\ gui = "free"
  /\ closing' = TRUE
  /\ \/ capture # "none" /\ Finish
     \/ capture = "none" /\ gui' = "leaving" /\ UNCHANGED stop
  /\ UNCHANGED <<session, listVars, modelVars, queueVars, importVars, finder, plugged>>
  /\ UNCHANGED <<context, listed, capture, audio, rxLost, takes, incomplete>>
  /\ UNCHANGED <<cutShort, fate>>

\* Variant: the import thread has all the time it wants.
LeaveWithImport ==
  /\ gui = "leaving" /\ thread # "running"
  /\ timer' = FALSE
  /\ gui' = "draining"
  /\ queue' = IF worker = "none" THEN queue ELSE Append(queue, STOP)
  /\ UNCHANGED <<session, closing, listVars, modelVars, worker, job, named, served>>
  /\ UNCHANGED <<thread, made, pending, finished, batch, captureVars>>

\* The timers stop, the import thread has 30 s to end, then the worker, if one
\* was needed, is told to stop behind what is queued.
LeaveImport ==
  /\ gui = "leaving"
  /\ timer' = FALSE
  /\ gui' = "draining"
  /\ queue' = IF worker = "none" THEN queue ELSE Append(queue, STOP)
  /\ UNCHANGED <<session, closing, listVars, modelVars, worker, job, named, served>>
  /\ UNCHANGED <<thread, made, pending, finished, batch, captureVars>>

\* It has 30 s too; then the audio context is released.
LeaveQueue ==
  /\ gui = "draining"
  /\ gui' = "gone"
  /\ context' = FALSE /\ listed' = FALSE
  /\ UNCHANGED <<session, closing, listVars, modelVars, queueVars, importVars, finder>>
  /\ UNCHANGED <<plugged, capture, stop, audio, rxLost, takes, incomplete>>
  /\ UNCHANGED <<cutShort, fate>>

Shutdown == LeaveImport \/ LeaveQueue

-----------------------------------------------------------------------------
(* Each thread beside the others, until the process ends. *)

Alive == gui # "gone"

GuiTicks == Tick /\ UNCHANGED <<session, captureVars>>
GuiPolls == Poll /\ UNCHANGED <<session, importVars>>
GuiFinishes == FinishStep /\ UNCHANGED <<session, importVars>>
Beside == UNCHANGED <<session, modelVars, queueVars, importVars, captureVars>>
GuiApplies == ApplyName /\ Beside
UserRenamesRow == UserRenames /\ Beside
UserImports == StartImport /\ UNCHANGED <<session, captureVars>>
UserRecords == (StartCapture \/ StopCapture) /\ UNCHANGED <<session, importVars>>

ReceiverMoves == Alive /\ (Plug \/ Unplug) /\ UNCHANGED <<session, importVars>>
ImportRuns ==
  Alive /\ (QueueSubmit \/ MarkFinished) /\ UNCHANGED <<session, captureVars>>
WorkerRuns ==
  Alive /\ Worker /\ UNCHANGED <<session, gui, closing, importVars, captureVars>>
CaptureRuns == Alive /\ CaptureThread /\ UNCHANGED <<session, importVars>>
LoaderRuns ==
  /\ Alive /\ LoadEnds
  /\ UNCHANGED <<session, gui, closing, listVars, queueVars, importVars, captureVars>>

WindowNext ==
  \/ GuiTicks \/ GuiPolls \/ GuiFinishes \/ GuiApplies
  \/ UserImports \/ UserRenamesRow \/ UserRecords
  \/ Close \/ Shutdown
  \/ ImportRuns \/ WorkerRuns \/ CaptureRuns \/ LoaderRuns
  \/ ReceiverMoves

\* The operating system runs every thread that can run, the model ends up
\* loaded or not, Qt serves the timers that are due, and a dialog is answered.
WindowSpec ==
  /\ WindowInit
  /\ [][WindowNext]_vars
  /\ SF_vars(GuiTicks) /\ SF_vars(GuiPolls) /\ WF_vars(GuiFinishes)
  /\ WF_vars(UserRenamesRow /\ gui = "renaming")
  /\ WF_vars(WorkerRuns) /\ WF_vars(CaptureRuns) /\ WF_vars(LoaderRuns)
  /\ WF_vars(Shutdown)

-----------------------------------------------------------------------------
(* Handing over. *)

In(x, s) == \E k \in DOMAIN s : s[k] = x

\* However the threads interleave, what an import files is served once and in
\* order: every step of the window files one, serves the oldest, gives up the
\* youngest, or changes nothing of it.
OnTheWay ==
  {i \in Imported : i = job \/ In(i, queue) \/ In(i, batch) \/ In(i, pending)}

Handing == INSTANCE Delivery WITH
             filed <- made, onWay <- OnTheWay,
             served <- {i \in Imported : In(i, served)}
DeliveryIsKept == Handing!Spec

\* A recording pending when the window is between two ticks is named or told
\* to have failed, unless the window is closed: neither the end of the import
\* nor a naming that raises loses it.
PendingIsServed ==
  \A i \in Imported :
    In(i, pending) /\ timer /\ gui = "free" ~> In(i, served) \/ closing

\* app.py, on ImportSnapshot: a path queued is "handed to
\* MainWindow._submit_imported later, from the GUI thread, by
\* _refresh_import".  When the import is over, none is left in the snapshot.
EverythingIsHandedOver == thread = "none" => pending = <<>>

\* No recording is queued behind the item that ends the queue, not even the
\* take that closing the window stops.
NothingBehindStop ==
  \A j, k \in DOMAIN queue : queue[j] = STOP /\ j < k => queue[k] = STOP

-----------------------------------------------------------------------------
(* Rows and names. *)

\* Nothing more is to come to row i.
Settled(i) ==
  /\ row[i] # "none"
  /\ job # i /\ ~In(i, queue)
  /\ \A k \in DOMAIN posted : posted[k].item # i

\* However a naming, its result and the user's own renamings cross, a row whose
\* naming is over knows where its file is, and says "manuel" of a name given by
\* hand alone.  The exception is a row given a text with no letter in it: it
\* counts as renamed, and no longer hears of the name the worker gives.
RowsFindTheirFiles ==
  \A i \in Item :
    /\ Settled(i) /\ i \notin blanked => row[i] = file[i]
    /\ i \in manual \ blanked => file[i] = "manual"

-----------------------------------------------------------------------------
(* Takes. *)

\* When the process ends, in the midst of a take, of a stop or of a write as
\* well, each take that was started is a file with a row, or its failure was
\* shown, in the window that closes at the latest.  One failure is not: where
\* the month folder cannot be made (app.py:788, outside the try) the take is
\* dropped without a word, against the docstring of shutdown, "A capture in
\* progress is written" (app.py:826).
Accounted(t) ==
  \/ fate[t] = "kept" /\ row[t] # "none" /\ file[t] # "absent"
  \/ fate[t] \in {"unheard", "unwritten"}
  \/ fate[t] = "dropped" /\ "mkdir" \in session.faults
NoTakeIsForgotten ==
  gui = "gone" => \A t \in Captured : t <= Current => Accounted(t)

\* The audio context is not replaced nor released while a stream of it is
\* open.
ContextOutlivesTheStream ==
  [][(capture \in {"reading", "dead"}) => UNCHANGED <<context, listed>>]_vars

\* A take marked incomplete did end before it was stopped, because its receiver
\* went or a read failed; and with the find_rx of
\* main(), which reads a list of devices that is not made anew during a take,
\* none is ever marked.
MarksAreDeserved ==
  incomplete \subseteq (IF finder = "frozen" THEN {} ELSE cutShort)

\* app.py, in refresh_device: "the fragment is written without waiting for the
\* user to act".  With a find_rx that sees the port, a take whose receiver went
\* and stays away is over in the end.
TakeIsOver == capture = "none" \/ plugged \/ closing
FragmentIsWritten == finder = "live" /\ capture = "dead" /\ ~plugged ~> TakeIsOver

\* README.md says the same of the application, whose find_rx is the frozen one:
\* "Unplugging mid-take does not lose the take.  The fragment is written".
UnplugEndsTheTake == capture = "dead" /\ ~plugged ~> TakeIsOver

\* Closing ends, once the model is loaded or has failed to be.
ClosingEnds == closing ~> gui = "gone"
=============================================================================

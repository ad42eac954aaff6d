---------------------------- MODULE ImportHandoff ----------------------------
(***************************************************************************)
(* From the import thread to the naming queue: ImportSnapshot and the      *)
(* timer of the window that drains it.  The import thread only appends to  *)
(* the snapshot, under its lock; the GUI thread alone hands recordings     *)
(* over, and takes the lock once to drain and once to ask whether the      *)
(* import has finished.  Recordings are numbered as they are filed.        *)
(***************************************************************************)
EXTENDS NamingQueue

VARIABLES
  thread,    \* self._import_thread: none, running, or ended and not yet seen
  made,      \* how many recordings were filed
  pending,   \* snapshot._pending
  finished,  \* snapshot.finished
  timer,     \* _import_timer is active
  batch      \* what the GUI thread drained and has still to submit

importVars == <<thread, made, pending, finished, timer, batch>>

ImportHandoffTypeOK ==
  /\ thread \in {"none", "running", "ended"}
  /\ made \in 0..MaxPaths
  /\ pending \in Seq(Imported) /\ batch \in Seq(Imported)
  /\ batch # <<>> => gui = "handing"
  /\ gui = "handing" => timer
  /\ thread = "ended" => finished

ImportHandoffInit ==
  /\ thread = "none" /\ made = 0 /\ pending = <<>> /\ finished = FALSE
  /\ timer = FALSE /\ batch = <<>>

\* start_import, on the GUI thread: the snapshot is a new one.
StartImport ==
  /\ gui = "free" /\ thread = "none"
  /\ made < session.paths
  /\ thread' = "running"
  /\ pending' = <<>> /\ finished' = FALSE
  /\ timer' = TRUE
  /\ UNCHANGED <<made, batch, gui, closing, workerAll>>

\* A recording is filed and recorded; queue_submit.
QueueSubmit ==
  /\ thread = "running"
  /\ made < session.paths
  /\ made' = made + 1
  /\ file' = [file EXCEPT ![made'] = "provisional"]
  /\ pending' = Append(pending, made')
  /\ UNCHANGED <<thread, finished, timer, batch, gui, closing, row, manual>>
  /\ UNCHANGED <<picked, posted, blanked, modelVars, queueVars>>

\* mark_finished, whatever the import met.
MarkFinished ==
  /\ thread = "running"
  /\ thread' = "ended" /\ finished' = TRUE
  /\ UNCHANGED <<made, pending, timer, batch, gui, closing, workerAll>>

-----------------------------------------------------------------------------
(* _refresh_import, at each tick of the timer. *)

\* Variant: what was drained stays in the list.
DrainKeeps ==
  /\ gui = "free" /\ timer
  /\ gui' = "handing"
  /\ batch' = pending
  /\ UNCHANGED <<thread, made, pending, finished, timer, closing, workerAll>>

\* drain_pending
DrainPending ==
  /\ gui = "free" /\ timer
  /\ gui' = "handing"
  /\ batch' = pending /\ pending' = <<>>
  /\ UNCHANGED <<thread, made, finished, timer, closing, workerAll>>

\* _submit_imported: a row, and a job.
SubmitImported ==
  /\ gui = "handing" /\ batch # <<>>
  /\ AddRow(Head(batch))
  /\ Submit(Head(batch))
  /\ batch' = Tail(batch)
  /\ UNCHANGED <<thread, made, pending, finished, timer, gui, closing>>
  /\ UNCHANGED <<file, manual, picked, posted, blanked, modelVars>>
  /\ UNCHANGED <<job, named, served>>

\* Variant: the tick that sees the end does not wait to have submitted.
EndSeenFirst ==
  /\ gui = "handing"
  /\ \/ /\ finished
        /\ timer' = FALSE /\ thread' = "none" /\ gui' = "polling"
        /\ batch' = <<>>
     \/ /\ ~finished /\ batch = <<>>
        /\ gui' = "free"
        /\ UNCHANGED <<timer, thread, batch>>
  /\ UNCHANGED <<made, pending, finished, closing, workerAll>>

\* is_finished, after the last of the batch: the end is shown once the device
\* has been polled.
TickEnds ==
  /\ gui = "handing" /\ batch = <<>>
  /\ \/ /\ finished
        /\ timer' = FALSE /\ thread' = "none" /\ gui' = "polling"
     \/ /\ ~finished
        /\ gui' = "free"
        /\ UNCHANGED <<timer, thread>>
  /\ UNCHANGED <<made, pending, finished, batch, closing, workerAll>>

Tick == DrainPending \/ SubmitImported \/ TickEnds
=============================================================================

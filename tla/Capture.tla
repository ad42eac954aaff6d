------------------------------- MODULE Capture -------------------------------
(***************************************************************************)
(* Recording from the receiver: toggle_recording, recorder.record on its   *)
(* thread, and refresh_device, the two-second poll that looks for the      *)
(* receiver, builds the audio context anew when it is not there and stops  *)
(* a take whose receiver has gone.  A take is audio or none; the receiver  *)
(* may be unplugged at any moment, after which its stream never reads      *)
(* again.                                                                  *)
(*                                                                         *)
(* What the poll sees of the receiver is find_rx.  The one main() uses     *)
(* asks the audio context for its devices, listed once and for all when    *)
(* the context was made ("frozen"); the window can also be given one that  *)
(* sees the port itself ("live").                                          *)
(***************************************************************************)
EXTENDS NamingQueue

CONSTANT FindRx  \* the kinds of find_rx considered

ASSUME FindRxAssumption == FindRx \subseteq {"frozen", "live"} /\ FindRx # {}

VARIABLES
  finder,      \* which find_rx the window was given
  plugged,     \* the receiver is there
  context,     \* self._pa is there
  listed,      \* the receiver is in its list of devices
  capture,     \* self._capture: none, opening, reading, dead (its receiver
               \* went), or ended
  stop,        \* self._stop
  audio,       \* self._samples is not None
  rxLost,      \* self._rx_lost
  takes,       \* how many were started
  incomplete,  \* _incomplete_rows
  cutShort,    \* history: takes whose audio ended before they were stopped
  fate         \* history: what became of each take

captureVars ==
  <<finder, plugged, context, listed, capture, stop, audio, rxLost, takes,
    incomplete, cutShort, fate>>

\* In memory; written, with its row; told to have failed, no audio having been
\* returned or no file written; or dropped with nothing said of it.
Fate == {"none", "recording", "kept", "unheard", "unwritten", "dropped"}

CaptureTypeOK ==
  /\ finder \in FindRx
  /\ capture \in {"none", "opening", "reading", "dead", "ended"}
  /\ takes \in 0..MaxTakes
  /\ incomplete \subseteq Captured /\ cutShort \subseteq Captured
  /\ fate \in [Captured -> Fate]
  /\ gui = "stopping" => capture # "none" /\ stop
  /\ gui \in {"writing", "awaiting"} => capture = "none" /\ audio

\* After __init__: the context main() made, or the one the first poll made in
\* its place, or none if that failed; the model is preloaded if there is one.
CaptureInit ==
  /\ finder \in FindRx
  /\ plugged \in BOOLEAN /\ context \in BOOLEAN
  /\ ~context => "context" \in session.faults /\ ~plugged
  /\ listed = (plugged /\ context)
  /\ capture = "none" /\ stop = FALSE /\ audio = FALSE /\ rxLost = FALSE
  /\ takes = 0 /\ incomplete = {} /\ cutShort = {}
  /\ fate = [t \in Captured |-> "none"]
  /\ ModelInit(context)

\* The take being recorded, or being stopped.
Current == MaxPaths + takes

\* find_rx
Found == IF finder = "live" THEN plugged ELSE context /\ listed

-----------------------------------------------------------------------------
(* The receiver, and the capture thread. *)

\* Bound: the receiver is moved while a take is to come or in progress.
Wanted == takes < session.takes \/ capture # "none"

Plug ==
  /\ Wanted /\ ~plugged /\ plugged' = TRUE
  /\ UNCHANGED <<finder, context, listed, capture, stop, audio, rxLost, takes>>
  /\ UNCHANGED <<incomplete, cutShort, fate, gui, closing, workerAll>>

Unplug ==
  /\ Wanted /\ plugged /\ plugged' = FALSE
  /\ capture' = IF capture = "reading" THEN "dead" ELSE capture
  /\ cutShort' = cutShort \cup
       (IF capture \in {"opening", "reading"} THEN {Current} ELSE {})
  /\ UNCHANGED <<finder, context, listed, stop, audio, rxLost, takes>>
  /\ UNCHANGED <<incomplete, fate, gui, closing, workerAll>>

\* pa.open: it raises with no receiver or no context.
OpenStream ==
  /\ capture = "opening"
  /\ \/ plugged /\ context /\ capture' = "reading"
     \/ capture' = "ended"
  /\ UNCHANGED <<finder, plugged, context, listed, stop, audio, rxLost, takes>>
  /\ UNCHANGED <<incomplete, cutShort, fate, gui, closing, workerAll>>

\* The loop ends at the stop, or at the first read of a dead stream, and
\* record returns what it has.
RecordReturns ==
  /\ \/ capture = "reading" /\ stop
     \/ capture = "dead"
  /\ capture' = "ended" /\ audio' = TRUE
  /\ UNCHANGED <<finder, plugged, context, listed, stop, rxLost, takes>>
  /\ UNCHANGED <<incomplete, cutShort, fate, gui, closing, workerAll>>

\* A read fails though the receiver is there, and record returns what it has.
ReadFails ==
  /\ capture = "reading" /\ "read" \in session.faults
  /\ capture' = "ended" /\ audio' = TRUE
  /\ cutShort' = cutShort \cup {Current}
  /\ UNCHANGED <<finder, plugged, context, listed, stop, rxLost, takes>>
  /\ UNCHANGED <<incomplete, fate, gui, closing, workerAll>>

CaptureThread == OpenStream \/ RecordReturns \/ ReadFails

-----------------------------------------------------------------------------
(* The GUI thread. *)

\* toggle_recording with no take in progress, and a receiver in sight.
StartCapture ==
  /\ gui = "free" /\ capture = "none" /\ Found
  /\ takes < session.takes
  /\ capture' = "opening" /\ takes' = takes + 1
  /\ stop' = FALSE /\ audio' = FALSE /\ rxLost' = FALSE
  /\ fate' = [fate EXCEPT ![Current'] = "recording"]
  /\ UNCHANGED <<finder, plugged, context, listed, incomplete, cutShort>>
  /\ UNCHANGED <<gui, closing, workerAll>>

\* Variant: the thread is joined, and never told to stop.
FinishUnasked == gui' = "stopping" /\ UNCHANGED stop

\* _finish_capture begins.
Finish == gui' = "stopping" /\ stop' = TRUE

\* toggle_recording with one.
StopCapture ==
  /\ gui = "free" /\ capture # "none"
  /\ Finish
  /\ UNCHANGED <<finder, plugged, context, listed, capture, audio, rxLost, takes>>
  /\ UNCHANGED <<incomplete, cutShort, fate, closing, workerAll>>

\* _rescan_devices: the context is replaced by one that sees what is there
\* now, or by none.
Rescan ==
  \/ context' = TRUE /\ listed' = plugged
  \/ "context" \in session.faults /\ context' = FALSE /\ listed' = FALSE

\* Variant: the poll looks for the receiver anew, recording or not.
PollRescans ==
  /\ gui \in {"free", "polling"}
  /\ gui' = "free"
  /\ Rescan
  /\ rxLost' = (rxLost \/ (capture # "none" /\ ~listed'))
  /\ UNCHANGED <<finder, plugged, capture, stop, audio, takes>>
  /\ UNCHANGED <<incomplete, cutShort, fate, closing, workerAll>>

\* Variant: the receiver is noticed, and the take left to the user.
PollWaits ==
  /\ gui \in {"free", "polling"}
  /\ gui' = "free"
  /\ IF capture = "none" /\ ~Found THEN Rescan ELSE UNCHANGED <<context, listed>>
  /\ rxLost' = (rxLost \/ (capture # "none" /\ ~Found))
  /\ stop' = (stop \/ (capture # "none" /\ ~Found))
  /\ UNCHANGED <<finder, plugged, capture, audio, takes, incomplete, cutShort>>
  /\ UNCHANGED <<fate, closing, workerAll>>

\* refresh_device during a take: a receiver not found stops it, and once its
\* thread has returned the fragment is written.
PollCapture ==
  /\ capture # "none"
  /\ rxLost' = (rxLost \/ ~Found)
  /\ \/ rxLost' /\ capture = "ended" /\ Finish
     \/ /\ ~(rxLost' /\ capture = "ended")
        /\ gui' = "free" /\ stop' = (stop \/ ~Found)
  /\ UNCHANGED <<context, listed>>

\* refresh_device otherwise.
PollIdle ==
  /\ capture = "none"
  /\ gui' = "free"
  /\ \/ Found /\ UNCHANGED <<context, listed>>
     \/ ~Found /\ Rescan
  /\ UNCHANGED <<rxLost, stop>>

Poll ==
  /\ gui \in {"free", "polling"}
  /\ PollCapture \/ PollIdle
  /\ UNCHANGED <<finder, plugged, capture, audio, takes, incomplete, cutShort>>
  /\ UNCHANGED <<fate, closing, workerAll>>

\* Where the GUI thread goes after _finish_capture; and after an exception,
\* which a slot survives and shutdown does not.
Done == gui' = IF closing THEN "leaving" ELSE "free"
Raise == gui' = IF closing THEN "gone" ELSE "free"

\* The thread joined, the take is `incomplete` if the poll saw its receiver go.
JoinCapture ==
  /\ gui = "stopping" /\ capture = "ended"
  /\ capture' = "none"
  /\ \/ audio /\ gui' = "writing" /\ UNCHANGED <<fate, rxLost>>
     \/ /\ ~audio
        /\ Done
        /\ fate' = [fate EXCEPT ![Current] = "unheard"]
        /\ rxLost' = FALSE
  /\ UNCHANGED <<finder, plugged, context, listed, stop, audio, takes>>
  /\ UNCHANGED <<incomplete, cutShort, closing, workerAll>>

\* Variant: the flag of the last take is not taken down.
WriteKeepsLost ==
  /\ gui = "writing"
  /\ file' = [file EXCEPT ![Current] = "provisional"]
  /\ AddRow(Current)
  /\ incomplete' = incomplete \cup {Current}
  /\ fate' = [fate EXCEPT ![Current] = "kept"]
  /\ gui' = "awaiting"
  /\ asking' = [asking EXCEPT !["gui"] = "asked"]
  /\ UNCHANGED <<finder, plugged, context, listed, capture, stop, audio, takes>>
  /\ UNCHANGED <<rxLost, cutShort, closing, manual, picked, posted, blanked>>
  /\ UNCHANGED <<loads, loader, model, waitsFor, queueVars>>

\* The take is written and has its row, then the model is waited for.
WriteTake ==
  /\ gui = "writing"
  /\ file' = [file EXCEPT ![Current] = "provisional"]
  /\ AddRow(Current)
  /\ incomplete' = incomplete \cup (IF rxLost THEN {Current} ELSE {})
  /\ rxLost' = FALSE
  /\ fate' = [fate EXCEPT ![Current] = "kept"]
  /\ gui' = "awaiting"
  /\ asking' = [asking EXCEPT !["gui"] = "asked"]
  /\ UNCHANGED <<finder, plugged, context, listed, capture, stop, audio, takes>>
  /\ UNCHANGED <<cutShort, closing, manual, picked, posted, blanked>>
  /\ UNCHANGED <<loads, loader, model, waitsFor, queueVars>>

\* The take in memory is left there.
LeaveTake(how) ==
  /\ fate' = [fate EXCEPT ![Current] = how]
  /\ rxLost' = FALSE
  /\ UNCHANGED <<finder, plugged, context, listed, capture, stop, audio, takes>>
  /\ UNCHANGED <<incomplete, cutShort, closing, workerAll>>

\* write_wav fails, and report_write_error says so.
WriteFails ==
  /\ gui = "writing" /\ "write" \in session.faults
  /\ Done
  /\ LeaveTake("unwritten")

\* destination_dir fails ahead of the try: the error leaves _finish_capture,
\* and the window says nothing.
FolderFails ==
  /\ gui = "writing" /\ "mkdir" \in session.faults
  /\ Raise
  /\ LeaveTake("dropped")

GuiAwaits ==
  /\ AwaitStep("gui")
  /\ UNCHANGED <<gui, closing, listVars, queueVars, captureVars>>

\* The model came, and the take is submitted; or it is None, and nobody can
\* name it; or waiting for it raised.
SubmitTake ==
  /\ gui = "awaiting"
  /\ \/ /\ At("gui", "given", "no")
        /\ Done
        /\ \/ model /\ Submit(Current)
           \/ ~model /\ UNCHANGED <<queue, worker>>
     \/ At("gui", "raised", "no") /\ Raise /\ UNCHANGED <<queue, worker>>
  /\ UNCHANGED <<closing, listVars, loads, loader, model, waitsFor>>
  /\ UNCHANGED <<job, named, served, captureVars>>

FinishStep ==
  JoinCapture \/ WriteTake \/ WriteFails \/ FolderFails \/ GuiAwaits \/ SubmitTake
=============================================================================

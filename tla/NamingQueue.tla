----------------------------- MODULE NamingQueue -----------------------------
(***************************************************************************)
(* worker.py and the jobs it runs: one thread that serves recordings one   *)
(* at a time.  A job waits for the model, reads the file where it was when *)
(* it was submitted, and renames it; whatever fails, the row is told and   *)
(* the next job is taken.  name_recording looks for the file twice: when   *)
(* it reads it and when it renames it, minutes later.                      *)
(*                                                                         *)
(* The queue keeps the runner of whoever needed it first.  They differ     *)
(* only in that the window's does not wait for the model, which it had     *)
(* then already; they are one here.                                        *)
(***************************************************************************)
EXTENDS TakeList, ModelLoader

CONSTANT STOP   \* the queue's last item

ASSUME NamingQueueAssumption == STOP \notin Nat

VARIABLES
  queue,   \* NamingQueue._queue
  worker,  \* its thread
  job,     \* the recording in hand, or 0
  named,   \* the runner renamed it
  served   \* history: the jobs done with, in order

queueVars == <<queue, worker, job, named, served>>
workerAll == <<listVars, modelVars, queueVars>>

NamingQueueTypeOK ==
  /\ queue \in Seq(Item \cup {STOP})
  /\ worker \in {"none", "waiting", "loading", "naming", "telling", "ended"}
  /\ job \in Item \cup {0}
  /\ job # 0 <=> worker \in {"loading", "naming", "telling"}
  /\ served \in Seq(Item)
  /\ asking["worker"] # "no" => worker = "loading"

\* The jobs recover_orphans submits, in the order of their names.
Unnamed == {i \in Orphan : row[i] # "none"}

NamingQueueInit ==
  /\ queue \in [1..Cardinality(Unnamed) -> Unnamed]
  /\ \A j, k \in DOMAIN queue : j < k => queue[j] < queue[k]
  /\ worker = (IF queue = <<>> THEN "none" ELSE "waiting")
  /\ job = 0 /\ named = FALSE /\ served = <<>>

\* _ensure_queue, and NamingQueue.submit.
Submit(i) ==
  /\ queue' = Append(queue, i)
  /\ worker' = IF worker = "none" THEN "waiting" ELSE worker

TakeJob ==
  /\ worker = "waiting" /\ queue # <<>>
  /\ queue' = Tail(queue)
  /\ \/ /\ Head(queue) = STOP
        /\ worker' = "ended"
        /\ UNCHANGED <<job, asking>>
     \/ /\ Head(queue) # STOP
        /\ worker' = "loading" /\ job' = Head(queue)
        /\ asking' = [asking EXCEPT !["worker"] = "asked"]
  /\ UNCHANGED <<listVars, loads, loader, model, waitsFor, named, served>>

\* The runner raised.
JobFails == worker' = "telling" /\ named' = FALSE

\* The model is given, perhaps as None, and the file read where it was.
ReadJob ==
  /\ worker = "loading"
  /\ \/ /\ At("worker", "given", "no")
        /\ \/ file[job] = "provisional" /\ worker' = "naming" /\ UNCHANGED named
           \/ JobFails
     \/ At("worker", "raised", "no") /\ JobFails
  /\ UNCHANGED <<listVars, loads, loader, model, waitsFor, queue, job, served>>

\* A title is found and the file renamed, if it is still there.
RenameJob ==
  /\ worker = "naming"
  /\ \/ /\ file[job] = "provisional"
        /\ file' = [file EXCEPT ![job] = "titled"]
        /\ named' = TRUE /\ worker' = "telling"
     \/ JobFails /\ UNCHANGED file
  /\ UNCHANGED <<row, manual, picked, posted, blanked, modelVars>>
  /\ UNCHANGED <<queue, job, served>>

\* on_done: the row's new name, or the old one and a failure.
FinishJob ==
  /\ worker = "telling"
  /\ posted' = Append(posted,
       [item |-> job, ok |-> named,
        name |-> IF named THEN "titled" ELSE "provisional"])
  /\ served' = Append(served, job)
  /\ worker' = "waiting" /\ job' = 0 /\ named' = FALSE
  /\ UNCHANGED <<file, row, manual, picked, blanked, modelVars, queue>>

WorkerAwaits ==
  /\ AwaitStep("worker")
  /\ UNCHANGED <<listVars, queueVars>>

Worker == TakeJob \/ WorkerAwaits \/ ReadJob \/ RenameJob \/ FinishJob
=============================================================================

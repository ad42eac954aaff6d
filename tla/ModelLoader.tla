----------------------------- MODULE ModelLoader -----------------------------
(***************************************************************************)
(* The transcription model: _start_model_loading and _await_model, called  *)
(* without a lock by the GUI thread (a take being stopped) and by the      *)
(* naming worker, and the thread that runs load_model.                     *)
(***************************************************************************)
EXTENDS Naturals, Sequences

VARIABLES
  loads,    \* the loader threads made so far: made, running or ended
  loader,   \* self._model_loader: which of them, or 0 for None
  model,    \* self._model is there
  asking,   \* where each caller is in _await_model
  waitsFor  \* the thread it joins, or 0

modelVars == <<loads, loader, model, asking, waitsFor>>

Caller == {"gui", "worker"}

ModelTypeOK ==
  /\ loads \in Seq({"made", "running", "ended"}) /\ Len(loads) <= 2
  /\ loader \in 0..Len(loads)
  /\ asking \in [Caller -> {"no", "asked", "none", "assigned", "started",
                            "joining", "given", "raised"}]
  /\ waitsFor \in [Caller -> 0..Len(loads)]

\* Loading starts with the window if there was an audio context then.
ModelInit(preloaded) ==
  /\ loads = (IF preloaded THEN <<"running">> ELSE <<>>)
  /\ loader = Len(loads)
  /\ model = FALSE
  /\ asking = [c \in Caller |-> "no"]
  /\ waitsFor = [c \in Caller |-> 0]

At(c, here, there) == asking[c] = here /\ asking' = [asking EXCEPT ![c] = there]

\* _start_model_loading: is there a loader?
LookForLoader(c) ==
  /\ \/ loader = 0 /\ At(c, "asked", "none")
     \/ loader # 0 /\ At(c, "asked", "started")
  /\ UNCHANGED <<loads, loader, model, waitsFor>>

MakeLoader(c) ==
  /\ At(c, "none", "assigned")
  /\ loads' = Append(loads, "made")
  /\ loader' = Len(loads')
  /\ UNCHANGED <<model, waitsFor>>

\* The attribute is read again to be started; a thread starts once.
StartLoader(c) ==
  /\ \/ /\ At(c, "assigned", "started")
        /\ loads[loader] = "made"
        /\ loads' = [loads EXCEPT ![loader] = "running"]
     \/ /\ At(c, "assigned", "raised")
        /\ loads[loader] # "made"
        /\ UNCHANGED loads
  /\ UNCHANGED <<loader, model, waitsFor>>

\* join(): a thread that is not started cannot be joined.
JoinLoader(c) ==
  /\ \/ /\ At(c, "started", "joining")
        /\ loads[loader] # "made"
        /\ waitsFor' = [waitsFor EXCEPT ![c] = loader]
     \/ /\ At(c, "started", "raised")
        /\ loads[loader] = "made"
        /\ UNCHANGED waitsFor
  /\ UNCHANGED <<loads, loader, model>>

LoaderJoined(c) ==
  /\ waitsFor[c] # 0 /\ loads[waitsFor[c]] = "ended"
  /\ At(c, "joining", "given")
  /\ waitsFor' = [waitsFor EXCEPT ![c] = 0]
  /\ UNCHANGED <<loads, loader, model>>

AwaitStep(c) ==
  LookForLoader(c) \/ MakeLoader(c) \/ StartLoader(c) \/ JoinLoader(c)
  \/ LoaderJoined(c)

\* load_model returns, or raises and nobody tries again.
LoadEnds ==
  /\ \E i \in DOMAIN loads :
       /\ loads[i] = "running"
       /\ loads' = [loads EXCEPT ![i] = "ended"]
  /\ model' \in {model, TRUE}
  /\ UNCHANGED <<loader, asking, waitsFor>>
=============================================================================

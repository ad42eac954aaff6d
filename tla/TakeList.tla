------------------------------ MODULE TakeList ------------------------------
(***************************************************************************)
(* The list of the window and the GUI thread it belongs to: one row per    *)
(* recording, the name the row believes its file has, the results the      *)
(* naming worker posts to it, and the user's own renaming.  The files are  *)
(* renamed by two threads; a row learns of it only by a posted signal.     *)
(***************************************************************************)
EXTENDS Naturals, Sequences, FiniteSets

CONSTANTS
  MaxPaths, MaxTakes, MaxOrphans,  \* the most of each in a session
  Sessions  \* the sessions considered, see Session

\* One session: the recordings its imports hand over, the takes it captures,
\* the unnamed recordings it finds at its start, the rows its user renames, and
\* what fails in it: the folder, the WAV, the audio context, a read of the
\* receiver.
Session ==
  [paths : 0..MaxPaths, takes : 0..MaxTakes, orphans : 0..MaxOrphans,
   renamed : Nat, faults : SUBSET {"mkdir", "write", "context", "read"}]

ASSUME SessionsAssumption ==
  /\ MaxPaths \in Nat /\ MaxTakes \in Nat /\ MaxOrphans \in Nat
  /\ Sessions \subseteq Session /\ Sessions # {}

\* Recordings, numbered apart by where they come from; each has a time stamp
\* and a name of its own.
Imported == 1..MaxPaths
Captured == MaxPaths + 1..MaxPaths + MaxTakes
Orphan == MaxPaths + MaxTakes + 1..MaxPaths + MaxTakes + MaxOrphans
Item == Imported \cup Captured \cup Orphan

VARIABLES
  session,  \* the bounds of this one
  gui,      \* what the GUI thread is in the middle of
  closing,  \* _shutdown_done
  file,     \* the name each recording's file has now
  row,      \* _takes_meta: the name its row believes, or "none" with no row
  manual,   \* _manually_renamed_rows
  picked,   \* the row being renamed by hand, or 0
  posted,   \* take_named signals on their way to the GUI thread
  blanked   \* history: rows given a text without a letter or a digit

listVars == <<file, row, manual, picked, posted, blanked>>

Gui == {"free", "handing", "polling", "renaming", "stopping", "writing",
        "awaiting", "leaving", "draining", "gone"}

\* The name a recording is born under, one chosen by the worker, one by hand.
Given == {"provisional", "titled", "manual"}

TakeListTypeOK ==
  /\ session \in Sessions
  /\ gui \in Gui
  /\ file \in [Item -> Given \cup {"absent"}]
  /\ row \in [Item -> Given \cup {"none"}]
  /\ manual \subseteq Item /\ blanked \subseteq manual
  /\ picked \in Item \cup {0} /\ (gui = "renaming" <=> picked # 0)
  /\ posted \in Seq([item : Item, name : Given, ok : BOOLEAN])

\* recover_orphans has listed what an earlier session left.
TakeListInit ==
  /\ session \in Sessions
  /\ gui = "free" /\ closing = FALSE
  /\ \E left \in SUBSET {i \in Orphan : i - MaxPaths - MaxTakes <= session.orphans} :
       /\ file = [i \in Item |-> IF i \in left THEN "provisional" ELSE "absent"]
       /\ row = [i \in Item |-> IF i \in left THEN "provisional" ELSE "none"]
  /\ manual = {} /\ picked = 0 /\ posted = <<>> /\ blanked = {}

\* add_take, and the path that goes with the row.
AddRow(i) == row' = [row EXCEPT ![i] = "provisional"]

\* Variant: a late result is applied whatever the user did.
ApplyAnyway ==
  /\ gui = "free" /\ posted # <<>>
  /\ row' = [row EXCEPT ![Head(posted).item] = Head(posted).name]
  /\ posted' = Tail(posted)
  /\ UNCHANGED <<gui, closing, file, manual, picked, blanked>>

\* _apply_name: a row renamed by hand is left alone.
ApplyName ==
  /\ gui = "free" /\ posted # <<>>
  /\ \/ /\ Head(posted).item \notin manual
        /\ row' = [row EXCEPT ![Head(posted).item] = Head(posted).name]
     \/ Head(posted).item \in manual /\ UNCHANGED row
  /\ posted' = Tail(posted)
  /\ UNCHANGED <<gui, closing, file, manual, picked, blanked>>

\* rename_take finds the file where the row says it is; a stale path is
\* reported instead.
PickRow(i) ==
  /\ gui = "free"
  /\ row[i] # "none" /\ file[i] = row[i]
  /\ Cardinality(manual \cup {i}) <= session.renamed
  /\ gui' = "renaming" /\ picked' = i
  /\ UNCHANGED <<closing, file, row, manual, posted, blanked>>

\* Then it renames it, unless the worker was quicker (reported).  A text whose
\* slug is empty leaves the file, and marks the row all the same.
RenameByHand ==
  /\ gui = "renaming"
  /\ gui' = "free" /\ picked' = 0
  /\ \/ /\ file[picked] = row[picked]
        /\ file' = [file EXCEPT ![picked] = "manual"]
        /\ row' = [row EXCEPT ![picked] = "manual"]
        /\ manual' = manual \cup {picked}
        /\ blanked' = blanked \ {picked}
     \/ /\ file[picked] # row[picked]
        /\ UNCHANGED <<file, row, manual, blanked>>
     \/ /\ manual' = manual \cup {picked}
        /\ blanked' = blanked \cup {picked}
        /\ UNCHANGED <<file, row>>
  /\ UNCHANGED <<closing, posted>>

UserRenames == RenameByHand \/ \E i \in Item : PickRow(i)
=============================================================================

------------------------------ MODULE Cutting ------------------------------
(***************************************************************************)
(* Cutting a recording at its markers and putting it together again: the   *)
(* part boundaries of bwf.py, and the two command-line tools               *)
(* decouper-marqueurs.py (cut, rejoin) and nommer-morceaux.py (name the    *)
(* parts), run by hand in any order on one folder, and killed.             *)
(*                                                                         *)
(* Audio is its frames, by number.  The name of a part is its rank, the    *)
(* number of parts, and what follows its time range, which never goes.     *)
(***************************************************************************)
EXTENDS Naturals, SequencesExt

CONSTANTS
  Recordings,  \* [frames, cues, declared, low, high, cuts]: the audio, its
               \* markers, how many are announced, its TimeReference, which
               \* its bext and its iXML chunk both give, and the bound on the
               \* times it is cut
  Word,        \* values of half a TimeReference
  MaxNumber    \* the largest rank that two digits write

ASSUME CuttingAssumption ==
  /\ Word \in Nat /\ Word > 1
  /\ MaxNumber \in Nat
  /\ \A r \in Recordings :
       /\ r.frames \in Nat \ {0} /\ r.cues \in Seq(Nat) /\ r.declared \in Nat
       /\ r.low \in 0..(Word - 1) /\ r.high \in 0..(Word - 1)

VARIABLES
  recording,  \* the source
  toCut,      \* boundaries still to write
  folder,     \* the parts: [rank, total, tail, nth, from, held, due, bext, ixml]
  rejoined,   \* the frames a rejoining gave so far, Nothing yet, or Endless
  rest,       \* the parts it has still to join
  cuts,       \* history: times cut
  killed,     \* history: the last cut was killed
  named       \* history: some part was named

cutVars == <<recording, toCut, folder, rejoined, rest, cuts, killed, named>>

Nothing == <<0>>
Endless == <<0, 0>>

-----------------------------------------------------------------------------
(* The boundaries. *)

\* cue_points: as many markers as are announced and there.
CuePoints(r) == {r.cues[i] : i \in 1..Min({r.declared, Len(r.cues)})}

\* Variant: a marker past the end starts a part.
MarksToTheEnd(r) == CuePoints(r) \ {0}

\* boundaries: the markers strictly inside, each once.
Marks(r) == CuePoints(r) \cap 1..(r.frames - 1)

\* From each edge to the next.
Bounds(r) ==
  LET edges == Marks(r) \cup {0, r.frames}
  IN {b \in [from : edges, to : edges] :
        b.from < b.to /\ \A e \in edges : e <= b.from \/ e >= b.to}

\* Variant: the two halves are shifted without a carry.
ShiftLow(low, high, frames) == <<(low + frames) % Word, high>>

\* _shift_bext: the timestamp of a part that starts `frames` later.
ShiftBext(low, high, frames) ==
  LET value == high * Word + low + frames
  IN <<value % Word, value \div Word>>

\* _shift_ixml: the same in the iXML text, whose low number alone is shifted.
ShiftIxml(low, high, frames) == <<low + frames, high>>

-----------------------------------------------------------------------------
(* The tools. *)

CuttingInit ==
  /\ recording \in Recordings
  /\ toCut = {} /\ folder = {} /\ rejoined = Nothing /\ rest = {}
  /\ cuts = 0 /\ killed = FALSE /\ named = FALSE

\* decouper-marqueurs.py reads the source: a `cue ` chunk shorter than it
\* announces raises, and with no marker inside there is nothing to cut.
StartCut ==
  /\ rejoined = Nothing
  /\ toCut = {} /\ cuts < recording.cuts
  /\ recording.declared <= Len(recording.cues)
  /\ Cardinality(Bounds(recording)) > 1
  /\ toCut' = Bounds(recording)
  /\ cuts' = cuts + 1
  /\ killed' = FALSE
  /\ UNCHANGED <<recording, folder, rejoined, rest, named>>

SameName(p, q) ==
  p.rank = q.rank /\ p.total = q.total /\ p.tail = q.tail /\ p.nth = q.nth

\* The segments are written from the first to the last.
Current == CHOOSE b \in toCut : \A c \in toCut : b.from <= c.from
Due == Current.to - Current.from

\* write_segment, over whatever has that name, with `held` of its frames.
WriteSegment(held) ==
  LET total == Cardinality(Bounds(recording))
      p == [rank |-> total - Cardinality(toCut) + 1, total |-> total,
            tail |-> "times", nth |-> 1,
            from |-> Current.from, held |-> held, due |-> Due,
            bext |-> ShiftBext(recording.low, recording.high, Current.from),
            ixml |-> ShiftIxml(recording.low, recording.high, Current.from)]
  IN folder' = {q \in folder : ~SameName(p, q)} \cup {p}

WritePart ==
  /\ rejoined = Nothing
  /\ toCut # {}
  /\ WriteSegment(Due)
  /\ toCut' = toCut \ {Current}
  /\ UNCHANGED <<recording, rejoined, rest, cuts, killed, named>>

\* The tool is stopped in the middle of a part, whose header is written.
KillCut ==
  /\ rejoined = Nothing
  /\ toCut # {}
  /\ \E held \in 0..(Due - 1) : WriteSegment(held)
  /\ toCut' = {}
  /\ killed' = TRUE
  /\ UNCHANGED <<recording, rejoined, rest, cuts, named>>

\* nommer-morceaux.py on one part: a slug is added to a time range, replaces
\* a placeholder, and leaves a name alone.  unique_path numbers it.
NamePart(p, slug) ==
  /\ p.tail \in {"times", "sans-nom"}
  /\ \E n \in 1..3 :
       LET q == [p EXCEPT !.tail = slug, !.nth = n]
           Taken(k) == \E x \in folder : SameName([q EXCEPT !.nth = k], x)
       IN /\ ~Taken(n)
          /\ \A k \in 1..(n - 1) : Taken(k)
          /\ folder' = (folder \ {p}) \cup {q}

Annotate ==
  /\ rejoined = Nothing
  /\ \E p \in folder, slug \in {"sans-nom", "titre"} : NamePart(p, slug)
  /\ named' = TRUE
  /\ UNCHANGED <<recording, toCut, rejoined, rest, cuts, killed>>

TailPlace(p) == CHOOSE k \in 1..3 : <<"times", "sans-nom", "titre">>[k] = p.tail

\* Variant: by what the parts are called rather than by their rank.
ByTitle(p) == (TailPlace(p) * (p.total + 1) + p.rank) * 4 + p.nth

\* Names in alphabetical order: two digits sort as the rank does.
ByName(p) == (p.rank * 4 + TailPlace(p)) * 4 + p.nth

Frames(p) == [i \in 1..p.held |-> p.from + i]

\* rejoin: the parts whose name begins with two ranks of two digits.  It
\* changes no part, so that what follows is as if it had not been run.
StartRejoin ==
  /\ rejoined = Nothing
  /\ rest' = {p \in folder : p.total <= MaxNumber}
  /\ rest' # {}
  /\ rejoined' = <<>>
  /\ UNCHANGED <<recording, toCut, folder, cuts, killed, named>>

\* Their data one after another; a part shorter than its header says is read
\* for ever.
JoinPart ==
  /\ rest # {}
  /\ LET p == CHOOSE q \in rest : \A x \in rest : ByName(q) <= ByName(x)
     IN IF p.held < p.due
        THEN rejoined' = Endless /\ rest' = {}
        ELSE rejoined' = rejoined \o Frames(p) /\ rest' = rest \ {p}
  /\ UNCHANGED <<recording, toCut, folder, cuts, killed, named>>

CuttingNext == StartCut \/ WritePart \/ KillCut \/ Annotate \/ StartRejoin \/ JoinPart
CuttingSpec == CuttingInit /\ [][CuttingNext]_cutVars

-----------------------------------------------------------------------------
Whole == [i \in 1..recording.frames |-> i]

\* Every frame of a take is in one part, and the parts begin at its markers.
PartsCoverTheTake ==
  LET bounds == Bounds(recording)
  IN /\ \A f \in 1..recording.frames :
          Cardinality({b \in bounds : b.from < f /\ f <= b.to}) = 1
     /\ \A b \in bounds : b.to <= recording.frames
     /\ {b.from : b \in bounds} \ {0}
          = {m \in CuePoints(recording) : 0 < m /\ m < recording.frames}

\* Rejoining gives the recording back frame for frame, whatever the parts have
\* been called meanwhile; unless the last cut is not finished, or a second one
\* wrote again a part that had been given a name.
RejoinRestores ==
  rejoined # Nothing /\ rest = {} =>
    rejoined = Whole \/ toCut # {} \/ killed \/ (cuts > 1 /\ named)

\* Every part says when it started, twice.  Its bext gives the recording's time
\* and the frames ahead of the part, in two halves that each hold, carry
\* included.  Its iXML agrees as long as the low half does not wrap, and not
\* after: its low number is then one that no half holds, the high one being
\* left as it was, though the head of decouper-marqueurs.py says "Each part's
\* BWF timestamp is shifted so it stays correct" (decouper-marqueurs.py:19).
PartsTellTheirTime ==
  \A p \in folder :
    LET low == recording.low + p.from
    IN /\ p.bext[1] < Word
       /\ p.bext[2] * Word + p.bext[1] = recording.high * Word + low
       /\ p.ixml = p.bext <=> low < Word
=============================================================================

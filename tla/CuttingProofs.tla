--------------------------- MODULE CuttingProofs ---------------------------
(***************************************************************************)
(* Theorems of Cutting: the parts cover the recording whatever its markers *)
(* are, each says when it began whatever is cut, named and killed, and     *)
(* joining them gives the recording back.                                  *)
(***************************************************************************)
EXTENDS Cutting, WellFoundedInduction, FiniteSetTheorems, SequenceTheorems, TLAPS

\* A set of naturals that is not empty has a least element, and a bounded one
\* a greatest.
LEMMA LeastOf ==
  ASSUME NEW T, T \subseteq Nat, T # {}
  PROVE  \E x \in T : \A y \in T : x <= y
<1>1. PICK x \in T : \A y \in T : ~(<<y, x>> \in OpToRel(<, Nat))
  BY NatLessThanWellFounded, WFMin
<1>2. \A y \in T : ~(y < x)
  BY <1>1 DEF OpToRel
<1> QED BY <1>2

LEMMA GreatestOf ==
  ASSUME NEW n \in Nat, NEW T, T \subseteq 0..n, T # {}
  PROVE  \E x \in T : \A y \in T : y <= x
<1> DEFINE S == {n - t : t \in T}
<1>1. S \subseteq Nat /\ S # {}
  <2>1. \A t \in T : n - t \in Nat
    OBVIOUS
  <2>2. PICK t \in T : TRUE
    OBVIOUS
  <2>3. n - t \in S
    OBVIOUS
  <2> QED BY <2>1, <2>3
<1> HIDE DEF S
<1>2. PICK m \in S : \A y \in S : m <= y
  BY <1>1, LeastOf
<1>3. PICK x \in T : m = n - x
  BY <1>2 DEF S
<1>4. \A y \in T : n - y \in S
  BY DEF S
<1> QED BY <1>2, <1>3, <1>4

-----------------------------------------------------------------------------
(* The boundaries. *)

Edges(r) == Marks(r) \cup {0, r.frames}

LEMMA EdgesAreWithin ==
  ASSUME NEW r \in Recordings
  PROVE  /\ r.frames \in Nat \ {0} /\ Edges(r) \subseteq 0..r.frames
         /\ 0 \in Edges(r) /\ r.frames \in Edges(r)
         /\ Marks(r) = {m \in CuePoints(r) : 0 < m /\ m < r.frames}
         /\ CuePoints(r) \subseteq Nat
<1>1. r.frames \in Nat \ {0} /\ r.cues \in Seq(Nat) /\ r.declared \in Nat
  BY CuttingAssumption
<1>2. CuePoints(r) \subseteq Nat
  <2>1. ASSUME NEW i \in 1..Min({r.declared, Len(r.cues)}) PROVE r.cues[i] \in Nat
    <3>1. PICK m : m = Min({r.declared, Len(r.cues)})
      OBVIOUS
    <3>2. Len(r.cues) \in Nat
      BY <1>1
    <3>3. m \in {r.declared, Len(r.cues)} /\ m <= Len(r.cues)
      <4>1. \E x \in {r.declared, Len(r.cues)} : \A y \in {r.declared, Len(r.cues)} : x <= y
        BY <1>1, <3>2
      <4> QED BY <3>1, <4>1 DEF Min
    <3>4. i \in 1..Len(r.cues)
      BY <3>1, <3>2, <3>3, <1>1, <2>1
    <3> QED BY <3>4, <1>1
  <2> QED BY <2>1 DEF CuePoints
<1> QED BY <1>1, <1>2 DEF Edges, Marks

\* A boundary goes from an edge to the next one.
LEMMA BoundsFacts ==
  ASSUME NEW r \in Recordings, NEW b \in Bounds(r)
  PROVE  /\ b.from \in Edges(r) /\ b.to \in Edges(r) /\ b.from < b.to
         /\ \A e \in Edges(r) : e <= b.from \/ e >= b.to
         /\ b = [from |-> b.from, to |-> b.to]
BY DEF Bounds, Edges

LEMMA BoundIntro ==
  ASSUME NEW r \in Recordings, NEW x \in Edges(r), NEW y \in Edges(r), x < y,
         \A e \in Edges(r) : e <= x \/ e >= y
  PROVE  [from |-> x, to |-> y] \in Bounds(r)
BY DEF Bounds, Edges

\* Whatever the markers, in whatever order and however many times, and past
\* the end too: every frame is in one part, and the parts begin at the markers.
LEMMA BoundsCover ==
  ASSUME NEW r \in Recordings
  PROVE  /\ \A f \in 1..r.frames : Cardinality({b \in Bounds(r) : b.from < f /\ f <= b.to}) = 1
         /\ \A b \in Bounds(r) : b.to <= r.frames
         /\ {b.from : b \in Bounds(r)} \ {0} = Marks(r)
<1>1. /\ r.frames \in Nat \ {0} /\ Edges(r) \subseteq 0..r.frames
      /\ 0 \in Edges(r) /\ r.frames \in Edges(r)
  BY EdgesAreWithin
<1>2. ASSUME NEW f \in 1..r.frames
      PROVE  Cardinality({b \in Bounds(r) : b.from < f /\ f <= b.to}) = 1
  <2>1. PICK x \in Edges(r) : x < f /\ \A e \in Edges(r) : e < f => e <= x
    <3> DEFINE T == {e \in Edges(r) : e < f}
    <3>1. T \subseteq 0..r.frames /\ T # {} /\ r.frames \in Nat
      BY <1>1
    <3> HIDE DEF T
    <3>2. PICK x \in T : \A e \in T : e <= x
      BY <3>1, GreatestOf
    <3> QED BY <3>2 DEF T
  <2>2. PICK y \in Edges(r) : f <= y /\ \A e \in Edges(r) : f <= e => y <= e
    <3> DEFINE T == {e \in Edges(r) : f <= e}
    <3>1. T \subseteq Nat /\ T # {}
      BY <1>1
    <3> HIDE DEF T
    <3>2. PICK y \in T : \A e \in T : y <= e
      BY <3>1, LeastOf
    <3> QED BY <3>2 DEF T
  <2>3. x \in Nat /\ y \in Nat /\ f \in Nat /\ x < y /\ \A e \in Edges(r) : e \in Nat
    BY <1>1, <2>1, <2>2
  <2>4. \A e \in Edges(r) : e <= x \/ e >= y
    BY <2>1, <2>2, <2>3
  <2>5. [from |-> x, to |-> y] \in Bounds(r)
    BY <2>3, <2>4, BoundIntro
  <2>6. ASSUME NEW b \in Bounds(r), b.from < f, f <= b.to PROVE b = [from |-> x, to |-> y]
    <3>1. /\ b.from \in Edges(r) /\ b.to \in Edges(r)
          /\ \A e \in Edges(r) : e <= b.from \/ e >= b.to
          /\ b = [from |-> b.from, to |-> b.to]
      BY BoundsFacts
    <3>2. b.from = x
      BY <2>1, <2>3, <2>6, <3>1
    <3>3. b.to = y
      BY <2>2, <2>3, <2>6, <3>1
    <3> QED BY <3>1, <3>2, <3>3
  <2>7. {b \in Bounds(r) : b.from < f /\ f <= b.to} = {[from |-> x, to |-> y]}
    BY <2>1, <2>2, <2>5, <2>6
  <2> QED BY <2>7, FS_Singleton
<1>3. \A b \in Bounds(r) : b.to <= r.frames
  BY <1>1, BoundsFacts
<1>4. ASSUME NEW b \in Bounds(r), b.from # 0 PROVE b.from \in Marks(r)
  <2>1. b.from \in Edges(r) /\ b.to \in Edges(r) /\ b.from < b.to
    BY BoundsFacts
  <2>2. b.from # r.frames
    BY <1>1, <2>1
  <2> QED BY <1>4, <2>1, <2>2 DEF Edges
<1>5. ASSUME NEW m \in Marks(r) PROVE \E b \in Bounds(r) : b.from = m /\ m # 0
  <2>1. m \in Edges(r) /\ 0 < m /\ m < r.frames /\ m \in Nat
    BY <1>1, <1>5, EdgesAreWithin DEF Edges
  <2>2. PICK y \in Edges(r) : m < y /\ \A e \in Edges(r) : m < e => y <= e
    <3> DEFINE T == {e \in Edges(r) : m < e}
    <3>1. T \subseteq Nat /\ T # {}
      BY <1>1, <2>1
    <3> HIDE DEF T
    <3>2. PICK y \in T : \A e \in T : y <= e
      BY <3>1, LeastOf
    <3> QED BY <3>2 DEF T
  <2>3. \A e \in Edges(r) : e <= m \/ e >= y
    BY <1>1, <2>1, <2>2
  <2>4. [from |-> m, to |-> y] \in Bounds(r)
    BY <2>1, <2>2, <2>3, BoundIntro
  <2> QED BY <2>1, <2>4
<1> QED BY <1>2, <1>3, <1>4, <1>5

\* However a recording is cut, killed, named and joined again: every frame of it
\* is in one part, and the parts begin at its markers.
THEOREM TakesAreCovered == CuttingSpec => []PartsCoverTheTake
<1>1. CuttingInit => recording \in Recordings
  BY DEF CuttingInit
<1>2. recording \in Recordings /\ [CuttingNext]_cutVars => (recording \in Recordings)'
  BY DEF CuttingNext, StartCut, WritePart, KillCut, Annotate, StartRejoin,
         JoinPart, cutVars
<1>3. recording \in Recordings => PartsCoverTheTake
  BY BoundsCover, EdgesAreWithin DEF PartsCoverTheTake
<1> QED BY <1>1, <1>2, <1>3, PTL DEF CuttingSpec

-----------------------------------------------------------------------------
(* The timestamps. *)

LEMMA DivisionFacts ==
  ASSUME NEW b \in Nat \ {0}, NEW a \in Nat
  PROVE  a = (a \div b) * b + (a % b) /\ a % b \in 0..(b - 1) /\ a \div b \in Nat
OBVIOUS

\* A part has a time in its bext, the right one, and the same in its iXML while
\* the low half has not wrapped.
Timed(p) ==
  /\ {"bext", "ixml", "from"} \subseteq DOMAIN p
  /\ p.bext[1] < Word
  /\ p.bext[2] * Word + p.bext[1] = recording.high * Word + (recording.low + p.from)
  /\ p.ixml = p.bext <=> recording.low + p.from < Word

CuttingInv ==
  /\ recording \in Recordings
  /\ toCut \subseteq Bounds(recording)
  /\ \A p \in folder : Timed(p)

\* The segment written is one of those to write.
LEMMA CurrentIsDue ==
  ASSUME CuttingInv, toCut # {}
  PROVE  Current \in toCut /\ Current.from \in Nat
<1>1. \A b \in toCut : b.from \in Nat
  BY BoundsFacts, EdgesAreWithin DEF CuttingInv
<1> DEFINE T == {b.from : b \in toCut}
<1>2. T \subseteq Nat /\ T # {}
  BY <1>1
<1> HIDE DEF T
<1>3. PICK x \in T : \A y \in T : x <= y
  BY <1>2, LeastOf
<1>4. \E b \in toCut : \A c \in toCut : b.from <= c.from
  BY <1>3 DEF T
<1>5. Current \in toCut
  BY <1>4 DEF Current
<1> QED BY <1>1, <1>5

\* A number has one pair of halves.
LEMMA HalvesAreUnique ==
  ASSUME NEW w \in Nat \ {0}, NEW a \in Nat, NEW b \in 0..(w - 1),
         NEW c \in Nat, NEW d \in 0..(w - 1), a * w + b = c * w + d
  PROVE  a = c /\ b = d
<1>1. /\ a * w \in Nat /\ c * w \in Nat
      /\ (a + 1) * w = a * w + w /\ (c + 1) * w = c * w + w
  OBVIOUS
<1>2. ~(a < c)
  <2> SUFFICES ASSUME a < c PROVE FALSE
    OBVIOUS
  <2>1. a + 1 <= c
    OBVIOUS
  <2>2. (a + 1) * w <= c * w
    BY <2>1
  <2> QED BY <1>1, <2>2
<1>3. ~(c < a)
  <2> SUFFICES ASSUME c < a PROVE FALSE
    OBVIOUS
  <2>1. c + 1 <= a
    OBVIOUS
  <2>2. (c + 1) * w <= a * w
    BY <2>1
  <2> QED BY <1>1, <2>2
<1>4. a = c
  BY <1>2, <1>3
<1> QED BY <1>1, <1>4

\* The two halves of the bext carry; those of the iXML are the same two unless
\* there is something to carry.
LEMMA ShiftIsTheTime ==
  ASSUME NEW low \in Nat, NEW high \in Nat, NEW frames \in Nat
  PROVE  LET bext == ShiftBext(low, high, frames)
         IN /\ bext[1] < Word
            /\ bext[2] * Word + bext[1] = high * Word + (low + frames)
            /\ ShiftIxml(low, high, frames) = bext <=> low + frames < Word
<1> DEFINE v == high * Word + low + frames
<1>1. Word \in Nat \ {0}
  BY CuttingAssumption
<1>2. high * Word \in Nat
  BY <1>1
<1>3. v \in Nat /\ v = high * Word + (low + frames)
  BY <1>2
<1> HIDE DEF v
<1>4. /\ v = (v \div Word) * Word + (v % Word) /\ v % Word \in 0..(Word - 1)
      /\ v \div Word \in Nat
  BY <1>1, <1>3, DivisionFacts
<1>5. v % Word < Word
  BY <1>1, <1>4
<1>6. ShiftBext(low, high, frames) = <<v % Word, v \div Word>>
  BY DEF ShiftBext, v
<1>7. ShiftIxml(low, high, frames) = <<low + frames, high>>
  BY DEF ShiftIxml
<1>8. ASSUME low + frames < Word PROVE v \div Word = high /\ v % Word = low + frames
  <2>1. low + frames \in 0..(Word - 1)
    BY <1>1, <1>8
  <2>2. (v \div Word) * Word + (v % Word) = high * Word + (low + frames)
    BY <1>3, <1>4
  <2>3. PICK q \in Nat, r \in 0..(Word - 1) : q = v \div Word /\ r = v % Word
    BY <1>4
  <2>4. q * Word + r = high * Word + (low + frames)
    BY <2>2, <2>3
  <2>5. q = high /\ r = low + frames
    BY <1>1, <2>1, <2>4, HalvesAreUnique
  <2> QED BY <2>3, <2>5
<1>9. <<low + frames, high>> = <<v % Word, v \div Word>> => low + frames < Word
  BY <1>5
<1> QED BY <1>3, <1>4, <1>5, <1>6, <1>7, <1>8, <1>9

LEMMA SegmentIsTimed ==
  ASSUME CuttingInv, toCut # {}, NEW held, WriteSegment(held), recording' = recording
  PROVE  \A p \in folder' : Timed(p)'
<1>1. /\ recording.low \in Nat /\ recording.high \in Nat
      /\ Current.from \in Nat
  BY CuttingAssumption, CurrentIsDue DEF CuttingInv
<1> DEFINE bext == ShiftBext(recording.low, recording.high, Current.from)
           ixml == ShiftIxml(recording.low, recording.high, Current.from)
<1>2. /\ bext[1] < Word
      /\ bext[2] * Word + bext[1] = recording.high * Word + (recording.low + Current.from)
      /\ ixml = bext <=> recording.low + Current.from < Word
  BY <1>1, ShiftIsTheTime
<1> HIDE DEF bext, ixml
<1>3. \A p \in folder' : p \in folder \/ (/\ p.bext = bext /\ p.ixml = ixml
                                          /\ p.from = Current.from
                                          /\ {"bext", "ixml", "from"} \subseteq DOMAIN p)
  BY DEF WriteSegment, bext, ixml
<1> QED BY <1>2, <1>3 DEF CuttingInv, Timed

\* However a recording is cut, killed, cut again and named, each part's bext says
\* its own time, carry included, and its iXML the same, exactly until the low
\* half wraps: beyond that the second copy is wrong.
THEOREM PartsAreTimed == CuttingSpec => []PartsTellTheirTime
<1>1. CuttingInit => CuttingInv
  BY DEF CuttingInit, CuttingInv
<1>2. CuttingInv /\ [CuttingNext]_cutVars => CuttingInv'
  <2> SUFFICES ASSUME CuttingInv, [CuttingNext]_cutVars PROVE CuttingInv'
    OBVIOUS
  <2>1. CASE StartCut
    BY <2>1 DEF StartCut, CuttingInv, Timed
  <2>2. CASE WritePart
    <3>1. \A p \in folder' : Timed(p)'
      BY <2>2, SegmentIsTimed DEF WritePart
    <3> QED BY <2>2, <3>1 DEF WritePart, CuttingInv
  <2>3. CASE KillCut
    <3>1. \A p \in folder' : Timed(p)'
      BY <2>3, SegmentIsTimed DEF KillCut
    <3> QED BY <2>3, <3>1 DEF KillCut, CuttingInv
  <2>4. CASE Annotate
    <3>1. PICK p \in folder, slug \in {"sans-nom", "titre"} : NamePart(p, slug)
      BY <2>4 DEF Annotate
    <3>2. \A q \in folder' : \E o \in folder :
            /\ q.bext = o.bext /\ q.ixml = o.ixml /\ q.from = o.from
            /\ DOMAIN q = DOMAIN o
      BY <3>1 DEF NamePart, CuttingInv, Timed
    <3> QED BY <2>4, <3>2 DEF Annotate, CuttingInv, Timed
  <2>5. CASE StartRejoin \/ JoinPart
    BY <2>5 DEF StartRejoin, JoinPart, CuttingInv, Timed
  <2>6. CASE UNCHANGED cutVars
    BY <2>6 DEF cutVars, CuttingInv, Timed
  <2> QED BY <2>1, <2>2, <2>3, <2>4, <2>5, <2>6 DEF CuttingNext
<1>3. CuttingInv => PartsTellTheirTime
  BY DEF CuttingInv, PartsTellTheirTime, Timed
<1> QED BY <1>1, <1>2, <1>3, PTL DEF CuttingSpec

-----------------------------------------------------------------------------
(* The ranks. *)

\* A boundary is known by where it starts.
LEMMA SameStart ==
  ASSUME NEW r \in Recordings, NEW b \in Bounds(r), NEW c \in Bounds(r), b.from = c.from
  PROVE  b = c
<1>1. Edges(r) \subseteq Nat
  BY EdgesAreWithin
<1>2. /\ b.from \in Edges(r) /\ b.to \in Edges(r) /\ b.from < b.to
      /\ \A e \in Edges(r) : e <= b.from \/ e >= b.to
      /\ b = [from |-> b.from, to |-> b.to]
  BY BoundsFacts
<1>3. /\ c.from \in Edges(r) /\ c.to \in Edges(r) /\ c.from < c.to
      /\ \A e \in Edges(r) : e <= c.from \/ e >= c.to
      /\ c = [from |-> c.from, to |-> c.to]
  BY BoundsFacts
<1>4. b.to = c.to
  BY <1>1, <1>2, <1>3
<1> QED BY <1>2, <1>3, <1>4

\* Each edge but the last starts a boundary.
LEMMA EdgesStartBounds ==
  ASSUME NEW r \in Recordings, NEW x \in Edges(r), x # r.frames
  PROVE  \E b \in Bounds(r) : b.from = x
<1>1. /\ r.frames \in Nat \ {0} /\ Edges(r) \subseteq 0..r.frames
      /\ r.frames \in Edges(r)
  BY EdgesAreWithin
<1> DEFINE T == {e \in Edges(r) : x < e}
<1>2. T \subseteq Nat /\ T # {}
  BY <1>1
<1> HIDE DEF T
<1>3. PICK y \in T : \A e \in T : y <= e
  BY <1>2, LeastOf
<1>4. y \in Edges(r) /\ x < y /\ \A e \in Edges(r) : e <= x \/ e >= y
  BY <1>1, <1>3 DEF T
<1>5. [from |-> x, to |-> y] \in Bounds(r)
  BY <1>4, BoundIntro
<1> QED BY <1>5

LEMMA BoundsAreFinite ==
  ASSUME NEW r \in Recordings PROVE IsFiniteSet(Bounds(r))
<1> DEFINE start == [b \in Bounds(r) |-> b.from]
<1>1. r.frames \in Nat /\ Edges(r) \subseteq 0..r.frames
  BY EdgesAreWithin
<1>2. start \in [Bounds(r) -> 0..r.frames]
  BY <1>1, BoundsFacts
<1>3. \A b, c \in Bounds(r) : start[b] = start[c] => b = c
  BY SameStart
<1>4. start \in Injection(Bounds(r), 0..r.frames)
  BY <1>2, <1>3 DEF Injection, IsInjective
<1>5. IsFiniteSet(0..r.frames)
  BY <1>1, FS_Interval
<1> QED BY <1>4, <1>5, FS_Injection

\* The rank of a boundary: how many start no later.
UpTo(r, b) == {c \in Bounds(r) : c.from <= b.from}
RankOf(r, b) == Cardinality(UpTo(r, b))

LEMMA RanksFollow ==
  ASSUME NEW r \in Recordings, NEW b \in Bounds(r), NEW c \in Bounds(r), b.from < c.from
  PROVE  RankOf(r, b) \in Nat /\ RankOf(r, c) \in Nat /\ RankOf(r, b) < RankOf(r, c)
<1>1. \A x \in Bounds(r) : x.from \in Nat
  BY BoundsFacts, EdgesAreWithin
<1>2. IsFiniteSet(UpTo(r, c)) /\ IsFiniteSet(UpTo(r, b))
  BY BoundsAreFinite, FS_Subset DEF UpTo
<1>3. UpTo(r, b) \in SUBSET UpTo(r, c) /\ c \in UpTo(r, c) /\ c \notin UpTo(r, b)
  BY <1>1 DEF UpTo
<1>4. /\ Cardinality(UpTo(r, b)) <= Cardinality(UpTo(r, c))
      /\ Cardinality(UpTo(r, b)) # Cardinality(UpTo(r, c))
  BY <1>2, <1>3, FS_Subset
<1>5. Cardinality(UpTo(r, b)) \in Nat /\ Cardinality(UpTo(r, c)) \in Nat
  BY <1>2, FS_CardinalityType
<1> QED BY <1>4, <1>5 DEF RankOf

\* Numbering the parts as they are written gives each its rank: what is left
\* to write starts no earlier than the part in hand.
LEMMA RankIsTheCount ==
  ASSUME NEW r \in Recordings, NEW T \in SUBSET Bounds(r), NEW b \in T,
         \A c \in T : b.from <= c.from,
         \A c \in Bounds(r) : b.from <= c.from => c \in T
  PROVE  /\ Cardinality(Bounds(r)) \in Nat
         /\ Cardinality(Bounds(r)) - Cardinality(T) + 1 = RankOf(r, b)
         /\ RankOf(r, b) \in Nat
<1>1. \A x \in Bounds(r) : x.from \in Nat
  BY BoundsFacts, EdgesAreWithin
<1>2. IsFiniteSet(Bounds(r)) /\ IsFiniteSet(UpTo(r, b)) /\ IsFiniteSet(T)
  BY BoundsAreFinite, FS_Subset DEF UpTo
<1>3. /\ Cardinality(Bounds(r)) \in Nat /\ Cardinality(T) \in Nat
      /\ Cardinality(UpTo(r, b)) \in Nat
  BY <1>2, FS_CardinalityType
<1>4. UpTo(r, b) \cup T = Bounds(r)
  BY <1>1 DEF UpTo
<1>5. UpTo(r, b) \cap T = {b}
  <2>1. ASSUME NEW c \in UpTo(r, b), c \in T PROVE c = b
    <3>1. c.from = b.from
      BY <1>1, <2>1 DEF UpTo
    <3> QED BY <3>1, <2>1, SameStart
  <2> QED BY <1>1, <2>1 DEF UpTo
<1>6. Cardinality(Bounds(r)) = Cardinality(UpTo(r, b)) + Cardinality(T) - 1
  <2>1. Cardinality(UpTo(r, b) \cap T) = 1
    BY <1>5, FS_Singleton
  <2>2. Cardinality(UpTo(r, b) \cup T)
          = Cardinality(UpTo(r, b)) + Cardinality(T) - Cardinality(UpTo(r, b) \cap T)
    BY <1>2, FS_Union
  <2> QED BY <1>4, <2>1, <2>2
<1> QED BY <1>3, <1>6 DEF RankOf

-----------------------------------------------------------------------------
(* Cutting and naming: the invariant. *)

Tails == {"times", "sans-nom", "titre"}
Part == [rank : Nat, total : Nat, tail : Tails, nth : 1..3,
         from : Nat, held : Nat, due : Nat,
         bext : Nat \X Nat, ixml : Nat \X Nat]

\* Part p is what one boundary gives, whatever its name ends with.
IsPartOf(p, b) ==
  /\ p.rank = RankOf(recording, b) /\ p.from = b.from /\ p.due = b.to - b.from

PartsFit ==
  \A p \in folder :
    /\ p \in Part
    /\ p.total = Cardinality(Bounds(recording)) /\ p.held <= p.due
    /\ \E b \in Bounds(recording) : IsPartOf(p, b)

\* What is left to write is at the end.
CutFromTheStart ==
  /\ toCut \subseteq Bounds(recording)
  /\ \A b \in toCut, c \in Bounds(recording) : b.from <= c.from => c \in toCut

\* No part was given a name and then written again under its first one.
NoneTwice == ~(cuts > 1 /\ named)

CutHistory ==
  /\ cuts \in Nat
  /\ cuts = 0 => folder = {} /\ toCut = {}
  /\ cuts = 1 => \A p \in folder, b \in toCut : p.from < b.from
  /\ ~named => \A p \in folder : p.tail = "times" /\ p.nth = 1

OnePartEach == NoneTwice => \A p, q \in folder : p.from = q.from => p = q

\* Unless the cut was killed, each boundary passed has its part, and all of it.
PassedIsWritten ==
  NoneTwice /\ ~killed /\ cuts > 0 =>
    \A b \in Bounds(recording) \ toCut :
      \E p \in folder : IsPartOf(p, b) /\ p.held = p.due

FolderInv ==
  /\ recording \in Recordings
  /\ PartsFit /\ CutFromTheStart /\ CutHistory /\ OnePartEach /\ PassedIsWritten

\* The part in hand is the first left to write, and has frames.
LEMMA CurrentIsFirst ==
  ASSUME FolderInv, toCut # {}
  PROVE  Current \in toCut /\ \A c \in toCut : Current.from <= c.from
<1>1. \A b \in toCut : b.from \in Nat
  BY BoundsFacts, EdgesAreWithin DEF FolderInv, CutFromTheStart
<1> DEFINE T == {b.from : b \in toCut}
<1>2. T \subseteq Nat /\ T # {}
  BY <1>1
<1> HIDE DEF T
<1>3. PICK x \in T : \A y \in T : x <= y
  BY <1>2, LeastOf
<1>4. \E b \in toCut : \A c \in toCut : b.from <= c.from
  BY <1>3 DEF T
<1> QED BY <1>4 DEF Current

LEMMA CurrentHasFrames == ASSUME FolderInv, toCut # {} PROVE Due \in Nat \ {0}
<1>1. Current \in Bounds(recording)
  BY CurrentIsFirst DEF FolderInv, CutFromTheStart
<1> QED BY <1>1, BoundsFacts, EdgesAreWithin DEF FolderInv, Due

\* What a cut, finished or not, adds to the folder.
LEMMA SegmentFits ==
  ASSUME FolderInv, toCut # {}, NEW held \in 0..Due, WriteSegment(held),
         recording' = recording
  PROVE  \E p \in Part :
           /\ folder' = {q \in folder : ~SameName(p, q)} \cup {p}
           /\ p.total = Cardinality(Bounds(recording)) /\ p.held = held
           /\ p.tail = "times" /\ p.nth = 1 /\ p.held <= p.due
           /\ IsPartOf(p, Current) /\ p.due = Due
<1>2. Current \in toCut /\ \A c \in toCut : Current.from <= c.from
  BY CurrentIsFirst
<1>3. Current \in Bounds(recording) /\ toCut \in SUBSET Bounds(recording)
  BY <1>2 DEF FolderInv, CutFromTheStart
<1>4. /\ Current.from \in Nat /\ Current.to \in Nat /\ Current.from < Current.to
  BY <1>3, BoundsFacts, EdgesAreWithin DEF FolderInv
<1>5. /\ Cardinality(Bounds(recording)) \in Nat
      /\ Cardinality(Bounds(recording)) - Cardinality(toCut) + 1
           = RankOf(recording, Current)
      /\ RankOf(recording, Current) \in Nat
  BY <1>2, <1>3, RankIsTheCount DEF FolderInv, CutFromTheStart
<1>6. /\ recording.low \in Nat /\ recording.high \in Nat /\ Word \in Nat \ {0}
  BY CuttingAssumption DEF FolderInv
<1> DEFINE v == recording.high * Word + recording.low + Current.from
<1>7. v \in Nat
  <2>1. recording.high * Word \in Nat
    BY <1>6
  <2> QED BY <1>4, <1>6, <2>1
<1>8. v % Word \in Nat /\ v \div Word \in Nat
  <2> HIDE DEF v
  <2>1. v % Word \in 0..(Word - 1) /\ v \div Word \in Nat
    BY <1>6, <1>7, DivisionFacts
  <2> QED BY <1>6, <2>1
<1>9. PICK p : p = [rank |-> RankOf(recording, Current),
                    total |-> Cardinality(Bounds(recording)),
                    tail |-> "times", nth |-> 1, from |-> Current.from, held |-> held,
                    due |-> Due, bext |-> <<v % Word, v \div Word>>,
                    ixml |-> <<recording.low + Current.from, recording.high>>]
  OBVIOUS
<1>10. folder' = {q \in folder : ~SameName(p, q)} \cup {p}
  <2>1. /\ ShiftBext(recording.low, recording.high, Current.from) = <<v % Word, v \div Word>>
        /\ ShiftIxml(recording.low, recording.high, Current.from)
             = <<recording.low + Current.from, recording.high>>
    BY DEF ShiftBext, ShiftIxml
  <2> HIDE DEF v
  <2> QED BY <1>5, <1>9, <2>1 DEF WriteSegment
<1>11. Due \in Nat /\ held \in Nat /\ held <= Due /\ Due = Current.to - Current.from
  BY <1>4 DEF Due
<1>12. p \in Part
  <2> HIDE DEF v
  <2>1. recording.low + Current.from \in Nat
    BY <1>4, <1>6
  <2> QED BY <1>4, <1>5, <1>6, <1>8, <1>9, <1>11, <2>1 DEF Part, Tails
<1> QED BY <1>9, <1>10, <1>11, <1>12 DEF IsPartOf

\* Writing a part keeps the parts distinct: on a first cut none has its rank
\* yet, and on a later one, nothing having been named, it replaces the one
\* that had.
LEMMA WrittenKeeps ==
  ASSUME FolderInv, toCut # {}, NEW held \in 0..Due, WriteSegment(held),
         \/ toCut' = toCut \ {Current} /\ held = Due /\ killed' = killed
         \/ toCut' = {} /\ killed' = TRUE,
         UNCHANGED <<recording, cuts, named>>
  PROVE  FolderInv'
<1> USE DEF FolderInv
<1>1. PICK p \in Part :
           /\ folder' = {q \in folder : ~SameName(p, q)} \cup {p}
           /\ p.total = Cardinality(Bounds(recording)) /\ p.held = held
           /\ p.tail = "times" /\ p.nth = 1 /\ p.held <= p.due
           /\ IsPartOf(p, Current) /\ p.due = Due
  BY SegmentFits
<1>2. Current \in toCut /\ \A c \in toCut : Current.from <= c.from
  BY CurrentIsFirst
<1>3. Current \in Bounds(recording) /\ p.from = Current.from
  BY <1>1, <1>2 DEF CutFromTheStart, IsPartOf
<1>4. \A b \in Bounds(recording) : b.from \in Nat
  BY BoundsFacts, EdgesAreWithin
<1>5. \A b \in toCut' : b \in toCut /\ b # Current /\ Current.from < b.from
  BY <1>2, <1>3, <1>4, SameStart DEF CutFromTheStart
<1>6. PartsFit'
  BY <1>1, <1>3 DEF PartsFit, IsPartOf
<1>7. CutFromTheStart'
  BY <1>2, <1>4, <1>5 DEF CutFromTheStart
<1>8. CutHistory'
  BY <1>1, <1>3, <1>5 DEF CutHistory
\* A part of another boundary has another rank, and one of this has its rank.
<1>9. \A q \in folder : \A b \in Bounds(recording) :
        IsPartOf(q, b) => (q.rank = p.rank <=> b = Current)
  <2>1. p.rank = RankOf(recording, Current)
    BY <1>1 DEF IsPartOf
  <2>2. ASSUME NEW b \in Bounds(recording), b # Current
        PROVE  RankOf(recording, b) # RankOf(recording, Current)
    <3>1. b.from < Current.from \/ Current.from < b.from
      BY <1>3, <1>4, <2>2, SameStart
    <3> QED BY <1>3, <3>1, RanksFollow
  <2> QED BY <2>1, <2>2 DEF IsPartOf
<1>10. ASSUME NoneTwice, NEW q \in folder, q.from = p.from PROVE q \notin folder' \/ q = p
  <2>1. PICK b \in Bounds(recording) : IsPartOf(q, b)
    BY DEF PartsFit
  <2>2. b = Current
    BY <1>3, <1>10, <2>1, SameStart DEF IsPartOf
  <2>3. q.rank = p.rank /\ q.total = p.total
    BY <1>1, <1>9, <2>1, <2>2 DEF PartsFit
  <2>4. ~named
    <3>1. cuts # 0 /\ cuts # 1
      BY <1>2, <1>3, <1>4, <1>10 DEF CutHistory
    <3> QED BY <1>10, <3>1 DEF NoneTwice, CutHistory
  <2>5. q.tail = "times" /\ q.nth = 1
    BY <2>4 DEF CutHistory
  <2>6. SameName(p, q)
    BY <1>1, <2>3, <2>5 DEF SameName
  <2> QED BY <1>1, <2>6
<1>11. OnePartEach'
  BY <1>1, <1>10 DEF OnePartEach, NoneTwice
<1>12. PassedIsWritten'
  <2> SUFFICES ASSUME NoneTwice, ~killed, cuts > 0, toCut' = toCut \ {Current}, held = Due,
                      NEW b \in Bounds(recording), b \notin toCut'
               PROVE  \E q \in folder' : IsPartOf(q, b)' /\ q.held = q.due
    BY DEF PassedIsWritten, NoneTwice
  <2>1. CASE b = Current
    BY <1>1, <2>1 DEF IsPartOf
  <2>2. CASE b # Current
    <3>1. PICK q \in folder : IsPartOf(q, b) /\ q.held = q.due
      BY <2>2 DEF PassedIsWritten
    <3>2. ~SameName(p, q)
      BY <1>9, <2>2, <3>1 DEF SameName
    <3> QED BY <1>1, <3>1, <3>2 DEF IsPartOf
  <2> QED BY <2>1, <2>2
<1> QED BY <1>6, <1>7, <1>8, <1>11, <1>12

\* Naming changes what a part's name ends with, and nothing else of it.
LEMMA NamedKeeps == ASSUME FolderInv, Annotate PROVE FolderInv'
<1> USE DEF FolderInv
<1>1. PICK p \in folder, slug \in {"sans-nom", "titre"} : NamePart(p, slug)
  BY DEF Annotate
<1>2. PICK q : /\ \E n \in 1..3 : q = [p EXCEPT !.tail = slug, !.nth = n]
               /\ folder' = (folder \ {p}) \cup {q}
  BY <1>1 DEF NamePart
<1>3. /\ q \in Part /\ q.rank = p.rank /\ q.total = p.total /\ q.from = p.from
      /\ q.held = p.held /\ q.due = p.due
  BY <1>2 DEF PartsFit, Part, Tails
<1>4. UNCHANGED <<recording, toCut, cuts, killed>> /\ named'
  BY DEF Annotate
<1>5. PartsFit'
  <2>1. \E b \in Bounds(recording) : IsPartOf(q, b)
    BY <1>3 DEF PartsFit, IsPartOf
  <2> QED BY <1>2, <1>3, <1>4, <2>1 DEF PartsFit, IsPartOf
<1>6. CutFromTheStart' /\ CutHistory'
  <2>1. CutFromTheStart'
    BY <1>4 DEF CutFromTheStart
  <2>2. cuts # 0 /\ \A x \in folder' : \E y \in folder : x.from = y.from
    BY <1>1, <1>2, <1>3 DEF CutHistory
  <2>3. CutHistory'
    BY <1>4, <2>2 DEF CutHistory
  <2> QED BY <2>1, <2>3
<1>7. OnePartEach'
  <2>1. NoneTwice' => NoneTwice
    BY <1>4 DEF NoneTwice
  <2>2. ASSUME OnePartEach, NoneTwice, NEW x \in folder', NEW y \in folder', x.from = y.from
        PROVE  x = y
    <3>1. \A z, t \in folder : z.from = t.from => z = t
      BY <2>2 DEF OnePartEach
    <3> QED BY <1>1, <1>2, <1>3, <2>2, <3>1
  <2> QED BY <2>1, <2>2 DEF OnePartEach
<1>8. PassedIsWritten'
  <2> SUFFICES ASSUME NoneTwice, ~killed, cuts > 0, NEW b \in Bounds(recording) \ toCut
               PROVE  \E x \in folder' : IsPartOf(x, b)' /\ x.held = x.due
    BY <1>4 DEF PassedIsWritten, NoneTwice
  <2>1. PICK x \in folder : IsPartOf(x, b) /\ x.held = x.due
    BY DEF PassedIsWritten
  <2>2. CASE x = p
    <3>1. IsPartOf(q, b)' /\ q.held = q.due
      BY <1>3, <1>4, <2>1, <2>2 DEF IsPartOf
    <3> QED BY <1>2, <3>1
  <2>3. CASE x # p
    <3>1. IsPartOf(x, b)'
      BY <1>4, <2>1 DEF IsPartOf
    <3> QED BY <1>2, <2>1, <2>3, <3>1
  <2> QED BY <2>2, <2>3
<1> QED BY <1>4, <1>5, <1>6, <1>7, <1>8

LEMMA FolderStays ==
  ASSUME FolderInv, UNCHANGED <<recording, toCut, folder, cuts, killed, named>>
  PROVE  FolderInv'
<1>1. PartsFit'
  BY DEF FolderInv, PartsFit, IsPartOf
<1>2. CutFromTheStart' /\ CutHistory' /\ OnePartEach'
  BY DEF FolderInv, CutFromTheStart, CutHistory, OnePartEach, NoneTwice
<1>3. PassedIsWritten'
  BY DEF FolderInv, PassedIsWritten, NoneTwice, IsPartOf
<1> QED BY <1>1, <1>2, <1>3 DEF FolderInv

LEMMA FolderKeeps == FolderInv /\ [CuttingNext]_cutVars => FolderInv'
<1> SUFFICES ASSUME FolderInv, [CuttingNext]_cutVars PROVE FolderInv'
  OBVIOUS
<1>1. CASE StartCut
  <2>1. UNCHANGED <<recording, folder, named>> /\ cuts' = cuts + 1 /\ cuts \in Nat
        /\ toCut' = Bounds(recording) /\ toCut = {}
    BY <1>1 DEF StartCut, FolderInv, CutHistory
  <2>2. PartsFit'
    BY <2>1 DEF FolderInv, PartsFit, IsPartOf
  <2>3. CutFromTheStart'
    BY <2>1 DEF CutFromTheStart
  <2>4. CutHistory'
    BY <2>1 DEF FolderInv, CutHistory
  <2>5. OnePartEach'
    BY <2>1 DEF FolderInv, OnePartEach, NoneTwice
  <2>6. PassedIsWritten'
    BY <2>1 DEF PassedIsWritten
  <2> QED BY <2>1, <2>2, <2>3, <2>4, <2>5, <2>6 DEF FolderInv
<1>2. CASE WritePart
  <2>1. Due \in 0..Due
    BY <1>2, CurrentHasFrames DEF WritePart
  <2> QED BY <1>2, <2>1, WrittenKeeps DEF WritePart
<1>3. CASE KillCut
  <2>1. PICK held \in 0..(Due - 1) : WriteSegment(held)
    BY <1>3 DEF KillCut
  <2>2. held \in 0..Due
    BY <1>3, CurrentHasFrames DEF KillCut
  <2> QED BY <1>3, <2>1, <2>2, WrittenKeeps DEF KillCut
<1>4. CASE Annotate
  BY <1>4, NamedKeeps
<1>5. CASE StartRejoin \/ JoinPart \/ UNCHANGED cutVars
  BY <1>5, FolderStays DEF StartRejoin, JoinPart, cutVars
<1> QED BY <1>1, <1>2, <1>3, <1>4, <1>5 DEF CuttingNext

-----------------------------------------------------------------------------
(* Joining. *)

\* The folder has every part of the recording, each once and whole.
Rejoinable == toCut = {} /\ ~killed /\ NoneTwice

UpToFrame(k) == [i \in 1..k |-> i]

\* What is joined so far is the recording up to an edge; the rest are the parts
\* from there.
JoinedInOrder ==
  \E k \in Edges(recording) :
    /\ rejoined = UpToFrame(k)
    /\ \A p \in folder : p \in rest <=> p.from >= k

RejoinInv ==
  /\ FolderInv
  /\ rest \subseteq folder
  /\ rejoined # Nothing => cuts > 0
  /\ rejoined \in {Nothing, Endless} => rest = {}
  /\ rejoined \in {Nothing, Endless} \cup Seq(Nat \ {0})
  /\ rejoined # Nothing /\ Rejoinable => JoinedInOrder

\* Two digits sort as the rank does, whatever follows.
LEMMA NamesSortByRank ==
  ASSUME NEW p \in Part, NEW q \in Part
  PROVE  ByName(p) \in Nat /\ (p.rank < q.rank => ByName(p) < ByName(q))
<1>1. \A x \in Part : TailPlace(x) \in 1..3 /\ x.nth \in 1..3 /\ x.rank \in Nat
  <2> TAKE x \in Part
  <2>1. \E k \in 1..3 : <<"times", "sans-nom", "titre">>[k] = x.tail
    <3>1. x.tail \in Tails
      BY DEF Part
    <3>2. /\ <<"times", "sans-nom", "titre">>[1] = "times"
          /\ <<"times", "sans-nom", "titre">>[2] = "sans-nom"
          /\ <<"times", "sans-nom", "titre">>[3] = "titre"
          /\ 1 \in 1..3 /\ 2 \in 1..3 /\ 3 \in 1..3
      OBVIOUS
    <3> QED BY <3>1, <3>2 DEF Tails
  <2>2. TailPlace(x) \in 1..3
    BY <2>1 DEF TailPlace
  <2> QED BY <2>2 DEF Part
<1> QED BY <1>1 DEF ByName

\* The first name of those left.
LEMMA FirstByName ==
  ASSUME NEW T, T # {}, \A p \in T : p \in Part
  PROVE  \E p \in T : \A x \in T : ByName(p) <= ByName(x)
<1> DEFINE S == {ByName(p) : p \in T}
<1>1. S \subseteq Nat /\ S # {}
  BY NamesSortByRank
<1> HIDE DEF S
<1>2. PICK m \in S : \A y \in S : m <= y
  BY <1>1, LeastOf
<1> QED BY <1>2 DEF S

LEMMA FramesInOrder ==
  ASSUME NEW k \in Nat, NEW h \in Nat
  PROVE  UpToFrame(k) \o [i \in 1..h |-> k + i] = UpToFrame(k + h)
<1>1. PICK s : s = UpToFrame(k)
  OBVIOUS
<1>2. PICK t : t = [i \in 1..h |-> k + i]
  OBVIOUS
<1>3. PICK u : u = UpToFrame(k + h)
  OBVIOUS
<1>4. s \in Seq(Nat) /\ t \in Seq(Nat) /\ u \in Seq(Nat)
  BY <1>1, <1>2, <1>3 DEF UpToFrame
<1>5. Len(s) = k /\ Len(t) = h /\ Len(u) = k + h
  BY <1>1, <1>2, <1>3 DEF UpToFrame
<1>6. PICK w : w = s \o t
  OBVIOUS
<1>7. /\ w \in Seq(Nat) /\ Len(w) = k + h
      /\ \A i \in 1..(k + h) : w[i] = IF i <= k THEN s[i] ELSE t[i - k]
  BY <1>4, <1>5, <1>6, ConcatProperties
<1>8. \A i \in 1..(k + h) : w[i] = u[i]
  <2> TAKE i \in 1..(k + h)
  <2>1. u[i] = i /\ i \in Nat
    BY <1>3 DEF UpToFrame
  <2>2. CASE i <= k
    <3>1. w[i] = s[i] /\ s[i] = i
      BY <1>1, <1>7, <2>1, <2>2 DEF UpToFrame
    <3> QED BY <2>1, <3>1
  <2>3. CASE i > k
    <3>1. i - k \in 1..h /\ ~(i <= k)
      BY <2>1, <2>3
    <3>2. w[i] = t[i - k]
      BY <1>7, <3>1
    <3>3. t[i - k] = k + (i - k)
      BY <1>2, <3>1
    <3>4. k + (i - k) = i
      BY <2>1
    <3> QED BY <2>1, <3>2, <3>3, <3>4
  <2> QED BY <2>1, <2>2, <2>3
<1>9. w = u
  BY <1>4, <1>5, <1>7, <1>8, SeqEqual
<1> QED BY <1>1, <1>2, <1>3, <1>9, <1>6

\* A part is joined where the parts before it end: the first name left is the
\* part that starts there, and it ends at the next edge.
LEMMA JoinedNext ==
  ASSUME RejoinInv, JoinPart, Rejoinable, JoinedInOrder
  PROVE  JoinedInOrder'
<1> USE DEF RejoinInv
<1>1. PICK k \in Edges(recording) :
        /\ rejoined = UpToFrame(k)
        /\ \A p \in folder : p \in rest <=> p.from >= k
  BY DEF JoinedInOrder
<1>2. PICK p : p = CHOOSE q \in rest : \A x \in rest : ByName(q) <= ByName(x)
  OBVIOUS
<1>3. /\ rest # {} /\ UNCHANGED <<recording, folder>>
      /\ IF p.held < p.due
         THEN rejoined' = Endless /\ rest' = {}
         ELSE rejoined' = rejoined \o Frames(p) /\ rest' = rest \ {p}
  BY <1>2 DEF JoinPart
<1>4. \A x \in folder : x \in Part
  BY DEF FolderInv, PartsFit
<1>5. p \in rest /\ \A x \in rest : ByName(p) <= ByName(x)
  <2>1. \A x \in rest : x \in Part
    BY <1>4
  <2>2. \E q \in rest : \A x \in rest : ByName(q) <= ByName(x)
    BY <1>3, <2>1, FirstByName
  <2> QED BY <1>2, <2>2
<1>6. /\ recording \in Recordings
      /\ \A e \in Edges(recording) : e \in Nat /\ e <= recording.frames
  BY EdgesAreWithin DEF FolderInv
<1>7. \A x, y \in folder : x.from = y.from => x = y
  BY DEF Rejoinable, FolderInv, OnePartEach
<1>8. cuts > 0
  BY <1>5 DEF FolderInv, CutHistory
<1>9. PICK b \in Bounds(recording) : IsPartOf(p, b)
  BY <1>5 DEF FolderInv, PartsFit
<1>10. /\ b.from \in Edges(recording) /\ b.to \in Edges(recording) /\ b.from < b.to
       /\ \A e \in Edges(recording) : e <= b.from \/ e >= b.to
  BY <1>6, <1>9, BoundsFacts
<1>11. p.from = b.from /\ p.due = b.to - b.from /\ b.from >= k
  BY <1>1, <1>5, <1>9 DEF IsPartOf
<1>12. PICK c \in Bounds(recording) : c.from = k
  BY <1>1, <1>6, <1>10, <1>11, EdgesStartBounds
<1>13. PICK q \in folder : IsPartOf(q, c) /\ q.held = q.due
  BY <1>8 DEF Rejoinable, FolderInv, PassedIsWritten
<1>14. q.from = k /\ q \in rest
  BY <1>1, <1>6, <1>12, <1>13 DEF IsPartOf
<1>15. p = q
  <2>1. ~(k < b.from)
    <3> SUFFICES ASSUME k < b.from PROVE FALSE
      OBVIOUS
    <3>1. RankOf(recording, c) < RankOf(recording, b)
      BY <1>6, <1>12, RanksFollow
    <3>2. q.rank < p.rank
      BY <3>1, <1>9, <1>13 DEF IsPartOf
    <3>3. ByName(q) < ByName(p) /\ ByName(q) \in Nat /\ ByName(p) \in Nat
      BY <1>4, <1>5, <1>14, <3>2, NamesSortByRank
    <3> QED BY <1>5, <1>14, <3>3
  <2>2. b.from = k
    BY <1>1, <1>6, <1>10, <1>11, <2>1
  <2> QED BY <1>5, <1>7, <1>11, <1>14, <2>2
<1>16. /\ p.held = b.to - k /\ p.from = k /\ p.held = p.due /\ p.due \in Nat
       /\ k \in Nat /\ b.to \in Nat /\ k < b.to /\ b.from = k
  BY <1>1, <1>6, <1>10, <1>11, <1>13, <1>14, <1>15
<1>17. rejoined' = UpToFrame(b.to) /\ rest' = rest \ {p}
  <2>1. PICK h \in Nat : h = p.held /\ k + h = b.to
    BY <1>16
  <2>2. Frames(p) = [i \in 1..h |-> k + i]
    BY <1>16, <2>1 DEF Frames
  <2>3. UpToFrame(k) \o Frames(p) = UpToFrame(k + h)
    BY <1>16, <2>2, FramesInOrder
  <2>4. ~(p.held < p.due)
    BY <1>16
  <2> QED BY <1>1, <1>3, <2>1, <2>3, <2>4
<1>18. \A x \in folder : x \in rest' <=> x.from >= b.to
  <2> TAKE x \in folder
  <2>1. x.from \in Edges(recording)
    <3>1. PICK d \in Bounds(recording) : IsPartOf(x, d)
      BY DEF FolderInv, PartsFit
    <3> QED BY <1>6, <3>1, BoundsFacts DEF IsPartOf
  <2>2. x \in rest <=> x.from >= k
    BY <1>1
  <2>3. x = p <=> x.from = k
    BY <1>5, <1>7, <1>16
  <2>4. x.from \in Nat /\ (x.from <= k \/ x.from >= b.to)
    BY <1>6, <1>10, <1>16, <2>1
  <2>5. x \in rest' <=> x \in rest /\ x # p
    BY <1>17
  <2>6. x.from >= b.to <=> x.from >= k /\ x.from # k
    BY <1>16, <2>4
  <2> QED BY <2>2, <2>3, <2>5, <2>6
<1> QED BY <1>3, <1>10, <1>17, <1>18 DEF JoinedInOrder, Edges, Marks, CuePoints

LEMMA RejoinKeeps == RejoinInv /\ [CuttingNext]_cutVars => RejoinInv'
<1> SUFFICES ASSUME RejoinInv, [CuttingNext]_cutVars PROVE RejoinInv'
  OBVIOUS
<1>1. FolderInv'
  BY FolderKeeps DEF RejoinInv
<1>2. CASE StartRejoin
  <2>1. /\ rejoined' = <<>> /\ rest' = {p \in folder : p.total <= MaxNumber}
        /\ rest' # {} /\ UNCHANGED <<recording, folder>>
    BY <1>2 DEF StartRejoin
  <2>2. rest' = folder
    BY <2>1 DEF RejoinInv, FolderInv, PartsFit
  <2>3. <<>> \in Seq(Nat \ {0}) /\ <<>> # Nothing /\ <<>> # Endless
    BY DEF Nothing, Endless
  <2>4. JoinedInOrder'
    <3>1. 0 \in Edges(recording)
      BY EdgesAreWithin DEF RejoinInv, FolderInv
    <3>2. UpToFrame(0) = <<>>
      BY DEF UpToFrame
    <3>3. \A p \in folder : p.from >= 0
      BY DEF RejoinInv, FolderInv, PartsFit, Part
    <3> QED BY <2>1, <2>2, <3>1, <3>2, <3>3 DEF JoinedInOrder, Edges, Marks, CuePoints
  <2>5. cuts' > 0
    BY <1>2, <2>1, <2>2 DEF StartRejoin, RejoinInv, FolderInv, CutHistory
  <2> QED BY <1>1, <2>1, <2>2, <2>3, <2>4, <2>5 DEF RejoinInv
<1>3. CASE JoinPart
  <2>1. UNCHANGED <<recording, toCut, folder, cuts, killed, named>> /\ rest # {}
    BY <1>3 DEF JoinPart
  <2>2. rejoined \in Seq(Nat \ {0}) /\ rejoined # Nothing
    BY <2>1 DEF RejoinInv
  <2>3. PICK p : p = CHOOSE q \in rest : \A x \in rest : ByName(q) <= ByName(x)
    OBVIOUS
  <2>4. \/ rejoined' = Endless /\ rest' = {}
        \/ rejoined' = rejoined \o Frames(p) /\ rest' = rest \ {p}
    BY <1>3, <2>3 DEF JoinPart
  <2>5. p \in folder /\ p \in Part
    <3>1. \A x \in rest : x \in Part
      BY DEF RejoinInv, FolderInv, PartsFit
    <3>2. \E q \in rest : \A x \in rest : ByName(q) <= ByName(x)
      BY <2>1, <3>1, FirstByName
    <3> QED BY <2>3, <3>1, <3>2 DEF RejoinInv
  <2>6. \/ rejoined' = Endless /\ rest' = {}
        \/ rejoined' \in Seq(Nat \ {0}) /\ rest' \subseteq rest
    <3>1. PICK f : f = Frames(p)
      OBVIOUS
    <3>2. f \in Seq(Nat \ {0})
      <4>1. p.held \in Nat /\ p.from \in Nat
        BY <2>5 DEF Part
      <4> QED BY <4>1, <3>1 DEF Frames
    <3>3. rejoined \o f \in Seq(Nat \ {0})
      BY <2>2, <3>2, ConcatProperties
    <3> QED BY <2>4, <3>1, <3>3
  <2>7. ASSUME NEW s \in Seq(Nat \ {0}) PROVE s # Nothing /\ s # Endless
    <3>1. Len(s) \in Nat /\ (Len(s) >= 1 => s[1] # 0)
      OBVIOUS
    <3>2. /\ Len(<<0>>) = 1 /\ <<0>>[1] = 0
          /\ Len(<<0, 0>>) = 2 /\ <<0, 0>>[1] = 0
      OBVIOUS
    <3> QED BY <3>1, <3>2 DEF Nothing, Endless
  <2>8. rest' \subseteq folder' /\ (rejoined' \in {Nothing, Endless} => rest' = {})
    BY <2>1, <2>6, <2>7 DEF RejoinInv
  <2>9. ASSUME Rejoinable' PROVE JoinedInOrder'
    <3>1. Rejoinable
      BY <2>1, <2>9 DEF Rejoinable, NoneTwice
    <3>2. JoinedInOrder
      BY <2>2, <3>1 DEF RejoinInv
    <3> QED BY <1>3, <3>1, <3>2, JoinedNext
  <2>10. cuts' > 0
    BY <2>1, <2>2 DEF RejoinInv
  <2> QED BY <1>1, <2>6, <2>8, <2>9, <2>10 DEF RejoinInv
<1>4. CASE StartCut \/ WritePart \/ KillCut \/ Annotate
  <2>1. rejoined = Nothing /\ UNCHANGED <<rejoined, rest>>
    BY <1>4 DEF StartCut, WritePart, KillCut, Annotate
  <2> QED BY <1>1, <2>1 DEF RejoinInv
<1>5. CASE UNCHANGED cutVars
  <2>1. JoinedInOrder => JoinedInOrder'
    BY <1>5 DEF cutVars, JoinedInOrder, Edges, Marks, CuePoints
  <2> QED BY <1>1, <1>5, <2>1 DEF RejoinInv, cutVars, Rejoinable, NoneTwice
<1> QED BY <1>2, <1>3, <1>4, <1>5 DEF CuttingNext

\* A recording of any length, cut at any markers, cut again, and its parts
\* named in any order at any time: joined again, in the order of the names they
\* then have, they give it back frame for frame.
THEOREM RejoiningRestores == CuttingSpec => []RejoinRestores
<1>1. CuttingInit => RejoinInv
  <2> SUFFICES ASSUME CuttingInit PROVE RejoinInv
    OBVIOUS
  <2>1. FolderInv
    BY DEF CuttingInit, FolderInv, PartsFit, CutFromTheStart, CutHistory,
           OnePartEach, PassedIsWritten
  <2> QED BY <2>1 DEF CuttingInit, RejoinInv
<1>2. RejoinInv /\ [CuttingNext]_cutVars => RejoinInv'
  BY RejoinKeeps
<1>3. RejoinInv => RejoinRestores
  <2> SUFFICES ASSUME RejoinInv, rejoined # Nothing, rest = {}, Rejoinable
               PROVE  rejoined = Whole
    BY DEF RejoinRestores, Rejoinable, NoneTwice
  <2> USE DEF RejoinInv
  <2>1. PICK k \in Edges(recording) :
          /\ rejoined = UpToFrame(k)
          /\ \A p \in folder : p \in rest <=> p.from >= k
    BY DEF JoinedInOrder
  <2>2. recording \in Recordings /\ \A e \in Edges(recording) : e \in Nat
    BY EdgesAreWithin DEF FolderInv
  <2>3. CASE k # recording.frames
    <3>1. PICK b \in Bounds(recording) : b.from = k
      BY <2>2, <2>3, EdgesStartBounds
    <3>2. PICK p \in folder : IsPartOf(p, b)
      BY DEF Rejoinable, FolderInv, PassedIsWritten
    <3>3. p \in rest
      BY <2>1, <2>2, <3>1, <3>2 DEF IsPartOf
    <3> QED BY <3>3
  <2> QED BY <2>1, <2>3 DEF UpToFrame, Whole
<1> QED BY <1>1, <1>2, <1>3, PTL DEF CuttingSpec
=============================================================================

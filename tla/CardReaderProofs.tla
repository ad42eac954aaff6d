-------------------------- MODULE CardReaderProofs --------------------------
(***************************************************************************)
(* Theorems of CardReader: whatever the table, the reads and the disk do,  *)
(* a file with its final name is the whole take, and a take is refused     *)
(* for a reason; every file of the directory is listed under its name; and *)
(* the copy comes nearer its end with each step.                           *)
(*                                                                         *)
(* The invariant says of the bytes read so far where each comes from: byte *)
(* i of the take is in cluster (i - 1) \div ClusterSize + 1 of its chain.  *)
(* That of the listing says which entry each name read so far belongs to.  *)
(***************************************************************************)
EXTENDS CardReader, SequenceTheorems, FiniteSetTheorems, WellFoundedInduction, TLAPS

-----------------------------------------------------------------------------
(* What is read of the card. *)

Sized(f) == f.cluster \in Nat /\ f.size \in Nat \ {0}

ReaderTypeOK ==
  /\ layout \in Layouts
  /\ entry \in 0..Len(layout.directory)
  /\ reader \in {"listing", "choosing", "walking", "streaming", "copied", "refused", "raised"}
  /\ Len(found) \in Nat /\ DOMAIN found = 1..Len(found)
  /\ \A k \in DOMAIN found : Sized(found[k])
  /\ reader \notin {"listing", "choosing"} => Sized(take)
  /\ chain \in Seq(Cluster)
  /\ faults \in Nat
  /\ streamed \in Seq(Nat) /\ part \in Seq(Nat) /\ dest \in Seq(Nat)

\* The clusters are those of the take, in order.
ChainIsTrue ==
  /\ reader \in {"listing", "choosing"} => chain = <<>>
  /\ chain # <<>> => chain[1] = take.cluster
  /\ \A k \in 1..(Len(chain) - 1) : chain[k + 1] = layout.fat[chain[k]]

Place(i) == ((i - 1) \div ClusterSize) + 1
Offset(i) == (i - 1) % ClusterSize

\* Each byte read is the one that comes there in the take.
StreamIsTrue ==
  \A i \in DOMAIN streamed :
    Place(i) \in DOMAIN chain /\ streamed[i] = Address(chain[Place(i)], Offset(i))

\* Where the stream is.
PositionIsTrue ==
  reader = "streaming" =>
    /\ attempt \in 1..Attempts
    /\ run \in 1..(Len(chain) + 1) /\ at \in Nat
    /\ run <= Len(chain) => at < InRun
    /\ left \in Nat /\ Len(streamed) + left = take.size
    /\ run <= Len(chain) => Len(streamed) = (run - 1) * ClusterSize + at

\* An attempt that met no fault reads to the end of the chain, and writes it.
Clean ==
  /\ part = streamed
  /\ run = Len(chain) + 1 => Len(streamed) = Len(chain) * ClusterSize

Short == take.size > Len(chain) * ClusterSize

\* Each attempt but this one met its fault.
FaultsAccount ==
  reader = "streaming" =>
    Short \/ faults >= attempt \/ (faults >= attempt - 1 /\ Clean)

\* Only verified bytes get the final name.
DestIsTrue ==
  /\ reader \in {"listing", "choosing", "walking"} => streamed = <<>>
  /\ dest # NoBytes => reader = "copied" /\ dest = streamed /\ Len(streamed) = take.size

ReaderInv ==
  /\ ReaderTypeOK
  /\ ChainIsTrue
  /\ StreamIsTrue
  /\ PositionIsTrue
  /\ FaultsAccount
  /\ FailuresHaveCauses
  /\ DestIsTrue

-----------------------------------------------------------------------------
(* Arithmetic, and runs of clusters. *)

\* A set of naturals that is not empty has a least element, and a bounded one
\* a greatest.
LEMMA LeastOf ==
  ASSUME NEW T, T \subseteq Nat, T # {}
  PROVE  \E x \in T : \A y \in T : x <= y
<1>1. PICK x \in T : \A y \in T : ~(<<y, x>> \in OpToRel(<, Nat))
  BY NatLessThanWellFounded, WFMin
<1>2. \A y \in T : ~(y < x)
  BY <1>1 DEF OpToRel
<1> QED BY <1>2

LEMMA MaxIsGreatest ==
  ASSUME NEW n \in Nat, NEW T, T \subseteq 0..n, T # {}
  PROVE  Max(T) \in T /\ \A y \in T : Max(T) >= y
<1> DEFINE S == {n - t : t \in T}
<1>1. S \subseteq Nat /\ S # {}
  <2>1. \A t \in T : n - t \in Nat
    OBVIOUS
  <2>2. PICK t \in T : TRUE
    OBVIOUS
  <2>3. n - t \in S
    OBVIOUS
  <2> QED BY <2>1, <2>3
<1> HIDE DEF S
<1>2. PICK m \in S : \A y \in S : m <= y
  BY <1>1, LeastOf
<1>3. PICK x \in T : m = n - x
  BY <1>2 DEF S
<1>4. \A y \in T : n - y \in S
  BY DEF S
<1>5. \A y \in T : x >= y
  BY <1>2, <1>3, <1>4
<1> QED BY <1>5 DEF Max

LEMMA ClusterSizeFacts == ClusterSize \in Nat \ {0} /\ Chunk \in Nat \ {0}
BY CardReaderAssumption

LEMMA Product ==
  ASSUME NEW p \in Nat, NEW q \in Nat
  PROVE  /\ p * ClusterSize \in Nat
         /\ (p + q) * ClusterSize = p * ClusterSize + q * ClusterSize
         /\ p > 0 => p * ClusterSize >= ClusterSize
         /\ p < q => p * ClusterSize + ClusterSize <= q * ClusterSize
<1>1. ClusterSize \in Nat \ {0}
  BY ClusterSizeFacts
<1>2. p * ClusterSize \in Nat /\ (p + q) * ClusterSize = p * ClusterSize + q * ClusterSize
  BY <1>1
<1>3. p > 0 => p * ClusterSize >= ClusterSize
  BY <1>1
<1>4. ASSUME p < q PROVE p * ClusterSize + ClusterSize <= q * ClusterSize
  <2>1. PICK d \in Nat : q = p + 1 + d
    <3>1. q - p - 1 \in Nat /\ q = p + 1 + (q - p - 1)
      BY <1>4
    <3> QED BY <3>1
  <2>2. q * ClusterSize = p * ClusterSize + ClusterSize + d * ClusterSize
    BY <1>1, <2>1
  <2>3. d * ClusterSize \in Nat /\ p * ClusterSize \in Nat
    BY <1>1
  <2> QED BY <1>1, <2>2, <2>3
<1> QED BY <1>2, <1>3, <1>4

LEMMA Quotient ==
  ASSUME NEW a \in Nat
  PROVE  /\ a \div ClusterSize \in Nat /\ a % ClusterSize \in 0..(ClusterSize - 1)
         /\ a = (a \div ClusterSize) * ClusterSize + (a % ClusterSize)
<1>1. \A b \in Nat \ {0} : /\ a \div b \in Nat /\ a % b \in 0..(b - 1)
                           /\ a = (a \div b) * b + (a % b)
  OBVIOUS
<1> QED BY <1>1, ClusterSizeFacts

LEMMA QuotientOf ==
  ASSUME NEW q \in Nat, NEW s \in 0..(ClusterSize - 1)
  PROVE  /\ (q * ClusterSize + s) \div ClusterSize = q
         /\ (q * ClusterSize + s) % ClusterSize = s
<1>1. \A b \in Nat \ {0} : \A r \in 0..(b - 1) :
        (q * b + r) \div b = q /\ (q * b + r) % b = r
  OBVIOUS
<1> QED BY <1>1, ClusterSizeFacts

\* The clusters of ch that follow each other from its r-th on.
RunFrom(ch, r) ==
  Max({n \in 1..(Len(ch) - r + 1) : \A j \in 0..(n - 1) : ch[r + j] = ch[r] + j})

LEMMA RunFacts ==
  ASSUME NEW ch \in Seq(Cluster), NEW r \in 1..Len(ch)
  PROVE  /\ RunFrom(ch, r) \in 1..(Len(ch) - r + 1)
         /\ \A j \in 0..(RunFrom(ch, r) - 1) : ch[r + j] = ch[r] + j
<1> DEFINE T == {n \in 1..(Len(ch) - r + 1) : \A j \in 0..(n - 1) : ch[r + j] = ch[r] + j}
<1>1. Len(ch) \in Nat /\ Len(ch) - r + 1 \in Nat \ {0} /\ ch[r] \in Nat
  BY CardReaderAssumption DEF Cluster
<1>2. T \subseteq 0..(Len(ch) - r + 1)
  BY <1>1
<1>3. 1 \in T
  <2>1. \A j \in 0..(1 - 1) : ch[r + j] = ch[r] + j
    BY <1>1
  <2> QED BY <1>1, <2>1
<1>4. T # {}
  BY <1>3
<1>5. RunFrom(ch, r) = Max(T)
  BY DEF RunFrom
<1>6. Max(T) \in T
  <2> HIDE DEF T
  <2> QED BY <1>1, <1>2, <1>4, MaxIsGreatest
<1> QED BY <1>5, <1>6

LEMMA RunIsFrom == RunLength = RunFrom(chain, run)
BY DEF RunLength, RunFrom

\* The o-th byte read of a run of m clusters from the r-th on.
LEMMA RunBytes ==
  ASSUME NEW r \in Nat \ {0}, NEW m \in Nat, NEW o \in Nat, o < m * ClusterSize
  PROVE  /\ o \div ClusterSize \in 0..(m - 1)
         /\ Place((r - 1) * ClusterSize + o + 1) = r + (o \div ClusterSize)
         /\ Offset((r - 1) * ClusterSize + o + 1) = o % ClusterSize
<1>1. PICK q \in Nat, s \in 0..(ClusterSize - 1) :
        q = o \div ClusterSize /\ s = o % ClusterSize /\ o = q * ClusterSize + s
  BY Quotient
<1>2. /\ q * ClusterSize \in Nat /\ m * ClusterSize \in Nat /\ (r - 1) * ClusterSize \in Nat
      /\ ClusterSize \in Nat \ {0} /\ s \in Nat
  BY Product, ClusterSizeFacts
<1>3. q < m
  <2>1. q = m \/ (m < q => m * ClusterSize + ClusterSize <= q * ClusterSize)
    BY Product
  <2> QED BY <1>1, <1>2, <2>1
<1>4. (r - 1) * ClusterSize + o = (r - 1 + q) * ClusterSize + s
  <2>1. (r - 1 + q) * ClusterSize = (r - 1) * ClusterSize + q * ClusterSize
    BY Product
  <2> QED BY <1>1, <1>2, <2>1
<1>5. /\ ((r - 1) * ClusterSize + o) \div ClusterSize = r - 1 + q
      /\ ((r - 1) * ClusterSize + o) % ClusterSize = s
  <2>1. r - 1 + q \in Nat
    OBVIOUS
  <2> QED BY <1>4, <2>1, QuotientOf
<1>6. ((r - 1) * ClusterSize + o + 1) - 1 = (r - 1) * ClusterSize + o
  BY <1>2
<1> QED BY <1>1, <1>3, <1>5, <1>6 DEF Place, Offset

-----------------------------------------------------------------------------
(* A block of bytes. *)

\* No block is empty, nor goes beyond the run or the take.
LEMMA WantedFacts ==
  ASSUME ReaderInv, Unread
  PROVE  /\ run \in 1..Len(chain) /\ at \in Nat /\ left \in Nat
         /\ RunLength \in 1..(Len(chain) - run + 1) /\ InRun \in Nat
         /\ \A j \in 0..(RunLength - 1) : chain[run + j] = chain[run] + j
         /\ Wanted \in Nat \ {0} /\ at + Wanted <= InRun /\ Wanted <= left
         /\ Len(streamed) = (run - 1) * ClusterSize + at
<1>1. /\ run \in 1..Len(chain) /\ at \in Nat /\ at < InRun /\ left \in Nat \ {0}
      /\ chain \in Seq(Cluster) /\ Len(streamed) = (run - 1) * ClusterSize + at
  BY DEF ReaderInv, ReaderTypeOK, PositionIsTrue, Unread
<1>2. /\ RunLength \in 1..(Len(chain) - run + 1)
      /\ \A j \in 0..(RunLength - 1) : chain[run + j] = chain[run] + j
  BY <1>1, RunFacts, RunIsFrom
<1>3. RunLength \in Nat
  BY <1>1, <1>2
<1>4. InRun \in Nat
  BY <1>3, Product DEF InRun
<1>5. Wanted \in Nat \ {0} /\ at + Wanted <= InRun /\ Wanted <= left
  <2> DEFINE T == {Chunk, InRun - at, left}
  <2>1. InRun - at \in Nat \ {0} /\ Chunk \in Nat \ {0}
    BY <1>1, <1>4, ClusterSizeFacts
  <2>2. T \subseteq Nat /\ T # {}
    BY <1>1, <2>1
  <2>3. \E x \in T : \A y \in T : x <= y
    <3> HIDE DEF T
    <3> QED BY <2>2, LeastOf
  <2>4. PICK w : w = Wanted
    OBVIOUS
  <2>5. w \in T /\ \A y \in T : w <= y
    BY <2>3, <2>4 DEF Wanted, Min
  <2>6. w \in Nat \ {0} /\ w <= InRun - at /\ w <= left
    BY <1>1, <2>1, <2>5
  <2> QED BY <1>1, <1>4, <2>4, <2>6
<1> QED BY <1>1, <1>2, <1>4, <1>5

LEMMA ConcatFacts ==
  ASSUME NEW s \in Seq(Nat), NEW b \in Seq(Nat)
  PROVE  /\ s \o b \in Seq(Nat) /\ Len(s \o b) = Len(s) + Len(b)
         /\ \A i \in 1..Len(s) : (s \o b)[i] = s[i]
         /\ \A i \in 1..Len(b) : (s \o b)[Len(s) + i] = b[i]
OBVIOUS

\* What a block brings, and where it leaves the stream.
LEMMA BlockIsTrue ==
  ASSUME ReaderInv, Unread, NEW n \in 1..Wanted, NEW ok, Deliver(n, ok),
         UNCHANGED <<reader, take, attempt, chain>>
  PROVE  /\ streamed' \in Seq(Nat) /\ part' \in Seq(Nat)
         /\ StreamIsTrue' /\ PositionIsTrue'
         /\ ok /\ Clean => Clean'
<1>c. PICK c : c = chain[run]
  OBVIOUS
<1>b. PICK block : block = [i \in 1..n |-> Address(c, at + i - 1)]
  OBVIOUS
<1>w. PICK wrote : wrote = IF ok THEN block ELSE [i \in 1..n |-> Spoilt]
  OBVIOUS
<1>1. /\ run \in 1..Len(chain) /\ at \in Nat /\ left \in Nat
      /\ RunLength \in 1..(Len(chain) - run + 1) /\ InRun \in Nat
      /\ \A j \in 0..(RunLength - 1) : chain[run + j] = chain[run] + j
      /\ Wanted \in Nat \ {0} /\ at + Wanted <= InRun /\ Wanted <= left
      /\ Len(streamed) = (run - 1) * ClusterSize + at
  BY WantedFacts
<1>2. n \in Nat \ {0} /\ at + n <= InRun /\ n <= left
  BY <1>1
<1>3. /\ chain \in Seq(Cluster) /\ Len(chain) \in Nat /\ streamed \in Seq(Nat) /\ part \in Seq(Nat)
      /\ c \in Nat /\ c >= 2
  <2>1. chain \in Seq(Cluster) /\ streamed \in Seq(Nat) /\ part \in Seq(Nat)
    BY DEF ReaderInv, ReaderTypeOK
  <2>2. c \in Cluster
    BY <2>1, <1>1, <1>c
  <2> QED BY <2>1, <2>2, CardReaderAssumption DEF Cluster
<1>4. (c - 2) * ClusterSize \in Nat /\ Spoilt \in Nat
  <2>1. c - 2 \in Nat /\ MaxCluster - 1 \in Nat
    BY <1>3, CardReaderAssumption
  <2> QED BY <2>1, Product DEF Spoilt
<1>5. block \in Seq(Nat) /\ Len(block) = n /\ wrote \in Seq(Nat) /\ Len(wrote) = n
  <2>1. \A i \in 1..n : Address(c, at + i - 1) \in Nat
    BY <1>1, <1>2, <1>4 DEF Address
  <2>2. block \in [1..n -> Nat] /\ [i \in 1..n |-> Spoilt] \in [1..n -> Nat]
    BY <1>4, <1>b, <2>1
  <2> QED BY <1>2, <1>w, <2>2
<1>6. streamed' = streamed \o block /\ part' = part \o wrote /\ left' = left - n
  BY <1>c, <1>b, <1>w DEF Deliver
<1>7. /\ streamed' \in Seq(Nat) /\ part' \in Seq(Nat)
      /\ Len(streamed') = Len(streamed) + n
      /\ \A i \in 1..Len(streamed) : streamed'[i] = streamed[i]
      /\ \A i \in 1..n : streamed'[Len(streamed) + i] = block[i]
  <2>1. streamed \in Seq(Nat) /\ part \in Seq(Nat) /\ block \in Seq(Nat) /\ wrote \in Seq(Nat)
    BY <1>3, <1>5
  <2>2. /\ streamed \o block \in Seq(Nat)
        /\ Len(streamed \o block) = Len(streamed) + Len(block)
        /\ \A i \in 1..Len(streamed) : (streamed \o block)[i] = streamed[i]
        /\ \A i \in 1..Len(block) : (streamed \o block)[Len(streamed) + i] = block[i]
    BY <2>1, ConcatFacts
  <2>3. part \o wrote \in Seq(Nat)
    BY <2>1, ConcatFacts
  <2> QED BY <1>5, <1>6, <2>2, <2>3
<1>8. StreamIsTrue'
  <2> SUFFICES ASSUME NEW i \in 1..(Len(streamed) + n)
               PROVE  /\ Place(i) \in DOMAIN chain
                      /\ streamed'[i] = Address(chain[Place(i)], Offset(i))
    <3>1. DOMAIN streamed' = 1..(Len(streamed) + n)
      BY <1>7
    <3> QED BY <3>1 DEF StreamIsTrue, Place, Offset
  <2>1. CASE i \in 1..Len(streamed)
    <3>1. i \in DOMAIN streamed
      BY <2>1, <1>3
    <3>2. Place(i) \in DOMAIN chain /\ streamed[i] = Address(chain[Place(i)], Offset(i))
      BY <3>1 DEF ReaderInv, StreamIsTrue
    <3> QED BY <2>1, <3>2, <1>7
  <2>2. CASE i \notin 1..Len(streamed)
    <3>1. PICK j \in 1..n : i = Len(streamed) + j
      <4>1. i - Len(streamed) \in 1..n /\ i = Len(streamed) + (i - Len(streamed))
        BY <1>2, <1>3, <2>2
      <4> QED BY <4>1
    <3>2. PICK o \in Nat : o = at + j - 1 /\ o < RunLength * ClusterSize
      BY <1>1, <1>2 DEF InRun
    <3>3. (run - 1) * ClusterSize \in Nat
      BY <1>1, Product
    <3>4. i = (run - 1) * ClusterSize + o + 1
      BY <1>1, <3>1, <3>2, <3>3
    <3>5. PICK q \in Nat, s \in Nat :
            /\ q = o \div ClusterSize /\ s = o % ClusterSize /\ o = q * ClusterSize + s
            /\ q \in 0..(RunLength - 1) /\ Place(i) = run + q /\ Offset(i) = s
      <4>1. run \in Nat \ {0} /\ RunLength \in Nat /\ ClusterSize \in Nat
        BY <1>1, <1>3, ClusterSizeFacts
      <4>2. /\ o \div ClusterSize \in 0..(RunLength - 1)
            /\ Place((run - 1) * ClusterSize + o + 1) = run + (o \div ClusterSize)
            /\ Offset((run - 1) * ClusterSize + o + 1) = o % ClusterSize
        BY <3>2, <4>1, RunBytes
      <4>3. /\ o \div ClusterSize \in Nat /\ o % ClusterSize \in 0..(ClusterSize - 1)
            /\ o = (o \div ClusterSize) * ClusterSize + (o % ClusterSize)
        BY Quotient
      <4>4. o % ClusterSize \in Nat
        BY <4>1, <4>3
      <4> QED BY <3>4, <4>2, <4>3, <4>4
    <3>6. run + q \in 1..Len(chain) /\ chain[run + q] = c + q
      <4>1. /\ Len(chain) \in Nat /\ run \in Nat /\ run >= 1 /\ RunLength \in Nat
            /\ RunLength <= Len(chain) - run + 1
        BY <1>1, <1>3
      <4>2. q <= RunLength - 1 /\ q \in Nat
        BY <3>5, <4>1
      <4>3. chain[run + q] = chain[run] + q
        BY <1>1, <3>5
      <4> QED BY <4>1, <4>2, <4>3, <1>c
    <3>7. Address(c, o) = Address(c + q, s)
      <4>1. c - 2 \in Nat /\ c - 2 + q = c + q - 2
        BY <1>3, <3>5
      <4>2. (c - 2 + q) * ClusterSize = (c - 2) * ClusterSize + q * ClusterSize
        BY <4>1, Product
      <4>3. q * ClusterSize \in Nat
        BY Product
      <4>4. (c + q - 2) * ClusterSize = (c - 2) * ClusterSize + q * ClusterSize
        BY <4>1, <4>2
      <4>5. PICK x \in Nat, y \in Nat : x = (c - 2) * ClusterSize /\ y = q * ClusterSize
        BY <1>4, <4>3
      <4>6. o = y + s
        BY <3>5, <4>5
      <4>7. Address(c, o) = x + o
        BY <4>5 DEF Address
      <4>8. Address(c + q, s) = x + y + s
        BY <4>4, <4>5, <1>3, <3>5, ClusterSizeFacts DEF Address
      <4> QED BY <4>5, <4>6, <4>7, <4>8
    <3>8. streamed'[i] = Address(c, o)
      <4>1. streamed'[i] = block[j]
        BY <1>7, <3>1
      <4>2. block[j] = Address(c, at + j - 1)
        BY <1>b, <3>1
      <4> QED BY <3>2, <4>1, <4>2
    <3>9. Place(i) = run + q /\ Offset(i) = s
      BY <3>5
    <3>10. DOMAIN chain = 1..Len(chain)
      BY <1>3
    <3> QED BY <3>6, <3>7, <3>8, <3>9, <3>10
  <2> QED BY <2>1, <2>2
<1>9. /\ at + n = InRun => run' = run + RunLength /\ at' = 0
      /\ at + n # InRun => run' = run /\ at' = at + n
  BY DEF Deliver
<1>10. run' \in 1..(Len(chain) + 1) /\ at' \in Nat
  BY <1>1, <1>2, <1>3, <1>9
<1>11. run' <= Len(chain) => at' < RunFrom(chain, run') * ClusterSize
  <2>1. CASE at + n = InRun
    <3> SUFFICES ASSUME run' <= Len(chain) PROVE 0 < RunFrom(chain, run') * ClusterSize
      BY <2>1, <1>9
    <3>1. run' \in 1..Len(chain)
      BY <1>10, <1>3
    <3>2. RunFrom(chain, run') \in 1..(Len(chain) - run' + 1)
      BY <3>1, <1>3, RunFacts
    <3>3. RunFrom(chain, run') \in Nat \ {0}
      BY <3>1, <3>2, <1>3
    <3> QED BY <3>3, Product, ClusterSizeFacts
  <2>2. CASE at + n # InRun
    <3>1. run' = run /\ at' = at + n
      BY <2>2, <1>9
    <3>2. InRun = RunFrom(chain, run) * ClusterSize
      BY RunIsFrom DEF InRun
    <3>3. at + n < InRun
      BY <2>2, <1>1, <1>2
    <3> QED BY <3>1, <3>2, <3>3
  <2> QED BY <2>1, <2>2
<1>12. Len(streamed') = (run' - 1) * ClusterSize + at'
  <2>1. (run - 1) * ClusterSize \in Nat
    BY <1>1, Product
  <2>2. CASE at + n = InRun
    <3>1. run - 1 \in Nat /\ RunLength \in Nat /\ run' - 1 = (run - 1) + RunLength
      BY <2>2, <1>1, <1>3, <1>9
    <3>2. (run' - 1) * ClusterSize = (run - 1) * ClusterSize + RunLength * ClusterSize
      BY <3>1, Product
    <3> QED BY <1>1, <1>2, <1>7, <1>9, <2>1, <2>2, <3>2 DEF InRun
  <2>3. CASE at + n # InRun
    BY <1>1, <1>2, <1>7, <1>9, <2>1, <2>3
  <2> QED BY <2>2, <2>3
<1>13. PositionIsTrue'
  <2>1. /\ attempt \in 1..Attempts /\ Len(streamed) + left = take.size
    BY DEF ReaderInv, PositionIsTrue, Unread
  <2>2. left' \in Nat /\ Len(streamed') + left' = take.size
    <3>1. left \in Nat /\ Len(streamed) \in Nat
      BY <1>1, <1>3
    <3>2. PICK l \in Nat : l = left
      BY <3>1
    <3>3. PICK s \in Nat : s = Len(streamed)
      BY <3>1
    <3>4. n \in Nat /\ n <= l
      BY <1>2, <3>2
    <3>5. left' = l - n /\ Len(streamed') = s + n
      BY <1>6, <1>7, <3>2, <3>3
    <3>6. s + l = take.size
      BY <2>1, <3>2, <3>3
    <3>7. l - n \in Nat /\ (s + n) + (l - n) = s + l
      BY <3>4
    <3> QED BY <3>5, <3>6, <3>7
  <2>3. InRun' = RunFrom(chain, run') * ClusterSize
    BY DEF InRun, RunLength, RunFrom
  <2> QED BY <1>10, <1>11, <1>12, <2>1, <2>2, <2>3 DEF PositionIsTrue
<1>14. ASSUME ok, Clean PROVE Clean'
  <2>1. part' = streamed'
    BY <1>6, <1>w, <1>14 DEF Clean
  <2>2. run' = Len(chain) + 1 => at' = 0
    BY <1>1, <1>3, <1>9
  <2>3. run' = Len(chain) + 1 => Len(streamed') = Len(chain) * ClusterSize
    <3>1. Len(chain) * ClusterSize \in Nat /\ Len(chain) + 1 - 1 = Len(chain)
      BY <1>3, Product
    <3> QED BY <1>12, <2>2, <3>1
  <2> QED BY <2>1, <2>3 DEF Clean
<1> QED BY <1>7, <1>8, <1>13, <1>14

-----------------------------------------------------------------------------
(* The steps. *)

LEMMA EmptyIsASequence == <<>> \in Seq(Nat) /\ <<>> \in Seq(Cluster) /\ NoBytes \in Seq(Nat)
<1>1. MaxCluster - 1 \in Nat
  BY CardReaderAssumption
<1>2. Spoilt + 1 \in Nat
  <2>1. \A p \in Nat : p * ClusterSize \in Nat
    BY ClusterSizeFacts
  <2>2. Spoilt \in Nat
    BY <1>1, <2>1 DEF Spoilt
  <2> QED BY <2>2
<1>3. NoBytes \in Seq(Nat)
  BY <1>2 DEF NoBytes
<1> QED BY <1>3

LEMMA ReaderStarts == CardReaderInit => ReaderInv
<1> SUFFICES ASSUME CardReaderInit PROVE ReaderInv
  OBVIOUS
<1>1. /\ layout \in Layouts /\ reader = "listing" /\ entry = 0 /\ found = <<>> /\ chain = <<>>
      /\ faults = 0 /\ streamed = <<>> /\ part = NoBytes /\ dest = NoBytes
  BY DEF CardReaderInit
<1>2. Len(layout.directory) \in Nat
  BY <1>1, CardReaderAssumption
<1>3. ReaderTypeOK
  BY <1>1, <1>2, EmptyIsASequence DEF ReaderTypeOK
<1>4. ChainIsTrue /\ StreamIsTrue
  BY <1>1 DEF ChainIsTrue, StreamIsTrue
<1> QED BY <1>1, <1>3, <1>4 DEF ReaderInv, PositionIsTrue, FaultsAccount, FailuresHaveCauses,
      DestIsTrue

\* An entry without a size is no take.
LEMMA ListStep ==
  ASSUME ReaderInv, List
  PROVE  ReaderInv'
<1>1. /\ reader = "listing" /\ reader' \in {"listing", "choosing"}
      /\ UNCHANGED <<layout, take, chain, streamed, part, dest, faults>>
  BY DEF List, streamVars
<1>2. /\ Len(layout.directory) \in Nat /\ entry \in 0..Len(layout.directory)
      /\ layout.directory \in Seq(DirEntry) /\ layout \in Layouts
  BY CardReaderAssumption DEF ReaderInv, ReaderTypeOK
<1>3. /\ Len(found) \in Nat /\ DOMAIN found = 1..Len(found)
      /\ \A k \in DOMAIN found : Sized(found[k])
  BY DEF ReaderInv, ReaderTypeOK
<1>4. /\ entry' \in 0..Len(layout.directory)
      /\ Len(found') \in Nat /\ DOMAIN found' = 1..Len(found')
      /\ \A k \in DOMAIN found' : Sized(found'[k])
  <2>1. CASE UNCHANGED listVars
    BY <2>1, <1>2, <1>3 DEF listVars
  <2>2. CASE ~UNCHANGED listVars
    <3>1. /\ entry < Len(layout.directory) /\ entry' = entry + 1
          /\ ListEntry(layout.directory[entry + 1])
      BY <2>2 DEF List
    <3>2. PICK e \in DirEntry : e = layout.directory[entry + 1]
      BY <3>1, <1>2
    <3>3. entry' \in 0..Len(layout.directory)
      BY <3>1, <1>2
    <3>4. \/ found' = found
          \/ e.size # 0 /\ \E name \in FullNames(e) :
               found' = Append(found, [name |-> name, cluster |-> e.cluster, size |-> e.size])
      BY <3>1, <3>2 DEF ListEntry, ListFile
    <3>5. CASE found' = found
      BY <3>5, <3>3, <1>3
    <3>6. CASE found' # found
      <4>1. PICK f : /\ \E name : f = [name |-> name, cluster |-> e.cluster, size |-> e.size]
                     /\ found' = Append(found, f)
        BY <3>4, <3>6
      <4>2. Sized(f)
        BY <4>1, <3>2, <3>4, <3>6 DEF Sized, DirEntry
      <4>3. found' = Append(found, f)
        BY <4>1
      <4>4. /\ Len(found') = Len(found) + 1 /\ DOMAIN found' = 1..(Len(found) + 1)
            /\ \A k \in DOMAIN found' : found'[k] = f \/ (k \in DOMAIN found /\ found'[k] = found[k])
        BY <4>3, <1>3
      <4> QED BY <4>2, <4>4, <3>3, <1>3
    <3> QED BY <3>5, <3>6
  <2> QED BY <2>1, <2>2
<1>5. ReaderTypeOK'
  BY <1>1, <1>4 DEF ReaderInv, ReaderTypeOK
<1>6. ChainIsTrue' /\ StreamIsTrue'
  BY <1>1 DEF ReaderInv, ChainIsTrue, StreamIsTrue, DestIsTrue
<1> QED BY <1>1, <1>5, <1>6 DEF ReaderInv, PositionIsTrue, FaultsAccount, FailuresHaveCauses,
      DestIsTrue

LEMMA BeginStep ==
  ASSUME ReaderInv, Begin
  PROVE  ReaderInv'
<1>1. /\ reader = "choosing" /\ reader' = "walking" /\ chain' = <<>>
      /\ UNCHANGED <<layout, entry, found, streamed, part, dest, faults>>
  BY DEF Begin, listVars, streamVars
<1>2. Sized(take')
  BY DEF Begin, ReaderInv, ReaderTypeOK
<1>3. ReaderTypeOK'
  BY <1>1, <1>2, EmptyIsASequence DEF ReaderInv, ReaderTypeOK
<1>4. ChainIsTrue' /\ StreamIsTrue'
  BY <1>1 DEF ReaderInv, ChainIsTrue, StreamIsTrue, DestIsTrue
<1> QED BY <1>1, <1>3, <1>4 DEF ReaderInv, PositionIsTrue, FaultsAccount, FailuresHaveCauses,
      DestIsTrue

\* A stream that starts is at the start of the chain, however short.
LEMMA StreamStarts ==
  ASSUME chain' \in Seq(Cluster), Sized(take'), attempt' \in 1..Attempts, StartStream,
         take' = take
  PROVE  streamed' = <<>> /\ part' = <<>> /\ StreamIsTrue' /\ PositionIsTrue' /\ Clean'
<1>1. /\ run' = 1 /\ at' = 0 /\ left' = take'.size /\ streamed' = <<>> /\ part' = <<>>
  BY DEF StartStream
<1>2. Len(chain') \in Nat /\ left' \in Nat
  BY <1>1 DEF Sized
<1>3. ASSUME 1 <= Len(chain') PROVE 0 < InRun'
  <2>1. RunFrom(chain', 1) \in 1..(Len(chain') - 1 + 1)
    BY <1>2, <1>3, RunFacts
  <2>2. RunFrom(chain', 1) \in Nat \ {0}
    BY <1>2, <2>1
  <2>3. InRun' = RunFrom(chain', 1) * ClusterSize
    BY <1>1 DEF InRun, RunLength, RunFrom
  <2> QED BY <2>2, <2>3, Product, ClusterSizeFacts
<1>4. 0 * ClusterSize = 0 /\ Len(<<>>) = 0
  BY ClusterSizeFacts
<1>5. PositionIsTrue'
  <2>1. Len(streamed') = 0 /\ Len(streamed') + left' = take'.size
    BY <1>1, <1>2, <1>4 DEF Sized
  <2>2. (run' - 1) * ClusterSize + at' = 0
    BY <1>1, <1>4
  <2> QED BY <1>1, <1>2, <1>3, <2>1, <2>2 DEF PositionIsTrue
<1>6. Clean'
  <2>1. 1 = Len(chain') + 1 => Len(chain') * ClusterSize = 0
    BY <1>2, <1>4
  <2> QED BY <1>1, <1>4, <2>1 DEF Clean
<1> QED BY <1>1, <1>5, <1>6 DEF StreamIsTrue

LEMMA WalkStep ==
  ASSUME ReaderInv, Walk
  PROVE  ReaderInv'
<1>1. /\ reader = "walking" /\ streamed = <<>> /\ dest = NoBytes /\ Sized(take)
      /\ chain \in Seq(Cluster) /\ layout \in Layouts
      /\ UNCHANGED <<layout, entry, found, take, dest, faults>>
  BY DEF Walk, listVars, ReaderInv, ReaderTypeOK, DestIsTrue
<1> DEFINE next == IF chain = <<>> THEN take.cluster ELSE layout.fat[Last(chain)]
<1>2. CASE next \in Cluster
  <2>1. chain' = Append(chain, next) /\ UNCHANGED <<reader, streamed, part>>
    BY <1>2 DEF Walk, streamVars
  <2>2. /\ chain' \in Seq(Cluster) /\ Len(chain) \in Nat /\ Len(chain') = Len(chain) + 1
        /\ chain'[Len(chain) + 1] = next /\ \A k \in 1..Len(chain) : chain'[k] = chain[k]
    <3> HIDE DEF next
    <3> QED BY <1>1, <1>2, <2>1
  <2>3. chain # <<>> => Len(chain) >= 1 /\ next = layout.fat[chain[Len(chain)]]
    BY <1>1 DEF Last
  <2>4. chain = <<>> => Len(chain) = 0 /\ next = take.cluster
    OBVIOUS
  <2> HIDE DEF next
  <2>5. ChainIsTrue'
    <3>1. chain'[1] = take.cluster
      <4>1. CASE chain = <<>>
        BY <4>1, <2>2, <2>4
      <4>2. CASE chain # <<>>
        BY <4>2, <2>2, <2>3 DEF ReaderInv, ChainIsTrue
      <4> QED BY <4>1, <4>2
    <3>2. ASSUME NEW k \in 1..(Len(chain') - 1) PROVE chain'[k + 1] = layout.fat[chain'[k]]
      <4>1. CASE k = Len(chain)
        <5>1. chain # <<>>
          BY <4>1, <2>2, <2>4
        <5> QED BY <4>1, <5>1, <2>2, <2>3
      <4>2. CASE k # Len(chain)
        <5>1. k \in 1..(Len(chain) - 1) /\ k + 1 \in 1..Len(chain) /\ k \in 1..Len(chain)
          BY <4>2, <2>2
        <5>2. chain[k + 1] = layout.fat[chain[k]]
          BY <5>1 DEF ReaderInv, ChainIsTrue
        <5> QED BY <5>1, <5>2, <2>2
      <4> QED BY <4>1, <4>2
    <3> QED BY <1>1, <2>1, <3>1, <3>2 DEF ChainIsTrue
  <2>6. ReaderTypeOK' /\ StreamIsTrue'
    BY <1>1, <2>1, <2>2 DEF ReaderInv, ReaderTypeOK, StreamIsTrue
  <2> QED BY <1>1, <2>1, <2>5, <2>6 DEF ReaderInv, PositionIsTrue, FaultsAccount,
        FailuresHaveCauses, DestIsTrue
<1>3. CASE next \notin Cluster
  <2>1. reader' = "streaming" /\ attempt' = 1 /\ StartStream /\ chain' = chain
    BY <1>3 DEF Walk
  <2>2. 1 \in 1..Attempts /\ faults \in Nat
    BY CardReaderAssumption DEF ReaderInv, ReaderTypeOK
  <2>3. streamed' = <<>> /\ part' = <<>> /\ StreamIsTrue' /\ PositionIsTrue' /\ Clean'
    BY <1>1, <2>1, <2>2, StreamStarts
  <2>4. FaultsAccount'
    BY <1>1, <2>1, <2>2, <2>3 DEF FaultsAccount
  <2>5. ReaderTypeOK' /\ ChainIsTrue'
    BY <1>1, <2>1, <2>3, EmptyIsASequence DEF ReaderInv, ReaderTypeOK, ChainIsTrue
  <2> QED BY <1>1, <2>1, <2>3, <2>4, <2>5 DEF ReaderInv, FailuresHaveCauses, DestIsTrue
<1> QED BY <1>2, <1>3

\* A block read, whole or short, kept by the disk or not.
LEMMA DeliverStep ==
  ASSUME ReaderInv, Unread, NEW n \in 1..Wanted, NEW ok, Deliver(n, ok),
         UNCHANGED <<layout, reader, listVars, take, attempt, chain, dest>>,
         (ok /\ faults' = faults) \/ faults' = faults + 1
  PROVE  ReaderInv'
<1>1. /\ streamed' \in Seq(Nat) /\ part' \in Seq(Nat) /\ StreamIsTrue' /\ PositionIsTrue'
      /\ ok /\ Clean => Clean'
  BY BlockIsTrue
<1>2. reader = "streaming" /\ reader' = "streaming" /\ entry' = entry /\ found' = found
  BY DEF Unread, listVars
<1>3. faults \in Nat /\ attempt \in 1..Attempts
  BY <1>2 DEF ReaderInv, ReaderTypeOK, PositionIsTrue
<1>4. dest = NoBytes
  BY <1>2 DEF ReaderInv, DestIsTrue
<1>5. FaultsAccount'
  <2>1. Short' <=> Short
    BY DEF Short
  <2>2. attempt \in Nat
    BY <1>3
  <2> QED BY <1>1, <1>2, <1>3, <2>1, <2>2 DEF ReaderInv, FaultsAccount
<1>6. ReaderTypeOK' /\ ChainIsTrue'
  BY <1>1, <1>2, <1>3 DEF ReaderInv, ReaderTypeOK, ChainIsTrue
<1> QED BY <1>1, <1>2, <1>4, <1>5, <1>6 DEF ReaderInv, FailuresHaveCauses, DestIsTrue

\* The stream ends early: a fault, which the attempt has met.
LEMMA EmptyStep ==
  ASSUME ReaderInv, ReadEmpty
  PROVE  ReaderInv'
<1>1. /\ reader = "streaming" /\ run' = Len(chain) + 1 /\ at' = 0 /\ faults' = faults + 1
      /\ UNCHANGED <<layout, reader, entry, found, take, attempt, chain, left, streamed, part, dest>>
  BY DEF ReadEmpty, Unread, Fault, listVars
<1>2. /\ faults \in Nat /\ attempt \in 1..Attempts /\ Len(chain) \in Nat /\ dest = NoBytes
  BY <1>1 DEF ReaderInv, ReaderTypeOK, PositionIsTrue, DestIsTrue
<1>3. PositionIsTrue'
  <2>1. run' \in 1..(Len(chain) + 1) /\ ~(run' <= Len(chain)) /\ at' \in Nat
    BY <1>1, <1>2
  <2> QED BY <1>1, <2>1 DEF ReaderInv, PositionIsTrue
<1>4. FaultsAccount'
  <2>1. Short' <=> Short
    BY <1>1 DEF Short
  <2>2. attempt \in Nat
    BY <1>2
  <2> QED BY <1>1, <1>2, <2>1, <2>2 DEF ReaderInv, FaultsAccount
<1>5. ReaderTypeOK' /\ ChainIsTrue' /\ StreamIsTrue'
  BY <1>1, <1>2 DEF ReaderInv, ReaderTypeOK, ChainIsTrue, StreamIsTrue, Place, Offset
<1> QED BY <1>1, <1>2, <1>3, <1>4, <1>5 DEF ReaderInv, FailuresHaveCauses, DestIsTrue

LEMMA RaiseStep ==
  ASSUME ReaderInv, StreamRaises
  PROVE  ReaderInv'
<1>1. /\ reader = "streaming" /\ reader' = "raised" /\ faults' = faults + 1
      /\ UNCHANGED <<layout, entry, found, take, attempt, chain, streamed, part, dest>>
  BY DEF StreamRaises, Unread, Fault, listVars, streamVars
<1>2. /\ faults \in Nat /\ faults' \in Nat /\ dest = NoBytes
      /\ attempt \in 1..Attempts /\ attempt \in Nat
  BY <1>1 DEF ReaderInv, ReaderTypeOK, DestIsTrue, PositionIsTrue
<1>3. ReaderTypeOK' /\ ChainIsTrue' /\ StreamIsTrue'
  BY <1>1, <1>2 DEF ReaderInv, ReaderTypeOK, ChainIsTrue, StreamIsTrue, Place, Offset
<1>4. FailuresHaveCauses'
  <2>1. Short \/ faults + 1 >= attempt
    BY <1>1, <1>2 DEF ReaderInv, FaultsAccount
  <2> QED BY <1>1, <2>1 DEF FailuresHaveCauses, Short
<1> QED BY <1>1, <1>2, <1>3, <1>4 DEF ReaderInv, PositionIsTrue, FaultsAccount, DestIsTrue

LEMMA RenameStep ==
  ASSUME ReaderInv, Rename
  PROVE  ReaderInv'
<1>1. /\ reader = "streaming" /\ reader' = "copied" /\ dest' = streamed /\ part' = NoBytes
      /\ Len(streamed) = take.size
      /\ UNCHANGED <<layout, entry, found, take, chain, streamed, faults>>
  BY DEF Rename, StreamOver, Verified, listVars
<1>2. ReaderTypeOK' /\ ChainIsTrue' /\ StreamIsTrue'
  BY <1>1, EmptyIsASequence DEF ReaderInv, ReaderTypeOK, ChainIsTrue, StreamIsTrue, Place, Offset
<1> QED BY <1>1, <1>2 DEF ReaderInv, PositionIsTrue, FaultsAccount, FailuresHaveCauses, DestIsTrue

\* An attempt that met no fault fails because the chain is too short.
LEMMA RetryStep ==
  ASSUME ReaderInv, Retry
  PROVE  ReaderInv'
<1>1. /\ reader = "streaming" /\ ~Verified /\ (run > Len(chain) \/ left = 0)
      /\ UNCHANGED <<layout, entry, found, take, chain, dest, faults>>
  BY DEF Retry, StreamOver, listVars
<1>2. /\ faults \in Nat /\ attempt \in 1..Attempts /\ attempt \in Nat /\ dest = NoBytes
      /\ Len(chain) \in Nat /\ Sized(take) /\ chain \in Seq(Cluster)
  BY <1>1 DEF ReaderInv, ReaderTypeOK, PositionIsTrue, DestIsTrue
<1>3. Short \/ faults >= attempt
  <2> SUFFICES ASSUME Clean PROVE Short
    BY <1>1 DEF ReaderInv, FaultsAccount
  <2>1. Len(streamed) # take.size
    BY <1>1 DEF Verified, Clean
  <2>2. /\ left \in Nat /\ Len(streamed) + left = take.size /\ run \in 1..(Len(chain) + 1)
        /\ Len(streamed) \in Nat
    BY <1>1 DEF ReaderInv, PositionIsTrue, ReaderTypeOK
  <2>3. left > 0 /\ run = Len(chain) + 1
    BY <1>1, <1>2, <2>1, <2>2
  <2>4. Len(streamed) = Len(chain) * ClusterSize
    BY <2>3 DEF Clean
  <2> QED BY <2>2, <2>3, <2>4 DEF Short
<1>4. CASE attempt < Attempts
  <2>1. attempt' = attempt + 1 /\ StartStream /\ reader' = "streaming"
    BY <1>1, <1>4 DEF Retry
  <2>2. attempt' \in 1..Attempts
    BY <1>2, <1>4, <2>1, CardReaderAssumption
  <2>3. streamed' = <<>> /\ part' = <<>> /\ StreamIsTrue' /\ PositionIsTrue' /\ Clean'
    BY <1>1, <1>2, <2>1, <2>2, StreamStarts
  <2>4. FaultsAccount'
    <3>1. Short' <=> Short
      BY <1>1 DEF Short
    <3> QED BY <1>1, <1>2, <1>3, <2>1, <2>3, <3>1 DEF FaultsAccount
  <2>5. ReaderTypeOK' /\ ChainIsTrue'
    BY <1>1, <2>1, <2>3, EmptyIsASequence DEF ReaderInv, ReaderTypeOK, ChainIsTrue
  <2> QED BY <1>1, <1>2, <2>1, <2>3, <2>4, <2>5 DEF ReaderInv, FailuresHaveCauses, DestIsTrue
<1>5. CASE ~(attempt < Attempts)
  <2>1. reader' = "refused" /\ UNCHANGED <<attempt, streamVars>>
    BY <1>5 DEF Retry
  <2>2. attempt = Attempts
    BY <1>2, <1>5, CardReaderAssumption
  <2>3. FailuresHaveCauses'
    <3>1. attempt' = Attempts /\ reader' = "refused"
      BY <2>1, <2>2
    <3>2. (Short \/ faults >= Attempts)'
      BY <1>1, <1>3, <2>2 DEF Short
    <3> QED BY <3>1, <3>2 DEF FailuresHaveCauses, Short
  <2>4. ReaderTypeOK' /\ ChainIsTrue' /\ StreamIsTrue'
    BY <1>1, <2>1 DEF ReaderInv, ReaderTypeOK, ChainIsTrue, StreamIsTrue, Place, Offset, streamVars
  <2> QED BY <1>1, <1>2, <2>1, <2>3, <2>4 DEF ReaderInv, PositionIsTrue, FaultsAccount, DestIsTrue
<1> QED BY <1>4, <1>5

LEMMA ReaderStep ==
  ASSUME ReaderInv, [CardReaderNext]_readerVars
  PROVE  ReaderInv'
<1>1. CASE List
  BY <1>1, ListStep
<1>2. CASE Begin
  BY <1>2, BeginStep
<1>3. CASE Walk
  BY <1>3, WalkStep
<1>4. CASE ReadBlock
  <2>1. Wanted \in 1..Wanted
    BY <1>4, WantedFacts DEF ReadBlock
  <2> QED BY <1>4, <2>1, DeliverStep DEF ReadBlock
<1>5. CASE ReadBadly
  <2>1. Wanted \in Nat \ {0} /\ Unread /\ faults' = faults + 1
        /\ UNCHANGED <<layout, reader, listVars, take, attempt, chain, dest>>
    BY <1>5, WantedFacts DEF ReadBadly, Fault
  <2>2. PICK n \in 1..Wanted, ok \in BOOLEAN : Deliver(n, ok)
    <3>1. Wanted \in 1..Wanted /\ \A n \in 1..(Wanted - 1) : n \in 1..Wanted
      BY <2>1
    <3> QED BY <1>5, <3>1 DEF ReadBadly
  <2> QED BY <2>1, <2>2, DeliverStep
<1>6. CASE ReadEmpty
  BY <1>6, EmptyStep
<1>7. CASE StreamRaises
  BY <1>7, RaiseStep
<1>8. CASE Rename
  BY <1>8, RenameStep
<1>9. CASE Retry
  BY <1>9, RetryStep
<1>10. CASE UNCHANGED readerVars
  BY <1>10 DEF readerVars, listVars, streamVars, ReaderInv, ReaderTypeOK, ChainIsTrue,
    StreamIsTrue, Place, Offset, PositionIsTrue, InRun, RunLength, FaultsAccount, Short, Clean,
    FailuresHaveCauses, DestIsTrue
<1> QED BY <1>1, <1>2, <1>3, <1>4, <1>5, <1>6, <1>7, <1>8, <1>9, <1>10
      DEF CardReaderNext, Copy

LEMMA ReaderHolds == CardReaderSpec => []ReaderInv
BY ReaderStarts, ReaderStep, PTL DEF CardReaderSpec

\* However reads and writes go wrong, a take is refused only after all its
\* attempts, for its chain or for a fault in each; and a copy that an error of
\* the device ends had a fault in each attempt up to that one, or its chain too
\* short.
THEOREM CopiesFailForCause == CardReaderSpec => []FailuresHaveCauses
<1>1. ReaderInv => FailuresHaveCauses
  BY DEF ReaderInv
<1> QED BY <1>1, ReaderHolds, PTL

\* The bytes of a take, from the first to the last.
LEMMA DestIsTheTake == ReaderInv => CopyIsTheTake
<1> SUFFICES ASSUME ReaderInv, dest # NoBytes PROVE CopyIsTheTake
  BY DEF CopyIsTheTake
<1>1. /\ dest = streamed /\ Len(dest) = take.size /\ dest \in Seq(Nat)
      /\ Sized(take) /\ chain \in Seq(Cluster)
  BY DEF ReaderInv, ReaderTypeOK, DestIsTrue
<1>2. take.size \in Nat \ {0} /\ DOMAIN dest = 1..take.size
  BY <1>1 DEF Sized
<1>3. \A i \in 1..take.size :
        Place(i) \in 1..Len(chain) /\ dest[i] = Address(chain[Place(i)], Offset(i))
  <2>1. DOMAIN chain = 1..Len(chain)
    BY <1>1
  <2> QED BY <1>1, <1>2, <2>1 DEF ReaderInv, StreamIsTrue
<1>4. dest[1] = Address(take.cluster, 0)
  <2>1. 0 * ClusterSize = 0 /\ 0 \in 0..(ClusterSize - 1)
    BY ClusterSizeFacts
  <2>2. (0 * ClusterSize + 0) \div ClusterSize = 0 /\ (0 * ClusterSize + 0) % ClusterSize = 0
    BY <2>1, QuotientOf
  <2>3. 0 \div ClusterSize = 0 /\ 0 % ClusterSize = 0
    BY <2>1, <2>2
  <2>4. Place(1) = 1 /\ Offset(1) = 0
    BY <2>3 DEF Place, Offset
  <2>5. 1 \in 1..Len(chain) /\ dest[1] = Address(chain[1], 0)
    BY <1>2, <1>3, <2>4
  <2>6. chain # <<>>
    BY <1>1, <2>5
  <2> QED BY <2>5, <2>6 DEF ReaderInv, ChainIsTrue
<1>5. ASSUME NEW i \in 1..(take.size - 1)
      PROVE  dest[i + 1] = IF i % ClusterSize # 0 THEN dest[i] + 1
                           ELSE Address(layout.fat[(dest[i] \div ClusterSize) + 2], 0)
  <2>1. i \in 1..take.size /\ i + 1 \in 1..take.size /\ i - 1 \in Nat /\ i \in Nat
    BY <1>2
  <2>2. PICK q \in Nat, s \in 0..(ClusterSize - 1) :
          /\ q = (i - 1) \div ClusterSize /\ s = (i - 1) % ClusterSize
          /\ i - 1 = q * ClusterSize + s
    BY <2>1, Quotient
  <2>3. Place(i) = q + 1 /\ Offset(i) = s
    BY <2>2 DEF Place, Offset
  <2>4. PICK c \in Cluster : c = chain[q + 1] /\ dest[i] = Address(c, s) /\ q + 1 \in 1..Len(chain)
    <3>1. q + 1 \in 1..Len(chain) /\ dest[i] = Address(chain[q + 1], s)
      BY <1>3, <2>1, <2>3
    <3> QED BY <1>1, <3>1
  <2>5. /\ ClusterSize \in Nat \ {0} /\ s \in Nat /\ c - 2 \in Nat /\ c \in Nat
        /\ q * ClusterSize \in Nat /\ (c - 2) * ClusterSize \in Nat
    <3>1. c \in Nat /\ c - 2 \in Nat
      BY CardReaderAssumption DEF Cluster
    <3>2. \A p \in Nat : p * ClusterSize \in Nat
      BY ClusterSizeFacts
    <3>3. s \in Nat
      BY ClusterSizeFacts
    <3> QED BY <3>1, <3>2, <3>3, ClusterSizeFacts
  <2>6. dest[i] = (c - 2) * ClusterSize + s
    BY <2>4 DEF Address
  <2>7. Place(i + 1) = (i \div ClusterSize) + 1 /\ Offset(i + 1) = i % ClusterSize
    <3>1. (i + 1) - 1 = i
      BY <2>1
    <3> QED BY <3>1 DEF Place, Offset
  <2>8. CASE s + 1 < ClusterSize
    <3>1. i = q * ClusterSize + (s + 1) /\ s + 1 \in 0..(ClusterSize - 1)
      BY <2>1, <2>2, <2>5, <2>8
    <3>2. i \div ClusterSize = q /\ i % ClusterSize = s + 1
      BY <3>1, QuotientOf
    <3>3. dest[i + 1] = Address(c, s + 1)
      BY <1>3, <2>1, <2>4, <2>7, <3>2
    <3>4. dest[i + 1] = dest[i] + 1
      BY <2>5, <2>6, <3>3 DEF Address
    <3> QED BY <2>5, <3>2, <3>4
  <2>9. CASE ~(s + 1 < ClusterSize)
    <3>1. s + 1 = ClusterSize
      BY <2>2, <2>5, <2>9
    <3>2. (q + 1) * ClusterSize = q * ClusterSize + ClusterSize
      BY <2>5
    <3>3. i = (q + 1) * ClusterSize + 0 /\ 0 \in 0..(ClusterSize - 1) /\ q + 1 \in Nat
      BY <2>1, <2>2, <2>5, <3>1, <3>2
    <3>4. i \div ClusterSize = q + 1 /\ i % ClusterSize = 0
      BY <3>3, QuotientOf
    <3>5. q + 2 \in 1..Len(chain) /\ dest[i + 1] = Address(chain[q + 2], 0)
      <4>1. (q + 1) + 1 = q + 2
        OBVIOUS
      <4> QED BY <1>3, <2>1, <2>7, <3>4, <4>1
    <3>6. chain[q + 2] = layout.fat[c]
      <4>1. Len(chain) \in Nat /\ q + 1 \in 1..(Len(chain) - 1) /\ (q + 1) + 1 = q + 2
        BY <1>1, <3>5
      <4>2. chain[(q + 1) + 1] = layout.fat[chain[q + 1]]
        BY <4>1 DEF ReaderInv, ChainIsTrue
      <4> QED BY <2>4, <4>1, <4>2
    <3>7. dest[i] \div ClusterSize = c - 2
      BY <2>2, <2>5, <2>6, QuotientOf
    <3>8. (dest[i] \div ClusterSize) + 2 = c
      BY <2>5, <3>7
    <3> QED BY <3>4, <3>5, <3>6, <3>8
  <2> QED BY <2>8, <2>9
<1> QED BY <1>1, <1>4, <1>5 DEF CopyIsTheTake

\* Whatever table the card has, and whatever its reads and the disk did, what
\* bears the final name is the whole take, and nothing else.
THEOREM CopiesAreTheTakes == CardReaderSpec => []CopyIsTheTake
BY ReaderHolds, DestIsTheTake, PTL

-----------------------------------------------------------------------------
(* The directory. *)

\* Of a directory d, its first n entries: the takes, and those being recorded.
TakesTo(d, n) == {i \in 1..n : d[i].kind = "file" /\ d[i].size # 0}
OpenTo(d, n) == {i \in 1..n : d[i].kind = "file" /\ d[i].size = 0}
RankIn(d, n, i) == Cardinality({j \in TakesTo(d, n) : j <= i})

\* The pieces right ahead of entry i.
AheadOf(d, i) == {j \in 1..(i - 1) : \A k \in j..(i - 1) : d[k].kind = "long"}

SpellsOut(d, name, i) ==
  \E f \in Bijection(1..Len(name), AheadOf(d, i)) : \A m \in 1..Len(name) :
    /\ name[m] = d[f[m]].name
    /\ \A n \in 1..m : d[f[n]].order <= d[f[m]].order

IsTakeAt(d, t, i) ==
  /\ t.cluster = d[i].cluster /\ t.size = d[i].size
  /\ IF AheadOf(d, i) = {} THEN t.name = <<d[i].name>> ELSE SpellsOut(d, t.name, i)

\* What was read ahead: the last entries, up to one that is no piece.
PiecesAreLast(d) ==
  /\ pieces \in Seq(DirEntry) /\ Len(pieces) <= entry
  /\ \A m \in 1..Len(pieces) :
       pieces[m] = d[(entry - Len(pieces)) + m] /\ pieces[m].kind = "long"
  /\ entry # Len(pieces) => d[entry - Len(pieces)].kind # "long"

\* What was listed so far.
ListedSoFar(d) ==
  /\ openTakes = Cardinality(OpenTo(d, entry))
  /\ Len(found) = Cardinality(TakesTo(d, entry))
  /\ \A i \in TakesTo(d, entry) : IsTakeAt(d, found[RankIn(d, entry, i)], i)

DirectoryInv ==
  /\ \A j \in 1..entry : layout.directory[j].kind # "end"
  /\ reader # "listing" => \/ entry = Len(layout.directory)
                           \/ layout.directory[entry + 1].kind = "end"
  /\ PiecesAreLast(layout.directory)
  /\ ListedSoFar(layout.directory)

LEMMA DirectoryFacts ==
  ASSUME NEW d, NEW n \in Nat
  PROVE  /\ IsFiniteSet(TakesTo(d, n)) /\ IsFiniteSet(OpenTo(d, n))
         /\ Cardinality(TakesTo(d, n)) \in Nat /\ Cardinality(OpenTo(d, n)) \in Nat
         /\ \A i \in TakesTo(d, n) : RankIn(d, n, i) \in 1..Cardinality(TakesTo(d, n))
<1>1. IsFiniteSet(1..n)
  BY FS_Interval
<1>2. IsFiniteSet(TakesTo(d, n)) /\ IsFiniteSet(OpenTo(d, n))
  BY <1>1, FS_Subset DEF TakesTo, OpenTo
<1>3. Cardinality(TakesTo(d, n)) \in Nat /\ Cardinality(OpenTo(d, n)) \in Nat
  BY <1>2, FS_CardinalityType
<1>4. ASSUME NEW i \in TakesTo(d, n)
      PROVE  RankIn(d, n, i) \in 1..Cardinality(TakesTo(d, n))
  <2>1. PICK S : S = {j \in TakesTo(d, n) : j <= i}
    OBVIOUS
  <2>2. S \in SUBSET TakesTo(d, n) /\ i \in S
    BY <2>1 DEF TakesTo
  <2>3. IsFiniteSet(S) /\ Cardinality(S) <= Cardinality(TakesTo(d, n))
    BY <1>2, <2>2, FS_Subset
  <2>4. Cardinality(S) \in Nat /\ Cardinality(S) # 0
    BY <2>2, <2>3, FS_CardinalityType, FS_EmptySet
  <2> QED BY <1>3, <2>1, <2>3, <2>4 DEF RankIn
<1> QED BY <1>2, <1>3, <1>4

\* One entry more.
LEMMA OneMore ==
  ASSUME NEW d, NEW n \in Nat
  PROVE  LET e == d[n + 1]
         IN /\ ~(e.kind = "file") =>
                 TakesTo(d, n + 1) = TakesTo(d, n) /\ OpenTo(d, n + 1) = OpenTo(d, n)
            /\ e.kind = "file" /\ e.size = 0 =>
                 /\ TakesTo(d, n + 1) = TakesTo(d, n)
                 /\ Cardinality(OpenTo(d, n + 1)) = Cardinality(OpenTo(d, n)) + 1
            /\ e.kind = "file" /\ e.size # 0 =>
                 /\ OpenTo(d, n + 1) = OpenTo(d, n)
                 /\ TakesTo(d, n + 1) = TakesTo(d, n) \cup {n + 1}
                 /\ Cardinality(TakesTo(d, n + 1)) = Cardinality(TakesTo(d, n)) + 1
<1>1. 1..(n + 1) = 1..n \cup {n + 1} /\ n + 1 \notin 1..n
  OBVIOUS
<1>2. n + 1 \notin TakesTo(d, n) /\ n + 1 \notin OpenTo(d, n)
  BY <1>1 DEF TakesTo, OpenTo
<1>3. IsFiniteSet(TakesTo(d, n)) /\ IsFiniteSet(OpenTo(d, n))
  BY DirectoryFacts
<1>4. CASE ~(d[n + 1].kind = "file")
  BY <1>1, <1>4 DEF TakesTo, OpenTo
<1>5. CASE d[n + 1].kind = "file" /\ d[n + 1].size = 0
  <2>1. TakesTo(d, n + 1) = TakesTo(d, n) /\ OpenTo(d, n + 1) = OpenTo(d, n) \cup {n + 1}
    BY <1>1, <1>5 DEF TakesTo, OpenTo
  <2> QED BY <1>2, <1>3, <1>5, <2>1, FS_AddElement
<1>6. CASE d[n + 1].kind = "file" /\ d[n + 1].size # 0
  <2>1. OpenTo(d, n + 1) = OpenTo(d, n) /\ TakesTo(d, n + 1) = TakesTo(d, n) \cup {n + 1}
    BY <1>1, <1>6 DEF TakesTo, OpenTo
  <2> QED BY <1>2, <1>3, <1>6, <2>1, FS_AddElement
<1> QED BY <1>4, <1>5, <1>6

\* The pieces held are those right ahead of the next entry.
LEMMA PiecesAreAhead ==
  ASSUME NEW d, entry \in Nat, PiecesAreLast(d)
  PROVE  AheadOf(d, entry + 1) = ((entry - Len(pieces)) + 1)..entry
<1>1. PICK n \in Nat, p \in Nat : n = entry /\ p = Len(pieces) /\ p <= n
  BY DEF PiecesAreLast
<1>2. PICK b \in Nat : b = n - p
  BY <1>1
<1>3. \A m \in 1..p : d[b + m].kind = "long"
  BY <1>1, <1>2 DEF PiecesAreLast
<1>4. b # 0 => d[b].kind # "long"
  BY <1>1, <1>2 DEF PiecesAreLast
<1>5. ASSUME NEW j \in (b + 1)..n PROVE j \in AheadOf(d, n + 1)
  <2>1. \A k \in j..n : k - b \in 1..p /\ k = b + (k - b)
    BY <1>1, <1>2
  <2>2. \A k \in j..n : d[k].kind = "long"
    BY <1>3, <2>1
  <2> QED BY <1>1, <1>2, <2>2 DEF AheadOf
<1>6. ASSUME NEW j \in AheadOf(d, n + 1) PROVE j \in (b + 1)..n
  <2>1. j \in 1..n /\ \A k \in j..n : d[k].kind = "long"
    BY <1>1 DEF AheadOf
  <2>2. ~(j <= b)
    BY <1>1, <1>2, <1>4, <2>1
  <2> QED BY <1>1, <1>2, <2>1, <2>2
<1> QED BY <1>1, <1>2, <1>5, <1>6

\* What they are put together into is spelled by them.
LEMMA NamesSpellOut ==
  ASSUME NEW d, entry \in Nat, PiecesAreLast(d), NEW name \in FullNames(d[entry + 1])
  PROVE  IF AheadOf(d, entry + 1) = {} THEN name = <<d[entry + 1].name>>
         ELSE SpellsOut(d, name, entry + 1)
<1>1. PICK n \in Nat, p \in Nat : n = entry /\ p = Len(pieces) /\ p <= n
  <2>1. Len(pieces) \in Nat /\ Len(pieces) <= entry
    BY DEF PiecesAreLast
  <2> QED BY <2>1
<1>2. PICK b \in Nat : b = n - p
  BY <1>1
<1>3. AheadOf(d, entry + 1) = (b + 1)..n
  BY <1>1, <1>2, PiecesAreAhead
<1>4. /\ pieces \in Seq(DirEntry) /\ DOMAIN pieces = 1..p
      /\ \A m \in 1..p : pieces[m] = d[b + m]
  BY <1>1, <1>2 DEF PiecesAreLast
<1>5. CASE pieces = <<>>
  <2>1. p = 0
    BY <1>1, <1>5
  <2>2. AheadOf(d, entry + 1) = {}
    BY <1>1, <1>2, <1>3, <2>1
  <2> QED BY <1>5, <2>2 DEF FullNames
<1>6. CASE pieces # <<>>
  <2>1. p # 0
    BY <1>1, <1>4, <1>6
  <2>2. AheadOf(d, entry + 1) # {}
    <3>1. n \in (b + 1)..n
      BY <1>1, <1>2, <2>1
    <3> QED BY <1>3, <3>1
  <2>3. PICK g \in Bijection(1..p, 1..p) :
          Sorted(g) /\ name = [m \in 1..p |-> pieces[g[m]].name]
    BY <1>4, <1>6 DEF FullNames
  <2>4. /\ g \in [1..p -> 1..p] /\ \A x, y \in 1..p : g[x] = g[y] => x = y
        /\ \A y \in 1..p : \E x \in 1..p : g[x] = y
    BY <2>3 DEF Bijection, Injection, Surjection, IsInjective
  <2>5. name \in Seq(STRING) /\ Len(name) = p
    <3>1. \A m \in 1..p : pieces[g[m]] \in DirEntry
      BY <1>4, <2>4
    <3>2. \A m \in 1..p : pieces[g[m]].name \in STRING
      BY <3>1 DEF DirEntry
    <3> QED BY <2>3, <3>2
  <2>6. PICK f : f = [m \in 1..p |-> b + g[m]]
    OBVIOUS
  <2>7. f \in Bijection(1..p, (b + 1)..n)
    <3>1. \A m \in 1..p : b + g[m] \in (b + 1)..n /\ f[m] = b + g[m]
      <4>1. \A y \in 1..p : b + y \in (b + 1)..n
        BY <1>1, <1>2
      <4>2. \A m \in 1..p : g[m] \in 1..p
        BY <2>4
      <4> QED BY <2>6, <4>1, <4>2
    <3>2. f \in [1..p -> (b + 1)..n]
      BY <2>6, <3>1
    <3>3. \A x, y \in 1..p : f[x] = f[y] => x = y
      <4>1. ASSUME NEW x \in 1..p, NEW y \in 1..p, f[x] = f[y] PROVE x = y
        <5>1. g[x] \in 1..p /\ g[y] \in 1..p /\ b + g[x] = b + g[y]
          BY <2>4, <3>1, <4>1
        <5>2. g[x] = g[y]
          BY <5>1
        <5> QED BY <2>4, <5>2
      <4> QED BY <4>1
    <3>4. \A y \in (b + 1)..n : \E x \in 1..p : f[x] = y
      <4>1. ASSUME NEW y \in (b + 1)..n PROVE \E x \in 1..p : f[x] = y
        <5>1. y - b \in 1..p /\ b + (y - b) = y
          BY <1>1, <1>2
        <5>2. PICK x \in 1..p : g[x] = y - b
          BY <2>4, <5>1
        <5> QED BY <3>1, <5>1, <5>2
      <4> QED BY <4>1
    <3> QED BY <3>2, <3>3, <3>4 DEF Bijection, Injection, Surjection, IsInjective
  <2>8. ASSUME NEW m \in 1..p
        PROVE  /\ name[m] = d[f[m]].name
               /\ \A q \in 1..m : d[f[q]].order <= d[f[m]].order
    <3>1. \A q \in 1..p : g[q] \in 1..p /\ pieces[g[q]] = d[f[q]]
      BY <1>4, <2>4, <2>6
    <3>2. name[m] = d[f[m]].name
      BY <2>3, <3>1
    <3>3. ASSUME NEW q \in 1..m PROVE d[f[q]].order <= d[f[m]].order
      <4>1. q \in 1..p /\ (q = m \/ q < m)
        BY <1>1
      <4>2. CASE q < m
        <5>1. pieces[g[q]].order <= pieces[g[m]].order
          BY <1>4, <2>3, <4>1, <4>2 DEF Sorted
        <5> QED BY <3>1, <4>1, <5>1
      <4>3. CASE q = m
        <5>1. d[f[m]] \in DirEntry
          BY <1>4, <3>1
        <5>2. d[f[m]].order \in Nat
          BY <5>1 DEF DirEntry
        <5> QED BY <4>3, <5>2
      <4> QED BY <4>1, <4>2, <4>3
    <3> QED BY <3>2, <3>3
  <2> QED BY <1>3, <2>2, <2>5, <2>7, <2>8 DEF SpellsOut
<1> QED BY <1>5, <1>6

LEMMA DirectoryStarts == CardReaderInit => DirectoryInv
<1> SUFFICES ASSUME CardReaderInit PROVE DirectoryInv
  OBVIOUS
<1>1. entry = 0 /\ pieces = <<>> /\ found = <<>> /\ openTakes = 0 /\ reader = "listing"
  BY DEF CardReaderInit
<1>2. PiecesAreLast(layout.directory)
  BY <1>1 DEF PiecesAreLast
<1>3. TakesTo(layout.directory, 0) = {} /\ OpenTo(layout.directory, 0) = {}
  BY DEF TakesTo, OpenTo
<1>4. ListedSoFar(layout.directory)
  BY <1>1, <1>3, FS_EmptySet DEF ListedSoFar
<1> QED BY <1>1, <1>2, <1>4 DEF DirectoryInv

\* A file is listed in its place, under the name its pieces spell.
LEMMA FileIsListed ==
  ASSUME NEW d, entry \in Nat, PiecesAreLast(d), ListedSoFar(d),
         DOMAIN found = 1..Len(found), d[entry + 1].kind = "file",
         ListFile(d[entry + 1]), entry' = entry + 1
  PROVE  ListedSoFar(d)'
<1>1. PICK n \in Nat : n = entry
  OBVIOUS
<1>2. PICK e : e = d[n + 1]
  OBVIOUS
<1>3. /\ openTakes = Cardinality(OpenTo(d, n)) /\ openTakes \in Nat
      /\ Len(found) = Cardinality(TakesTo(d, n)) /\ Len(found) \in Nat
      /\ \A i \in TakesTo(d, n) :
           RankIn(d, n, i) \in 1..Len(found) /\ IsTakeAt(d, found[RankIn(d, n, i)], i)
  BY <1>1, DirectoryFacts DEF ListedSoFar
<1>4. CASE e.size = 0
  <2>1. openTakes' = openTakes + 1 /\ found' = found
    BY <1>1, <1>2, <1>4 DEF ListFile
  <2>2. /\ TakesTo(d, n + 1) = TakesTo(d, n)
        /\ Cardinality(OpenTo(d, n + 1)) = Cardinality(OpenTo(d, n)) + 1
    BY <1>1, <1>2, <1>4, OneMore
  <2>3. \A i : RankIn(d, n + 1, i) = RankIn(d, n, i)
    BY <2>2 DEF RankIn
  <2> QED BY <1>1, <1>3, <2>1, <2>2, <2>3 DEF ListedSoFar
<1>5. CASE e.size # 0
  <2>1. PICK name \in FullNames(e) :
          found' = Append(found, [name |-> name, cluster |-> e.cluster, size |-> e.size])
    BY <1>1, <1>2, <1>5 DEF ListFile
  <2>2. openTakes' = openTakes
    BY <1>1, <1>2, <1>5 DEF ListFile
  <2>3. PICK t : t = [name |-> name, cluster |-> e.cluster, size |-> e.size]
    OBVIOUS
  <2>4. /\ Len(found') = Len(found) + 1 /\ found'[Len(found) + 1] = t
        /\ \A k \in 1..Len(found) : found'[k] = found[k]
    <3>1. found' = Append(found, t)
      BY <2>1, <2>3
    <3> QED BY <1>3, <3>1
  <2>5. /\ OpenTo(d, n + 1) = OpenTo(d, n)
        /\ TakesTo(d, n + 1) = TakesTo(d, n) \cup {n + 1}
        /\ Cardinality(TakesTo(d, n + 1)) = Cardinality(TakesTo(d, n)) + 1
    BY <1>1, <1>2, <1>5, OneMore
  <2>6. IsTakeAt(d, t, n + 1)
    <3>1. IF AheadOf(d, n + 1) = {} THEN name = <<d[n + 1].name>>
          ELSE SpellsOut(d, name, n + 1)
      BY <1>1, <1>2, NamesSpellOut
    <3>2. t.name = name /\ t.cluster = d[n + 1].cluster /\ t.size = d[n + 1].size
      BY <1>2, <2>3
    <3> QED BY <3>1, <3>2 DEF IsTakeAt
  <2>7. RankIn(d, n + 1, n + 1) = Len(found) + 1
    <3>1. \A j \in TakesTo(d, n + 1) : j <= n + 1
      BY DEF TakesTo
    <3>2. {j \in TakesTo(d, n + 1) : j <= n + 1} = TakesTo(d, n + 1)
      BY <3>1
    <3> QED BY <1>3, <2>5, <3>2 DEF RankIn
  <2>8. ASSUME NEW i \in TakesTo(d, n) PROVE RankIn(d, n + 1, i) = RankIn(d, n, i)
    <3>1. i \in 1..n
      BY DEF TakesTo
    <3>2. {j \in TakesTo(d, n + 1) : j <= i} = {j \in TakesTo(d, n) : j <= i}
      BY <2>5, <3>1
    <3> QED BY <3>2 DEF RankIn
  <2>9. \A i \in TakesTo(d, n + 1) : IsTakeAt(d, found'[RankIn(d, n + 1, i)], i)
    <3>1. ASSUME NEW i \in TakesTo(d, n)
          PROVE  IsTakeAt(d, found'[RankIn(d, n + 1, i)], i)
      <4>1. found'[RankIn(d, n + 1, i)] = found[RankIn(d, n, i)]
        BY <1>3, <2>4, <2>8
      <4> QED BY <1>3, <4>1
    <3>2. IsTakeAt(d, found'[RankIn(d, n + 1, n + 1)], n + 1)
      BY <2>4, <2>6, <2>7
    <3> QED BY <2>5, <3>1, <3>2
  <2> QED BY <1>1, <1>3, <2>2, <2>4, <2>5, <2>9 DEF ListedSoFar
<1> QED BY <1>4, <1>5

\* What else a directory holds is no take.
LEMMA OtherIsPassed ==
  ASSUME NEW d, entry \in Nat, ListedSoFar(d), ~(d[entry + 1].kind = "file"),
         UNCHANGED <<found, openTakes>>, entry' = entry + 1
  PROVE  ListedSoFar(d)'
<1>1. PICK n \in Nat : n = entry
  OBVIOUS
<1>2. TakesTo(d, n + 1) = TakesTo(d, n) /\ OpenTo(d, n + 1) = OpenTo(d, n)
  BY <1>1, OneMore
<1>3. \A i : RankIn(d, n + 1, i) = RankIn(d, n, i)
  BY <1>2 DEF RankIn
<1> QED BY <1>1, <1>2, <1>3 DEF ListedSoFar

\* The pieces held are the last entries, after one more as before it.
LEMMA PiecesStayLast ==
  ASSUME NEW d, entry \in Nat, PiecesAreLast(d), d[entry + 1] \in DirEntry,
         ListEntry(d[entry + 1]), entry' = entry + 1
  PROVE  PiecesAreLast(d)'
<1>1. PICK n \in Nat : n = entry
  OBVIOUS
<1>2. PICK e \in DirEntry : e = d[n + 1]
  BY <1>1
<1>3. CASE e.kind # "long"
  <2>1. pieces' = <<>>
    BY <1>1, <1>2, <1>3 DEF ListEntry, ListFile
  <2>2. pieces' \in Seq(DirEntry) /\ Len(pieces') = 0
    BY <2>1
  <2> QED BY <1>1, <1>2, <1>3, <2>2 DEF PiecesAreLast
<1>4. CASE e.kind = "long"
  <2>1. pieces' = Append(pieces, e)
    BY <1>1, <1>2, <1>4 DEF ListEntry
  <2>2. pieces \in Seq(DirEntry) /\ Len(pieces) \in Nat /\ Len(pieces) <= n
    BY <1>1 DEF PiecesAreLast
  <2>3. PICK p \in Nat : p = Len(pieces)
    BY <2>2
  <2>4. /\ pieces' \in Seq(DirEntry) /\ Len(pieces') = p + 1
        /\ pieces'[p + 1] = e /\ \A m \in 1..p : pieces'[m] = pieces[m]
    BY <1>2, <2>1, <2>2, <2>3
  <2>5. PICK b \in Nat : b = n - p /\ (n + 1) - (p + 1) = b /\ p <= n
    BY <2>2, <2>3
  <2>6. /\ \A m \in 1..p : pieces[m] = d[b + m] /\ pieces[m].kind = "long"
        /\ n # p => d[b].kind # "long"
    BY <1>1, <2>3, <2>5 DEF PiecesAreLast
  <2>7. b + (p + 1) = n + 1
    BY <2>5
  <2>8. \A m \in 1..(p + 1) : pieces'[m] = d[b + m] /\ pieces'[m].kind = "long"
    <3>1. \A m \in 1..(p + 1) : m \in 1..p \/ m = p + 1
      OBVIOUS
    <3> QED BY <1>2, <1>4, <2>4, <2>6, <2>7, <3>1
  <2>9. n + 1 # p + 1 => d[b].kind # "long"
    BY <2>6
  <2>10. entry' = n + 1 /\ p + 1 <= n + 1 /\ entry' - Len(pieces') = b
    BY <1>1, <2>4, <2>5
  <2> QED BY <2>4, <2>8, <2>9, <2>10 DEF PiecesAreLast
<1> QED BY <1>3, <1>4

LEMMA DirectoryStep ==
  ASSUME ReaderInv, DirectoryInv, [CardReaderNext]_readerVars
  PROVE  DirectoryInv'
<1>1. layout' = layout
  BY DEF CardReaderNext, Copy, List, Begin, Walk, ReadBlock, ReadBadly, ReadEmpty,
         StreamRaises, Rename, Retry, readerVars
<1>2. /\ layout.directory \in Seq(DirEntry) /\ Len(layout.directory) \in Nat
      /\ entry \in 0..Len(layout.directory)
      /\ Len(found) \in Nat /\ DOMAIN found = 1..Len(found)
  BY CardReaderAssumption DEF ReaderInv, ReaderTypeOK
<1>3. PICK d \in Seq(DirEntry) : d = layout.directory
  BY <1>2
<1>4. CASE UNCHANGED listVars
  <2>1. /\ entry' = entry /\ pieces' = pieces /\ found' = found /\ openTakes' = openTakes
    BY <1>4 DEF listVars
  <2>2. PiecesAreLast(d)' /\ ListedSoFar(d)'
    BY <1>3, <2>1 DEF DirectoryInv, PiecesAreLast, ListedSoFar
  <2>3. CASE List
    <3>1. entry = Len(d) \/ d[entry + 1].kind = "end"
      <4>1. ~(entry' = entry + 1)
        BY <1>2, <2>1
      <4>2. ~(entry < Len(d)) \/ d[entry + 1].kind = "end"
        BY <1>3, <2>3, <4>1 DEF List
      <4> QED BY <1>2, <1>3, <4>2
    <3> QED BY <1>1, <1>3, <2>1, <2>2, <3>1 DEF DirectoryInv
  <2>4. CASE ~List
    <3>1. reader' # "listing" => reader # "listing"
      BY <2>4 DEF CardReaderNext, Copy, Begin, Walk, ReadBlock, ReadBadly, ReadEmpty,
                  StreamRaises, Rename, Retry, readerVars, Unread, StreamOver
    <3> QED BY <1>1, <1>3, <2>1, <2>2, <3>1 DEF DirectoryInv
  <2> QED BY <2>3, <2>4
<1>5. CASE ~UNCHANGED listVars
  <2>1. /\ reader = "listing" /\ reader' = reader
        /\ entry < Len(d) /\ d[entry + 1].kind # "end"
        /\ ListEntry(d[entry + 1]) /\ entry' = entry + 1
    BY <1>3, <1>5 DEF CardReaderNext, Copy, List, Begin, Walk, ReadBlock, ReadBadly,
                      ReadEmpty, StreamRaises, Rename, Retry, readerVars
  <2>2. entry \in Nat /\ d[entry + 1] \in DirEntry
    BY <1>2, <1>3, <2>1
  <2>3. PiecesAreLast(d) /\ ListedSoFar(d) /\ \A j \in 1..entry : d[j].kind # "end"
    BY <1>3 DEF DirectoryInv
  <2>4. PiecesAreLast(d)'
    BY <2>1, <2>2, <2>3, PiecesStayLast
  <2>5. ListedSoFar(d)'
    <3>1. CASE d[entry + 1].kind = "file"
      <4>1. ListFile(d[entry + 1])
        BY <2>1, <3>1 DEF ListEntry
      <4> QED BY <1>2, <2>1, <2>2, <2>3, <3>1, <4>1, FileIsListed
    <3>2. CASE ~(d[entry + 1].kind = "file")
      <4>1. UNCHANGED <<found, openTakes>>
        BY <2>1, <3>2 DEF ListEntry
      <4> QED BY <2>1, <2>2, <2>3, <3>2, <4>1, OtherIsPassed
    <3> QED BY <3>1, <3>2
  <2>6. \A j \in 1..entry' : d[j].kind # "end"
    <3>1. \A j \in 1..(entry + 1) : j \in 1..entry \/ j = entry + 1
      BY <2>2
    <3> QED BY <2>1, <2>3, <3>1
  <2> QED BY <1>1, <1>3, <2>1, <2>4, <2>5, <2>6 DEF DirectoryInv
<1> QED BY <1>4, <1>5

LEMMA DirectoryHolds == CardReaderSpec => []DirectoryInv
BY DirectoryStarts, DirectoryStep, ReaderHolds, PTL DEF CardReaderSpec

LEMMA DirectoryIsListed == ReaderInv /\ DirectoryInv => DirectoryIsAccounted
<1> SUFFICES ASSUME ReaderInv, DirectoryInv, reader = "choosing"
             PROVE  DirectoryIsAccounted
  BY DEF DirectoryIsAccounted
<1>1. /\ layout.directory \in Seq(DirEntry) /\ Len(layout.directory) \in Nat
      /\ entry \in 0..Len(layout.directory)
  BY CardReaderAssumption DEF ReaderInv, ReaderTypeOK
<1> DEFINE d == layout.directory
<1>2. d \in Seq(DirEntry) /\ d = layout.directory
  BY <1>1
<1>3. PICK n \in Nat : n = entry /\ n <= Len(d)
  BY <1>1, <1>2
<1> DEFINE files == {i \in DOMAIN d : d[i].kind = "file" /\ \A j \in 1..i : d[j].kind # "end"}
           whole == {i \in files : d[i].size > 0}
<1>4. \A i \in files : i \in 1..n /\ d[i].kind = "file"
  <2>1. ASSUME NEW i \in files, i > n PROVE FALSE
    <3>1. i \in 1..Len(d) /\ n # Len(d) /\ n + 1 \in 1..i
      BY <1>1, <1>2, <1>3, <2>1
    <3>2. d[n + 1].kind = "end"
      BY <1>2, <1>3, <3>1 DEF DirectoryInv
    <3> QED BY <3>1, <3>2
  <2>2. \A i \in files : i \in Nat \ {0} /\ d[i].kind = "file"
    BY <1>2
  <2> QED BY <1>3, <2>1, <2>2
<1>5. ASSUME NEW i \in 1..n, d[i].kind = "file" PROVE i \in files
  <2>1. i \in DOMAIN d
    BY <1>1, <1>2, <1>3
  <2>2. \A j \in 1..i : d[j].kind # "end"
    <3>1. \A j \in 1..i : j \in 1..n
      BY <1>3
    <3> QED BY <1>2, <1>3, <3>1 DEF DirectoryInv
  <2> QED BY <1>5, <2>1, <2>2
<1>6. \A i \in 1..n : d[i].size \in Nat
  <2>1. \A i \in 1..n : d[i] \in DirEntry
    BY <1>1, <1>2, <1>3
  <2> QED BY <2>1 DEF DirEntry
<1>7. whole = TakesTo(d, n)
  BY <1>4, <1>5, <1>6 DEF TakesTo
<1>8. files \ whole = OpenTo(d, n)
  BY <1>4, <1>5, <1>6 DEF OpenTo
<1>9. ListedSoFar(d)
  BY <1>2 DEF DirectoryInv
<1> HIDE DEF whole
<1> DEFINE Listed(i) == found[Cardinality({j \in whole : j <= i})]
<1>10. openTakes = Cardinality(files \ whole) /\ Len(found) = Cardinality(whole)
  BY <1>3, <1>7, <1>8, <1>9 DEF ListedSoFar
<1>11. \A i \in whole : IsTakeAt(d, Listed(i), i)
  BY <1>3, <1>7, <1>9 DEF ListedSoFar, RankIn
<1> HIDE DEF Listed
<1>12. \A i \in whole :
         /\ Listed(i).cluster = d[i].cluster /\ Listed(i).size = d[i].size
         /\ IF AheadOf(d, i) = {} THEN Listed(i).name = <<d[i].name>>
            ELSE SpellsOut(d, Listed(i).name, i)
  BY <1>11 DEF IsTakeAt
<1> QED BY <1>10, <1>12, Zenon DEF DirectoryIsAccounted, AheadOf, SpellsOut, whole, Listed

\* A card's directory is listed entry by entry, each file in its place and under
\* its own name: nothing it says is lost, and no take is made up.
THEOREM DirectoryAccounted == CardReaderSpec => []DirectoryIsAccounted
BY DirectoryIsListed, DirectoryHolds, ReaderHolds, PTL

-----------------------------------------------------------------------------
(* The copy comes to an end. *)

\* No cluster comes twice in a chain: the table would lead round.
LEMMA ChainIsSimple ==
  ASSUME ReaderInv
  PROVE  \A i, j \in DOMAIN chain : chain[i] = chain[j] => i = j
<1>1. /\ chain \in Seq(Cluster) /\ Len(chain) \in Nat /\ DOMAIN chain = 1..Len(chain)
      /\ NoCycle(layout.fat)
  BY CardReaderAssumption DEF ReaderInv, ReaderTypeOK
<1>2. \A k \in 1..(Len(chain) - 1) : chain[k + 1] = layout.fat[chain[k]]
  BY DEF ReaderInv, ChainIsTrue
<1>3. ASSUME NEW i \in 1..Len(chain), NEW j \in 1..Len(chain), i < j, chain[i] = chain[j]
      PROVE  FALSE
  <2>1. PICK loop : loop = {chain[k] : k \in i..(j - 1)}
    OBVIOUS
  <2>2. \A k \in i..(j - 1) : k \in 1..(Len(chain) - 1) /\ k \in 1..Len(chain)
    BY <1>1, <1>3
  <2>3. i \in i..(j - 1)
    BY <1>1, <1>3
  <2>4. loop \in SUBSET Cluster /\ loop # {}
    <3>1. \A k \in i..(j - 1) : chain[k] \in Cluster
      BY <1>1, <2>2
    <3>2. loop \subseteq Cluster /\ chain[i] \in loop
      BY <2>1, <2>3, <3>1
    <3> QED BY <3>2
  <2>5. PICK c \in loop : layout.fat[c] \notin loop
    BY <1>1, <2>4 DEF NoCycle
  <2>6. PICK k \in i..(j - 1) : c = chain[k]
    BY <2>1, <2>5
  <2>7. layout.fat[c] = chain[k + 1]
    BY <1>2, <2>2, <2>6
  <2>8. CASE k + 1 = j
    <3>1. chain[i] \in loop
      BY <2>1, <2>3
    <3> QED BY <1>3, <2>5, <2>7, <2>8, <3>1
  <2>9. CASE k + 1 # j
    <3>1. k + 1 \in i..(j - 1)
      BY <1>1, <2>9
    <3> QED BY <2>1, <2>5, <2>7, <3>1
  <2> QED BY <2>8, <2>9
<1> QED BY <1>1, <1>3

\* It has no more clusters than the card.
ChainFits == Len(chain) < MaxCluster

LEMMA ChainIsBounded == ReaderInv => ChainFits
<1> SUFFICES ASSUME ReaderInv PROVE ChainFits
  OBVIOUS
<1>1. /\ chain \in Seq(Cluster) /\ Len(chain) \in Nat /\ DOMAIN chain = 1..Len(chain)
      /\ MaxCluster \in Nat /\ MaxCluster > 1
  BY CardReaderAssumption DEF ReaderInv, ReaderTypeOK
<1>2. chain \in Injection(1..Len(chain), Cluster)
  <2>1. chain \in [1..Len(chain) -> Cluster]
    BY <1>1
  <2> QED BY <1>1, <2>1, ChainIsSimple DEF Injection, IsInjective
<1>3. IsFiniteSet(Cluster) /\ Cardinality(Cluster) = MaxCluster - 1
  BY <1>1, FS_Interval DEF Cluster
<1>4. Cardinality(1..Len(chain)) <= MaxCluster - 1
  BY <1>2, <1>3, FS_Injection
<1>5. Cardinality(1..Len(chain)) = Len(chain)
  BY <1>1, FS_Interval
<1> QED BY <1>1, <1>4, <1>5 DEF ChainFits

\* _chain comes back: a chain has fewer clusters than the card, and none twice.
THEOREM ChainsEnd == CardReaderSpec => []ChainFits
BY ChainIsBounded, ReaderHolds, PTL

\* Nearer the end of the copy: by its outcome, by a cluster of the chain, by an
\* attempt, by bytes, or by the end of the stream.  None of these can go on.
CopyComesNearer ==
  reader \in {"walking", "streaming"} =>
  \/ reader' \in {"copied", "refused", "raised"}
  \/ reader = "walking" /\ reader' = "streaming"
  \/ /\ reader = "walking" /\ reader' = "walking"
     /\ Len(chain) < Len(chain') /\ ChainFits'
  \/ /\ reader = "streaming" /\ reader' = "streaming"
     /\ \/ attempt < attempt' /\ attempt' <= Attempts
        \/ attempt' = attempt /\ left' < left /\ left' \in Nat
        \/ /\ attempt' = attempt /\ left' = left
           /\ run < run' /\ run' <= Len(chain) + 1

LEMMA DeliveryComesNearer ==
  ASSUME ReaderInv, Unread, NEW n \in 1..Wanted, NEW ok \in BOOLEAN, Deliver(n, ok)
  PROVE  left' < left /\ left' \in Nat
<1>1. left \in Nat /\ Wanted \in Nat \ {0} /\ Wanted <= left
  BY WantedFacts
<1>2. left' = left - n
  BY DEF Deliver
<1> QED BY <1>1, <1>2

LEMMA StepComesNearer ==
  ASSUME ReaderInv, ChainFits', CardReaderNext
  PROVE  CopyComesNearer
<1>1. CASE Walk
  <2>1. chain \in Seq(Cluster)
    BY DEF ReaderInv, ReaderTypeOK
  <2>2. \/ reader' = "streaming"
        \/ /\ reader' = reader
           /\ \E next \in Cluster : chain' = Append(chain, next)
    BY <1>1 DEF Walk
  <2>3. reader = "walking"
    BY <1>1 DEF Walk
  <2>4. ASSUME NEW next \in Cluster, chain' = Append(chain, next)
        PROVE  Len(chain) < Len(chain')
    <3>1. Len(chain') = Len(chain) + 1 /\ Len(chain) \in Nat
      BY <2>1, <2>4
    <3> QED BY <3>1
  <2> QED BY <2>1, <2>2, <2>3, <2>4 DEF CopyComesNearer
<1>2. CASE ReadBlock
  <2>1. Unread /\ Deliver(Wanted, TRUE)
    BY <1>2 DEF ReadBlock
  <2>2. Wanted \in 1..Wanted
    BY <2>1, WantedFacts
  <2>3. left' < left /\ left' \in Nat
    BY <2>1, <2>2, DeliveryComesNearer
  <2> QED BY <1>2, <2>1, <2>3 DEF CopyComesNearer, ReadBlock, Unread
<1>3. CASE ReadBadly
  <2>1. Wanted \in Nat \ {0} /\ Unread
    BY <1>3, WantedFacts DEF ReadBadly
  <2>2. PICK n \in 1..Wanted, ok \in BOOLEAN : Deliver(n, ok)
    <3>1. Wanted \in 1..Wanted /\ \A n \in 1..(Wanted - 1) : n \in 1..Wanted
      BY <2>1
    <3> QED BY <1>3, <3>1 DEF ReadBadly
  <2>3. left' < left /\ left' \in Nat
    BY <2>1, <2>2, DeliveryComesNearer
  <2> QED BY <1>3, <2>1, <2>3 DEF CopyComesNearer, ReadBadly, Unread
<1>4. CASE ReadEmpty
  <2>1. run \in 1..(Len(chain) + 1) /\ run <= Len(chain) /\ Len(chain) \in Nat
    BY <1>4 DEF ReadEmpty, Unread, ReaderInv, PositionIsTrue, ReaderTypeOK
  <2>2. run < run' /\ run' <= Len(chain) + 1
    BY <1>4, <2>1 DEF ReadEmpty
  <2> QED BY <1>4, <2>2 DEF CopyComesNearer, ReadEmpty, Unread
<1>5. CASE StreamRaises
  BY <1>5 DEF CopyComesNearer, StreamRaises
<1>6. CASE Rename
  BY <1>6 DEF CopyComesNearer, Rename
<1>7. CASE Retry
  <2>1. reader = "streaming" /\ attempt \in 1..Attempts /\ Attempts \in Nat
    BY <1>7, CardReaderAssumption DEF Retry, StreamOver, ReaderInv, PositionIsTrue
  <2>2. \/ attempt < Attempts /\ attempt' = attempt + 1 /\ reader' = reader
        \/ reader' = "refused"
    BY <1>7 DEF Retry
  <2> QED BY <2>1, <2>2 DEF CopyComesNearer
<1>8. CASE List \/ Begin
  BY <1>8 DEF CopyComesNearer, List, Begin
<1> QED BY <1>1, <1>2, <1>3, <1>4, <1>5, <1>6, <1>7, <1>8 DEF CardReaderNext, Copy

\* Every step of a copy, of the loop or of what fails in it, comes nearer its
\* end: what CopyEnds needs besides that the loop goes on.
THEOREM CopyNeverTurnsBack ==
  CardReaderSpec => [][CopyComesNearer]_readerVars
<1>1. ReaderInv /\ ChainFits' /\ [CardReaderNext]_readerVars => [CopyComesNearer]_readerVars
  BY StepComesNearer
<1> QED BY <1>1, ReaderHolds, ChainsEnd, PTL DEF CardReaderSpec
=============================================================================

----------------------------- MODULE CardReader -----------------------------
(***************************************************************************)
(* card.py: what a card is said to hold, and the copy of one take.         *)
(*                                                                         *)
(* A directory is its 32-byte entries in order; a byte of the data area is *)
(* its address, so that a file is the sequence of addresses it was copied  *)
(* from.  The stream is read a block at a time and hashed as it is written *)
(* to `.part`; the file is then hashed again.  A read may come back short, *)
(* empty or with an error, and what is written may not be what was read.   *)
(*                                                                         *)
(* The chains of a layout have no cycle: _chain would not come back.       *)
(***************************************************************************)
EXTENDS Naturals, SequencesExt

CONSTANTS
  MaxCluster,   \* bound: the clusters are 2..MaxCluster
  ClusterSize,  \* bytes of a cluster
  Chunk,        \* bytes asked for at a time
  Attempts,     \* copies tried
  MaxFaults,    \* bound: reads and writes that go wrong
  Layouts       \* cards: [fat, directory]

Cluster == 2..MaxCluster
EndOfChain == 0

\* Following the table from any cluster of a set that is not empty leaves it.
NoCycle(fat) ==
  \A loop \in SUBSET Cluster : loop # {} => \E c \in loop : fat[c] \notin loop

DirEntry == [kind : {"end", "free", "volume", "folder", "long", "file"},
             name : STRING, order : Nat, cluster : Nat, size : Nat]

ASSUME CardReaderAssumption ==
  /\ MaxCluster \in Nat /\ MaxCluster > 1
  /\ ClusterSize \in Nat \ {0} /\ Chunk \in Nat \ {0}
  /\ Attempts \in Nat \ {0} /\ MaxFaults \in Nat
  /\ \A l \in Layouts :
       l.fat \in [Cluster -> Nat] /\ NoCycle(l.fat) /\ l.directory \in Seq(DirEntry)

VARIABLES
  layout,    \* the card
  reader,    \* where takes and copy_verified are
  entry,     \* directory entries read
  pieces,    \* long_parts: pieces of a long name read ahead of its entry
  found,     \* the takes listed
  openTakes, \* the zero-byte entries dropped
  take,      \* the take being copied
  attempt,   \* copies tried so far
  chain,     \* its clusters
  run,       \* index in chain of the first cluster not read through
  at,        \* bytes read from there
  left,      \* bytes of the take still to come
  streamed,  \* what was read, hashed on the way
  part,      \* what `.part` holds
  dest,      \* what the final name holds
  faults     \* what has gone wrong so far

Address(cluster, offset) == (cluster - 2) * ClusterSize + offset
Spoilt == (MaxCluster - 1) * ClusterSize
Byte == 0..Spoilt
NoBytes == <<Spoilt + 1>>
NoFile == [name |-> <<>>, cluster |-> EndOfChain, size |-> 0]

listVars == <<entry, pieces, found, openTakes>>
streamVars == <<run, at, left, streamed, part>>
readerVars == <<layout, reader, listVars, take, attempt, chain, streamVars, dest, faults>>

CardReaderInit ==
  /\ layout \in Layouts
  /\ reader = "listing"
  /\ entry = 0 /\ pieces = <<>> /\ found = <<>> /\ openTakes = 0
  /\ take = NoFile /\ attempt = 0 /\ chain = <<>>
  /\ run = 1 /\ at = 0 /\ left = 0 /\ streamed = <<>>
  /\ part = NoBytes /\ dest = NoBytes /\ faults = 0

-----------------------------------------------------------------------------
(* Card.takes, an entry at a time. *)

\* A long name is written in numbered pieces ahead of its entry, and put
\* together by number (two of one number: either first).
Sorted(f) ==
  \A m, n \in DOMAIN pieces : m < n => pieces[f[m]].order <= pieces[f[n]].order

FullNames(e) ==
  IF pieces = <<>> THEN {<<e.name>>}
  ELSE {[m \in DOMAIN pieces |-> pieces[f[m]].name] :
          f \in {g \in Bijection(DOMAIN pieces, DOMAIN pieces) : Sorted(g)}}

ListFile(e) ==
  /\ pieces' = <<>>
  /\ IF e.size = 0
     THEN openTakes' = openTakes + 1 /\ UNCHANGED found
     ELSE /\ \E name \in FullNames(e) :
               found' = Append(found, [name |-> name, cluster |-> e.cluster,
                                       size |-> e.size])
          /\ UNCHANGED openTakes

\* Variant: a deleted entry leaves the pieces read so far.
ListKeepsPieces(e) ==
  \/ e.kind = "free" /\ UNCHANGED <<pieces, found, openTakes>>
  \/ e.kind \in {"volume", "folder"} /\ pieces' = <<>> /\ UNCHANGED <<found, openTakes>>
  \/ e.kind = "long" /\ pieces' = Append(pieces, e) /\ UNCHANGED <<found, openTakes>>
  \/ e.kind = "file" /\ ListFile(e)

ListEntry(e) ==
  \/ /\ e.kind \in {"free", "volume", "folder"}
     /\ pieces' = <<>>
     /\ UNCHANGED <<found, openTakes>>
  \/ /\ e.kind = "long"
     /\ pieces' = Append(pieces, e)
     /\ UNCHANGED <<found, openTakes>>
  \/ e.kind = "file" /\ ListFile(e)

List ==
  /\ reader = "listing"
  /\ IF entry < Len(layout.directory) /\ layout.directory[entry + 1].kind # "end"
     THEN /\ ListEntry(layout.directory[entry + 1])
          /\ entry' = entry + 1
          /\ UNCHANGED reader
     ELSE reader' = "choosing" /\ UNCHANGED listVars
  /\ UNCHANGED <<layout, take, attempt, chain, streamVars, dest, faults>>

-----------------------------------------------------------------------------
(* Card.stream and copy_verified. *)

\* copy_verified is called for one of the takes listed; the table is read.
Begin ==
  /\ reader = "choosing"
  /\ \E i \in DOMAIN found : take' = found[i]
  /\ chain' = <<>>
  /\ reader' = "walking"
  /\ UNCHANGED <<layout, listVars, attempt, streamVars, dest, faults>>

StartStream ==
  /\ run' = 1 /\ at' = 0
  /\ left' = take.size
  /\ streamed' = <<>>
  /\ part' = <<>>

\* _chain: to a number that is no cluster of this card.
Walk ==
  /\ reader = "walking"
  /\ LET next == IF chain = <<>> THEN take.cluster ELSE layout.fat[Last(chain)]
     IN IF next \in Cluster
        THEN chain' = Append(chain, next) /\ UNCHANGED <<reader, attempt, streamVars>>
        ELSE /\ reader' = "streaming"
             /\ attempt' = 1
             /\ StartStream
             /\ UNCHANGED chain
  /\ UNCHANGED <<layout, listVars, take, dest, faults>>

\* Contiguous clusters are read in one go: how many there are from here.
RunLength ==
  Max({n \in 1..(Len(chain) - run + 1) :
         \A j \in 0..(n - 1) : chain[run + j] = chain[run] + j})

InRun == RunLength * ClusterSize

\* fh.read asks for no more than is left of the run and of the take.
Wanted == Min({Chunk, InRun - at, left})
Unread == reader = "streaming" /\ run <= Len(chain) /\ left > 0

\* n bytes come from the card and as many go to the disk, `ok` or not.
Deliver(n, ok) ==
  LET block == [i \in 1..n |-> Address(chain[run], at + i - 1)]
  IN /\ streamed' = streamed \o block
     /\ part' = part \o IF ok THEN block ELSE [i \in 1..n |-> Spoilt]
     /\ left' = left - n
     /\ IF at + n = InRun
        THEN run' = run + RunLength /\ at' = 0
        ELSE run' = run /\ at' = at + n

ReadBlock ==
  /\ Unread
  /\ Deliver(Wanted, TRUE)
  /\ UNCHANGED <<layout, reader, listVars, take, attempt, chain, dest, faults>>

Fault == faults < MaxFaults /\ faults' = faults + 1

\* A short read, or a block the disk does not keep.
ReadBadly ==
  /\ Unread
  /\ Fault
  /\ \/ \E n \in 1..(Wanted - 1) : Deliver(n, TRUE)
     \/ Deliver(Wanted, FALSE)
  /\ UNCHANGED <<layout, reader, listVars, take, attempt, chain, dest>>

\* An empty read ends the stream quietly.
ReadEmpty ==
  /\ Unread
  /\ Fault
  /\ run' = Len(chain) + 1 /\ at' = 0
  /\ UNCHANGED <<layout, reader, listVars, take, attempt, chain, left, streamed, part, dest>>

\* An error of the device leaves copy_verified at once, `.part` behind it.
StreamRaises ==
  /\ Unread
  /\ Fault
  /\ reader' = "raised"
  /\ UNCHANGED <<layout, listVars, take, attempt, chain, streamVars, dest>>

StreamOver == reader = "streaming" /\ (run > Len(chain) \/ left = 0)

\* Variant: the hash is enough.
VerifiedByHash == part = streamed

\* The length first, then the file read back against what was hashed.
Verified == Len(streamed) = take.size /\ part = streamed

Rename ==
  /\ StreamOver
  /\ Verified
  /\ dest' = part
  /\ part' = NoBytes
  /\ reader' = "copied"
  /\ UNCHANGED <<layout, listVars, take, attempt, chain, run, at, left, streamed, faults>>

\* Variant: `.part` is not truncated by a second attempt.
RetryAppends ==
  /\ StreamOver
  /\ ~Verified
  /\ IF attempt < Attempts
     THEN /\ attempt' = attempt + 1
          /\ run' = 1 /\ at' = 0 /\ left' = take.size /\ streamed' = <<>>
          /\ UNCHANGED <<reader, part>>
     ELSE reader' = "refused" /\ UNCHANGED <<attempt, streamVars>>
  /\ UNCHANGED <<layout, listVars, take, chain, dest, faults>>

\* Variant: an attempt that failed is not counted.
RetryForEver ==
  /\ StreamOver
  /\ ~Verified
  /\ StartStream
  /\ UNCHANGED <<layout, reader, attempt, listVars, take, chain, dest, faults>>

Retry ==
  /\ StreamOver
  /\ ~Verified
  /\ IF attempt < Attempts
     THEN attempt' = attempt + 1 /\ StartStream /\ UNCHANGED reader
     ELSE reader' = "refused" /\ UNCHANGED <<attempt, streamVars>>
  /\ UNCHANGED <<layout, listVars, take, chain, dest, faults>>

Copy == List \/ Walk \/ ReadBlock \/ Rename \/ Retry
CardReaderNext == Begin \/ Copy \/ ReadBadly \/ ReadEmpty \/ StreamRaises
CardReaderSpec == CardReaderInit /\ [][CardReaderNext]_readerVars /\ WF_readerVars(Copy)

-----------------------------------------------------------------------------
\* What has the final name is the whole take, byte after byte and cluster
\* after cluster as its chain goes, whatever the reads and the disk did: a
\* fragment stays under `.part`.
CopyIsTheTake ==
  dest # NoBytes =>
    /\ Len(dest) = take.size
    /\ dest[1] = Address(take.cluster, 0)
    /\ \A i \in 1..(take.size - 1) :
         dest[i + 1] = IF i % ClusterSize # 0 THEN dest[i] + 1
                       ELSE Address(layout.fat[(dest[i] \div ClusterSize) + 2], 0)

\* How a copy may fail.  It is refused only when every attempt is spent, and
\* each met a fault or the chain is too short for the take: an attempt that
\* meets none is not spoilt by what the one before left.  An error the device
\* raises ends it at the attempt it comes in, the attempts before it having met
\* a fault as well.  So a short, an empty or a spoilt transfer is forgiven once
\* and an OSError never: card.py:244, "One retry: a passing USB error is
\* plausible", does not hold of the errors that are raised.
FailuresHaveCauses ==
  LET short == take.size > Len(chain) * ClusterSize
  IN /\ reader = "refused" => attempt = Attempts /\ (short \/ faults >= Attempts)
     /\ reader = "raised" => short \/ faults >= attempt

\* The import thread waits behind the copy: it comes back.
CopyEnds == reader = "walking" ~> reader \in {"copied", "refused", "raised"}

\* Every file entry ahead of the end mark is a take, in order and under its
\* own name, put together from the pieces right ahead of it and no others, or
\* counts as one being recorded: "no takes seen" is not "no takes there", of
\* the files of the root.  Folders are passed over and counted nowhere.
DirectoryIsAccounted ==
  reader = "choosing" =>
    LET d == layout.directory
        Ahead(i) == {j \in 1..(i - 1) : \A k \in j..(i - 1) : d[k].kind = "long"}
        Spells(name, i) ==
          \E f \in Bijection(1..Len(name), Ahead(i)) : \A m \in 1..Len(name) :
            /\ name[m] = d[f[m]].name
            /\ \A n \in 1..m : d[f[n]].order <= d[f[m]].order
        files == {i \in DOMAIN d : /\ d[i].kind = "file"
                                   /\ \A j \in 1..i : d[j].kind # "end"}
        whole == {i \in files : d[i].size > 0}
        Listed(i) == found[Cardinality({j \in whole : j <= i})]
    IN /\ openTakes = Cardinality(files \ whole)
       /\ Len(found) = Cardinality(whole)
       /\ \A i \in whole :
            /\ Listed(i).cluster = d[i].cluster /\ Listed(i).size = d[i].size
            /\ IF Ahead(i) = {} THEN Listed(i).name = <<d[i].name>>
               ELSE Spells(Listed(i).name, i)
=============================================================================

------------------------------ MODULE Archive ------------------------------
(***************************************************************************)
(* The recordings folder and the ledgers: what the disk holds, and what    *)
(* the application can say about it (ledger.py, paths.py, and the naming   *)
(* rule of job.py).  Both outlive a crash.                                 *)
(*                                                                         *)
(* A file name `<stamp>_<card name>[_NN_sur_MM]__<tail>[-nth].wav` is a    *)
(* record: `prefix` stands for the month folder and everything before the  *)
(* rank, rank 0 is a whole take and rank k > 0 its k-th part, and `nth` is *)
(* the collision suffix of unique_path.  A name with no `__` has the       *)
(* prefix Bare.                                                            *)
(***************************************************************************)
EXTENDS Naturals, Fleet

CONSTANTS
  Audio,     \* byte strings a copy can have, hence also the digests
  AudioOf,   \* the bytes of each take
  Prefix,    \* name prefixes of whole takes and their parts
  PrefixOf,  \* the prefix the import gives each take
  Bare,      \* the prefix of a name that has none
  Fragment,  \* bytes that are no take's: a part, an edited file
  NoFile,    \* no file of that name
  MaxRank,   \* bound: parts a take is cut into
  MaxNth     \* bound: collision suffix

ASSUME ArchiveAssumption ==
  /\ AudioOf \in [Take -> Audio]
  /\ PrefixOf \in [Take -> Prefix]
  /\ Fragment \notin Audio
  /\ NoFile \notin Audio \cup {Fragment}
  /\ Bare \notin Prefix
  /\ MaxRank \in Nat
  /\ MaxNth \in Nat \ {0}

VARIABLES
  files,     \* the bytes under each name, or NoFile
  ledger     \* the records each card's ledger file holds

archiveVars == <<files, ledger>>

Placeholder == "sans-nom"
Split == "decoupee"
Title == "titre"
Tail == {Placeholder, Split, Title}

Name == [prefix : Prefix \cup {Bare}, rank : 0..MaxRank,
         tail : Tail, nth : 1..MaxNth]
Content == Audio \cup {Fragment}
Record == [digest : Audio, prefix : Prefix]

ArchiveTypeOK ==
  /\ files \in [Name -> Content \cup {NoFile}]
  /\ ledger \in [Serial -> SUBSET Record]

ArchiveInit ==
  /\ files = [n \in Name |-> NoFile]
  /\ ledger = [s \in Serial |-> {}]

Exists(n) == files[n] # NoFile

FileName(prefix, rank, tail, nth) ==
  [prefix |-> prefix, rank |-> rank, tail |-> tail, nth |-> nth]

\* n is the name unique_path returns: the first collision suffix left free.
UniquePath(prefix, rank, tail, n) ==
  /\ n \in Name
  /\ n = FileName(prefix, rank, tail, n.nth)
  /\ ~Exists(n)
  /\ \A k \in 1..(n.nth - 1) : Exists(FileName(prefix, rank, tail, k))

\* Variant: automatic naming rebuilds the name from the timestamp alone.
NameAlone(n, slug, byHand, m) ==
  IF byHand THEN UniquePath(n.prefix, n.rank, slug, m)
  ELSE UniquePath(Bare, 0, slug, m)

\* job._target_name and unique_path: the names file n may take under `slug`.
\* Automatic naming replaces a placeholder only; anything else loses its
\* prefix.  By hand, any tail is replaced and the prefix stays.
NewName(n, slug, byHand, m) ==
  IF n.prefix # Bare /\ (byHand \/ n.tail = Placeholder)
  THEN UniquePath(n.prefix, n.rank, slug, m)
  ELSE UniquePath(Bare, 0, slug, m)

Rename(n, m) == files' = [files EXCEPT ![n] = NoFile, ![m] = files[n]]

\* Ledger.has
Holds(records, digest) == \E r \in records : r.digest = digest

\* Ledger.locate: every file the glob `<prefix>__*.wav` finds.
Matches(r) == {n \in Name : n.prefix = r.prefix /\ n.rank = 0 /\ Exists(n)}
Located(r, n) == Matches(r) = {n}

\* Variant: a digest the ledger does not hold is passed over.
IntactOrUnheld(records, digest) ==
  \/ ~Holds(records, digest)
  \/ \E r \in records : r.digest = digest
       /\ \E n \in Name : Located(r, n) /\ files[n] = digest

\* The body of erase_allowed for one digest: the record's only file still
\* has those bytes.
Intact(records, digest) ==
  \E r \in records : r.digest = digest
                     /\ \E n \in Name : Located(r, n) /\ files[n] = digest

\* Some file, whatever its name, still holds the take.
Safe(t) == \E n \in Name : files[n] = AudioOf[t]
=============================================================================

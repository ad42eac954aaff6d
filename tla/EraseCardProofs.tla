-------------------------- MODULE EraseCardProofs --------------------------
(***************************************************************************)
(* Proofs about EraseCard, for any number of cards, takes, slots, nodes    *)
(* and files.  EraseInv is inductive; the action properties follow from it *)
(* and from the shape of Send; EraseCard implements Custody; and an erase  *)
(* comes nearer its end with each step.                                    *)
(***************************************************************************)
EXTENDS EraseCard, TLAPS

\* Abbreviations of module Verdicts, wanted wherever a verdict is.
USE DEF VerdictsTypeOK, NoVerdicts, Complete

\* Initially nothing runs, no verdict stands and every node is free.
LEMMA InitEstablishes == EraseInit => EraseInv
<1> SUFFICES ASSUME EraseInit PROVE EraseInv
  OBVIOUS
<1> USE DEF EraseInit, ArchiveInit, TransmittersInit
<1>1. EraseTypeOK
  <2>1. ArchiveTypeOK
    BY DEF ArchiveTypeOK
  <2>2. TransmittersTypeOK
    BY DEF TransmittersTypeOK
  <2> QED BY <2>1, <2>2 DEF EraseTypeOK, Phase, Outcome
<1>2. TakesStayApart
  <2>1. \A s \in Serial : OnCard(s) = card[s]
    BY DEF OnCard
  <2> QED BY <2>1 DEF TakesStayApart
<1>3. NodesStayApart
  BY DEF NodesStayApart
<1>4. VerdictsAccount
  BY DEF VerdictsAccount
<1>5. ~Looked /\ phase = "idle"
  BY DEF Looked
<1> QED
  BY <1>1, <1>2, <1>3, <1>4, <1>5
     DEF EraseInv, EraseFollowsItsVerdict, LookCovers, HashCovers, NodeCovers,
         HeldIsTheLedger

-----------------------------------------------------------------------------
(* Facts shared by several actions. *)

\* A step that moves no transmitter and touches no verdict keeps what relates
\* them.
LEMMA NothingMoved ==
  ASSUME EraseInv, UNCHANGED <<transmitterVars, verdicts>>
  PROVE  /\ TransmittersTypeOK'
         /\ TakesStayApart' /\ NodesStayApart' /\ VerdictsAccount'
<1> USE DEF transmitterVars
<1>1. \A s \in Serial : OnCard(s)' = OnCard(s)
  BY DEF OnCard
<1> QED
  BY <1>1 DEF EraseInv, EraseTypeOK, TransmittersTypeOK, TakesStayApart,
              NodesStayApart, VerdictsAccount

\* Back at the window there is nothing left to cover.
LEMMA AtRest ==
  ASSUME BackToWindow, EraseTypeOK
  PROVE  /\ phase' \in Phase /\ target' \in Serial \cup {NoSerial}
         /\ block' \in Slot \cup {NoSlot} /\ hidraw' \in Node \cup {NoNode}
         /\ held' \in SUBSET Record /\ rehash' \in SUBSET Audio
         /\ outcome' \in Outcome /\ exposed' \in SUBSET Take
         /\ EraseFollowsItsVerdict' /\ LookCovers' /\ HashCovers'
         /\ NodeCovers' /\ HeldIsTheLedger'
BY DEF BackToWindow, EraseTypeOK, Phase, Outcome, EraseFollowsItsVerdict,
       LookCovers, HashCovers, NodeCovers, HeldIsTheLedger, Looked

\* Refusals and errors: the erase goes back to the window and nothing else
\* changes.
LEMMA Refusing ==
  ASSUME EraseInv, BackToWindow,
         UNCHANGED <<archiveVars, transmitterVars, verdicts>>
  PROVE  EraseInv'
<1>1. EraseTypeOK'
  BY AtRest, NothingMoved
     DEF EraseInv, EraseTypeOK, ArchiveTypeOK, archiveVars
<1> QED
  BY <1>1, AtRest, NothingMoved DEF EraseInv

-----------------------------------------------------------------------------
(* The erase, step by step. *)

LEMMA ClickKeeps == ASSUME EraseInv, NEW s \in Serial, Click(s) PROVE EraseInv'
<1> USE DEF Click
<1>1. EraseTypeOK'
  BY NothingMoved DEF EraseInv, EraseTypeOK, ArchiveTypeOK, archiveVars,
                      TransmittersTypeOK, Phase
<1>2. EraseFollowsItsVerdict' /\ LookCovers' /\ HashCovers' /\ NodeCovers'
      /\ HeldIsTheLedger'
  BY DEF EraseFollowsItsVerdict, LookCovers, HashCovers, NodeCovers,
         HeldIsTheLedger, Looked
<1> QED BY <1>1, <1>2, NothingMoved DEF EraseInv

LEMMA OpenKeeps == ASSUME EraseInv, OpenForErase PROVE EraseInv'
<1>1. CASE BackToWindow
  BY <1>1, Refusing DEF OpenForErase
<1>2. CASE \E s \in Serial :
             /\ Presentable(s)
             /\ phase' = "reading"
             /\ held' \in {ledger[s], {}}
             /\ UNCHANGED <<target, block, hidraw, rehash, outcome, exposed>>
  <2> USE <1>2 DEF OpenForErase
  <2>1. UNCHANGED <<archiveVars, transmitterVars, verdicts>>
    OBVIOUS
  <2>2. EraseTypeOK'
    BY <2>1, NothingMoved DEF EraseInv, EraseTypeOK, ArchiveTypeOK, archiveVars,
                              Phase
  <2>3. EraseFollowsItsVerdict'
    BY <2>1 DEF EraseInv, EraseTypeOK, EraseFollowsItsVerdict, Presentable, Erasable, Looked
  <2>4. HeldIsTheLedger'
    BY <2>1 DEF Presentable, HeldIsTheLedger, archiveVars
  <2>5. LookCovers' /\ HashCovers' /\ NodeCovers'
    BY DEF LookCovers, HashCovers, NodeCovers, Looked
  <2> QED BY <2>1, <2>2, <2>3, <2>4, <2>5, NothingMoved DEF EraseInv
<1> QED BY <1>1, <1>2 DEF OpenForErase

\* The block node may by now show another card; but one that equals the
\* verdict's inventory, which is not empty, can only be the verdict's own, and
\* its digests are then those of its takes.
LEMMA LookFindsItsCard ==
  ASSUME EraseInv, phase = "reading", NEW s \in Serial, Unchanged(s)
  PROVE  /\ target \in Serial /\ Erasable(target) /\ hidraw \in Node
         /\ verdicts[target] \in Verdict
         /\ OnCard(target) \subseteq verdicts[target].inventory
         /\ verdicts[target].digests
              = {AudioOf[t] : t \in verdicts[target].inventory}
<1> DEFINE v == verdicts[target]
<1>1. target \in Serial /\ Erasable(target) /\ hidraw \in Node
  BY DEF EraseInv, EraseFollowsItsVerdict
<1>2. v \in Verdict /\ v.inventory # {}
  BY <1>1 DEF EraseInv, EraseTypeOK, VerdictsAccount, Erasable
<1>3. s = target
  BY <1>1, <1>2 DEF EraseInv, TakesStayApart, Unchanged, OnCard, Erasable
<1>4. OnCard(target) = v.inventory
  BY <1>3 DEF Unchanged, OnCard
<1> QED
  BY <1>1, <1>2, <1>4 DEF EraseInv, VerdictsAccount, Erasable

LEMMA ReadAgainKeeps == ASSUME EraseInv, ReadAgain PROVE EraseInv'
<1>1. CASE BackToWindow
  BY <1>1, Refusing DEF ReadAgain
<1>2. ASSUME NEW s \in Serial, Unchanged(s), phase' = "hashing",
             rehash' = verdicts[target].digests,
             UNCHANGED <<target, block, hidraw, held, outcome, exposed>>
      PROVE  EraseInv'
  <2> USE <1>2
  <2>1. /\ phase = "reading"
        /\ UNCHANGED <<archiveVars, transmitterVars, verdicts>>
    BY DEF ReadAgain
  <2> DEFINE v == verdicts[target]
  <2>2. target \in Serial /\ Erasable(target) /\ hidraw \in Node
    BY <2>1, LookFindsItsCard
  <2>3. v \in Verdict /\ v.digests = {AudioOf[t] : t \in v.inventory}
    BY <2>1, LookFindsItsCard
  <2>6. OnCard(target) \subseteq v.inventory
    BY <2>1, LookFindsItsCard
  <2>7. EraseTypeOK'
    BY <2>1, <2>3, NothingMoved
       DEF EraseInv, EraseTypeOK, ArchiveTypeOK, archiveVars, Phase, Verdict
  <2>8. EraseFollowsItsVerdict'
    BY <2>1, <2>2 DEF EraseFollowsItsVerdict, Erasable
  <2>9. LookCovers'
    BY <2>1, <2>6 DEF LookCovers, OnCard, transmitterVars
  <2>10. HashCovers'
    BY <2>1, <2>3 DEF HashCovers
  <2>11. NodeCovers'
    BY DEF NodeCovers
  <2>12. HeldIsTheLedger'
    BY <2>1 DEF EraseInv, HeldIsTheLedger, archiveVars
  <2> QED
    BY <2>1, <2>7, <2>8, <2>9, <2>10, <2>11, <2>12, NothingMoved DEF EraseInv
<1> QED BY <1>1, <1>2 DEF ReadAgain

\* A digest whose hash matches has an intact file; the records in memory are
\* then not those of an unreadable ledger.
LEMMA HashKeeps == ASSUME EraseInv, HashCopy PROVE EraseInv'
<1> PICK d \in rehash : Intact(held, d) /\ rehash' = rehash \ {d}
  BY DEF HashCopy
<1> USE DEF HashCopy
<1>1. /\ target \in Serial
      /\ verdicts[target] \in Verdict
      /\ rehash \subseteq verdicts[target].digests
  BY DEF EraseInv, EraseFollowsItsVerdict, Looked, HashCovers, EraseTypeOK,
         Erasable
<1>2. EraseTypeOK'
  BY NothingMoved DEF EraseInv, EraseTypeOK, ArchiveTypeOK, archiveVars
<1>3. EraseFollowsItsVerdict'
  BY DEF EraseInv, EraseFollowsItsVerdict, Erasable, Looked
<1>4. LookCovers'
  BY DEF EraseInv, LookCovers, Looked, OnCard, transmitterVars
<1>5. HashCovers'
  <2>1. \A t \in Take : AudioOf[t] = d => Safe(t)
    BY DEF Intact, Safe
  <2>2. \A t \in Take : Safe(t) => Safe(t)'
    BY DEF Safe, archiveVars
  <2> QED BY <1>1, <2>1, <2>2 DEF EraseInv, HashCovers, Looked, Verdict
<1>6. NodeCovers'
  BY DEF NodeCovers
<1>7. HeldIsTheLedger'
  <2>1. held # {}
    BY DEF Intact
  <2>2. held = ledger[target]
    BY <2>1 DEF EraseInv, HeldIsTheLedger
  <2> QED BY <2>2 DEF HeldIsTheLedger, archiveVars
<1> QED
  BY <1>2, <1>3, <1>4, <1>5, <1>6, <1>7, NothingMoved DEF EraseInv

\* Nodes are unique: when the verdict's card answers on the node, no other
\* does.
LEMMA CheckNodeKeeps == ASSUME EraseInv, CheckNode PROVE EraseInv'
<1>1. CASE BackToWindow
  BY <1>1, Refusing DEF CheckNode
<1>2. CASE /\ node[target] = hidraw
           /\ phase' = "sending"
           /\ UNCHANGED <<target, block, hidraw, held, rehash, outcome, exposed>>
  <2> USE <1>2 DEF CheckNode
  <2>1. target \in Serial /\ Erasable(target) /\ hidraw \in Node
    BY DEF EraseInv, EraseFollowsItsVerdict, Looked
  <2>2. EraseTypeOK'
    BY NothingMoved DEF EraseInv, EraseTypeOK, ArchiveTypeOK, archiveVars, Phase
  <2>3. EraseFollowsItsVerdict'
    BY <2>1 DEF EraseFollowsItsVerdict, Erasable
  <2>4. LookCovers'
    BY DEF EraseInv, LookCovers, Looked, OnCard, transmitterVars
  <2>5. HashCovers'
    BY DEF EraseInv, HashCovers, Looked, Safe, archiveVars
  <2>6. NodeCovers'
    BY <2>1 DEF EraseInv, NodesStayApart, NodeCovers, Answers, transmitterVars
  <2>7. HeldIsTheLedger'
    BY <2>1 DEF EraseInv, HeldIsTheLedger, Erasable, archiveVars
  <2> QED
    BY <2>2, <2>3, <2>4, <2>5, <2>6, <2>7, NothingMoved DEF EraseInv
<1> QED BY <1>1, <1>2 DEF CheckNode

\* What wiping a card leaves of the facts about the cards.
LEMMA WipeKeeps ==
  ASSUME EraseInv, NEW s \in Serial, Wipe(s), UNCHANGED verdicts
  PROVE  /\ TransmittersTypeOK'
         /\ TakesStayApart' /\ NodesStayApart' /\ VerdictsAccount'
<1> USE DEF Wipe
<1>1. TransmittersTypeOK'
  BY DEF EraseInv, EraseTypeOK, TransmittersTypeOK, FreeNodes
<1>2. \A x \in Serial : OnCard(x)' \subseteq OnCard(x)
  BY DEF OnCard, EraseInv, EraseTypeOK, TransmittersTypeOK
<1>3. TakesStayApart'
  BY <1>2 DEF EraseInv, TakesStayApart
<1>4. NodesStayApart'
  BY DEF EraseInv, EraseTypeOK, TransmittersTypeOK, NodesStayApart, FreeNodes
<1>5. VerdictsAccount'
  <2>1. OnCard(s)' = {} /\ \A x \in Serial \ {s} : OnCard(x)' = OnCard(x)
    BY DEF OnCard, EraseInv, EraseTypeOK, TransmittersTypeOK
  <2> QED BY <2>1 DEF EraseInv, VerdictsAccount
<1> QED BY <1>1, <1>3, <1>4, <1>5

LEMMA SendKeeps == ASSUME EraseInv, Send PROVE EraseInv'
<1> USE DEF Send
<1>1. CASE BackToWindow /\ UNCHANGED transmitterVars
  BY <1>1, Refusing
<1>2. ASSUME NEW s \in Serial, NEW r \in Outcome \ {"none"},
             Wipe(s) \/ UNCHANGED transmitterVars,
             outcome' = r, phase' = "noting",
             UNCHANGED <<target, block, hidraw, held, rehash, exposed>>
      PROVE  EraseInv'
  <2> USE <1>2
  <2>1. /\ TransmittersTypeOK'
        /\ TakesStayApart' /\ NodesStayApart' /\ VerdictsAccount'
    BY WipeKeeps, NothingMoved
  <2>2. EraseTypeOK'
    BY <2>1 DEF EraseInv, EraseTypeOK, ArchiveTypeOK, archiveVars, Phase
  <2>3. EraseFollowsItsVerdict' /\ LookCovers' /\ HashCovers' /\ NodeCovers'
    BY DEF EraseInv, EraseFollowsItsVerdict, LookCovers, HashCovers, NodeCovers,
           Looked
  <2>4. HeldIsTheLedger'
    BY DEF EraseInv, HeldIsTheLedger, archiveVars
  <2> QED BY <2>1, <2>2, <2>3, <2>4 DEF EraseInv
<1> QED BY <1>1, <1>2

LEMMA SettleKeeps == ASSUME EraseInv, Settle PROVE EraseInv'
<1> USE DEF Settle
<1>1. target \in Serial
  BY DEF EraseInv, EraseFollowsItsVerdict
<1>2. ArchiveTypeOK' /\ verdicts' \in [Serial -> Verdict \cup {NoVerdict}]
  BY <1>1 DEF EraseInv, EraseTypeOK, ArchiveTypeOK
<1>3. TransmittersTypeOK' /\ TakesStayApart' /\ NodesStayApart' /\ VerdictsAccount'
  <2>1. \A s \in Serial : verdicts'[s] \in {verdicts[s], NoVerdict}
    BY <1>1 DEF EraseInv, EraseTypeOK
  <2>2. \A s \in Serial : OnCard(s)' = OnCard(s)
    BY DEF OnCard, transmitterVars
  <2> QED
    BY <2>1, <2>2 DEF EraseInv, EraseTypeOK, TransmittersTypeOK, TakesStayApart,
                      NodesStayApart, VerdictsAccount, transmitterVars
<1> QED
  BY <1>2, <1>3, AtRest DEF EraseInv, EraseTypeOK

-----------------------------------------------------------------------------
(* The import's results: only between two erases. *)

LEMMA KeepTakeKeeps == ASSUME EraseInv, NEW s \in Serial, KeepTake(s) PROVE EraseInv'
<1> USE DEF KeepTake
<1>1. ArchiveTypeOK'
  <2>1. files' \in [Name -> Content \cup {NoFile}]
    BY ArchiveAssumption
       DEF EraseInv, EraseTypeOK, ArchiveTypeOK, Content, TransmittersTypeOK
  <2>2. ledger' \in [Serial -> SUBSET Record]
    BY ArchiveAssumption
       DEF EraseInv, EraseTypeOK, ArchiveTypeOK, Record, TransmittersTypeOK
  <2> QED BY <2>1, <2>2 DEF ArchiveTypeOK
<1>2. EraseTypeOK'
  BY <1>1, NothingMoved DEF EraseInv, EraseTypeOK, eraseVars
<1>3. EraseFollowsItsVerdict' /\ LookCovers' /\ HashCovers' /\ NodeCovers'
      /\ HeldIsTheLedger'
  BY DEF eraseVars, EraseFollowsItsVerdict, LookCovers, HashCovers, NodeCovers,
         HeldIsTheLedger, Looked
<1> QED BY <1>2, <1>3, NothingMoved DEF EraseInv

LEMMA ConcludeKeeps == ASSUME EraseInv, NEW s \in Serial, Conclude(s) PROVE EraseInv'
<1> USE DEF Conclude
<1> PICK listed \in SUBSET card[s], openSeen \in BOOLEAN :
       \E seen \in SUBSET {t \in listed : Holds(ledger[s], AudioOf[t])} :
         verdicts' = [verdicts EXCEPT ![s] =
                        [inventory |-> listed,
                         digests |-> {AudioOf[t] : t \in seen},
                         complete |-> seen = listed /\ ~openSeen]]
  OBVIOUS
<1> PICK seen \in SUBSET {t \in listed : Holds(ledger[s], AudioOf[t])} :
         verdicts' = [verdicts EXCEPT ![s] =
                        [inventory |-> listed,
                         digests |-> {AudioOf[t] : t \in seen},
                         complete |-> seen = listed /\ ~openSeen]]
  OBVIOUS
<1>1. listed \subseteq card[s] /\ card[s] \subseteq Take /\ seen \subseteq listed
  BY DEF EraseInv, EraseTypeOK, TransmittersTypeOK
<1> DEFINE v == [inventory |-> listed,
                 digests |-> {AudioOf[t] : t \in seen},
                 complete |-> seen = listed /\ ~openSeen]
<1>2. v \in Verdict
  BY <1>1, ArchiveAssumption DEF Verdict
<1>3. EraseTypeOK'
  BY <1>2 DEF EraseInv, EraseTypeOK, ArchiveTypeOK, TransmittersTypeOK,
              archiveVars, transmitterVars, eraseVars
<1>4. verdicts'[s] = v /\ \A x \in Serial \ {s} : verdicts'[x] = verdicts[x]
  BY DEF EraseInv, EraseTypeOK
<1>5. TakesStayApart'
  <2>1. \A x \in Serial : OnCard(x)' = OnCard(x)
    BY DEF OnCard, transmitterVars
  <2>2. listed \subseteq OnCard(s)
    BY <1>1 DEF OnCard
  <2>3. v.inventory = listed
    OBVIOUS
  <2> HIDE DEF v
  <2> QED
    BY <1>4, <2>1, <2>2, <2>3 DEF EraseInv, TakesStayApart, transmitterVars
<1>6. VerdictsAccount'
  <2>1. v.complete => v.digests = {AudioOf[t] : t \in v.inventory}
    OBVIOUS
  <2>2. v.digests # {} => v.inventory # {}
    BY <1>1
  <2>3. \A x \in Serial : OnCard(x)' = OnCard(x)
    BY DEF OnCard, transmitterVars
  <2> HIDE DEF v
  <2> QED BY <1>4, <2>1, <2>2, <2>3 DEF EraseInv, VerdictsAccount
<1>7. NodesStayApart'
  BY DEF EraseInv, NodesStayApart, transmitterVars
<1>8. EraseFollowsItsVerdict' /\ LookCovers' /\ HashCovers' /\ NodeCovers'
      /\ HeldIsTheLedger'
  BY DEF eraseVars, EraseFollowsItsVerdict, LookCovers, HashCovers, NodeCovers,
         HeldIsTheLedger, Looked
<1> QED BY <1>3, <1>5, <1>6, <1>7, <1>8 DEF EraseInv

-----------------------------------------------------------------------------
(* Hands. *)

\* What is recorded after the look is exposed as it starts.
LEMMA LiftKeeps == ASSUME EraseInv, NEW s \in Serial, LiftAny(s) PROVE EraseInv'
<1> USE DEF LiftAny, Lift
<1> USE TransmittersAssumption
<1>1. \A x \in Serial \ {s} : OnCard(x)' = OnCard(x)
  BY DEF OnCard, EraseInv, EraseTypeOK, TransmittersTypeOK
<1>2. /\ born' \subseteq Take /\ born \subseteq born'
      /\ OnCard(s)' \ OnCard(s) \subseteq born' \ born
      /\ OnCard(s)' \subseteq born'
  BY DEF OnCard, EraseInv, EraseTypeOK, TransmittersTypeOK, TakesStayApart
<1>3. TransmittersTypeOK'
  BY DEF EraseInv, EraseTypeOK, TransmittersTypeOK
<1>4. EraseTypeOK'
  BY <1>2, <1>3 DEF EraseInv, EraseTypeOK, ArchiveTypeOK, archiveVars
<1>5. TakesStayApart'
  BY <1>1, <1>2 DEF EraseInv, TakesStayApart
<1>6. NodesStayApart' /\ VerdictsAccount'
  <2>1. NodesStayApart'
    BY DEF EraseInv, EraseTypeOK, TransmittersTypeOK, NodesStayApart
  <2>2. ASSUME OnCard(s)' # OnCard(s), verdicts[s] # NoVerdict
        PROVE  OnCard(s)' # verdicts[s].inventory
    BY <2>2 DEF OnCard, EraseInv, EraseTypeOK, TransmittersTypeOK, TakesStayApart
  <2>3. VerdictsAccount'
    BY <1>1, <2>2 DEF EraseInv, VerdictsAccount
  <2> QED BY <2>1, <2>3
<1>7. EraseFollowsItsVerdict'
  BY DEF EraseInv, EraseFollowsItsVerdict, Erasable, Looked
<1>8. LookCovers'
  BY <1>1, <1>2 DEF EraseInv, LookCovers, Looked, EraseFollowsItsVerdict
<1>9. HashCovers'
  BY DEF EraseInv, HashCovers, Looked, Safe, archiveVars
<1>10. NodeCovers'
  BY <1>1 DEF EraseInv, EraseTypeOK, TransmittersTypeOK, NodeCovers, Answers
<1>11. HeldIsTheLedger'
  BY DEF EraseInv, HeldIsTheLedger, archiveVars
<1> QED
  BY <1>4, <1>5, <1>6, <1>7, <1>8, <1>9, <1>10, <1>11 DEF EraseInv

\* Docking only finalises a take; who docks after the node check is exposed.
LEMMA DockKeeps == ASSUME EraseInv, NEW s \in Serial, DockAny(s) PROVE EraseInv'
<1> USE DEF DockAny, Dock
<1> USE TransmittersAssumption
<1>1. \A x \in Serial : OnCard(x)' = OnCard(x)
  BY DEF OnCard, EraseInv, EraseTypeOK, TransmittersTypeOK
<1>2. OnCard(s) \subseteq Take
  BY DEF OnCard, EraseInv, EraseTypeOK, TransmittersTypeOK
<1>3. TransmittersTypeOK'
  BY <1>2 DEF EraseInv, EraseTypeOK, TransmittersTypeOK, FreeSlots, FreeNodes
<1>4. EraseTypeOK'
  BY <1>2, <1>3 DEF EraseInv, EraseTypeOK, ArchiveTypeOK, archiveVars
<1>5. TakesStayApart'
  BY <1>1 DEF EraseInv, TakesStayApart
<1>6. NodesStayApart' /\ VerdictsAccount'
  <2>1. NodesStayApart'
    BY DEF EraseInv, EraseTypeOK, TransmittersTypeOK, NodesStayApart, FreeNodes
  <2>2. VerdictsAccount'
    BY <1>1 DEF EraseInv, VerdictsAccount
  <2> QED BY <2>1, <2>2
<1>7. EraseFollowsItsVerdict'
  BY DEF EraseInv, EraseFollowsItsVerdict, Erasable, Looked
<1>8. LookCovers'
  BY <1>1 DEF EraseInv, LookCovers, Looked, EraseFollowsItsVerdict
<1>9. HashCovers'
  BY DEF EraseInv, HashCovers, Looked, Safe, archiveVars
<1>10. NodeCovers'
  BY <1>1 DEF EraseInv, EraseTypeOK, TransmittersTypeOK, NodeCovers, Answers
<1>11. HeldIsTheLedger'
  BY DEF EraseInv, HeldIsTheLedger, archiveVars
<1> QED
  BY <1>4, <1>5, <1>6, <1>7, <1>8, <1>9, <1>10, <1>11 DEF EraseInv

\* A spoiled file takes its bytes with it: the takes that had them, once
\* hashed, are exposed.
LEMMA SpoilKeeps == ASSUME EraseInv, NEW n \in Name, Spoil(n) PROVE EraseInv'
<1> USE DEF Spoil
<1>1. EraseTypeOK'
  BY NothingMoved DEF EraseInv, EraseTypeOK, ArchiveTypeOK, Content, HashedTakes
<1>2. EraseFollowsItsVerdict'
  BY DEF EraseInv, EraseFollowsItsVerdict, Erasable, Looked
<1>3. LookCovers'
  BY DEF EraseInv, LookCovers, Looked, OnCard, transmitterVars
<1>4. HashCovers'
  <2> SUFFICES ASSUME Looked PROVE HashCovers'
    BY DEF HashCovers, Looked
  <2>1. target \in Serial /\ verdicts[target].inventory \subseteq Take
    BY DEF EraseInv, EraseFollowsItsVerdict, EraseTypeOK, Erasable, Verdict, Looked
  <2>2. \A m \in Name \ {n} : files'[m] = files[m]
    BY DEF EraseInv, EraseTypeOK, ArchiveTypeOK
  <2>3. ASSUME NEW t \in verdicts[target].inventory, AudioOf[t] \notin rehash,
               Safe(t)
        PROVE  Safe(t)' \/ t \in exposed'
    <3>1. PICK m \in Name : files[m] = AudioOf[t]
      BY <2>3 DEF Safe
    <3>2. CASE m = n
      BY <2>1, <2>3, <3>1, <3>2 DEF HashedTakes, Looked
    <3>3. CASE m # n
      BY <2>2, <3>1, <3>3 DEF Safe
    <3> QED BY <3>2, <3>3
  <2> QED BY <2>3 DEF EraseInv, HashCovers, Looked
<1>5. NodeCovers'
  BY DEF EraseInv, NodeCovers, Answers, OnCard, transmitterVars
<1>6. HeldIsTheLedger'
  BY DEF EraseInv, HeldIsTheLedger
<1> QED
  BY <1>1, <1>2, <1>3, <1>4, <1>5, <1>6, NothingMoved DEF EraseInv

\* Renaming loses no bytes: unique_path never returns a name in use.
LEMMA RenameLosesNothing ==
  ASSUME ArchiveTypeOK, NEW n \in Name, NEW m \in Name, Exists(n), ~Exists(m),
         Rename(n, m)
  PROVE  /\ files' \in [Name -> Content \cup {NoFile}]
         /\ \A t \in Take : Safe(t) => Safe(t)'
<1>1. files' \in [Name -> Content \cup {NoFile}]
  BY DEF ArchiveTypeOK, Rename
<1>2. \A t \in Take : Safe(t) => Safe(t)'
  BY ArchiveAssumption DEF ArchiveTypeOK, Rename, Safe, Exists, Content
<1> QED BY <1>1, <1>2

LEMMA RenamedKeeps ==
  ASSUME EraseInv, NEW n \in Name, NEW m \in Name, Exists(n), ~Exists(m), Rename(n, m),
         UNCHANGED <<ledger, transmitterVars, verdicts, eraseVars>>
  PROVE  EraseInv'
<1>1. files' \in [Name -> Content \cup {NoFile}] /\ \A t \in Take : Safe(t) => Safe(t)'
  BY RenameLosesNothing DEF EraseInv, EraseTypeOK
<1>2. EraseTypeOK'
  BY <1>1, NothingMoved DEF EraseInv, EraseTypeOK, ArchiveTypeOK, eraseVars
<1>3. EraseFollowsItsVerdict' /\ LookCovers' /\ NodeCovers' /\ HeldIsTheLedger'
  BY DEF EraseInv, EraseFollowsItsVerdict, Erasable, LookCovers, NodeCovers,
         HeldIsTheLedger, Looked, Answers, OnCard, transmitterVars, eraseVars
<1>4. HashCovers'
  <2> SUFFICES ASSUME Looked PROVE HashCovers'
    BY DEF HashCovers, Looked, eraseVars
  <2>1. verdicts[target].inventory \subseteq Take
    BY DEF EraseInv, EraseFollowsItsVerdict, EraseTypeOK, Erasable, Verdict, Looked
  <2> QED BY <1>1, <2>1 DEF EraseInv, HashCovers, Looked, eraseVars
<1> QED BY <1>2, <1>3, <1>4, NothingMoved DEF EraseInv

LEMMA RenameKeeps == ASSUME EraseInv, NEW n \in Name, RenameAny(n) PROVE EraseInv'
<1> USE DEF RenameAny
<1> PICK m \in Name, byHand \in BOOLEAN :
         NewName(n, Title, byHand, m) /\ Rename(n, m)
  OBVIOUS
<1>1. ~Exists(m)
  BY DEF NewName, UniquePath
<1> QED BY <1>1, RenamedKeeps

-----------------------------------------------------------------------------
(* The theorems. *)

LEMMA NothingHappens == ASSUME EraseInv, UNCHANGED vars PROVE EraseInv'
<1> USE DEF vars, archiveVars, eraseVars
<1>1. EraseTypeOK'
  BY NothingMoved DEF EraseInv, EraseTypeOK, ArchiveTypeOK
<1>2. EraseFollowsItsVerdict' /\ LookCovers' /\ HashCovers' /\ NodeCovers'
      /\ HeldIsTheLedger'
  BY DEF EraseInv, EraseFollowsItsVerdict, LookCovers, HashCovers, NodeCovers,
         HeldIsTheLedger, Erasable, Looked, Safe, Answers, OnCard,
         transmitterVars
<1> QED BY <1>1, <1>2, NothingMoved DEF EraseInv

LEMMA NextKeeps == EraseInv /\ [EraseNext]_vars => EraseInv'
<1> SUFFICES ASSUME EraseInv, [EraseNext]_vars PROVE EraseInv'
  OBVIOUS
<1>1. ASSUME NEW s \in Serial, KeepTake(s) PROVE EraseInv'
  BY <1>1, KeepTakeKeeps
<1>2. ASSUME NEW s \in Serial, Conclude(s) PROVE EraseInv'
  BY <1>2, ConcludeKeeps
<1>3. ASSUME NEW s \in Serial, Click(s) PROVE EraseInv'
  BY <1>3, ClickKeeps
<1>4. CASE OpenForErase
  BY <1>4, OpenKeeps
<1>5. CASE ReadAgain
  BY <1>5, ReadAgainKeeps
<1>6. CASE HashCopy
  BY <1>6, HashKeeps
<1>7. CASE HashRefused
  BY <1>7, Refusing DEF HashRefused
<1>8. CASE CheckNode
  BY <1>8, CheckNodeKeeps
<1>9. CASE Send
  BY <1>9, SendKeeps
<1>10. CASE Settle
  BY <1>10, SettleKeeps
<1>11. ASSUME NEW s \in Serial, LiftAny(s) \/ DockAny(s) PROVE EraseInv'
  BY <1>11, LiftKeeps, DockKeeps
<1>12. ASSUME NEW n \in Name, Spoil(n) \/ RenameAny(n) PROVE EraseInv'
  BY <1>12, SpoilKeeps, RenameKeeps
<1>13. CASE UNCHANGED vars
  BY <1>13, NothingHappens
<1> QED
  BY <1>1, <1>2, <1>3, <1>4, <1>5, <1>6, <1>7, <1>8, <1>9, <1>10, <1>11, <1>12,
     <1>13 DEF EraseNext, EraseStep, Hands

\* Among any hands, every guard of erase_card goes on meaning what it checked
\* until the command is sent.
THEOREM EraseInvariant == EraseSpec => []EraseInv
<1>1. EraseInit => EraseInv
  BY InitEstablishes
<1>2. EraseInv /\ [EraseNext]_vars => EraseInv'
  BY NextKeeps
<1> QED BY <1>1, <1>2, PTL DEF EraseSpec

\* Every variable of the model keeps its type.
THEOREM EraseTypes == EraseSpec => []EraseTypeOK
<1>1. EraseInv => EraseTypeOK
  BY DEF EraseInv
<1> QED BY <1>1, EraseInvariant, PTL

\* Only the command empties a card: every other step leaves each transmitter
\* at least the takes it had.
LEMMA OnlySendWipes ==
  ASSUME EraseInv, [EraseNext]_vars, ~Send
  PROVE  \A s \in Serial : OnCard(s) \subseteq OnCard(s)'
<1> USE TransmittersAssumption
<1>1. CASE UNCHANGED transmitterVars
  BY <1>1 DEF OnCard, transmitterVars
<1>2. ASSUME NEW s \in Serial, LiftAny(s)
      PROVE  \A x \in Serial : OnCard(x) \subseteq OnCard(x)'
  BY <1>2 DEF LiftAny, Lift, OnCard, EraseInv, EraseTypeOK, TransmittersTypeOK
<1>3. ASSUME NEW s \in Serial, DockAny(s)
      PROVE  \A x \in Serial : OnCard(x) \subseteq OnCard(x)'
  BY <1>3 DEF DockAny, Dock, OnCard, EraseInv, EraseTypeOK, TransmittersTypeOK
<1> QED
  BY <1>1, <1>2, <1>3
     DEF EraseNext, EraseStep, Hands, KeepTake, Conclude, Click, OpenForErase,
         ReadAgain, HashCopy, HashRefused, CheckNode, Settle, Spoil, RenameAny,
         vars

\* The command empties one card, that of the transmitter on the node.
LEMMA SendWipesOne ==
  ASSUME EraseInv, Send
  PROVE  \/ \A s \in Serial : OnCard(s)' = OnCard(s)
         \/ \E s \in Serial : /\ Answers(s, hidraw)
                              /\ \A x \in Serial \ {s} : OnCard(x)' = OnCard(x)
<1>1. CASE UNCHANGED transmitterVars
  BY <1>1 DEF OnCard, transmitterVars
<1>2. ASSUME NEW s \in Serial, Answers(s, hidraw), Wipe(s)
      PROVE  \A x \in Serial \ {s} : OnCard(x)' = OnCard(x)
  BY <1>2 DEF Wipe, OnCard, EraseInv, EraseTypeOK, TransmittersTypeOK
<1> QED BY <1>1, <1>2 DEF Send

\* What the command may take: a listed take some file still holds, or an
\* exposed one.
LEMMA AnswererIsCovered ==
  ASSUME EraseInv, Send, NEW s \in Serial, Answers(s, hidraw)
  PROVE  /\ s = target \/ OnCard(s) \subseteq exposed
         /\ \A t \in OnCard(s) : Safe(t) \/ t \in exposed
<1> USE DEF Send
<1>1. CASE s = target
  <2>1. OnCard(s) \subseteq verdicts[target].inventory \cup exposed
    BY <1>1 DEF EraseInv, LookCovers, Looked
  <2>2. \A t \in verdicts[target].inventory : Safe(t) \/ t \in exposed
    BY DEF EraseInv, HashCovers, NodeCovers, Looked
  <2> QED BY <1>1, <2>1, <2>2
<1>2. CASE s # target
  BY <1>2 DEF EraseInv, NodeCovers
<1> QED BY <1>1, <1>2

\* No take leaves a card unless a local file holds its bytes or it changed
\* after the check that covers it.
THEOREM ErasesOnlyWhatIsBacked == EraseSpec => WipesOnlyWhatIsBacked
<1> DEFINE Backed == \A t \in OnCards \ OnCards' : Safe(t) \/ t \in exposed
<1>1. EraseInv /\ [EraseNext]_vars => [Backed]_vars
  <2> SUFFICES ASSUME EraseInv, [EraseNext]_vars,
                      NEW t \in OnCards, t \notin OnCards'
               PROVE  Safe(t) \/ t \in exposed
    OBVIOUS
  <2>1. PICK s \in Serial : t \in OnCard(s) /\ t \notin OnCard(s)'
    BY DEF OnCards
  <2>2. Send /\ Answers(s, hidraw)
    BY <2>1, OnlySendWipes, SendWipesOne
  <2> QED BY <2>1, <2>2, AnswererIsCovered
<1> QED BY <1>1, EraseInvariant, PTL DEF EraseSpec, WipesOnlyWhatIsBacked

\* The command takes nothing from any other card, unless that one was docked
\* onto the node after the node was checked.
THEOREM ErasesOnlyTheChosenCard == EraseSpec => OnlyTheChosenCard
<1> DEFINE Chosen == \A s \in Serial :
             OnCard(s) \ OnCards' # {} => s = target \/ OnCard(s) \subseteq exposed
<1>1. EraseInv /\ [EraseNext]_vars => [Chosen]_vars
  <2> SUFFICES ASSUME EraseInv, [EraseNext]_vars, NEW s \in Serial,
                      OnCard(s) \ OnCards' # {}
               PROVE  s = target \/ OnCard(s) \subseteq exposed
    OBVIOUS
  <2>1. ~(OnCard(s) \subseteq OnCard(s)')
    BY DEF OnCards
  <2>2. Send /\ Answers(s, hidraw)
    BY <2>1, OnlySendWipes, SendWipesOne
  <2> QED BY <2>2, AnswererIsCovered
<1> QED BY <1>1, EraseInvariant, PTL DEF EraseSpec, OnlyTheChosenCard

\* Rewriting the ledger file to add to the annexe loses no record.
THEOREM AnnexeKeepsTheRecords == EraseSpec => RecordsSurviveTheAnnexe
<1> DEFINE Kept == \A s \in Serial : ledger[s] \subseteq ledger'[s]
<1>1. EraseInv /\ [EraseNext]_vars => [Kept]_vars
  <2> SUFFICES ASSUME EraseInv, [EraseNext]_vars PROVE Kept
    OBVIOUS
  <2>1. CASE UNCHANGED ledger
    BY <2>1
  <2>2. ASSUME NEW s \in Serial, KeepTake(s) PROVE Kept
    BY <2>2 DEF KeepTake, EraseInv, EraseTypeOK, ArchiveTypeOK
  <2>3. CASE Settle
    BY <2>3 DEF Settle, EraseInv, HeldIsTheLedger, EraseFollowsItsVerdict,
                EraseTypeOK, ArchiveTypeOK
  <2> QED
    BY <2>1, <2>2, <2>3
       DEF EraseNext, EraseStep, Hands, Conclude, Click, OpenForErase, ReadAgain,
           HashCopy, HashRefused, CheckNode, Send, LiftAny, DockAny, Spoil,
           RenameAny, vars, archiveVars
<1> QED BY <1>1, EraseInvariant, PTL DEF EraseSpec, RecordsSurviveTheAnnexe

-----------------------------------------------------------------------------
(* The erase implements Custody. *)

\* The takes some file still holds: `kept` of Custody.
Kept == {t \in Take : Safe(t)}

\* With no erase past its freshness look, nothing is counted.
LEMMA NothingCounted == ~Looked => Counted = {}
BY DEF Counted

\* Files that do not change hold what they held.
LEMMA SameFilesKeep == UNCHANGED files => Kept' = Kept
BY DEF Kept, Safe

LEMMA CustodyStarts == EraseInit => Promise!Init
<1> SUFFICES ASSUME EraseInit PROVE Promise!Init
  OBVIOUS
<1>1. OnCards \subseteq Take
  BY TransmittersAssumption DEF EraseInit, TransmittersInit, OnCards, OnCard
<1>2. \A t \in Take : ~Safe(t)
  BY ArchiveAssumption DEF EraseInit, ArchiveInit, Safe
<1>3. ~Looked /\ exposed = {}
  BY DEF EraseInit, Looked
<1> QED
  BY <1>1, <1>2, <1>3, NothingCounted DEF Promise!Init

\* Steps around an erase: they file or begin.
LEMMA BetweenErases ==
  ASSUME ~Looked, ~Looked', UNCHANGED transmitterVars,
         \/ Kept \subseteq Kept' /\ UNCHANGED exposed
         \/ UNCHANGED files /\ exposed' = {}
  PROVE  Promise!Next
<1>1. Counted = {} /\ Counted' = {}
  BY DEF Counted
<1>2. OnCards' = OnCards
  BY DEF OnCards, OnCard, transmitterVars
<1> QED
  BY <1>1, <1>2, SameFilesKeep
     DEF Kept, Promise!Next, Promise!Keep, Promise!Begin

\* An erase that ends without its command releases nothing.
LEMMA GivingUpReleases ==
  ASSUME BackToWindow, UNCHANGED <<archiveVars, transmitterVars>>
  PROVE  Promise!Next
<1>1. Counted' = {} /\ exposed' = exposed
  BY DEF BackToWindow, Counted, Looked
<1>2. OnCards' = OnCards /\ Kept' = Kept
  BY SameFilesKeep DEF OnCards, OnCard, transmitterVars, archiveVars
<1> QED
  BY <1>1, <1>2 DEF Kept, Promise!Next, Promise!Release

\* Looking at the card and at one copy after another: what was hashed is kept.
LEMMA HashingCounts ==
  ASSUME EraseInv, ReadAgain \/ HashCopy \/ CheckNode
  PROVE  Promise!Next
<1>1. CASE BackToWindow
  BY <1>1, GivingUpReleases DEF ReadAgain, HashCopy, CheckNode
<1>2. CASE ~BackToWindow
  <2>1. /\ UNCHANGED <<archiveVars, transmitterVars, verdicts, target, exposed>>
        /\ Looked' /\ target \in Serial /\ Erasable(target)
    BY <1>2 DEF ReadAgain, HashCopy, CheckNode, Looked, EraseInv,
                EraseFollowsItsVerdict
  <2>2. OnCards' = OnCards /\ Kept' = Kept
    BY <2>1, SameFilesKeep DEF OnCards, OnCard, transmitterVars, archiveVars
  <2>3. Counted \subseteq Counted' /\ Counted' \ Counted \subseteq Kept
    <3>1. CASE ReadAgain
      <4>1. rehash' = {AudioOf[t] : t \in verdicts[target].inventory}
        BY <1>2, <3>1, LookFindsItsCard DEF ReadAgain
      <4>2. Counted = {} /\ Counted' = {}
        BY <2>1, <3>1, <4>1 DEF ReadAgain, Counted, Looked
      <4> QED BY <4>2
    <3>2. CASE HashCopy
      <4>1. PICK d \in rehash : Intact(held, d) /\ rehash' = rehash \ {d}
        BY <3>2 DEF HashCopy
      <4>2. \A t \in Take : AudioOf[t] = d => Safe(t)
        BY <4>1 DEF Intact, Safe
      <4> QED
        BY <2>1, <3>2, <4>1, <4>2 DEF HashCopy, Counted, Looked, Kept
    <3>3. CASE CheckNode
      BY <1>2, <2>1, <3>3 DEF CheckNode, Counted, Looked
    <3> QED BY <3>1, <3>2, <3>3
  <2> QED
    BY <2>1, <2>2, <2>3 DEF Kept, Promise!Next, Promise!Count
<1> QED BY <1>1, <1>2

\* The command takes counted or waived takes alone.
LEMMA SendReleases == ASSUME EraseInv, Send PROVE Promise!Next
<1>1. CASE BackToWindow /\ UNCHANGED transmitterVars
  BY <1>1, GivingUpReleases DEF Send
<1>2. CASE phase' = "noting" /\ UNCHANGED exposed
  <2>1. Counted' = {} /\ Kept' = Kept
    BY <1>2, SameFilesKeep DEF Send, Counted, Looked, archiveVars
  <2>2. OnCards' \subseteq OnCards
    <3>1. \A s \in Serial : OnCard(s)' \subseteq OnCard(s)
      BY TransmittersAssumption
         DEF Send, Wipe, OnCard, EraseInv, EraseTypeOK, TransmittersTypeOK,
             transmitterVars, BackToWindow
    <3> QED BY <3>1 DEF OnCards
  <2>3. ASSUME NEW t \in OnCards, t \notin OnCards'
        PROVE  t \in Counted \cup exposed
    <3>1. PICK s \in Serial : t \in OnCard(s) /\ t \notin OnCard(s)'
      BY <2>3 DEF OnCards
    <3>2. Answers(s, hidraw)
      BY <3>1, SendWipesOne
    <3>3. CASE s = target
      <4>1. rehash = {} /\ Looked
        BY DEF Send, EraseInv, NodeCovers, Looked
      <4>2. t \in verdicts[target].inventory \cup exposed
        BY <3>1, <3>3, <4>1 DEF EraseInv, LookCovers
      <4>3. t \in Take
        BY <3>1, TransmittersAssumption
           DEF EraseInv, EraseTypeOK, TransmittersTypeOK, OnCard
      <4> QED BY <4>1, <4>2, <4>3 DEF Counted
    <3>4. CASE s # target
      BY <3>1, <3>2, <3>4, AnswererIsCovered
    <3> QED BY <3>3, <3>4
  <2> QED
    BY <1>2, <2>1, <2>2, <2>3 DEF Kept, Promise!Next, Promise!Release
<1> QED BY <1>1, <1>2 DEF Send

\* Hands on a transmitter give nothing up; what they record is waived, or not
\* counted.
LEMMA MovingMoves ==
  ASSUME EraseInv, NEW s \in Serial, LiftAny(s) \/ DockAny(s)
  PROVE  Promise!Next
<1>1. \A x \in Serial : OnCard(x) \subseteq OnCard(x)'
  BY TransmittersAssumption
     DEF LiftAny, Lift, DockAny, Dock, OnCard, EraseInv, EraseTypeOK,
         TransmittersTypeOK
<1>2. OnCards \subseteq OnCards' /\ exposed \subseteq exposed'
  BY <1>1 DEF OnCards, LiftAny, DockAny
<1>3. Counted' = Counted /\ Kept' = Kept
  BY SameFilesKeep DEF LiftAny, DockAny, Counted, Looked, archiveVars
<1> QED
  BY <1>2, <1>3 DEF Kept, Promise!Next, Promise!Move

\* A counted take whose last copy is spoiled is waived.
LEMMA SpoilingLoses ==
  ASSUME EraseInv, NEW n \in Name, Spoil(n) PROVE Promise!Next
<1> USE DEF Spoil
<1>1. OnCards' = OnCards /\ Counted' = Counted /\ exposed \subseteq exposed'
  BY DEF OnCards, OnCard, transmitterVars, Counted, Looked
<1>2. files' \in [Name -> Content \cup {NoFile}]
      /\ \A m \in Name \ {n} : files'[m] = files[m]
      /\ files'[n] \in {NoFile, Fragment}
  BY DEF EraseInv, EraseTypeOK, ArchiveTypeOK, Content
<1>3. Kept' \subseteq Kept
  BY <1>2, ArchiveAssumption DEF Kept, Safe
<1>4. ASSUME NEW t \in Counted, t \in Kept \ Kept' PROVE t \in exposed'
  <2>1. files[n] = AudioOf[t]
    BY <1>2, <1>4 DEF Kept, Safe
  <2> QED BY <1>4, <2>1 DEF Counted, Looked, HashedTakes
<1> QED
  BY <1>1, <1>3, <1>4 DEF Kept, Promise!Next, Promise!Lose

LEMMA RenamingKeeps ==
  ASSUME EraseInv, NEW n \in Name, RenameAny(n) PROVE Promise!Next
<1> USE DEF RenameAny
<1> PICK m \in Name, byHand \in BOOLEAN :
         NewName(n, Title, byHand, m) /\ Rename(n, m)
  OBVIOUS
<1>1. ~Exists(m)
  BY DEF NewName, UniquePath
<1>2. Kept \subseteq Kept'
  BY <1>1, RenameLosesNothing DEF Kept, EraseInv, EraseTypeOK
<1>3. OnCards' = OnCards /\ Counted' = Counted /\ exposed' = exposed
  BY DEF OnCards, OnCard, transmitterVars, Counted, Looked, eraseVars
<1> QED
  BY <1>2, <1>3 DEF Kept, Promise!Next, Promise!Keep

\* Filing a take overwrites nothing.
LEMMA FilingKeeps ==
  ASSUME EraseInv, NEW s \in Serial, KeepTake(s) PROVE Promise!Next
<1>1. Kept \subseteq Kept'
  BY ArchiveAssumption
     DEF KeepTake, UniquePath, Exists, Kept, Safe, EraseInv, EraseTypeOK,
         ArchiveTypeOK
<1> QED
  BY <1>1, BetweenErases DEF KeepTake, eraseVars, Looked

LEMMA EveryStepKeepsCustody ==
  EraseInv /\ [EraseNext]_vars => [Promise!Next]_(Promise!custodyVars)
<1> SUFFICES ASSUME EraseInv, [EraseNext]_vars
             PROVE  [Promise!Next]_(Promise!custodyVars)
  OBVIOUS
<1>1. ASSUME NEW s \in Serial, KeepTake(s) PROVE Promise!Next
  BY <1>1, FilingKeeps
<1>2. ASSUME NEW s \in Serial, Conclude(s) PROVE Promise!Next
  BY <1>2, BetweenErases, SameFilesKeep
     DEF Conclude, eraseVars, archiveVars, Looked
<1>3. ASSUME NEW s \in Serial, Click(s) PROVE Promise!Next
  BY <1>3, BetweenErases DEF Click, archiveVars, Looked
<1>4. CASE OpenForErase
  <2>1. CASE BackToWindow
    BY <1>4, <2>1, GivingUpReleases DEF OpenForErase
  <2>2. CASE ~BackToWindow
    BY <1>4, <2>2, BetweenErases, SameFilesKeep
       DEF OpenForErase, archiveVars, Looked
  <2> QED BY <2>1, <2>2
<1>5. CASE ReadAgain \/ HashCopy \/ CheckNode
  BY <1>5, HashingCounts
<1>6. CASE HashRefused
  BY <1>6, GivingUpReleases DEF HashRefused
<1>7. CASE Send
  BY <1>7, SendReleases
<1>8. CASE Settle
  BY <1>8, BetweenErases, SameFilesKeep DEF Settle, BackToWindow, Looked
<1>9. ASSUME NEW s \in Serial, LiftAny(s) \/ DockAny(s) PROVE Promise!Next
  BY <1>9, MovingMoves
<1>10. ASSUME NEW n \in Name, Spoil(n) \/ RenameAny(n) PROVE Promise!Next
  BY <1>10, SpoilingLoses, RenamingKeeps
<1>11. CASE UNCHANGED vars
  BY <1>11, SameFilesKeep
     DEF vars, archiveVars, transmitterVars, eraseVars, OnCards, OnCard, Kept,
         Counted, Looked, Promise!custodyVars
<1> QED
  BY <1>1, <1>2, <1>3, <1>4, <1>5, <1>6, <1>7, <1>8, <1>9, <1>10, <1>11
     DEF EraseNext, EraseStep, Hands

\* The erase among any hands implements Custody: what a card gives up an erase
\* had counted among the kept takes, or it changed since.
THEOREM EraseKeepsCustody == EraseSpec => CustodyIsKept
<1>1. EraseInit => Promise!Init
  BY CustodyStarts
<1>2. EraseInv /\ [EraseNext]_vars => [Promise!Next]_(Promise!custodyVars)
  BY EveryStepKeepsCustody
<1> QED
  BY <1>1, <1>2, EraseInvariant, PTL DEF EraseSpec, CustodyIsKept, Promise!Spec

\* What the promise means between its steps: at every moment of an erase, each
\* take it has counted so far is held by some file or waived.
LEMMA PromiseHoldsItsCount == CustodyIsKept => []Promise!CountedIsKept
<1>1. Promise!Init => Promise!CountedIsKept
  BY DEF Promise!Init, Promise!CountedIsKept
<1>2. Promise!CountedIsKept /\ [Promise!Next]_(Promise!custodyVars)
        => Promise!CountedIsKept'
  BY DEF Promise!Next, Promise!Move, Promise!Keep, Promise!Lose, Promise!Begin,
         Promise!Count, Promise!Release, Promise!CountedIsKept, Promise!custodyVars
<1> QED BY <1>1, <1>2, PTL DEF CustodyIsKept, Promise!Spec

\* Nearer the end of an erase: back to the window, a stage further, or a digest
\* fewer to hash; hands move none of these.
EraseComesNearer ==
  phase # "idle" =>
  \/ phase' = "idle"
  \/ <<phase, phase'>> \in {<<"opening", "reading">>, <<"reading", "hashing">>,
                            <<"hashing", "sending">>, <<"sending", "noting">>}
  \/ /\ phase = "hashing" /\ phase' = "hashing"
     /\ rehash' \subseteq rehash /\ rehash' # rehash
  \/ Hands /\ UNCHANGED <<phase, rehash>>

LEMMA EraseStepComesNearer == EraseNext => EraseComesNearer
<1> SUFFICES ASSUME EraseNext, phase # "idle" PROVE EraseComesNearer
  BY DEF EraseComesNearer
<1>1. ASSUME NEW s \in Serial, KeepTake(s) \/ Conclude(s) \/ Click(s) PROVE FALSE
  BY <1>1 DEF KeepTake, Conclude, Click
<1>2. CASE OpenForErase
  BY <1>2 DEF OpenForErase, BackToWindow, EraseComesNearer
<1>3. CASE ReadAgain
  BY <1>3 DEF ReadAgain, BackToWindow, EraseComesNearer
<1>4. CASE HashCopy
  <2>1. PICK d \in rehash : rehash' = rehash \ {d}
    BY <1>4 DEF HashCopy
  <2>2. rehash' \subseteq rehash /\ rehash' # rehash
    BY <2>1
  <2> QED BY <1>4, <2>2 DEF HashCopy, EraseComesNearer
<1>5. CASE HashRefused
  BY <1>5 DEF HashRefused, BackToWindow, EraseComesNearer
<1>6. CASE CheckNode
  BY <1>6 DEF CheckNode, BackToWindow, EraseComesNearer
<1>7. CASE Send
  <2>1. phase = "sending" /\ phase' \in {"idle", "noting"}
    BY <1>7 DEF Send, BackToWindow
  <2> QED BY <2>1 DEF EraseComesNearer
<1>8. CASE Settle
  BY <1>8 DEF Settle, BackToWindow, EraseComesNearer
<1>9. CASE Hands
  <2>1. UNCHANGED <<phase, rehash>>
    BY <1>9 DEF Hands, LiftAny, DockAny, Spoil, RenameAny, eraseVars
  <2> QED BY <1>9, <2>1 DEF EraseComesNearer
<1> QED BY <1>1, <1>2, <1>3, <1>4, <1>5, <1>6, <1>7, <1>8, <1>9 DEF EraseNext, EraseStep

\* Whatever hands do meanwhile, every step of an erase comes nearer its end and
\* nothing takes it back: what EraseEnds needs besides that the thread goes on.
THEOREM EraseNeverTurnsBack == EraseSpec => [][EraseComesNearer]_vars
<1>1. [EraseNext]_vars => [EraseComesNearer]_vars
  BY EraseStepComesNearer
<1> QED BY <1>1, PTL DEF EraseSpec
=============================================================================

---------------------------- MODULE Transmitters ----------------------------
(***************************************************************************)
(* The transmitters and the charging case, outside the repository: they    *)
(* are modelled from what card.py, devices.py and intake.py say of them.   *)
(* A transmitter starts a recording the moment it leaves the case and      *)
(* finalises it when it is docked; a docked one shows its card in a slot   *)
(* (a block device of the case) and answers commands on a hidraw node.     *)
(* Neither number is stable across a replug.                               *)
(***************************************************************************)
EXTENDS Fleet

CONSTANTS
  Slot,      \* block device nodes
  Node,      \* hidraw nodes
  NoSlot, NoNode, NoTake

ASSUME TransmittersAssumption ==
  /\ NoSlot \notin Slot
  /\ NoNode \notin Node
  /\ NoTake \notin Take

VARIABLES
  card,      \* finalised takes on each card
  open,      \* the take each transmitter is recording, or NoTake
  slot,      \* where its card can be read, or NoSlot when it is away
  node,      \* where it answers, or NoNode
  born       \* takes recorded so far, by any transmitter

transmitterVars == <<card, open, slot, node, born>>

TransmittersTypeOK ==
  /\ card \in [Serial -> SUBSET Take]
  /\ open \in [Serial -> Take \cup {NoTake}]
  /\ slot \in [Serial -> Slot \cup {NoSlot}]
  /\ node \in [Serial -> Node \cup {NoNode}]
  /\ born \in SUBSET Take

\* Every transmitter away, with the takes of an earlier session on its card.
TransmittersInit ==
  /\ card \in [Serial -> SUBSET Take]
  /\ \A s, x \in Serial : s # x => card[s] \cap card[x] = {}
  /\ open = [s \in Serial |-> NoTake]
  /\ slot = [s \in Serial |-> NoSlot]
  /\ node = [s \in Serial |-> NoNode]
  /\ born = UNION {card[s] : s \in Serial}

Docked(s) == slot[s] # NoSlot
Occupies(s, place) == slot[s] = place /\ place # NoSlot
Answers(s, n) == node[s] = n /\ n # NoNode

\* What a command to erase would take from a transmitter.
OnCard(s) == card[s] \cup ({open[s]} \ {NoTake})

Lift(s) ==
  /\ Docked(s)
  /\ slot' = [slot EXCEPT ![s] = NoSlot]
  /\ node' = [node EXCEPT ![s] = NoNode]
  /\ \/ /\ open[s] = NoTake
        /\ \E t \in Take \ born :
             /\ open' = [open EXCEPT ![s] = t]
             /\ born' = born \cup {t}
     \/ open[s] # NoTake /\ UNCHANGED <<open, born>>
  /\ UNCHANGED card

\* Two transmitters are never in one slot, nor on one node.
SlotsStayApart ==
  \A s, x \in Serial : slot[s] = slot[x] /\ slot[s] # NoSlot => s = x
NodesStayApart ==
  \A s, x \in Serial : node[s] = node[x] /\ node[s] # NoNode => s = x

FreeSlots == {p \in Slot : \A x \in Serial : slot[x] # p}
FreeNodes == {n \in Node : \A x \in Serial : node[x] # n}

\* In the case the recording is finalised; plugged by its own cable a
\* transmitter may show it still open, as a zero-byte entry.
Dock(s) ==
  /\ ~Docked(s)
  /\ \E p \in FreeSlots : slot' = [slot EXCEPT ![s] = p]
  /\ \E n \in FreeNodes \cup {NoNode} : node' = [node EXCEPT ![s] = n]
  /\ \/ /\ card' = [card EXCEPT ![s] = OnCard(s)]
        /\ open' = [open EXCEPT ![s] = NoTake]
     \/ open[s] # NoTake /\ UNCHANGED <<card, open>>
  /\ UNCHANGED born

\* The erase command does its work; the transmitter then re-enumerates,
\* under any free node or its own again.
Wipe(s) ==
  /\ card' = [card EXCEPT ![s] = {}]
  /\ open' = [open EXCEPT ![s] = NoTake]
  /\ \E n \in FreeNodes \cup {NoNode, node[s]} : node' = [node EXCEPT ![s] = n]
  /\ UNCHANGED <<slot, born>>
=============================================================================

----------------------------- MODULE Discovery -----------------------------
(***************************************************************************)
(* devices.py: find_storage.  The hidraw nodes are listed, then the block  *)
(* nodes, one entry of sysfs at a time; what is kept is one node a card,   *)
(* with the hidraw node that says it is the same transmitter.              *)
(*                                                                         *)
(* A serial is a volume serial folded to one case and without its dash; a  *)
(* hidraw entry spells it as the firmware likes.                           *)
(***************************************************************************)
EXTENDS Naturals, SequencesExt

CONSTANTS
  Serials,     \* folded serials
  NoSerial,    \* no FAT32 volume, or an unreadable one
  Machines     \* what sysfs shows: [hidraws, blocks]

\* An entry of /sys/class/hidraw, and one of /sys/block.
HidrawNode == [vendor : BOOLEAN, uniq : Serials \cup {NoSerial}]
BlockNode == [vendor : BOOLEAN, medium : BOOLEAN,
              serial : Serials \cup {NoSerial}, viaCase : BOOLEAN]

ASSUME DiscoveryAssumption ==
  /\ NoSerial \notin Serials
  /\ \A m \in Machines : m.hidraws \in Seq(HidrawNode) /\ m.blocks \in Seq(BlockNode)

NoDevice == 0

VARIABLES
  machine,   \* sysfs
  hids,      \* hidraw entries read
  blocks,    \* block entries read
  hid,       \* the hidraw node of each serial
  best       \* the block node of each card: its index, or NoDevice

discoveryVars == <<machine, hids, blocks, hid, best>>

DiscoveryInit ==
  /\ machine \in Machines
  /\ hids = 0 /\ blocks = 0
  /\ hid = [s \in Serials |-> NoDevice]
  /\ best = [s \in Serials |-> NoDevice]

\* default_hidraw_lister and the folding of its keys: the entries of another
\* vendor, unreadable or without a HID_UNIQ are passed over.
ReadHidraw ==
  /\ hids < Len(machine.hidraws)
  /\ hids' = hids + 1
  /\ LET e == machine.hidraws[hids']
     IN hid' = IF e.vendor /\ e.uniq \in Serials
               THEN [hid EXCEPT ![e.uniq] = hids'] ELSE hid
  /\ UNCHANGED <<machine, blocks, best>>

\* default_lister keeps the vendor's nodes; a LUN without a medium has no size,
\* and its serial is not read.
Candidate(e) == e.vendor /\ e.medium /\ e.serial # NoSerial

\* Variant: the last node listed is the one kept.
BetterIfLater(e) == TRUE

Better(e) ==
  \/ best[e.serial] = NoDevice
  \/ e.viaCase /\ ~machine.blocks[best[e.serial]].viaCase

ReadBlockNode ==
  /\ hids = Len(machine.hidraws)
  /\ blocks < Len(machine.blocks)
  /\ blocks' = blocks + 1
  /\ LET e == machine.blocks[blocks']
     IN best' = IF Candidate(e) /\ Better(e)
                THEN [best EXCEPT ![e.serial] = blocks'] ELSE best
  /\ UNCHANGED <<machine, hids, hid>>

DiscoveryNext == ReadHidraw \/ ReadBlockNode
DiscoverySpec == DiscoveryInit /\ [][DiscoveryNext]_discoveryVars

-----------------------------------------------------------------------------
Listed == hids = Len(machine.hidraws) /\ blocks = Len(machine.blocks)

\* After an erase a card shows up twice, and a slot whose transmitter is away
\* shows up empty: every card that can be read is listed once, by the case's
\* node whenever it has one, and with its own transmitter's hidraw node.
EveryCardIsFound ==
  Listed =>
    \A s \in Serials :
      LET shown == {i \in DOMAIN machine.blocks :
                      Candidate(machine.blocks[i]) /\ machine.blocks[i].serial = s}
          cased == {i \in shown : machine.blocks[i].viaCase}
          answering == {i \in DOMAIN machine.hidraws :
                          machine.hidraws[i].vendor /\ machine.hidraws[i].uniq = s}
      IN /\ best[s] = IF cased # {} THEN Min(cased)
                      ELSE IF shown # {} THEN Min(shown) ELSE NoDevice
         /\ hid[s] = IF answering # {} THEN Max(answering) ELSE NoDevice
=============================================================================

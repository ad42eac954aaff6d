-------------------------- MODULE DiscoveryProofs --------------------------
(***************************************************************************)
(* Theorem of Discovery: whatever sysfs shows, and in whatever order,      *)
(* every readable card is found, by the right node.                        *)
(*                                                                         *)
(* The invariant says of the entries read so far what the property says of *)
(* all of them.                                                            *)
(***************************************************************************)
EXTENDS Discovery, TLAPS

\* Min and Max are what they are taken for, where there is one.
LEMMA MinOf ==
  ASSUME NEW T, NEW x \in T, T \subseteq Nat, \A y \in T : x <= y
  PROVE  Min(T) = x
<1>1. PICK m : m = Min(T)
  OBVIOUS
<1>2. m \in T /\ \A y \in T : m <= y
  BY <1>1 DEF Min
<1>3. m \in Nat /\ x \in Nat /\ m <= x /\ x <= m
  BY <1>2
<1> QED BY <1>1, <1>3

LEMMA MaxOf ==
  ASSUME NEW T, NEW x \in T, T \subseteq Nat, \A y \in T : y <= x
  PROVE  Max(T) = x
<1>1. PICK m : m = Max(T)
  OBVIOUS
<1>2. m \in T /\ \A y \in T : y <= m
  BY <1>1 DEF Max
<1>3. m \in Nat /\ x \in Nat /\ m <= x /\ x <= m
  BY <1>2
<1> QED BY <1>1, <1>3

-----------------------------------------------------------------------------
Shows(i, s) == Candidate(machine.blocks[i]) /\ machine.blocks[i].serial = s
Cased(i, s) == Shows(i, s) /\ machine.blocks[i].viaCase
Answers(i, s) == machine.hidraws[i].vendor /\ machine.hidraws[i].uniq = s

DiscoveryTypeOK ==
  /\ machine.hidraws \in Seq(HidrawNode) /\ machine.blocks \in Seq(BlockNode)
  /\ hids \in 0..Len(machine.hidraws) /\ blocks \in 0..Len(machine.blocks)
  /\ hid \in [Serials -> 0..hids] /\ best \in [Serials -> 0..blocks]

\* The transmitter kept for s is the last of those read.
HidOfRead(s) ==
  /\ hid[s] # NoDevice => Answers(hid[s], s)
  /\ \A i \in 1..hids : Answers(i, s) => i <= hid[s]

\* The node kept for s is the case's first one, or the first if it has none.
BestOfRead(s) ==
  /\ best[s] # NoDevice => Shows(best[s], s)
  /\ \A i \in 1..blocks : Cased(i, s) => best[s] # NoDevice /\ Cased(best[s], s) /\ best[s] <= i
  /\ \A i \in 1..blocks : Shows(i, s) => best[s] # NoDevice /\ (best[s] <= i \/ Cased(best[s], s))

DiscoveryInv == DiscoveryTypeOK /\ \A s \in Serials : HidOfRead(s) /\ BestOfRead(s)

LEMMA DiscoveryStarts == DiscoveryInit => DiscoveryInv
<1> SUFFICES ASSUME DiscoveryInit PROVE DiscoveryInv
  OBVIOUS
<1>1. DiscoveryTypeOK
  <2>1. machine.hidraws \in Seq(HidrawNode) /\ machine.blocks \in Seq(BlockNode)
    BY DiscoveryAssumption DEF DiscoveryInit
  <2>2. Len(machine.hidraws) \in Nat /\ Len(machine.blocks) \in Nat
    BY <2>1
  <2> QED BY <2>1, <2>2 DEF DiscoveryInit, DiscoveryTypeOK, NoDevice
<1>2. \A s \in Serials : HidOfRead(s) /\ BestOfRead(s)
  BY DEF DiscoveryInit, HidOfRead, BestOfRead, NoDevice
<1> QED BY <1>1, <1>2 DEF DiscoveryInv

LEMMA HidrawStep ==
  ASSUME DiscoveryInv, ReadHidraw
  PROVE  DiscoveryInv'
<1> DEFINE n == hids + 1
           e == machine.hidraws[n]
<1>1. /\ hids \in Nat /\ n \in 1..Len(machine.hidraws) /\ hids' = n
      /\ UNCHANGED <<machine, blocks, best>>
  BY DEF DiscoveryInv, DiscoveryTypeOK, ReadHidraw
<1>2. hid' = IF e.vendor /\ e.uniq \in Serials THEN [hid EXCEPT ![e.uniq] = n] ELSE hid
  BY DEF ReadHidraw
<1>3. hid \in [Serials -> 0..hids]
  BY DEF DiscoveryInv, DiscoveryTypeOK
<1> HIDE DEF n
<1>4. n \in Nat /\ n = hids + 1
  BY <1>1 DEF n
<1>5. DiscoveryTypeOK'
  <2>1. hid' \in [Serials -> 0..n]
    BY <1>1, <1>2, <1>3, <1>4
  <2>2. n \in 0..Len(machine.hidraws)
    BY <1>1, <1>4
  <2> QED BY <1>1, <2>1, <2>2 DEF DiscoveryInv, DiscoveryTypeOK
<1>6. ASSUME NEW s \in Serials PROVE HidOfRead(s)'
  <2>1. hid[s] \in 0..hids /\ HidOfRead(s)
    BY <1>3 DEF DiscoveryInv
  <2>2. \A i \in 1..n : i \in 1..hids \/ i = n
    BY <1>1, <1>4
  <2>3. CASE Answers(n, s)
    <3>1. hid'[s] = n
      BY <1>2, <1>3, <2>3 DEF Answers
    <3> QED BY <3>1, <2>3, <1>1, <1>4 DEF HidOfRead, Answers
  <2>4. CASE ~Answers(n, s)
    <3>1. hid'[s] = hid[s]
      BY <1>2, <1>3, <2>4 DEF Answers
    <3> QED BY <3>1, <2>1, <2>2, <2>4, <1>1 DEF HidOfRead, Answers
  <2> QED BY <2>3, <2>4
<1>7. ASSUME NEW s \in Serials PROVE BestOfRead(s)'
  BY <1>1 DEF DiscoveryInv, BestOfRead, Cased, Shows, Candidate
<1> QED BY <1>5, <1>6, <1>7 DEF DiscoveryInv

LEMMA BlockStep ==
  ASSUME DiscoveryInv, ReadBlockNode
  PROVE  DiscoveryInv'
<1> DEFINE n == blocks + 1
           e == machine.blocks[n]
<1>1. /\ blocks \in Nat /\ n \in 1..Len(machine.blocks) /\ blocks' = n
      /\ UNCHANGED <<machine, hids, hid>>
  BY DEF DiscoveryInv, DiscoveryTypeOK, ReadBlockNode
<1>2. best' = IF Candidate(e) /\ Better(e) THEN [best EXCEPT ![e.serial] = n] ELSE best
  BY DEF ReadBlockNode
<1>3. best \in [Serials -> 0..blocks]
  BY DEF DiscoveryInv, DiscoveryTypeOK
<1>4. Candidate(e) => e.serial \in Serials
  <2>1. e \in BlockNode
    BY <1>1 DEF DiscoveryInv, DiscoveryTypeOK
  <2>2. e.serial \in Serials \cup {NoSerial}
    BY <2>1 DEF BlockNode
  <2> QED BY <2>2 DEF Candidate
<1> HIDE DEF n
<1>5. n \in Nat /\ n = blocks + 1
  BY <1>1 DEF n
<1>6. DiscoveryTypeOK'
  <2>1. best' \in [Serials -> 0..n]
    BY <1>1, <1>2, <1>3, <1>4, <1>5
  <2>2. n \in 0..Len(machine.blocks)
    BY <1>1, <1>5
  <2> QED BY <1>1, <2>1, <2>2 DEF DiscoveryInv, DiscoveryTypeOK
<1>7. ASSUME NEW s \in Serials PROVE HidOfRead(s)'
  BY <1>1 DEF DiscoveryInv, HidOfRead, Answers
<1>8. ASSUME NEW s \in Serials PROVE BestOfRead(s)'
  <2>1. best[s] \in 0..blocks /\ BestOfRead(s)
    BY <1>3 DEF DiscoveryInv
  <2>2. \A i \in 1..n : i \in 1..blocks \/ i = n
    BY <1>1, <1>5
  <2>3. CASE Shows(n, s) /\ Better(e)
    <3>1. best'[s] = n
      BY <1>2, <1>3, <2>3 DEF Shows
    <3>2. \A i \in 1..blocks : ~Cased(i, s)
      BY <2>1, <2>3 DEF BestOfRead, Better, Shows, Cased
    <3>3. n # NoDevice
      BY <1>1 DEF NoDevice
    <3>4. \A i \in 1..blocks : Shows(i, s) => Cased(n, s)
      BY <2>1, <2>3 DEF BestOfRead, Better, Shows, Cased
    <3>5. (\A i : (Shows(i, s)' <=> Shows(i, s)) /\ (Cased(i, s)' <=> Cased(i, s)))
      BY <1>1 DEF Shows, Cased, Candidate
    <3> QED BY <3>1, <3>2, <3>3, <3>4, <3>5, <2>2, <2>3, <1>1, <1>5 DEF BestOfRead
  <2>4. CASE ~(Shows(n, s) /\ Better(e))
    <3>1. best'[s] = best[s]
      BY <1>2, <1>3, <1>4, <2>4 DEF Shows
    <3>2. Shows(n, s) => best[s] # NoDevice /\ (e.viaCase => Cased(best[s], s))
      BY <2>1, <2>4 DEF Better, Shows, Cased, BestOfRead
    <3>3. Shows(n, s) => best[s] <= n
      BY <2>1, <1>1, <1>5
    <3>4. (\A i : (Shows(i, s)' <=> Shows(i, s)) /\ (Cased(i, s)' <=> Cased(i, s)))
      BY <1>1 DEF Shows, Cased, Candidate
    <3>5. Cased(n, s) => Shows(n, s) /\ e.viaCase
      BY DEF Cased
    <3> QED BY <3>1, <3>2, <3>3, <3>4, <3>5, <2>1, <2>2, <1>1, <1>5 DEF BestOfRead
  <2> QED BY <2>3, <2>4
<1> QED BY <1>6, <1>7, <1>8 DEF DiscoveryInv

LEMMA FoundWhenListed ==
  ASSUME DiscoveryInv
  PROVE  EveryCardIsFound
<1> SUFFICES ASSUME Listed, NEW s \in Serials
             PROVE  LET shown == {i \in DOMAIN machine.blocks :
                      Candidate(machine.blocks[i]) /\ machine.blocks[i].serial = s}
                        cased == {i \in shown : machine.blocks[i].viaCase}
                        answering == {i \in DOMAIN machine.hidraws :
                          machine.hidraws[i].vendor /\ machine.hidraws[i].uniq = s}
                    IN /\ best[s] = IF cased # {} THEN Min(cased)
                                    ELSE IF shown # {} THEN Min(shown) ELSE NoDevice
                       /\ hid[s] = IF answering # {} THEN Max(answering) ELSE NoDevice
  BY DEF EveryCardIsFound
<1> DEFINE shown == {i \in DOMAIN machine.blocks : Shows(i, s)}
           cased == {i \in shown : machine.blocks[i].viaCase}
           answering == {i \in DOMAIN machine.hidraws : Answers(i, s)}
<1>1. /\ DOMAIN machine.blocks = 1..blocks /\ DOMAIN machine.hidraws = 1..hids
      /\ best[s] \in 0..blocks /\ hid[s] \in 0..hids /\ blocks \in Nat /\ hids \in Nat
      /\ HidOfRead(s) /\ BestOfRead(s)
  BY DEF DiscoveryInv, DiscoveryTypeOK, Listed
<1>2. best[s] = IF cased # {} THEN Min(cased) ELSE IF shown # {} THEN Min(shown) ELSE NoDevice
  <2>1. CASE cased # {}
    <3>1. best[s] \in cased /\ \A i \in cased : best[s] <= i
      BY <2>1, <1>1 DEF BestOfRead, Cased, NoDevice
    <3>2. cased \subseteq Nat
      BY <1>1
    <3> HIDE DEF cased
    <3> QED BY <2>1, <3>1, <3>2, MinOf
  <2>2. CASE cased = {} /\ shown # {}
    <3>1. ~Cased(best[s], s) \/ best[s] = NoDevice
      BY <2>2, <1>1 DEF Cased, NoDevice
    <3>2. best[s] \in shown /\ \A i \in shown : best[s] <= i
      BY <2>2, <3>1, <1>1 DEF BestOfRead, NoDevice
    <3>3. shown \subseteq Nat
      BY <1>1
    <3> HIDE DEF shown
    <3>4. Min(shown) = best[s]
      BY <3>2, <3>3, MinOf
    <3> QED BY <2>2, <3>4
  <2>3. CASE cased = {} /\ shown = {}
    <3>1. best[s] = NoDevice
      BY <2>3, <1>1 DEF BestOfRead, NoDevice
    <3> QED BY <3>1, <2>3
  <2> QED BY <2>1, <2>2, <2>3
<1>3. hid[s] = IF answering # {} THEN Max(answering) ELSE NoDevice
  <2>1. CASE answering # {}
    <3>1. hid[s] \in answering /\ \A i \in answering : i <= hid[s]
      BY <2>1, <1>1 DEF HidOfRead, NoDevice
    <3>2. answering \subseteq Nat
      BY <1>1
    <3> HIDE DEF answering
    <3> QED BY <2>1, <3>1, <3>2, MaxOf
  <2>2. CASE answering = {}
    BY <2>2, <1>1 DEF HidOfRead, NoDevice
  <2> QED BY <2>1, <2>2
<1> QED BY <1>2, <1>3 DEF Shows, Answers

\* Whatever sysfs lists, and in whatever order, each readable card is kept once,
\* by the case's node if it has one and with its own transmitter.
THEOREM CardsAreFound == DiscoverySpec => []EveryCardIsFound
<1>1. DiscoveryInv /\ [DiscoveryNext]_discoveryVars => DiscoveryInv'
  <2> SUFFICES ASSUME DiscoveryInv, [DiscoveryNext]_discoveryVars PROVE DiscoveryInv'
    OBVIOUS
  <2>1. CASE ReadHidraw
    BY <2>1, HidrawStep
  <2>2. CASE ReadBlockNode
    BY <2>2, BlockStep
  <2>3. CASE UNCHANGED discoveryVars
    BY <2>3 DEF discoveryVars, DiscoveryInv, DiscoveryTypeOK, HidOfRead, BestOfRead, Answers,
      Cased, Shows, Candidate
  <2> QED BY <2>1, <2>2, <2>3 DEF DiscoveryNext
<1> QED BY <1>1, DiscoveryStarts, FoundWhenListed, PTL DEF DiscoverySpec
=============================================================================

------------------------------ MODULE Delivery ------------------------------
(* What handing recordings over to be named promises: each is served once,   *)
(* in the order they were filed, and only the youngest are ever given up (to *)
(* the next launch).                                                         *)
EXTENDS Naturals

VARIABLES
  filed,   \* how many were filed; the n-th is n
  onWay,   \* those not yet served
  served   \* those served

deliveryVars == <<filed, onWay, served>>

Init == filed = 0 /\ onWay = {} /\ served = {}

File ==
  /\ filed' = filed + 1
  /\ onWay' = onWay \cup {filed'}
  /\ UNCHANGED served

\* The oldest is served.
Serve ==
  /\ \E i \in onWay :
       /\ \A j \in onWay : i <= j
       /\ onWay' = onWay \ {i} /\ served' = served \cup {i}
  /\ UNCHANGED filed

GiveUp ==
  /\ \E k \in 0..filed : onWay' = {i \in onWay : i <= k}
  /\ UNCHANGED <<filed, served>>

Spec == Init /\ [][File \/ Serve \/ GiveUp]_deliveryVars

\* What follows from it: none is served before an older one that is still to be.
ServedInOrder ==
  /\ onWay \cup served \subseteq 1..filed
  /\ \A i \in served, j \in onWay : i < j
=============================================================================

--------------------------- MODULE EraseHidProofs ---------------------------
(***************************************************************************)
(* Theorems of EraseHid: whatever the transmitter does, however many       *)
(* reports it sends and however long the deadline, the answer of erase()   *)
(* is true of the card, and each step of the host comes nearer to it.      *)
(***************************************************************************)
EXTENDS EraseHid, SequenceTheorems, FiniteSetTheorems, TLAPS

\* Reports are told apart by their status.
LEMMA ReportStatus ==
  /\ \A p : Ack(p).status = "ack" /\ Ack(p) # Nack /\ Ack(p) # Other
  /\ Nack.status = "nack" /\ Other.status = "other" /\ Nack # Other
  /\ Nack \in Report /\ Other \in Report
  /\ \A p \in Percent : Ack(p) \in Report
<1>1. \A p : Ack(p).status = "ack"
  BY DEF Ack
<1>2. Nack.status = "nack" /\ Other.status = "other"
  BY DEF Nack, Other
<1>3. Nack \in Report /\ Other \in Report /\ \A p \in Percent : Ack(p) \in Report
  BY DEF Report
<1> QED BY <1>1, <1>2, <1>3

\* The initial state satisfies the invariant.
LEMMA HidInit == EraseHidInit => HidInv
<1> SUFFICES ASSUME EraseHidInit PROVE HidInv
  OBVIOUS
<1>1. EraseHidTypeOK
  <2>1. percents \in Seq(Percent) /\ wire \in Seq(Report)
    BY EmptySeq DEF EraseHidInit
  <2>2. idle \in 0..Patience /\ noise \in 0..MaxNoise
    BY EraseHidAssumption DEF EraseHidInit
  <2>3. result \in Outcome /\ step \in {"opening", "waiting", "done"}
    BY DEF EraseHidInit, Outcome
  <2>4. firmware \in {"ready", "told", "reporting", "over"}
        /\ wiped \in BOOLEAN /\ gone \in BOOLEAN
    BY DEF EraseHidInit
  <2> QED BY <2>1, <2>2, <2>3, <2>4 DEF EraseHidTypeOK
<1>2. FirmwareAgrees
  BY DEF EraseHidInit, FirmwareAgrees
<1> QED BY <1>1, <1>2 DEF HidInv

\* What every step of the host that takes a report leaves of the wire.
LEMMA ReceivedWire ==
  ASSUME NEW r, EraseHidTypeOK, FirmwareAgrees, Received(r)
  PROVE  /\ r \in Report /\ r = wire[1]
         /\ r.status = "ack" => wiped
         /\ r.status = "nack" => firmware = "over" /\ ~wiped
         /\ wire' \in Seq(Report)
         /\ \A i \in DOMAIN wire' :
              /\ wire'[i].status = "ack" => wiped
              /\ wire'[i].status = "nack" => firmware = "over" /\ ~wiped
<1>1. wire \in Seq(Report) /\ wire # <<>> /\ Len(wire) \in Nat \ {0}
  BY EmptySeq, LenProperties DEF EraseHidTypeOK, Received
<1>2. r = wire[1] /\ 1 \in DOMAIN wire /\ r \in Report
  BY <1>1, ElementOfSeq DEF Received
<1>3. wire' = Tail(wire) /\ wire' \in Seq(Report) /\ Len(wire') = Len(wire) - 1
  BY <1>1, HeadTailProperties DEF Received
<1>4. \A i \in DOMAIN wire' : i + 1 \in DOMAIN wire /\ wire'[i] = wire[i + 1]
  BY <1>1, <1>3, HeadTailProperties, LenProperties
<1> QED BY <1>2, <1>3, <1>4 DEF FirmwareAgrees

\* A report added to the wire, which the card does not belie.
LEMMA SentWire ==
  ASSUME NEW r \in Report, EraseHidTypeOK, FirmwareAgrees,
         wire' = Append(wire, r)
  PROVE  /\ wire' \in Seq(Report)
         /\ \A i \in DOMAIN wire' :
              \/ i \in DOMAIN wire /\ wire'[i] = wire[i]
              \/ wire'[i] = r
<1>1. wire \in Seq(Report)
  BY DEF EraseHidTypeOK
<1>2. /\ wire' \in Seq(Report)
      /\ Len(wire') = Len(wire) + 1
      /\ \A i \in 1..Len(wire) : wire'[i] = wire[i]
      /\ wire'[Len(wire) + 1] = r
  BY <1>1, AppendProperties
<1>3. Len(wire) \in Nat /\ DOMAIN wire = 1..Len(wire)
      /\ DOMAIN wire' = 1..(Len(wire) + 1)
  BY <1>1, <1>2, LenProperties
<1> QED BY <1>2, <1>3

\* The host preserves the invariant: it only takes reports from the wire, and
\* answers by them.
LEMMA HostKeeps == HidInv /\ Host => HidInv'
<1> SUFFICES ASSUME HidInv, Host PROVE HidInv'
  OBVIOUS
<1> USE DEF HidInv
<1>0. Patience \in Nat \ {0}
  BY EraseHidAssumption
<1>1. CASE SendCommand
  <2>1. EraseHidTypeOK'
    BY <1>1 DEF SendCommand, Return, EraseHidTypeOK, Outcome
  <2>2. FirmwareAgrees'
    BY <1>1 DEF SendCommand, Return, FirmwareAgrees
  <2> QED BY <2>1, <2>2
<1>2. CASE OpenRaises \/ GiveUp \/ ReadRaises \/ ReadGone
  <2>1. /\ step' = "done" /\ step \in {"opening", "waiting"}
        /\ result' \in {"raised", "unknown", "reenumerated", "failed"}
        /\ result' = "reenumerated" => percents # <<>>
        /\ UNCHANGED <<percents, idle, deviceVars>>
    BY <1>2 DEF OpenRaises, GiveUp, ReadRaises, ReadGone, Waiting, Return
  <2>2. EraseHidTypeOK'
    BY <2>1 DEF EraseHidTypeOK, Outcome, deviceVars
  <2>3. FirmwareAgrees'
    BY <2>1 DEF FirmwareAgrees, deviceVars
  <2> QED BY <2>2, <2>3
<1>3. CASE ReadOther
  <2>1. Received(Other) /\ UNCHANGED <<step, percents, result>>
    BY <1>3 DEF ReadOther
  <2>2. EraseHidTypeOK'
    BY <1>0, <2>1, ReceivedWire DEF EraseHidTypeOK, Received
  <2>3. FirmwareAgrees'
    BY <2>1, ReceivedWire DEF FirmwareAgrees, Received, Waiting
  <2> QED BY <2>2, <2>3
<1>4. CASE ReadRefusal
  <2>1. /\ Received(Nack) /\ Nack.status = "nack"
        /\ step' = "done" /\ result' = "refused" /\ UNCHANGED percents
    BY <1>4, ReportStatus DEF ReadRefusal, Return
  <2>2. EraseHidTypeOK'
    BY <1>0, <2>1, ReceivedWire DEF EraseHidTypeOK, Received, Outcome
  <2>3. firmware = "over" /\ ~wiped
    BY <2>1, ReceivedWire
  <2>4. FirmwareAgrees'
    BY <2>1, <2>3, ReceivedWire DEF FirmwareAgrees, Received, Waiting
  <2> QED BY <2>2, <2>4
<1>5. CASE ReadProgress
  <2>1. PICK p \in Percent :
          /\ Received(Ack(p))
          /\ percents' = Append(percents, p)
          /\ IF p >= COMPLETE THEN Return("complete")
             ELSE UNCHANGED <<step, result>>
    BY <1>5 DEF ReadProgress
  <2>2. wiped
    BY <2>1, ReceivedWire, ReportStatus
  <2>3. percents' \in Seq(Percent)
    BY <2>1, AppendProperties DEF EraseHidTypeOK
  <2>4. /\ step' \in {"waiting", "done"} /\ result' \in Outcome
        /\ step' = "waiting" <=> result' = "none"
        /\ result' # "refused"
    BY <2>1 DEF Received, Waiting, Return, EraseHidTypeOK, FirmwareAgrees, Outcome
  <2>5. EraseHidTypeOK'
    BY <1>0, <2>1, <2>3, <2>4, ReceivedWire DEF EraseHidTypeOK, Received
  <2>6. firmware \in {"reporting", "over"}
    BY <2>2 DEF FirmwareAgrees, EraseHidTypeOK
  <2>7. FirmwareAgrees'
    BY <2>1, <2>2, <2>4, <2>6, ReceivedWire DEF FirmwareAgrees, Received
  <2> QED BY <2>5, <2>7
<1>6. CASE ReadNothing
  <2>1. /\ idle' = idle + 1 /\ idle \in 0..Patience /\ idle < Patience
        /\ UNCHANGED <<step, percents, result, deviceVars>>
    BY <1>6 DEF ReadNothing, Waiting, EraseHidTypeOK
  <2>2. EraseHidTypeOK'
    BY <1>0, <2>1 DEF EraseHidTypeOK, deviceVars
  <2>3. FirmwareAgrees'
    BY <2>1 DEF FirmwareAgrees, deviceVars
  <2> QED BY <2>2, <2>3
<1> QED BY <1>1, <1>2, <1>3, <1>4, <1>5, <1>6 DEF Host, Loop

\* The transmitter preserves it: it acknowledges nothing it has not done, and
\* refuses only what it will not do.
LEMMA DeviceKeeps == HidInv /\ Device => HidInv'
<1> SUFFICES ASSUME HidInv, Device PROVE HidInv'
  OBVIOUS
<1> USE DEF HidInv
<1>1. CASE Refuse
  <2>1. /\ firmware = "told" /\ firmware' = "over" /\ ~wiped
        /\ UNCHANGED <<hostVars, wiped, gone, noise>>
    BY <1>1 DEF Refuse, FirmwareAgrees
  <2>2. CASE gone
    BY <1>1, <2>1, <2>2
    DEF Refuse, EraseHidTypeOK, FirmwareAgrees, hostVars
  <2>3. CASE ~gone
    <3>1. wire' = Append(wire, Nack)
      BY <1>1, <2>3 DEF Refuse
    <3>2. EraseHidTypeOK'
      BY <2>1, <3>1, SentWire, ReportStatus DEF EraseHidTypeOK, hostVars
    <3>3. FirmwareAgrees'
      BY <2>1, <3>1, SentWire, ReportStatus DEF FirmwareAgrees, hostVars
    <3> QED BY <3>2, <3>3
  <2> QED BY <2>2, <2>3
<1>2. CASE Work
  <2>1. EraseHidTypeOK'
    BY <1>2 DEF Work, EraseHidTypeOK, hostVars
  <2>2. FirmwareAgrees'
    BY <1>2 DEF Work, FirmwareAgrees, hostVars
  <2> QED BY <2>1, <2>2
<1>3. CASE Tell
  <2>1. PICK p \in Percent :
          /\ wire' = Append(wire, Ack(p))
          /\ firmware' = IF p >= COMPLETE THEN "over" ELSE "reporting"
    BY <1>3 DEF Tell
  <2>2. /\ firmware = "reporting" /\ wiped
        /\ UNCHANGED <<hostVars, wiped, gone, noise>>
    BY <1>3 DEF Tell, FirmwareAgrees
  <2>3. EraseHidTypeOK'
    BY <2>1, <2>2, SentWire, ReportStatus DEF EraseHidTypeOK, hostVars
  <2>4. firmware' \in {"reporting", "over"} /\ result # "refused"
    BY <2>1, <2>2 DEF FirmwareAgrees
  <2>5. \A i \in DOMAIN wire' : wire'[i].status # "nack"
    BY <2>1, <2>2, SentWire, ReportStatus DEF FirmwareAgrees
  <2>6. FirmwareAgrees'
    BY <2>2, <2>4, <2>5 DEF FirmwareAgrees, hostVars
  <2> QED BY <2>3, <2>6
<1>4. CASE Hang \/ Vanish
  <2>1. EraseHidTypeOK'
    BY <1>4 DEF Hang, Vanish, EraseHidTypeOK, hostVars
  <2>2. FirmwareAgrees'
    BY <1>4 DEF Hang, Vanish, FirmwareAgrees, hostVars
  <2> QED BY <2>1, <2>2
<1>5. CASE Chatter
  <2>1. /\ wire' = Append(wire, Other) /\ noise' = noise + 1 /\ noise < MaxNoise
        /\ UNCHANGED <<hostVars, firmware, wiped, gone>>
    BY <1>5 DEF Chatter
  <2>2. EraseHidTypeOK'
    BY <2>1, SentWire, ReportStatus, EraseHidAssumption
    DEF EraseHidTypeOK, hostVars
  <2>3. FirmwareAgrees'
    BY <2>1, SentWire, ReportStatus DEF FirmwareAgrees, hostVars
  <2> QED BY <2>2, <2>3
<1> QED BY <1>1, <1>2, <1>3, <1>4, <1>5 DEF Device

\* The invariant holds throughout the exchange.
THEOREM HidInvariant == EraseHidSpec => []HidInv
<1>1. HidInv /\ [EraseHidNext]_vars => HidInv'
  <2> SUFFICES ASSUME HidInv, [EraseHidNext]_vars PROVE HidInv'
    OBVIOUS
  <2>1. CASE Host
    BY <2>1, HostKeeps
  <2>2. CASE Device
    BY <2>2, DeviceKeeps
  <2>3. CASE UNCHANGED vars
    BY <2>3 DEF HidInv, EraseHidTypeOK, FirmwareAgrees, vars, hostVars, deviceVars
  <2> QED BY <2>1, <2>2, <2>3 DEF EraseHidNext
<1> QED BY HidInit, <1>1, PTL DEF EraseHidSpec

\* The exchange is well typed: the deadline never passes unseen.
THEOREM HidTypes == EraseHidSpec => []EraseHidTypeOK
<1>1. HidInv => EraseHidTypeOK
  BY DEF HidInv
<1> QED BY HidInvariant, <1>1, PTL

\* Whatever the transmitter does and however long anyone waits, an answer of
\* erase() is true of the card: complete and reenumerated mean that it was
\* wiped, refused that it was not.
THEOREM AnswersAreTrue == EraseHidSpec => []OutcomeTellsTheCard
<1>1. HidInv => OutcomeTellsTheCard
  BY DEF HidInv, EraseHidTypeOK, FirmwareAgrees, OutcomeTellsTheCard,
         Outcome, MayWipe, MaySpare
<1> QED BY HidInvariant, <1>1, PTL

-----------------------------------------------------------------------------
(* The refinement. *)

\* An answer once given stays, and one is given only of the card as it is.
LEMMA HostAnswersOnce ==
  ASSUME HidInv, Host
  PROVE  /\ UNCHANGED wiped
         /\ result' # result => result = "none" /\ step' = "done"
<1> USE DEF HidInv, EraseHidTypeOK, FirmwareAgrees
<1>1. CASE SendCommand \/ OpenRaises \/ GiveUp \/ ReadRaises \/ ReadGone
  BY <1>1 DEF SendCommand, OpenRaises, GiveUp, ReadRaises, ReadGone, Waiting,
              Return, deviceVars
<1>2. CASE ReadOther \/ ReadRefusal
  BY <1>2 DEF ReadOther, ReadRefusal, Received, Waiting, Return
<1>3. CASE ReadProgress
  BY <1>3 DEF ReadProgress, Received, Waiting, Return
<1>4. CASE ReadNothing
  BY <1>4 DEF ReadNothing, deviceVars
<1> QED BY <1>1, <1>2, <1>3, <1>4 DEF Host, Loop

\* The transmitter answers nothing itself, and works only while the card has
\* not been refused to the user nor reported wiped.
LEMMA DeviceWorksInTime ==
  ASSUME HidInv, Device
  PROVE  /\ UNCHANGED result
         /\ wiped' # wiped =>
              /\ wiped' = TRUE
              /\ result \in {"none"} \cup (MayWipe \cap MaySpare)
<1>1. CASE Work
  <2>1. firmware = "told" /\ wiped' = TRUE /\ UNCHANGED hostVars /\ ~wiped
    BY <1>1 DEF Work, HidInv, FirmwareAgrees
  <2>2. result \in {"none"} \cup (MayWipe \cap MaySpare)
    BY <2>1 DEF HidInv, EraseHidTypeOK, FirmwareAgrees, Outcome, MayWipe, MaySpare
  <2> QED BY <2>1, <2>2 DEF hostVars
<1>2. CASE Refuse \/ Tell \/ Hang \/ Vanish \/ Chatter
  BY <1>2 DEF Refuse, Tell, Hang, Vanish, Chatter, hostVars
<1> QED BY <1>1, <1>2 DEF Device

\* The exchange with any transmitter implements Exchange: one answer, true of
\* the card when it is given and, unless it leaves the card open, ever after.
THEOREM HidKeepsExchange == EraseHidSpec => ExchangeIsKept
<1>1. EraseHidInit => Promise!Init
  BY DEF EraseHidInit, Promise!Init
<1>2. HidInv /\ HidInv' /\ [EraseHidNext]_vars => [Promise!Next]_<<result, wiped>>
  <2> SUFFICES ASSUME HidInv, HidInv', [EraseHidNext]_vars
               PROVE  [Promise!Next]_<<result, wiped>>
    OBVIOUS
  <2>1. CASE Host /\ result' # result
    <3>1. result = "none" /\ step' = "done" /\ UNCHANGED wiped
      BY <2>1, HostAnswersOnce
    <3>2. result' \in (IF wiped' THEN MayWipe ELSE MaySpare)
      BY <3>1 DEF HidInv, EraseHidTypeOK, FirmwareAgrees, Outcome, MayWipe, MaySpare
    <3>3. Promise!Answer
      BY <3>1, <3>2 DEF Promise!Answer, Promise!MayWipe, Promise!MaySpare, MayWipe, MaySpare
    <3> QED BY <3>3 DEF Promise!Next
  <2>2. CASE Host /\ result' = result
    BY <2>2, HostAnswersOnce
  <2>3. CASE Device
    <3>1. CASE wiped' # wiped
      BY <2>3, <3>1, DeviceWorksInTime
      DEF Promise!Next, Promise!Work, Promise!MayWipe, Promise!MaySpare, MayWipe, MaySpare
    <3>2. CASE wiped' = wiped
      BY <2>3, <3>2, DeviceWorksInTime
    <3> QED BY <3>1, <3>2
  <2>4. CASE UNCHANGED vars
    BY <2>4 DEF vars, hostVars, deviceVars
  <2> QED BY <2>1, <2>2, <2>3, <2>4 DEF EraseHidNext
<1> QED BY <1>1, <1>2, HidInvariant, PTL DEF EraseHidSpec, ExchangeIsKept, Promise!Spec

-----------------------------------------------------------------------------
(* The exchange comes to an end: what can be said of it without fairness. *)

\* The percentages up to the last that neither were read nor are on their way.
Told(p) ==
  \/ \E i \in DOMAIN wire : wire[i].status = "ack" /\ wire[i].value >= p
  \/ \E i \in DOMAIN percents : percents[i] >= p
Untold == {p \in 0..COMPLETE : ~Told(p)}

\* The reports the host can still read: those on the wire, and those the
\* transmitter can still send.
Budget ==
  Cardinality(Untold) + Len(wire) + (MaxNoise - noise)
  + (IF firmware \in {"ready", "told"} THEN 1 ELSE 0)

\* While the transmitter reports it has not told the last percentage.
LastIsUntold == firmware = "reporting" => COMPLETE \in Untold

\* Nearer the end of the exchange: a step of the host answers, leaves a report
\* fewer to read, or is a read fewer to the deadline; no step of the transmitter
\* makes reports out of nothing or touches the deadline.
ExchangeComesNearer ==
  /\ Budget' \in 0..Budget
  /\ Device => UNCHANGED <<step, idle>>
  /\ Host /\ step = "waiting" =>
       \/ step' = "done"
       \/ Budget' < Budget
       \/ idle' = idle + 1 /\ idle' <= Patience

\* Reading a report keeps what was told: an acknowledgement is now a percentage.
LEMMA ReadingKeepsTold ==
  ASSUME HidInv, NEW r, Received(r),
         \/ UNCHANGED percents /\ r.status # "ack"
         \/ \E p \in Percent : r = Ack(p) /\ percents' = Append(percents, p)
  PROVE  Untold' = Untold /\ Len(wire') = Len(wire) - 1 /\ Len(wire) \in Nat \ {0}
<1>1. wire \in Seq(Report) /\ wire # <<>> /\ wire' = Tail(wire) /\ r = wire[1]
  BY DEF HidInv, EraseHidTypeOK, Received
<1>2. /\ Len(wire) \in Nat \ {0} /\ DOMAIN wire = 1..Len(wire)
      /\ Len(wire') = Len(wire) - 1 /\ DOMAIN wire' = 1..(Len(wire) - 1)
      /\ \A i \in 1..(Len(wire) - 1) : wire'[i] = wire[i + 1]
  BY <1>1, HeadTailProperties, EmptySeq, LenProperties
<1>3. \A i \in DOMAIN wire' : i + 1 \in DOMAIN wire /\ wire'[i] = wire[i + 1]
  BY <1>2
<1>4. \A i \in DOMAIN wire : i = 1 \/ (i - 1 \in DOMAIN wire' /\ wire'[i - 1] = wire[i])
  BY <1>2
<1>5. 1 \in DOMAIN wire
  BY <1>2
<1>6. ASSUME NEW q
      PROVE  (\E i \in DOMAIN wire : wire[i].status = "ack" /\ wire[i].value >= q)
             <=> \/ \E i \in DOMAIN wire' : wire'[i].status = "ack" /\ wire'[i].value >= q
                 \/ r.status = "ack" /\ r.value >= q
  <2>1. ASSUME NEW i \in DOMAIN wire, wire[i].status = "ack" /\ wire[i].value >= q
        PROVE  \/ \E j \in DOMAIN wire' : wire'[j].status = "ack" /\ wire'[j].value >= q
               \/ r.status = "ack" /\ r.value >= q
    <3>1. CASE i = 1
      BY <1>1, <2>1, <3>1
    <3>2. CASE i - 1 \in DOMAIN wire' /\ wire'[i - 1] = wire[i]
      BY <2>1, <3>2
    <3> QED BY <1>4, <3>1, <3>2
  <2>2. ASSUME NEW i \in DOMAIN wire', wire'[i].status = "ack" /\ wire'[i].value >= q
        PROVE  \E j \in DOMAIN wire : wire[j].status = "ack" /\ wire[j].value >= q
    BY <1>3, <2>2
  <2>3. ASSUME r.status = "ack" /\ r.value >= q
        PROVE  \E j \in DOMAIN wire : wire[j].status = "ack" /\ wire[j].value >= q
    BY <1>1, <1>5, <2>3
  <2> QED BY <2>1, <2>2, <2>3
<1>7. ASSUME NEW q PROVE Told(q)' <=> Told(q)
  <2>1. CASE UNCHANGED percents /\ r.status # "ack"
    BY <1>6, <2>1 DEF Told
  <2>2. CASE \E p \in Percent : r = Ack(p) /\ percents' = Append(percents, p)
    <3>1. PICK p \in Percent : r = Ack(p) /\ percents' = Append(percents, p)
      BY <2>2
    <3>2. percents \in Seq(Percent)
      BY DEF HidInv, EraseHidTypeOK
    <3>3. /\ Len(percents) \in Nat /\ DOMAIN percents = 1..Len(percents)
          /\ percents' \in Seq(Percent) /\ Len(percents') = Len(percents) + 1
          /\ \A i \in 1..Len(percents) : percents'[i] = percents[i]
          /\ percents'[Len(percents) + 1] = p
      BY <3>1, <3>2, AppendProperties, LenProperties
    <3>4. DOMAIN percents' = 1..(Len(percents) + 1)
      BY <3>3, LenProperties
    <3>5. /\ \A i \in DOMAIN percents : i \in DOMAIN percents' /\ percents'[i] = percents[i]
          /\ \A i \in DOMAIN percents' : \/ i \in DOMAIN percents /\ percents'[i] = percents[i]
                                         \/ percents'[i] = p
          /\ \E i \in DOMAIN percents' : percents'[i] = p
      BY <3>3, <3>4
    <3>6. r.status = "ack" /\ r.value = p
      BY <3>1 DEF Ack
    <3>7. (\E i \in DOMAIN percents' : percents'[i] >= q)
          <=> (\E i \in DOMAIN percents : percents[i] >= q) \/ p >= q
      BY <3>5
    <3> QED BY <1>6, <3>6, <3>7 DEF Told
  <2> QED BY <2>1, <2>2
<1>8. Untold' = Untold
  BY <1>7 DEF Untold
<1> QED BY <1>2, <1>8

\* A report more on the wire tells at most what it says.
LEMMA SendingKeepsTold ==
  ASSUME HidInv, NEW r \in Report, wire' = Append(wire, r), UNCHANGED percents
  PROVE  /\ Len(wire') = Len(wire) + 1 /\ Len(wire) \in Nat
         /\ \A q : Told(q)' <=> Told(q) \/ (r.status = "ack" /\ r.value >= q)
<1>1. /\ Len(wire) \in Nat /\ DOMAIN wire = 1..Len(wire)
      /\ Len(wire') = Len(wire) + 1 /\ DOMAIN wire' = 1..(Len(wire) + 1)
      /\ \A i \in 1..Len(wire) : wire'[i] = wire[i]
      /\ wire'[Len(wire) + 1] = r
  <2>1. wire \in Seq(Report)
    BY DEF HidInv, EraseHidTypeOK
  <2>2. /\ wire' \in Seq(Report) /\ Len(wire') = Len(wire) + 1
        /\ \A i \in 1..Len(wire) : wire'[i] = wire[i]
        /\ wire'[Len(wire) + 1] = r
    BY <2>1, AppendProperties
  <2> QED BY <2>1, <2>2, LenProperties
<1>2. /\ \A i \in DOMAIN wire : i \in DOMAIN wire' /\ wire'[i] = wire[i]
      /\ \A i \in DOMAIN wire' : (i \in DOMAIN wire /\ wire'[i] = wire[i]) \/ wire'[i] = r
      /\ \E i \in DOMAIN wire' : wire'[i] = r
  BY <1>1
<1> QED BY <1>1, <1>2 DEF Told

LEMMA UntoldIsFinite ==
  IsFiniteSet(Untold) /\ Cardinality(Untold) \in Nat
<1>1. COMPLETE \in Nat
  BY EraseHidAssumption
<1>2. IsFiniteSet(0..COMPLETE)
  BY <1>1, FS_Interval
<1>3. Untold \in SUBSET (0..COMPLETE)
  BY DEF Untold
<1> QED BY <1>2, <1>3, FS_Subset, FS_CardinalityType

\* With nothing more told than before, and no report more to read or to send,
\* the budget is what it was.
LEMMA HostComesNearer ==
  ASSUME HidInv, HidInv', Host
  PROVE  /\ Budget' \in 0..Budget
         /\ Untold' = Untold
         /\ step = "waiting" =>
              \/ step' = "done"
              \/ Budget' < Budget
              \/ idle' = idle + 1 /\ idle' <= Patience
<1> DEFINE open == IF firmware \in {"ready", "told"} THEN 1 ELSE 0
<1>1. Cardinality(Untold) \in Nat
  BY UntoldIsFinite
<1>2. MaxNoise - noise \in Nat
  BY EraseHidAssumption DEF HidInv, EraseHidTypeOK
<1>3. open \in {0, 1}
  OBVIOUS
<1>4. wire \in Seq(Report) /\ Len(wire) \in Nat
  BY LenProperties DEF HidInv, EraseHidTypeOK
<1>5. Budget = Cardinality(Untold) + Len(wire) + (MaxNoise - noise) + open
  BY DEF Budget
<1>6. CASE SendCommand
  <2>1. firmware = "ready" /\ firmware' = "told" /\ step = "opening"
    BY <1>6 DEF SendCommand, HidInv, FirmwareAgrees
  <2>2. UNCHANGED <<percents, wire, noise>>
    BY <1>6 DEF SendCommand
  <2>3. Untold' = Untold
    BY <2>2 DEF Untold, Told
  <2>4. open' = open
    BY <2>1
  <2>5. Budget' = Budget
    BY <2>2, <2>3, <2>4 DEF Budget
  <2> HIDE DEF open
  <2> QED BY <1>1, <1>2, <1>3, <1>4, <1>5, <2>1, <2>3, <2>5
<1>7. CASE OpenRaises \/ GiveUp \/ ReadRaises \/ ReadGone
  <2>1. step' = "done" /\ UNCHANGED <<percents, firmware, wire, noise>>
    BY <1>7 DEF OpenRaises, GiveUp, ReadRaises, ReadGone, Return, deviceVars
  <2>2. Untold' = Untold
    BY <2>1 DEF Untold, Told
  <2>3. Budget' = Budget
    BY <2>1, <2>2 DEF Budget
  <2> HIDE DEF open
  <2> QED BY <1>1, <1>2, <1>3, <1>4, <1>5, <2>1, <2>2, <2>3
<1>8. CASE ReadOther \/ ReadRefusal \/ ReadProgress
  <2>1. \E r : /\ Received(r)
               /\ \/ UNCHANGED percents /\ r.status # "ack"
                  \/ \E p \in Percent : r = Ack(p) /\ percents' = Append(percents, p)
    <3>1. CASE ReadOther
      <4>1. Received(Other) /\ UNCHANGED percents /\ Other.status # "ack"
        BY <3>1, ReportStatus DEF ReadOther
      <4> QED BY <4>1
    <3>2. CASE ReadRefusal
      <4>1. Received(Nack) /\ UNCHANGED percents /\ Nack.status # "ack"
        BY <3>2, ReportStatus DEF ReadRefusal
      <4> QED BY <4>1
    <3>3. CASE ReadProgress
      BY <3>3 DEF ReadProgress
    <3> QED BY <1>8, <3>1, <3>2, <3>3
  <2>2. /\ Untold' = Untold /\ Len(wire') = Len(wire) - 1 /\ Len(wire) \in Nat \ {0}
        /\ UNCHANGED <<firmware, noise>>
    BY <2>1, ReadingKeepsTold DEF Received
  <2>3. Budget' = Cardinality(Untold) + (Len(wire) - 1) + (MaxNoise - noise) + open
    BY <2>2 DEF Budget
  <2> HIDE DEF open
  <2> QED BY <1>1, <1>2, <1>3, <1>5, <2>2, <2>3
<1>9. CASE ReadNothing
  <2>1. /\ idle' = idle + 1 /\ idle < Patience
        /\ UNCHANGED <<percents, firmware, wire, noise>>
    BY <1>9 DEF ReadNothing, Waiting, deviceVars
  <2>2. idle' <= Patience
    BY <2>1, EraseHidAssumption DEF HidInv, EraseHidTypeOK
  <2>3. Untold' = Untold
    BY <2>1 DEF Untold, Told
  <2>4. Budget' = Budget
    BY <2>1, <2>3 DEF Budget
  <2> HIDE DEF open
  <2> QED BY <1>1, <1>2, <1>3, <1>4, <1>5, <2>1, <2>2, <2>3, <2>4
<1> QED BY <1>6, <1>7, <1>8, <1>9 DEF Host, Loop

\* A percentage told is one fewer to tell.
LEMMA TellingSpends ==
  ASSUME HidInv, LastIsUntold, Tell
  PROVE  /\ Cardinality(Untold') \in Nat /\ Cardinality(Untold') < Cardinality(Untold)
         /\ Len(wire') = Len(wire) + 1
         /\ LastIsUntold'
<1>1. PICK p \in Percent :
        /\ \A i \in DOMAIN wire : wire[i].value < p
        /\ \A i \in DOMAIN percents : percents[i] < p
        /\ wire' = Append(wire, Ack(p))
        /\ firmware' = IF p >= COMPLETE THEN "over" ELSE "reporting"
  BY DEF Tell
<1>2. p \in Nat /\ COMPLETE \in Nat /\ Percent \subseteq Nat
  BY EraseHidAssumption
<1>3. Ack(p) \in Report /\ Ack(p).status = "ack" /\ Ack(p).value = p /\ UNCHANGED percents
  BY ReportStatus DEF Tell, hostVars, Ack
<1>4. Len(wire') = Len(wire) + 1 /\ \A q : Told(q)' <=> Told(q) \/ p >= q
  BY <1>1, <1>3, SendingKeepsTold
<1>5. COMPLETE \in Untold
  BY DEF Tell, LastIsUntold
<1>6. Untold' = {q \in Untold : ~(p >= q)}
  BY <1>4 DEF Untold
<1>7. Untold' \subseteq Untold
  BY <1>6
<1>8. Untold' # Untold
  <2>1. CASE p >= COMPLETE
    BY <1>5, <1>6, <2>1
  <2>2. CASE ~(p >= COMPLETE)
    <3>1. p \in 0..COMPLETE /\ p >= p
      BY <1>2, <2>2
    <3>2. ~Told(p)
      <4>1. \A i \in DOMAIN percents : ~(percents[i] >= p)
        <5>1. percents \in Seq(Percent)
          BY DEF HidInv, EraseHidTypeOK
        <5>2. \A i \in DOMAIN percents : percents[i] \in Percent
          BY <5>1, ElementOfSeq, LenProperties
        <5>3. \A i \in DOMAIN percents : percents[i] \in Nat /\ percents[i] < p
          BY <1>1, <1>2, <5>2
        <5> QED BY <1>2, <5>3
      <4>2. \A i \in DOMAIN wire : wire[i].status = "ack" => ~(wire[i].value >= p)
        <5>1. \A i \in DOMAIN wire : wire[i] \in Report
          BY ElementOfSeq, LenProperties DEF HidInv, EraseHidTypeOK
        <5>2. \A r \in Report : r.value \in Nat
          BY <1>2 DEF Report, Ack, Nack, Other
        <5> QED BY <1>1, <1>2, <5>1, <5>2
      <4> QED BY <4>1, <4>2 DEF Told
    <3> QED BY <1>6, <3>1, <3>2 DEF Untold
  <2> QED BY <2>1, <2>2
<1>9. Cardinality(Untold') \in Nat /\ Cardinality(Untold') < Cardinality(Untold)
  <2>1. /\ IsFiniteSet(Untold) /\ Cardinality(Untold) \in Nat
    BY UntoldIsFinite
  <2>2. /\ IsFiniteSet(Untold') /\ Cardinality(Untold') <= Cardinality(Untold)
        /\ Cardinality(Untold') # Cardinality(Untold)
    BY <1>7, <1>8, <2>1, FS_Subset
  <2>3. Cardinality(Untold') \in Nat
    BY <2>2, FS_CardinalityType
  <2> QED BY <2>1, <2>2, <2>3
<1>10. LastIsUntold'
  <2>1. CASE p >= COMPLETE
    BY <1>1, <2>1 DEF LastIsUntold
  <2>2. CASE ~(p >= COMPLETE)
    BY <1>5, <1>6, <2>2 DEF LastIsUntold
  <2> QED BY <2>1, <2>2
<1> QED BY <1>4, <1>9, <1>10

\* The transmitter spends what it sends, and what it does is none of the host's.
LEMMA DeviceSpends ==
  ASSUME HidInv, HidInv', LastIsUntold, Device
  PROVE  Budget' \in 0..Budget /\ LastIsUntold' /\ UNCHANGED <<step, idle>>
<1> DEFINE open == IF firmware \in {"ready", "told"} THEN 1 ELSE 0
<1>1. Cardinality(Untold) \in Nat
  BY UntoldIsFinite
<1>2. MaxNoise - noise \in Nat /\ noise \in Nat /\ MaxNoise \in Nat
  BY EraseHidAssumption DEF HidInv, EraseHidTypeOK
<1>3. open \in {0, 1}
  OBVIOUS
<1>4. Len(wire) \in Nat
  BY LenProperties DEF HidInv, EraseHidTypeOK
<1>5. Budget = Cardinality(Untold) + Len(wire) + (MaxNoise - noise) + open
  BY DEF Budget
<1>6. UNCHANGED <<step, idle, percents>>
  BY DEF Device, Refuse, Work, Tell, Hang, Vanish, Chatter, hostVars
<1>7. CASE Refuse
  <2>1. firmware = "told" /\ firmware' = "over" /\ UNCHANGED noise
    BY <1>7 DEF Refuse
  <2>2. Len(wire') \in {Len(wire), Len(wire) + 1} /\ Untold' = Untold
    <3>1. CASE gone
      <4>1. UNCHANGED wire
        BY <1>7, <3>1 DEF Refuse
      <4> QED BY <1>6, <4>1 DEF Untold, Told
    <3>2. CASE ~gone
      <4>1. wire' = Append(wire, Nack) /\ Nack \in Report /\ Nack.status # "ack"
        BY <1>7, <3>2, ReportStatus DEF Refuse
      <4>2. /\ Len(wire') = Len(wire) + 1
            /\ \A q : Told(q)' <=> Told(q) \/ (Nack.status = "ack" /\ Nack.value >= q)
        BY <1>6, <4>1, SendingKeepsTold
      <4>3. Untold' = Untold
        BY <4>1, <4>2 DEF Untold
      <4> QED BY <4>2, <4>3
    <3> QED BY <3>1, <3>2
  <2>3. open = 1 /\ open' = 0
    BY <2>1
  <2>4. Budget' = Cardinality(Untold) + Len(wire') + (MaxNoise - noise)
    BY <1>1, <1>2, <1>4, <2>1, <2>2, <2>3 DEF Budget
  <2>5. LastIsUntold'
    BY <2>1 DEF LastIsUntold
  <2> HIDE DEF open
  <2> QED BY <1>1, <1>2, <1>4, <1>5, <1>6, <2>2, <2>3, <2>4, <2>5
<1>8. CASE Work
  <2>1. /\ firmware = "told" /\ firmware' = "reporting" /\ UNCHANGED <<wire, noise>>
        /\ percents = <<>> /\ ~wiped
    BY <1>8 DEF Work, HidInv, FirmwareAgrees
  <2>2. Untold' = Untold
    BY <1>6, <2>1 DEF Untold, Told
  <2>3. open = 1 /\ open' = 0
    BY <2>1
  <2>4. Budget' = Cardinality(Untold) + Len(wire) + (MaxNoise - noise)
    BY <1>1, <1>2, <1>4, <2>1, <2>2, <2>3 DEF Budget
  <2>5. COMPLETE \in Untold
    <3>1. \A i \in DOMAIN wire : wire[i].status # "ack"
      BY <2>1 DEF HidInv, FirmwareAgrees
    <3>2. DOMAIN percents = {}
      BY <2>1
    <3>3. COMPLETE \in 0..COMPLETE
      BY EraseHidAssumption
    <3> QED BY <3>1, <3>2, <3>3 DEF Untold, Told
  <2>6. LastIsUntold'
    BY <2>2, <2>5 DEF LastIsUntold
  <2> HIDE DEF open
  <2> QED BY <1>1, <1>2, <1>4, <1>5, <1>6, <2>3, <2>4, <2>6
<1>9. CASE Tell
  <2>1. firmware = "reporting" /\ firmware' \in {"over", "reporting"} /\ UNCHANGED noise
    BY <1>9 DEF Tell
  <2>2. open = 0 /\ open' = 0
    BY <2>1
  <2>3. Budget' = Cardinality(Untold') + (Len(wire) + 1) + (MaxNoise - noise)
    BY <1>9, <1>2, <1>4, <2>1, <2>2, TellingSpends DEF Budget
  <2> HIDE DEF open
  <2> QED BY <1>1, <1>2, <1>4, <1>5, <1>6, <1>9, <2>2, <2>3, TellingSpends
<1>10. CASE Hang
  <2>1. firmware' = "over" /\ UNCHANGED <<wire, noise>>
    BY <1>10 DEF Hang
  <2>2. Untold' = Untold
    BY <1>6, <2>1 DEF Untold, Told
  <2>3. open' = 0
    BY <2>1
  <2>4. Budget' = Cardinality(Untold) + Len(wire) + (MaxNoise - noise)
    BY <1>1, <1>2, <1>4, <2>1, <2>2, <2>3 DEF Budget
  <2>5. LastIsUntold'
    BY <2>1 DEF LastIsUntold
  <2> HIDE DEF open
  <2> QED BY <1>1, <1>2, <1>3, <1>4, <1>5, <1>6, <2>4, <2>5
<1>11. CASE Vanish
  <2>1. UNCHANGED <<firmware, wire, noise>>
    BY <1>11 DEF Vanish
  <2>2. Untold' = Untold
    BY <1>6, <2>1 DEF Untold, Told
  <2>3. Budget' = Budget
    BY <2>1, <2>2 DEF Budget
  <2>4. LastIsUntold'
    BY <2>1, <2>2 DEF LastIsUntold
  <2> HIDE DEF open
  <2> QED BY <1>1, <1>2, <1>3, <1>4, <1>5, <1>6, <2>3, <2>4
<1>12. CASE Chatter
  <2>1. wire' = Append(wire, Other) /\ Other \in Report /\ Other.status # "ack"
        /\ noise' = noise + 1 /\ UNCHANGED firmware
    BY <1>12, ReportStatus DEF Chatter
  <2>2. /\ Len(wire') = Len(wire) + 1
        /\ \A q : Told(q)' <=> Told(q) \/ (Other.status = "ack" /\ Other.value >= q)
    BY <1>6, <2>1, SendingKeepsTold
  <2>3. Untold' = Untold
    BY <2>1, <2>2 DEF Untold
  <2>4. Budget' = Cardinality(Untold) + (Len(wire) + 1) + (MaxNoise - (noise + 1)) + open
    BY <2>1, <2>2, <2>3 DEF Budget
  <2>5. LastIsUntold'
    BY <2>1, <2>3 DEF LastIsUntold
  <2> HIDE DEF open
  <2> QED BY <1>1, <1>2, <1>3, <1>4, <1>5, <1>6, <2>4, <2>5
<1> QED BY <1>7, <1>8, <1>9, <1>10, <1>11, <1>12 DEF Device

\* A transmitter that still reports still owes its last percentage.
LEMMA LastStaysUntold ==
  EraseHidSpec => []LastIsUntold
<1>1. EraseHidInit => LastIsUntold
  BY DEF EraseHidInit, LastIsUntold
<1>2. HidInv /\ HidInv' /\ LastIsUntold /\ [EraseHidNext]_vars => LastIsUntold'
  <2> SUFFICES ASSUME HidInv, HidInv', LastIsUntold, [EraseHidNext]_vars
               PROVE  LastIsUntold'
    OBVIOUS
  <2>1. CASE Host
    <3>1. Untold' = Untold
      BY <2>1, HostComesNearer
    <3>2. firmware' = "reporting" => firmware = "reporting"
      BY <2>1 DEF Host, Loop, SendCommand, OpenRaises, GiveUp, ReadOther, ReadRefusal,
                  ReadProgress, ReadNothing, ReadGone, ReadRaises, Received, deviceVars
    <3> QED BY <3>1, <3>2 DEF LastIsUntold
  <2>2. CASE Device
    BY <2>2, DeviceSpends
  <2>3. CASE UNCHANGED vars
    BY <2>3 DEF vars, hostVars, deviceVars, LastIsUntold, Untold, Told
  <2> QED BY <2>1, <2>2, <2>3 DEF EraseHidNext
<1> QED BY <1>1, <1>2, HidInvariant, PTL DEF EraseHidSpec

\* Whatever the transmitter sends and whenever it falls silent, the host reads
\* at most what Budget allows and waits at most Patience times between two
\* reports: what ExchangeEnds needs besides that each system call returns.
THEOREM ExchangeNeverTurnsBack == EraseHidSpec => [][ExchangeComesNearer]_vars
<1>1. HidInv /\ HidInv' /\ LastIsUntold /\ [EraseHidNext]_vars => [ExchangeComesNearer]_vars
  <2> SUFFICES ASSUME HidInv, HidInv', LastIsUntold, EraseHidNext
               PROVE  ExchangeComesNearer
    OBVIOUS
  <2>1. Device => Budget' \in 0..Budget /\ UNCHANGED <<step, idle>>
    BY DeviceSpends
  <2>2. Host => /\ Budget' \in 0..Budget
                /\ step = "waiting" =>
                     \/ step' = "done"
                     \/ Budget' < Budget
                     \/ idle' = idle + 1 /\ idle' <= Patience
    BY HostComesNearer
  <2> QED BY <2>1, <2>2 DEF ExchangeComesNearer, EraseHidNext
<1> QED BY <1>1, HidInvariant, LastStaysUntold, PTL DEF EraseHidSpec
=============================================================================

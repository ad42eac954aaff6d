------------------------------ MODULE EraseHid ------------------------------
(***************************************************************************)
(* erase.py: one command written to a hidraw node, and the reports read    *)
(* back until the transmitter has finished, refused, gone or fallen        *)
(* silent.  The transmitter is external: it does the work and then reports *)
(* percentages in a burst, or refuses, or hangs; it re-enumerates when it  *)
(* has finished and may be lifted at any moment.                           *)
(***************************************************************************)
EXTENDS Naturals, Sequences, EraseOutcomes

CONSTANTS
  Percent,   \* the percentages it may report
  COMPLETE,  \* the one that ends the exchange
  Patience,  \* reads without a report before the deadline
  MaxNoise   \* bound: reports that are no answer to the command

ASSUME EraseHidAssumption ==
  /\ Percent \subseteq Nat
  /\ COMPLETE \in Percent
  /\ Patience \in Nat \ {0}
  /\ MaxNoise \in Nat

VARIABLES
  step,      \* where erase() is
  percents,  \* the percentages it has read
  idle,      \* reads since the last report: the deadline
  result,    \* its EraseResult, or "raised"
  firmware,  \* what the transmitter is at
  wiped,     \* its card has been wiped
  wire,      \* reports on their way
  gone,      \* the node is dead
  noise      \* unrelated reports sent so far

hostVars == <<step, percents, idle, result>>
deviceVars == <<firmware, wiped, wire, gone, noise>>
vars == <<hostVars, deviceVars>>

Ack(p) == [status |-> "ack", value |-> p]
Nack == [status |-> "nack", value |-> 0]
Other == [status |-> "other", value |-> 0]
Report == {Ack(p) : p \in Percent} \cup {Nack, Other}

EraseHidTypeOK ==
  /\ step \in {"opening", "waiting", "done"}
  /\ percents \in Seq(Percent)
  /\ idle \in 0..Patience
  /\ result \in Outcome
  /\ firmware \in {"ready", "told", "reporting", "over"}
  /\ wiped \in BOOLEAN
  /\ wire \in Seq(Report)
  /\ gone \in BOOLEAN
  /\ noise \in 0..MaxNoise

EraseHidInit ==
  /\ step = "opening" /\ percents = <<>> /\ idle = 0 /\ result = "none"
  /\ firmware = "ready" /\ wiped = FALSE /\ wire = <<>>
  /\ gone \in BOOLEAN /\ noise = 0

-----------------------------------------------------------------------------
(* The host. *)

Return(r) == step' = "done" /\ result' = r

\* The node is opened and the command written: a control transfer, which can
\* fail before or after the transmitter took it.
SendCommand ==
  /\ step = "opening"
  /\ ~gone
  /\ firmware' = "told"
  /\ \/ step' = "waiting" /\ UNCHANGED result
     \/ Return("raised")
  /\ UNCHANGED <<percents, idle, wiped, wire, gone, noise>>

OpenRaises ==
  /\ step = "opening"
  /\ Return("raised")
  /\ UNCHANGED <<percents, idle, deviceVars>>

Waiting == step = "waiting" /\ idle < Patience

\* The deadline has come.
GiveUp ==
  /\ step = "waiting"
  /\ idle >= Patience
  /\ Return("unknown")
  /\ UNCHANGED <<percents, idle, deviceVars>>

Received(r) ==
  /\ Waiting
  /\ wire # <<>>
  /\ Head(wire) = r
  /\ wire' = Tail(wire)
  /\ idle' = 0
  /\ UNCHANGED <<firmware, wiped, gone, noise>>

\* Variant: what is no acknowledgement is a refusal.
OtherRefuses ==
  /\ Received(Other)
  /\ Return("refused")
  /\ UNCHANGED percents

\* A report of something else, short, or of no known status.
ReadOther ==
  /\ Received(Other)
  /\ UNCHANGED <<step, percents, result>>

ReadRefusal ==
  /\ Received(Nack)
  /\ Return("refused")
  /\ UNCHANGED percents

ReadProgress ==
  \E p \in Percent :
    /\ Received(Ack(p))
    /\ percents' = Append(percents, p)
    /\ IF p >= COMPLETE THEN Return("complete") ELSE UNCHANGED <<step, result>>

\* Variant: the deadline is pushed back at every turn.
DeadlineRenewed ==
  /\ Waiting
  /\ wire = <<>> /\ ~gone
  /\ idle' = 0
  /\ UNCHANGED <<step, percents, result, deviceVars>>

\* A timeout, EAGAIN or EINTR: round again.
ReadNothing ==
  /\ Waiting
  /\ wire = <<>> /\ ~gone
  /\ idle' = idle + 1
  /\ UNCHANGED <<step, percents, result, deviceVars>>

\* Variant: the node's disappearance is always the normal end.
GoneIsDone ==
  /\ Waiting
  /\ wire = <<>> /\ gone
  /\ Return("reenumerated")
  /\ UNCHANGED <<percents, idle, deviceVars>>

\* ENODEV, ENXIO or EIO: the node disappeared.
ReadGone ==
  /\ Waiting
  /\ wire = <<>> /\ gone
  /\ Return(IF percents # <<>> THEN "reenumerated" ELSE "failed")
  /\ UNCHANGED <<percents, idle, deviceVars>>

\* Any other error of the node.
ReadRaises ==
  /\ Waiting
  /\ Return("raised")
  /\ UNCHANGED <<percents, idle, deviceVars>>

\* What the loop does when no system call fails of itself.
Loop ==
  \/ SendCommand \/ GiveUp
  \/ ReadOther \/ ReadRefusal \/ ReadProgress
  \/ ReadNothing \/ ReadGone

Host == Loop \/ OpenRaises \/ ReadRaises

-----------------------------------------------------------------------------
(* The transmitter. *)

Refuse ==
  /\ firmware = "told"
  /\ firmware' = "over"
  /\ wire' = IF gone THEN wire ELSE Append(wire, Nack)
  /\ UNCHANGED <<hostVars, wiped, gone, noise>>

Work ==
  /\ firmware = "told"
  /\ wiped' = TRUE
  /\ firmware' = "reporting"
  /\ UNCHANGED <<hostVars, wire, gone, noise>>

\* The burst: percentages in order, some perhaps never sent.
Tell ==
  /\ firmware = "reporting" /\ ~gone
  /\ \E p \in Percent :
       /\ \A i \in DOMAIN wire : wire[i].value < p
       /\ \A i \in DOMAIN percents : percents[i] < p
       /\ wire' = Append(wire, Ack(p))
       /\ firmware' = IF p >= COMPLETE THEN "over" ELSE "reporting"
  /\ UNCHANGED <<hostVars, wiped, gone, noise>>

\* It hangs, before the work or after it.
Hang ==
  /\ firmware \in {"told", "reporting"}
  /\ firmware' = "over"
  /\ UNCHANGED <<hostVars, wiped, wire, gone, noise>>

\* Re-enumeration, or a hand: what was queued can still be read.
Vanish ==
  /\ ~gone
  /\ gone' = TRUE
  /\ UNCHANGED <<hostVars, firmware, wiped, wire, noise>>

Chatter ==
  /\ ~gone /\ noise < MaxNoise
  /\ noise' = noise + 1
  /\ wire' = Append(wire, Other)
  /\ UNCHANGED <<hostVars, firmware, wiped, gone>>

Device == Refuse \/ Work \/ Tell \/ Hang \/ Vanish \/ Chatter

EraseHidNext == Host \/ Device
EraseHidSpec == EraseHidInit /\ [][EraseHidNext]_vars /\ WF_vars(Loop)

-----------------------------------------------------------------------------
\* What the firmware is at agrees with the card and with what it has said.
FirmwareAgrees ==
  /\ firmware \in {"ready", "told"} => ~wiped /\ percents = <<>>
  /\ firmware = "reporting" => wiped
  /\ step = "opening" => firmware = "ready"
  /\ step \in {"opening", "waiting"} <=> result = "none"
  /\ percents # <<>> => wiped
  /\ result \in {"complete", "reenumerated"} => wiped
  /\ result = "refused" => firmware = "over" /\ ~wiped
  /\ \A i \in DOMAIN wire :
       /\ wire[i].status = "ack" => wiped
       /\ wire[i].status = "nack" => firmware = "over" /\ ~wiped

\* The inductive invariant of the exchange.
HidInv == EraseHidTypeOK /\ FirmwareAgrees

\* Whatever erase() answers is true of the card: complete and reenumerated
\* only if it was wiped, refused only if it was not, and every other answer
\* one of those that leave it open.
OutcomeTellsTheCard ==
  step = "done" => result \in (IF wiped THEN MayWipe ELSE MaySpare)

\* The exchange implements what Exchange promises: the answer is the last word,
\* and a refused card is not wiped afterwards either.
Promise == INSTANCE Exchange WITH answer <- result, empty <- wiped
ExchangeIsKept == Promise!Spec

\* The window is frozen behind this loop: it ends, unless reports keep coming.
ExchangeEnds == step = "waiting" ~> step = "done"
=============================================================================

------------------------------- MODULE Attach -------------------------------
(***************************************************************************)
(* The cable side of the analyzer, pd_phy_h417.c: debounced attach, the    *)
(* ladder that wakes a silent charger (Get_Source_Cap, a Hi-Z pause on CC, *)
(* two Soft Resets, one Hard Reset with its recovery), and detach.         *)
(*                                                                         *)
(* The main loop runs Poll, Det_Proc, the timers, Attach_Tick and          *)
(* Srccap_Tick in this order, each one step here; the user moves the cable *)
(* and the receive interrupt queues packets between any two of them.  Time *)
(* is counted in passes of the loop, one unit each, and the thresholds are *)
(* in those units.                                                         *)
(***************************************************************************)
EXTENDS Integers, Sequences

CONSTANTS
  QueueLen,    \* slots of the deferred ring (PD_RX_DEFER_QUEUE_LEN)
  MaxDrain,    \* packets one Poll hands over (drain > 8)
  BootTime,    \* boot_ms < 1500
  BounceTime,  \* ANALYZER_CABLE_BOUNCE_MS
  Debounce,    \* ANALYZER_ATTACH_DEBOUNCE_MS
  DetMax,      \* det_cnt >= 10
  GetSrcTime,  \* ANALYZER_GETSRCCAP_TIMEOUT_MS
  StaleWake,   \* ANALYZER_STALE_WAKE_MS
  StaleBounce, \* ANALYZER_STALE_BOUNCE_MS
  SoftTime,    \* ANALYZER_SOFTRESET_MS
  SoftRetry,   \* ANALYZER_SOFTRESET_RETRY_MS
  HardTime,    \* ANALYZER_HARDRESET_MS
  Recovery,    \* ANALYZER_HRST_RECOVERY_MS
  Advance,     \* ANALYZER_HRST_RECOVERY_MS - 300
  Giveup,      \* ANALYZER_HRST_GIVEUP_MS
  Wrap,        \* a uint16_t of milliseconds, in units
  MaxCtrl      \* bound: Accept and Soft_Reset packets of the charger

Times == {BootTime, BounceTime, Debounce, DetMax, GetSrcTime, StaleWake,
          StaleBounce, SoftTime, SoftRetry, HardTime, Recovery, Advance,
          Giveup}

ASSUME TimeAssumption == Times \subseteq Nat
ASSUME WrapAssumption == Wrap \in Nat \ {0}
ASSUME BoundAssumption == {QueueLen, MaxDrain, MaxCtrl} \subseteq Nat

SoftMax == 2   \* ANALYZER_SOFTRESET_MAX

CC       == {1, 2}
None     == 0
Kinds    == {"caps", "ctrl", "other"}   \* ctrl: Accept or Soft_Reset
Handlers == {"none", "idle", "other"}   \* idle: pProt_IDLE, pProt_RX_SrcCap

VARIABLES
  cable,        \* the CC line the charger pulls up, None when unplugged
  phase,        \* where the main loop stands
  drain,        \* packets the current Poll has handed over
  inbox,        \* the deferred ring
  handler,      \* PD_PHY.pRxFinish
  connected,    \* PD_DEVICE.ConnectStat
  started, bootMs,           \* phy_started, boot_ms
  bouncePhase, bounceMs,     \* bounce_phase (and cable_at_boot), bounce_ms
  hiZ,          \* the CC pins are analog inputs, the interrupt off
  physCc,       \* physical_cc, active_cc
  detCnt, pendingCc, debounceMs,
  gotSrcCap, getsrcSent, waitMs,
  wakeBounce, wakeMs, wakeDone, wakeCycle,
  softCnt, hrstSent, hrstRec, hrstReinit, hrstMs,
  ctrls,        \* Accept and Soft_Reset packets so far
  wakes, softs, hards   \* history: what this attach has put the charger to

bootVars   == <<started, bootMs, bouncePhase, bounceMs>>
senseVars  == <<detCnt, pendingCc, debounceMs>>
capsVars   == <<gotSrcCap, getsrcSent, waitMs>>
wakeVars   == <<wakeBounce, wakeMs, wakeDone, wakeCycle>>
resetVars  == <<softCnt, hrstSent, hrstRec, hrstReinit, hrstMs>>
histVars   == <<wakes, softs, hards>>
packetVars == <<inbox, handler, connected>>
vars == <<cable, phase, drain, packetVars, bootVars, hiZ, physCc, senseVars,
          capsVars, wakeVars, resetVars, ctrls, histVars>>

Init ==
  /\ cable \in CC \cup {None}
  /\ phase = "poll" /\ drain = 0
  /\ inbox = <<>> /\ handler = "none" /\ connected = FALSE
  /\ started = FALSE /\ bootMs = 0 /\ bouncePhase = FALSE /\ bounceMs = 0
  /\ hiZ = TRUE /\ physCc = None
  /\ detCnt = 0 /\ pendingCc = None /\ debounceMs = 0
  /\ gotSrcCap = FALSE /\ getsrcSent = FALSE /\ waitMs = 0
  /\ wakeBounce = FALSE /\ wakeMs = 0 /\ wakeDone = FALSE /\ wakeCycle = 0
  /\ softCnt = 0 /\ hrstSent = FALSE /\ hrstRec = FALSE
  /\ hrstReinit = FALSE /\ hrstMs = 0
  /\ ctrls = 0 /\ wakes = 0 /\ softs = 0 /\ hards = 0

-----------------------------------------------------------------------------
(* Shared steps of the code *)

\* PD_Analyzer_Reset_Attach_State
ResetAttachState ==
  /\ pendingCc' = None /\ debounceMs' = 0
  /\ gotSrcCap' = FALSE /\ getsrcSent' = FALSE /\ waitMs' = 0

\* PD_Analyzer_Physical_Attach
PhysicalAttach(cc) ==
  /\ physCc' = cc
  /\ detCnt' = 0
  /\ ResetAttachState
  /\ wakeDone' = FALSE /\ wakeCycle' = 0 /\ UNCHANGED <<wakeBounce, wakeMs>>
  /\ softCnt' = 0 /\ hrstSent' = FALSE /\ hrstRec' = FALSE
  /\ hrstReinit' = FALSE /\ hrstMs' = 0
  /\ wakes' = 0 /\ softs' = 0 /\ hards' = 0

\* Mutant: the protocol stays armed over a detach (ConnectStat kept)
DoDetachArmed ==
  /\ physCc' = None /\ detCnt' = 0
  /\ wakeCycle' = 0 /\ wakeDone' = FALSE /\ wakeBounce' = FALSE
  /\ softCnt' = 0 /\ hrstSent' = FALSE /\ hrstRec' = FALSE
  /\ hrstReinit' = FALSE /\ hrstMs' = 0
  /\ ResetAttachState
  /\ inbox' = <<>>
  /\ UNCHANGED <<connected, handler, wakeMs, histVars>>

\* PD_Analyzer_Do_Detach: pDevice_Unattached aborts the receiver, which
\* empties the ring; pRxFinish stays as the session left it.
DoDetach ==
  /\ physCc' = None /\ detCnt' = 0
  /\ wakeCycle' = 0 /\ wakeDone' = FALSE /\ wakeBounce' = FALSE
  /\ softCnt' = 0 /\ hrstSent' = FALSE /\ hrstRec' = FALSE
  /\ hrstReinit' = FALSE /\ hrstMs' = 0
  /\ ResetAttachState
  /\ inbox' = <<>> /\ connected' = FALSE
  /\ UNCHANGED <<handler, wakeMs, histVars>>

\* Whether PD_Detect_Analyzer sees the charger on the line already selected
Sensed == cable = physCc

-----------------------------------------------------------------------------
(* The user and the charger *)

MoveCable ==
  /\ cable' \in (CC \cup {None}) \ {cable}
  /\ cable = None \/ cable' = None
  /\ UNCHANGED <<phase, drain, packetVars, bootVars, hiZ, physCc, senseVars,
                 capsVars, wakeVars, resetVars, ctrls, histVars>>

\* The receiver hears the charger on the selected line
Listening == ~hiZ /\ physCc \in CC /\ cable = physCc

\* Mutant: a packet is queued however full the ring is
ReceiveUnbounded(kind) ==
  /\ Listening
  /\ connected \/ kind \in {"caps", "ctrl"}
  /\ kind = "ctrl" => ctrls < MaxCtrl
  /\ ctrls' = IF kind = "ctrl" THEN ctrls + 1 ELSE ctrls
  /\ inbox' = Append(inbox, kind)
  /\ UNCHANGED <<cable, phase, drain, handler, connected, bootVars, hiZ,
                 physCc, senseVars, capsVars, wakeVars, resetVars, histVars>>

\* The interrupt answers a packet (pd_analyzer_may_goodcrc) and queues it
Receive(kind) ==
  /\ Listening
  /\ connected \/ kind \in {"caps", "ctrl"}
  /\ Len(inbox) < QueueLen
  /\ kind = "ctrl" => ctrls < MaxCtrl
  /\ ctrls' = IF kind = "ctrl" THEN ctrls + 1 ELSE ctrls
  /\ inbox' = Append(inbox, kind)
  /\ UNCHANGED <<cable, phase, drain, handler, connected, bootVars, hiZ,
                 physCc, senseVars, capsVars, wakeVars, resetVars, histVars>>

\* A Hard Reset of the charger: the IF_RX_RESET branch
ReceiveHardReset ==
  /\ Listening
  /\ inbox' = <<>>
  /\ handler' = IF connected THEN "idle" ELSE handler
  /\ hrstMs' = IF ~connected /\ hrstRec /\ hrstMs < Advance
               THEN Advance ELSE hrstMs
  /\ UNCHANGED <<cable, phase, drain, connected, bootVars, hiZ, physCc,
                 senseVars, capsVars, wakeVars, softCnt, hrstSent, hrstRec,
                 hrstReinit, ctrls, histVars>>

-----------------------------------------------------------------------------
(* PD_PHY_Poll: PD_PHY_RunDeferredRx *)

\* PD_Analyzer_On_Valid_SrcCap, from pProt_RX_SrcCap, which leaves a handler
OnValidSrcCap ==
  /\ gotSrcCap' = TRUE /\ waitMs' = 0 /\ UNCHANGED getsrcSent
  /\ handler' \in Handlers \ {"none"}

\* The handler the policy engine had set takes the packet.  pProt_IDLE and
\* pProt_RX_SrcCap pass Source_Capabilities on; a handler that waits for one
\* particular answer may or may not.  Some end in PD_PHY_Abort.
ByHandler(kind) ==
  /\ handler # "none"
  /\ \/ /\ kind = "caps" /\ OnValidSrcCap
        /\ inbox' = Tail(inbox)
     \/ /\ ~(kind = "caps" /\ handler = "idle")
        /\ handler' \in Handlers
        /\ inbox' \in {Tail(inbox), <<>>}
        /\ UNCHANGED capsVars
  /\ UNCHANGED <<connected, pendingCc, debounceMs>>

\* No handler: the first Source_Capabilities arms the protocol
\* (PD_Analyzer_Protocol_Attach; PD_PHY_Reset_Value empties the ring)
ByDefaultCaps(kind) ==
  /\ handler = "none" /\ physCc # None /\ kind = "caps"
  /\ connected' = TRUE
  /\ OnValidSrcCap
  /\ inbox' = IF connected THEN Tail(inbox) ELSE <<>>
  /\ UNCHANGED <<pendingCc, debounceMs>>

\* Mutant: an armed protocol is not spared
ByDefaultCtrlArmed(kind) ==
  /\ handler = "none" /\ physCc # None /\ kind = "ctrl"
  /\ ResetAttachState
  /\ inbox' = Tail(inbox)
  /\ UNCHANGED <<handler, connected>>

\* No handler: an Accept or a Soft_Reset before that starts the wait afresh
ByDefaultCtrl(kind) ==
  /\ handler = "none" /\ physCc # None /\ kind = "ctrl" /\ ~connected
  /\ ResetAttachState
  /\ inbox' = Tail(inbox)
  /\ UNCHANGED <<handler, connected>>

\* No handler: every other packet is dropped
ByDefaultDrop(kind) ==
  /\ handler = "none"
  /\ kind = "other" \/ (kind = "ctrl" /\ connected)
  /\ inbox' = Tail(inbox)
  /\ UNCHANGED <<handler, connected, pendingCc, debounceMs, capsVars>>

PollPacket ==
  /\ phase = "poll" /\ inbox # <<>> /\ drain < MaxDrain
  /\ drain' = drain + 1
  /\ \/ ByHandler(Head(inbox)) \/ ByDefaultCaps(Head(inbox))
     \/ ByDefaultCtrl(Head(inbox)) \/ ByDefaultDrop(Head(inbox))
  /\ UNCHANGED <<cable, phase, bootVars, hiZ, physCc, detCnt, wakeVars,
                 resetVars, ctrls, histVars>>

PollDone ==
  /\ phase = "poll" /\ (inbox = <<>> \/ drain = MaxDrain)
  /\ phase' = "det" /\ drain' = 0
  /\ UNCHANGED <<cable, packetVars, bootVars, hiZ, physCc, senseVars,
                 capsVars, wakeVars, resetVars, ctrls, histVars>>

-----------------------------------------------------------------------------
(* PD_Analyzer_Det_Proc *)

DetBoot ==
  /\ ~started /\ bootMs < BootTime
  /\ bootMs' = bootMs + 1
  /\ UNCHANGED <<started, bouncePhase, bounceMs, hiZ, physCc, packetVars,
                 senseVars, capsVars, wakeVars, resetVars, histVars>>

\* PD_Analyzer_PHY_Start: a cable already in is first let go for a while
DetStart ==
  /\ ~started /\ bootMs >= BootTime
  /\ started' = TRUE
  /\ bouncePhase' = (cable # None)
  /\ hiZ' = (cable # None)
  /\ UNCHANGED <<bootMs, bounceMs, physCc, packetVars, senseVars, capsVars,
                 wakeVars, resetVars, histVars>>

DetInWake ==
  /\ started /\ wakeBounce
  /\ UNCHANGED <<bootVars, hiZ, physCc, packetVars, senseVars, capsVars,
                 wakeVars, resetVars, histVars>>

\* Mutant: detection also runs while the pins are let go for a wake
DetAttachedInWake ==
  /\ started /\ physCc # None
  /\ UNCHANGED <<bootVars, hiZ>>
  /\ \/ /\ ~Sensed /\ ~hrstRec /\ detCnt + 1 >= DetMax
        /\ DoDetach
     \/ /\ ~(~Sensed /\ ~hrstRec /\ detCnt + 1 >= DetMax)
        /\ detCnt' = IF Sensed THEN 0 ELSE detCnt + 1
        /\ UNCHANGED <<physCc, packetVars, pendingCc, debounceMs, capsVars,
                       wakeVars, resetVars, histVars>>

DetAttached ==
  /\ started /\ ~wakeBounce /\ physCc # None
  /\ UNCHANGED <<bootVars, hiZ>>
  /\ \/ /\ ~Sensed /\ ~hrstRec /\ detCnt + 1 >= DetMax
        /\ DoDetach
     \/ /\ \/ Sensed /\ detCnt' = 0
           \/ ~Sensed /\ hrstRec /\ UNCHANGED detCnt
           \/ /\ ~Sensed /\ ~hrstRec /\ detCnt + 1 < DetMax
              /\ detCnt' = detCnt + 1
        /\ UNCHANGED <<physCc, packetVars, pendingCc, debounceMs, capsVars,
                       wakeVars, resetVars, histVars>>

DetDetached ==
  /\ started /\ ~wakeBounce /\ physCc = None
  /\ detCnt' = 0
  /\ UNCHANGED <<bootVars, hiZ, physCc, packetVars, pendingCc, debounceMs,
                 capsVars, wakeVars, resetVars, histVars>>

Det ==
  /\ phase = "det" /\ phase' = "timers"
  /\ DetBoot \/ DetStart \/ DetInWake \/ DetAttached \/ DetDetached
  /\ UNCHANGED <<cable, drain, ctrls>>

-----------------------------------------------------------------------------
(* PD_PHY_TickMs: delayed transmissions and answer timeouts of the policy  *)
(* engine, then PD_Analyzer_Attach_Tick                                    *)

Timers ==
  /\ phase = "timers" /\ phase' = "attach"
  /\ IF gotSrcCap \/ handler # "none"
     THEN /\ handler' \in {handler} \cup (Handlers \ {"none"})
          /\ inbox' \in {inbox, <<>>}
     ELSE UNCHANGED <<handler, inbox>>
  /\ UNCHANGED <<cable, drain, connected, bootVars, hiZ, physCc, senseVars,
                 capsVars, wakeVars, resetVars, ctrls, histVars>>

AttachWaits ==
  /\ \/ ~started
     \/ ~bouncePhase /\ physCc # None
  /\ UNCHANGED <<bouncePhase, bounceMs, hiZ, physCc, senseVars, capsVars,
                 wakeVars, resetVars, histVars>>

\* The cable found at power-up is let go until bounceMs is over, then
\* attached without debounce
AttachBounce ==
  /\ started /\ bouncePhase
  /\ bounceMs' = bounceMs + 1
  /\ bouncePhase' = (bounceMs' < BounceTime)
  /\ hiZ' = bouncePhase'
  /\ IF ~bouncePhase' /\ cable # None
     THEN PhysicalAttach(cable)
     ELSE UNCHANGED <<physCc, senseVars, capsVars, wakeVars, resetVars,
                      histVars>>

AttachDebounce ==
  /\ started /\ ~bouncePhase /\ physCc = None
  /\ UNCHANGED <<bouncePhase, bounceMs, hiZ>>
  /\ \/ /\ cable # None /\ cable = pendingCc /\ debounceMs + 1 >= Debounce
        /\ PhysicalAttach(cable)
     \/ /\ pendingCc' = cable
        /\ \/ cable = None /\ debounceMs' = 0
           \/ cable # None /\ cable # pendingCc /\ debounceMs' = 1
           \/ /\ cable # None /\ cable = pendingCc
              /\ debounceMs + 1 < Debounce
              /\ debounceMs' = debounceMs + 1
        /\ UNCHANGED <<physCc, detCnt, capsVars, wakeVars, resetVars,
                       histVars>>

AttachTick ==
  /\ phase = "attach" /\ phase' = "srccap"
  /\ AttachWaits \/ AttachBounce \/ AttachDebounce
  /\ UNCHANGED <<cable, drain, packetVars, started, bootMs, ctrls>>

-----------------------------------------------------------------------------
(* PD_Analyzer_Srccap_Tick *)

SrccapOff ==
  /\ physCc = None \/ gotSrcCap
  /\ UNCHANGED <<inbox, hiZ, pendingCc, debounceMs, capsVars, wakeVars,
                 resetVars, histVars>>

Waiting == physCc # None /\ ~gotSrcCap

\* Mutant: the recovery of a charger that stays silent is never given up
HrstTickNoGiveup ==
  LET again == ~hrstReinit /\ hrstMs + 1 >= Recovery
  IN /\ Waiting /\ hrstRec
     /\ hrstMs' = IF hrstMs < Recovery THEN hrstMs + 1 ELSE hrstMs
     /\ hrstReinit' = (hrstReinit \/ again)
     /\ inbox' = IF again THEN <<>> ELSE inbox
     /\ hiZ' = (hiZ /\ ~again)
     /\ UNCHANGED <<pendingCc, debounceMs, capsVars, hrstRec, wakeVars,
                    softCnt, hrstSent, histVars>>

\* PD_Analyzer_Hrst_Recovery_Tick
HrstTick ==
  LET again  == ~hrstReinit /\ hrstMs + 1 >= Recovery
      asked  == getsrcSent /\ ~again
      asking == hrstReinit' /\ ~asked /\ hrstMs + 1 >= Recovery + GetSrcTime
  IN /\ Waiting /\ hrstRec
     /\ hrstMs' = hrstMs + 1
     /\ hrstReinit' = (hrstReinit \/ again)
     /\ inbox' = IF again THEN <<>> ELSE inbox
     /\ IF again
        THEN pendingCc' = None /\ debounceMs' = 0 /\ waitMs' = 0
        ELSE UNCHANGED <<pendingCc, debounceMs, waitMs>>
     /\ getsrcSent' = (asked \/ asking)
     /\ hrstRec' = ~(/\ hrstReinit' /\ getsrcSent'
                     /\ hrstMs' >= Recovery + GetSrcTime + Giveup)
     /\ hiZ' = (hiZ /\ ~again)
     /\ UNCHANGED <<gotSrcCap, wakeVars, softCnt, hrstSent, histVars>>

\* Mutant: the pause ends without recording that it was made
WakeTickUnrecorded ==
  /\ Waiting /\ ~hrstRec /\ wakeBounce
  /\ wakeMs' = wakeMs + 1
  /\ UNCHANGED <<inbox, wakeDone, wakeCycle, resetVars, histVars>>
  /\ IF wakeMs' < StaleBounce
     THEN UNCHANGED <<hiZ, pendingCc, debounceMs, capsVars, wakeBounce>>
     ELSE wakeBounce' = FALSE /\ hiZ' = FALSE /\ ResetAttachState

\* The Hi-Z pause and its end
WakeTick ==
  /\ Waiting /\ ~hrstRec /\ wakeBounce
  /\ wakeMs' = wakeMs + 1
  /\ UNCHANGED <<inbox, wakeDone, resetVars, histVars>>
  /\ IF wakeMs' < StaleBounce
     THEN UNCHANGED <<hiZ, pendingCc, debounceMs, capsVars, wakeBounce,
                      wakeCycle>>
     ELSE /\ wakeBounce' = FALSE /\ hiZ' = FALSE /\ wakeCycle' = 1
          /\ ResetAttachState

Elapsed == (waitMs + 1) % Wrap

CanReset == wakeCycle >= 1 /\ ~hrstSent

SoftResetDue ==
  /\ CanReset
  /\ \/ softCnt = 0 /\ Elapsed >= SoftTime
     \/ softCnt = 1 /\ Elapsed >= SoftRetry

HardResetDue == CanReset /\ softCnt >= SoftMax /\ Elapsed >= HardTime

WakeDue ==
  /\ wakeCycle = 0 /\ ~wakeDone /\ ~hrstSent /\ Elapsed >= StaleWake

\* PD_Analyzer_Send_SoftReset
SendSoftReset ==
  /\ SoftResetDue
  /\ softCnt' = softCnt + 1
  /\ wakeCycle' = IF softCnt = 0 THEN 2 ELSE wakeCycle
  /\ softs' = softs + 1
  /\ ResetAttachState
  /\ UNCHANGED <<inbox, hiZ, wakeBounce, wakeMs, wakeDone, hrstSent, hrstRec,
                 hrstReinit, hrstMs, wakes, hards>>

\* Mutant: the Hard Reset is not recorded as sent
SendHardResetAgain ==
  /\ HardResetDue
  /\ inbox' = <<>>
  /\ hrstRec' = TRUE /\ hrstReinit' = FALSE /\ hrstMs' = 0
  /\ hards' = hards + 1
  /\ ResetAttachState
  /\ UNCHANGED <<hiZ, wakeVars, softCnt, hrstSent, wakes, softs>>

\* PD_Analyzer_Send_HardReset: PD_PHY_Abort empties the ring
SendHardReset ==
  /\ HardResetDue
  /\ inbox' = <<>>
  /\ hrstSent' = TRUE /\ hrstRec' = TRUE /\ hrstReinit' = FALSE
  /\ hrstMs' = 0
  /\ hards' = hards + 1
  /\ ResetAttachState
  /\ UNCHANGED <<hiZ, wakeVars, softCnt, wakes, softs>>

\* No reset is due: Get_Source_Cap after GetSrcTime, and
\* PD_Analyzer_Stale_Wake_Start
KeepWaiting ==
  /\ ~SoftResetDue /\ ~HardResetDue
  /\ waitMs' = Elapsed
  /\ getsrcSent' = (getsrcSent \/ Elapsed >= GetSrcTime)
  /\ IF WakeDue
     THEN /\ wakeDone' = TRUE /\ wakeBounce' = TRUE /\ wakeMs' = 0
          /\ hiZ' = TRUE /\ wakes' = wakes + 1
     ELSE UNCHANGED <<wakeDone, wakeBounce, wakeMs, hiZ, wakes>>
  /\ UNCHANGED <<inbox, pendingCc, debounceMs, gotSrcCap, wakeCycle,
                 resetVars, softs, hards>>

WaitTick ==
  /\ Waiting /\ ~hrstRec /\ ~wakeBounce
  /\ SendSoftReset \/ SendHardReset \/ KeepWaiting

SrccapTick ==
  /\ phase = "srccap" /\ phase' = "poll"
  /\ SrccapOff \/ HrstTick \/ WakeTick \/ WaitTick
  /\ detCnt' = IF wakeBounce' /\ ~wakeBounce THEN 0 ELSE detCnt
  /\ UNCHANGED <<cable, drain, handler, connected, bootVars, physCc, ctrls>>

-----------------------------------------------------------------------------
Loop == PollPacket \/ PollDone \/ Det \/ Timers \/ AttachTick \/ SrccapTick

Next ==
  \/ Loop
  \/ MoveCable
  \/ \E kind \in Kinds : Receive(kind)
  \/ ReceiveHardReset

Spec == Init /\ [][Next]_vars

\* The main loop never blocks: each of its calls returns
FairSpec == Spec /\ WF_vars(Loop)

-----------------------------------------------------------------------------
(* Correctness *)

PacketType ==
  /\ cable \in CC \cup {None}
  /\ phase \in {"poll", "det", "timers", "attach", "srccap"}
  /\ drain \in 0..MaxDrain
  /\ inbox \in Seq(Kinds) /\ Len(inbox) <= QueueLen
  /\ handler \in Handlers /\ connected \in BOOLEAN
  /\ ctrls \in 0..MaxCtrl

LineType ==
  /\ physCc \in CC \cup {None} /\ pendingCc \in CC \cup {None}
  /\ started \in BOOLEAN /\ bouncePhase \in BOOLEAN /\ hiZ \in BOOLEAN
  /\ bootMs \in 0..BootTime /\ bounceMs \in Nat
  /\ detCnt \in Nat /\ debounceMs \in Nat

LadderType ==
  /\ gotSrcCap \in BOOLEAN /\ getsrcSent \in BOOLEAN /\ waitMs \in 0..Wrap-1
  /\ wakeBounce \in BOOLEAN /\ wakeDone \in BOOLEAN
  /\ wakeMs \in Nat /\ wakeCycle \in 0..2
  /\ hrstSent \in BOOLEAN /\ hrstRec \in BOOLEAN /\ hrstReinit \in BOOLEAN
  /\ softCnt \in 0..SoftMax /\ hrstMs \in Nat
  /\ wakes \in Nat /\ softs \in Nat /\ hards \in Nat

TypeOK == PacketType /\ LineType /\ LadderType

\* What one attach puts a charger to, whatever it answers and however often
\* its packets restart the wait: a Hi-Z pause at most once, then Soft Resets,
\* at most two, then at most one Hard Reset, each only after all of the one
\* before (PD_Analyzer_Srccap_Tick).
LadderInOrder ==
  /\ wakes <= 1 /\ softs <= SoftMax /\ hards <= 1
  /\ softs > 0 => wakes = 1 /\ ~wakeBounce
  /\ hards > 0 => softs = SoftMax

\* A session that has begun is never reset or let go by the ladder: only a
\* charger the protocol has not been armed with is.
NeverDisturbed ==
  [][<<wakes, softs, hards>>' # histVars => ~connected \/ physCc = None]_vars

\* The protocol is armed only on an attached cable whose charger was heard,
\* and is disarmed before another cable is looked for.
ArmedOnCable == connected => physCc # None /\ gotSrcCap /\ ~bouncePhase

\* The CC pins are analog inputs, with no receiver on the line, at power-up, in
\* the boot bounce and in the Hi-Z pause, and in no other state.  That a pause
\* ends is another matter: in Stuck no tick counts it.
PinsOwned == hiZ <=> ~started \/ bouncePhase \/ wakeBounce

\* The two states in which Srccap_Tick, having heard the charger, no longer
\* runs the timer that would end a Hard Reset recovery or a Hi-Z pause.
Stuck == gotSrcCap /\ (hrstRec \/ wakeBounce)

\* Attach and detach follow the cable, whichever way it is turned, unless the
\* cable moves again or the firmware is stuck as above.
FollowsCableOrStuck ==
  \A c \in CC \cup {None} : cable = c ~> physCc = c \/ cable # c \/ Stuck

\* README.md:217, cable detach and re-attach without resetting the MCU: it is
\* followed as above, the Hi-Z pause alone excepted.
FollowsCableAfterReset ==
  \A c \in CC \cup {None} :
    cable = c ~> physCc = c \/ cable # c \/ (gotSrcCap /\ wakeBounce)

\* README.md:217: a charger heard on a re-attached cable begins a session
HeardIsArmed == gotSrcCap => connected

\* The ladder ends: an attached cable is heard, or pulled, or the Hard Reset
\* has been sent and its recovery is over.
LadderEnds ==
  physCc # None ~> gotSrcCap \/ physCc = None \/ (hrstSent /\ ~hrstRec)
=============================================================================

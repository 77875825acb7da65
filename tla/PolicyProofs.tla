---------------------------- MODULE PolicyProofs ----------------------------
(***************************************************************************)
(* Proofs about Policy for every set of offers, every unasked message,     *)
(* every depth of the ring and any number of faults: the types, the        *)
(* contract as Contract promises it, the probe's record of answers, and    *)
(* the answer to a Soft_Reset.                                             *)
(***************************************************************************)
EXTENDS Policy, SequenceTheorems, TLAPS

Rounds == {"none", "asked", "agreed", "granted"}
Negotiation == Requests \cup {"accepted"}
Negotiating == {"RX_Accept", "RX_PS_RDY"}

Fingerprints == Offers \cup {NoOffer}
VdmSet ==
  [armed : BOOLEAN, done : BOOLEAN, svids : Int, index : Int, mode : BOOLEAN,
   result : {"pending", "done", "refused", "noresponse"}]
ProbeSet ==
  [active : BOOLEAN, step : 0..LastProbe+1, done : BOOLEAN, quiet : Int,
   probed : Fingerprints]

\* What the device sends; "accepted" is the charger's own word
Sent == {m \in Packet : m.k # "accepted"}

(* What the handlers change.  PD_PHY.pTxFinish is never set during a        *)
(* negotiation.                                                            *)
WireTyped ==
  /\ cb = Callbacks(cb.ok, cb.rx, cb.fail, cb.late)
  /\ cb.rx \in Handlers \cup {Null} /\ (cb.rx \in Negotiating => cb.ok = Null)
  /\ waitRx \in BOOLEAN /\ tx \in Sent /\ now \in BOOLEAN
PartsTyped ==
  /\ critical \in BOOLEAN /\ vdm \in VdmSet
  /\ probe \in ProbeSet /\ info \in [Steps -> Statuses]
  /\ offer \in [now : Fingerprints, held : Fingerprints]
  /\ contract \in BOOLEAN /\ guard \in BOOLEAN /\ settle \in BOOLEAN

(* What the charger and the ring change.                                   *)
ChargerTyped ==
  /\ ask \in Packet /\ round \in Rounds
  /\ set \in Offers
  /\ told \subseteq Steps /\ enters \in 0..2 /\ budget \in 0..Budget
RingTyped ==
  /\ conn \in BOOLEAN /\ drain \in BOOLEAN
  /\ inbox \in Seq(Packet) /\ Len(inbox) <= Depth /\ aged \in 0..Len(inbox)

TypeInv == WireTyped /\ PartsTyped /\ ChargerTyped /\ RingTyped

-----------------------------------------------------------------------------
(* Messages *)

Plain == Kinds \ {"caps", "get", "info", "infomore", "accepted"}

LEMMA MsgSent == ASSUME NEW k \in Plain PROVE Msg(k) \in Sent
  BY DEF Msg, Message, Kinds, Packet, Sent, Plain

LEMMA NumSent ==
  ASSUME NEW k \in Plain, NEW n \in Int PROVE Num(k, n) \in Sent
  BY DEF Num, Message, Kinds, Packet, Sent, Plain

LEMMA GetSent == ASSUME NEW n \in Steps PROVE Num("get", n) \in Sent
<1>1. n \in Int
  BY StepAssumption DEF Steps
<1> QED BY <1>1 DEF Num, Message, Kinds, Packet, Sent

LEMMA LeftSent == ASSUME tx \in Sent PROVE Left \in Sent
<1>1. NoTx \in Sent
  BY MsgSent DEF NoTx, Plain, Kinds
<1> QED BY <1>1 DEF Left

-----------------------------------------------------------------------------
(* What a handler does to PD_PHY *)

\* It leaves a negotiation, or the lack of one, and may send something
Aside ==
  /\ cb' = Callbacks(cb'.ok, cb'.rx, cb'.fail, cb'.late)
  /\ cb'.rx \in (Handlers \cup {Null}) \ Negotiating
  /\ waitRx' \in BOOLEAN /\ tx' \in Sent /\ now' \in BOOLEAN

LEMMA EprEnterAside ==
  ASSUME WireTyped, NEW STATE e, NEW STATE v, v \in VdmSet, NEW STATE o,
         NEW STATE w, w \in BOOLEAN,
         critical \in BOOLEAN, EprEnter(e, v, o, w)
  PROVE Aside /\ vdm' \in VdmSet /\ critical' \in BOOLEAN
<1> USE MsgSent, NumSent, LeftSent DEF Plain, Kinds, WireTyped, Aside, Negotiating,
      Handlers, Callbacks, Null, Await, SendNow
<1>1. CASE PpsStart(e, v, o)
  BY <1>1 DEF PpsStart
<1>2. CASE SendSinkCap(e, v)
  BY <1>2 DEF SendSinkCap
<1>3. CASE SendEnter(e, v, o)
  BY <1>3 DEF SendEnter, Cancelled, VdmSet
<1>4. CASE SkipEpr(e, v, o, w)
  BY <1>4 DEF SkipEpr, Armed, VdmSet, SendNone, IdleOnly
<1> QED BY <1>1, <1>2, <1>3, <1>4 DEF EprEnter

-----------------------------------------------------------------------------
(* Epr *)

Typed == WireTyped /\ PartsTyped

\* A handler of EPR leaves the negotiation aside, and ends a contract at most
EprAside ==
  /\ Aside /\ vdm' \in VdmSet /\ critical' \in BOOLEAN /\ guard' \in BOOLEAN
  /\ contract' \in {contract, FALSE} /\ UNCHANGED <<offer, settle>>

\* The charger is told nothing that has to do with a Request
Silent ==
  /\ UNCHANGED <<set, told, enters, budget>>
  /\ \/ UNCHANGED <<ask, round>>
     \/ /\ ask' \in Packet /\ ask'.k \notin Negotiation
        /\ \/ round' = round
           \/ round' = "none" /\ cb'.rx \in {cb.rx, Null}

LEMMA UnaskedSilent == ASSUME Unasked PROVE Silent
  BY DEF Unasked, chargerVars, Silent

LEMMA AskChunkSilent ==
  ASSUME NEW STATE m, m \in Sent, m.k \notin Negotiation, AskChunk(m)
  PROVE Silent /\ tx' \in Sent /\ now' \in BOOLEAN
<1>1. NoTx \in Sent /\ m \in Packet
  BY MsgSent DEF NoTx, Plain, Kinds, Sent
<1> QED BY <1>1 DEF AskChunk, Silent

LEMMA ContinueAside ==
  ASSUME Typed, Continue PROVE EprAside
<1>1. vdm \in VdmSet /\ critical \in BOOLEAN /\ guard \in BOOLEAN /\ WireTyped
  BY DEF Typed, PartsTyped
<1>2. EprEnter(epr, vdm, offer, FALSE) /\ UNCHANGED eprFrame
  BY DEF Continue
<1>3. Aside /\ vdm' \in VdmSet /\ critical' \in BOOLEAN
  BY <1>1, <1>2, EprEnterAside
<1> QED BY <1>1, <1>2, <1>3 DEF EprAside, eprFrame

LEMMA EprClosedAside ==
  ASSUME Typed, NEW STATE e, EprClosed(e) PROVE EprAside
  BY LeftSent DEF Typed, WireTyped, PartsTyped, EprClosed, Rest, IdleOnly,
     Callbacks, SendNone, Armed, VdmSet, eprFrame, EprAside, Aside,
     Negotiating, Handlers, Null

LEMMA EprExitAside ==
  ASSUME Typed, NEW STATE e, EprExit(e) PROVE EprAside
  BY MsgSent DEF Plain, Kinds, Typed, WireTyped, PartsTyped, EprExit, Queue,
     Await, Callbacks, eprFrame, EprAside, Aside, Negotiating, Handlers, Null

LEMMA EprRequestAside ==
  ASSUME Typed, NEW STATE e, NEW stage, EprRequest(e, stage) PROVE EprAside
  BY NumSent DEF Plain, Kinds, Typed, WireTyped, PartsTyped, EprRequest,
     SendNow, Await, Callbacks, eprFrame, EprAside, Aside, Negotiating,
     Handlers, Null

\* Waiting for capabilities, with whatever is sent
LEMMA AwaitCapsAside ==
  ASSUME Typed, NEW STATE e, AwaitCaps(e), tx' \in Sent, now' \in BOOLEAN
  PROVE EprAside
  BY DEF Typed, PartsTyped, AwaitCaps, Await, Callbacks, eprFrame, EprAside,
     Aside, Negotiating, Handlers, Null

LEMMA SendNoneTyped == ASSUME WireTyped, SendNone
  PROVE tx' \in Sent /\ now' \in BOOLEAN
  BY LeftSent DEF WireTyped, SendNone

LEMMA CapsDeliveredAside ==
  ASSUME Typed, NEW m \in Packet, CapsDelivered(m) PROVE EprAside /\ Silent
<1> DEFINE e == [epr EXCEPT !.got = Stored(m), !.retry = 0,
                   !.resets = IF m.k = "eprcaps1" THEN @ ELSE 0,
                   !.buf = (m.k = "eprcaps0")]
<1>1. CASE AwaitCaps(e) /\ AskChunk(Msg("chunk"))
  <2>1. Msg("chunk") \in Sent /\ Msg("chunk").k \notin Negotiation
    BY MsgSent DEF Plain, Kinds, Msg, Message, Negotiation, Requests
  <2>2. Silent /\ tx' \in Sent /\ now' \in BOOLEAN
    BY <1>1, <2>1, AskChunkSilent
  <2> HIDE DEF e
  <2> QED BY <1>1, <2>2, AwaitCapsAside
<1>2. CASE EprCapsComplete(e) /\ Unasked
  <2> HIDE DEF e
  <2>1. PICK f, stage : EprRequest(f, stage)
    BY <1>2 DEF EprCapsComplete
  <2> QED BY <1>2, <2>1, EprRequestAside, UnaskedSilent
<1> QED BY <1>1, <1>2 DEF CapsDelivered

LEMMA SendRestoreFixedAside == ASSUME Typed, SendRestoreFixed PROVE EprAside
  BY NumSent DEF Plain, Kinds, Typed, WireTyped, PartsTyped, SendRestoreFixed,
     SendNow, Await, Callbacks, ppsFrame, eprFrame, EprAside, Aside,
     Negotiating, Handlers, Null

LEMMA PpsDeliveredAside ==
  ASSUME Typed, NEW m \in Packet, PpsDelivered(m) PROVE EprAside
<1>1. CASE Continue
  BY <1>1, ContinueAside
<1>2. CASE SendRestoreFixed
  BY <1>2, SendRestoreFixedAside
<1>3. CASE SendPpsStatus
  BY <1>3, MsgSent DEF Plain, Kinds, Typed, WireTyped, PartsTyped,
     SendPpsStatus, Queue, Await, Callbacks, ppsFrame, eprFrame, EprAside,
     Aside, Negotiating, Handlers, Null
<1>4. ASSUME NEW rx \in {"PPS_RxPS_RDY", "PPS_RxRestorePS_RDY"}, PpsNext(rx)
      PROVE EprAside
  <2>1. tx' \in Sent /\ now' \in BOOLEAN
    BY <1>4, SendNoneTyped DEF PpsNext, Typed
  <2> QED BY <1>4, <2>1 DEF Typed, WireTyped, PartsTyped, PpsNext, Await,
        Callbacks, ppsFrame, eprFrame, EprAside, Aside, Negotiating, Handlers,
        Null
<1> QED BY <1>1, <1>2, <1>3, <1>4 DEF PpsDelivered

LEMMA EnterDeliveredAside ==
  ASSUME Typed, NEW m \in Packet, EnterDelivered(m) PROVE EprAside
<1>1. CASE AwaitCaps(epr) /\ SendNone
  BY <1>1, SendNoneTyped, AwaitCapsAside DEF Typed
<1>2. CASE EprClosed(epr)
  BY <1>2, EprClosedAside
<1>3. CASE Rest /\ vdm' = Armed(vdm) /\ SendNone
           /\ UNCHANGED <<epr, critical, eprFrame>>
  <2>1. tx' \in Sent /\ now' \in BOOLEAN
    BY <1>3, SendNoneTyped DEF Typed
  <2> QED BY <1>3, <2>1 DEF Typed, PartsTyped, Rest, IdleOnly, Callbacks,
        Armed, VdmSet, eprFrame, EprAside, Aside, Negotiating, Handlers, Null
<1> QED BY <1>1, <1>2, <1>3 DEF EnterDelivered

LEMMA NoCapsDeliveredAside ==
  ASSUME Typed, NEW m \in Packet, NoCapsDelivered(m) PROVE EprAside
<1> DEFINE e == [epr EXCEPT !.buf = FALSE]
<1>1. CASE AwaitCaps(e) /\ SendNone
  <2> HIDE DEF e
  <2> QED BY <1>1, SendNoneTyped, AwaitCapsAside DEF Typed
<1>2. CASE Rest /\ SendNone /\ critical' \in {critical, FALSE}
           /\ UNCHANGED <<vdm, eprFrame>>
  <2>1. tx' \in Sent /\ now' \in BOOLEAN
    BY <1>2, SendNoneTyped DEF Typed
  <2> QED BY <1>2, <2>1 DEF Typed, PartsTyped, Rest, IdleOnly, Callbacks,
        eprFrame, EprAside, Aside, Negotiating, Handlers, Null
<1>3. CASE EprExit(e)
  <2> HIDE DEF e
  <2> QED BY <1>3, EprExitAside
<1> QED BY <1>1, <1>2, <1>3 DEF NoCapsDelivered

LEMMA SrcCapSoftResetAside == ASSUME Typed, SrcCapSoftReset PROVE EprAside
<1> DEFINE e == [epr EXCEPT !.resets = @ + 1, !.buf = FALSE]
<1>1. AwaitCaps(e) /\ tx' \in Sent /\ now' \in BOOLEAN
  BY MsgSent DEF Plain, Kinds, SrcCapSoftReset, SendNow
<1> HIDE DEF e
<1> QED BY <1>1, AwaitCapsAside

LEMMA EprRequestDeliveredAside ==
  ASSUME Typed, NEW m \in Packet, EprRequestDelivered(m) PROVE EprAside
<1>1. CASE EprExit(epr)
  BY <1>1, EprExitAside
<1>2. CASE EprRequest(epr, Restore)
  BY <1>2, EprRequestAside
<1>3. CASE /\ Await("EPR_Request_PS_RDY_RX", Null, "EPR_Request_Failed")
           /\ SendNone /\ UNCHANGED <<epr, vdm, critical, eprFrame>>
  <2>1. tx' \in Sent /\ now' \in BOOLEAN
    BY <1>3, SendNoneTyped DEF Typed
  <2> QED BY <1>3, <2>1 DEF Typed, PartsTyped, Await, Callbacks, eprFrame,
        EprAside, Aside, Negotiating, Handlers, Null
<1> QED BY <1>1, <1>2, <1>3 DEF EprRequestDelivered

LEMMA ExitDeliveredAside ==
  ASSUME Typed, NEW m \in Packet, ExitDelivered(m) PROVE EprAside
<1> DEFINE e == [epr EXCEPT !.exits = 0]
<1>1. CASE EprClosed(e)
  <2> HIDE DEF e
  <2> QED BY <1>1, EprClosedAside
<1>2. CASE Rest /\ contract' = FALSE /\ guard' = TRUE /\ SendNone
           /\ UNCHANGED <<vdm, critical, offer, settle>>
  <2>1. tx' \in Sent /\ now' \in BOOLEAN
    BY <1>2, SendNoneTyped DEF Typed
  <2> QED BY <1>2, <2>1 DEF Typed, PartsTyped, Rest, IdleOnly, Callbacks,
        EprAside, Aside, Negotiating, Handlers, Null
<1>3. CASE /\ Await("EPR_Exit_RX", Null, "EPR_Exit_NoResponse")
           /\ SendNone /\ UNCHANGED <<vdm, critical, eprFrame>>
  <2>1. tx' \in Sent /\ now' \in BOOLEAN
    BY <1>3, SendNoneTyped DEF Typed
  <2> QED BY <1>3, <2>1 DEF Typed, PartsTyped, Await, Callbacks, eprFrame,
        EprAside, Aside, Negotiating, Handlers, Null
<1> QED BY <1>1, <1>2, <1>3 DEF ExitDelivered

LEMMA EprDeliveredAside ==
  ASSUME Typed, NEW m \in Packet, EprDelivered(m) PROVE EprAside /\ Silent
<1>1. CASE (PpsDelivered(m) \/ SinkCapDelivered(m)) /\ Unasked
  BY <1>1, PpsDeliveredAside, ContinueAside, UnaskedSilent DEF SinkCapDelivered
<1>2. CASE EnterDelivered(m)
  BY <1>2, EnterDeliveredAside, UnaskedSilent DEF EnterDelivered
<1>3. CASE SrcCapDelivered(m)
  BY <1>3, CapsDeliveredAside, NoCapsDeliveredAside, UnaskedSilent
     DEF SrcCapDelivered, NoCapsDelivered
<1>4. CASE (EprRequestDelivered(m) \/ ExitDelivered(m)) /\ Unasked
  BY <1>4, EprRequestDeliveredAside, ExitDeliveredAside, UnaskedSilent
<1> QED BY <1>1, <1>2, <1>3, <1>4 DEF EprDelivered

LEMMA EprLateAside == ASSUME Typed, EprLate PROVE EprAside /\ Silent
<1>1. CASE Continue /\ Unasked
  BY <1>1, ContinueAside, UnaskedSilent
<1>2. ASSUME NEW STATE e, EprClosed(e), Unasked PROVE EprAside /\ Silent
  BY <1>2, EprClosedAside, UnaskedSilent
<1>3. ASSUME NEW STATE e, EprExit(e), Unasked PROVE EprAside /\ Silent
  BY <1>3, EprExitAside, UnaskedSilent
<1>4. CASE CapsTimeout
  <2>1. ASSUME NEW STATE e, NEW STATE m, AwaitCaps(e), AskChunk(m),
               m \in {Msg("chunk"), Msg("garbled")}
        PROVE EprAside /\ Silent
    <3>1. m \in Sent /\ m.k \notin Negotiation
      BY <2>1, MsgSent DEF Plain, Kinds, Msg, Message, Negotiation, Requests
    <3> QED BY <2>1, <3>1, AskChunkSilent, AwaitCapsAside
  <2> QED BY <1>3, <1>4, <2>1 DEF CapsTimeout
<1> QED BY <1>1, <1>2, <1>3, <1>4 DEF EprLate

LEMMA EprTxFailedAside == ASSUME Typed, EprTxFailed PROVE EprAside
  BY ContinueAside, EprClosedAside, EprExitAside DEF EprTxFailed

-----------------------------------------------------------------------------
(* Probe *)

\* Any handler that leaves the negotiation aside
Besides == Aside /\ PartsTyped' /\ contract' \in {contract, FALSE}

\* No step is passed but the one m answers
Passes(m) ==
  \A s \in Steps : info'[s] = "pass" =>
     info[s] = "pass" \/ (m.k \in {"info", "infomore"} /\ m.n = s)

LEMMA EprAsideBesides ==
  ASSUME Typed, EprAside, probe' \in ProbeSet, info' \in [Steps -> Statuses]
  PROVE Besides
  BY DEF Typed, PartsTyped, EprAside, Besides

LEMMA SameInfo == ASSUME UNCHANGED info, NEW m PROVE Passes(m)
  BY DEF Passes

LEMMA RecordedTyped ==
  ASSUME Typed, NEW STATE n, NEW status \in Statuses
  PROVE /\ Recorded(n, status) \in [Steps -> Statuses]
        /\ \A s \in Steps : s # n \/ status # "pass" =>
             (Recorded(n, status)[s] = "pass" => info[s] = "pass")
  BY DEF Typed, PartsTyped, Recorded

\* A step that may lie past the table
AnyStep ==
  [active : BOOLEAN, step : Int, done : BOOLEAN, quiet : Int,
   probed : Fingerprints]

LEMMA ProbeAnyStep == ASSUME Typed
  PROVE probe \in AnyStep /\ offer.now \in Fingerprints
  BY StepAssumption DEF Typed, PartsTyped, ProbeSet, AnyStep

LEMMA NextStepTyped == ASSUME Typed
  PROVE /\ NextStep \in AnyStep
        /\ [NextStep EXCEPT !.quiet = 0] \in AnyStep
        /\ [NextStep EXCEPT !.quiet = @ + 1] \in AnyStep
<1>1. NextStep = [active |-> probe.active, step |-> probe.step + 1,
                  done |-> probe.done, quiet |-> probe.quiet,
                  probed |-> probe.probed]
  BY ProbeAnyStep DEF NextStep, AnyStep
<1>2. NextStep \in AnyStep
  BY <1>1, ProbeAnyStep DEF AnyStep
<1> QED BY <1>2 DEF AnyStep

LEMMA ConcludedTyped ==
  ASSUME Typed, NEW STATE p, p \in AnyStep
  PROVE /\ Concluded(p) \in ProbeSet
        /\ [Concluded(p) EXCEPT !.quiet = 0] \in ProbeSet
<1> DEFINE a == [p EXCEPT !.active = FALSE]
           b == [a EXCEPT !.step = 0]
           c == [b EXCEPT !.done = TRUE]
           d == [c EXCEPT !.probed = offer.now]
<1>5. Concluded(p) = d
  BY DEF Concluded
<1>1. a \in AnyStep
  BY DEF AnyStep
<1> HIDE DEF a
<1>2. b \in ProbeSet
  <2>1. 0 \in 0..LastProbe+1
    BY StepAssumption
  <2> QED BY <1>1, <2>1 DEF AnyStep, ProbeSet
<1> HIDE DEF b
<1>3. c \in ProbeSet
  BY <1>2 DEF ProbeSet
<1> HIDE DEF c
<1>4. d \in ProbeSet
  BY <1>3, ProbeAnyStep DEF ProbeSet
<1> HIDE DEF d
<1>6. [d EXCEPT !.quiet = 0] \in ProbeSet
  BY <1>4 DEF ProbeSet
<1> QED BY <1>4, <1>5, <1>6

LEMMA SendNextAside ==
  ASSUME Typed, NEW STATE p, p \in AnyStep, SendNext(p)
  PROVE EprAside /\ probe' \in ProbeSet
<1>1. CASE p.step \in Steps /\ SendGet(p)
  <2>1. Num("get", p.step) \in Sent
    BY <1>1, GetSent
  <2>2. p \in ProbeSet
    BY <1>1, StepAssumption DEF AnyStep, ProbeSet, Steps
  <2> QED BY <1>1, <2>1, <2>2 DEF SendGet, Queue, Await, Callbacks, Typed,
        PartsTyped, eprFrame, EprAside, Aside, Negotiating, Handlers, Null
<1>2. CASE probe' = [Concluded(p) EXCEPT !.quiet = 0] /\ Continue
  BY <1>2, ContinueAside, ConcludedTyped
<1> QED BY <1>1, <1>2 DEF SendNext

LEMMA ResponseBesides ==
  ASSUME Typed, NEW m \in Packet, Response(m)
  PROVE Besides /\ Silent /\ Passes(m)
<1> DEFINE status == CASE m.k = "notsupported" -> "unsupported"
                       [] m.k = "reject" -> "rejected"
                       [] OTHER -> "pass"
<1>1. status \in Statuses /\ info' = Recorded(probe.step, status)
  BY DEF Response, Statuses
<1>2. status = "pass" => m.k \in {"info", "infomore"} /\ m.n = probe.step
  BY DEF Response, Refusals, ResponseMatches
<1>3. [NextStep EXCEPT !.quiet = 0] \in AnyStep
  BY NextStepTyped
<1>4. EprAside /\ probe' \in ProbeSet
  BY <1>3, SendNextAside DEF Response
<1> HIDE DEF status
<1>5. info' \in [Steps -> Statuses] /\ Passes(m)
  BY <1>1, <1>2, RecordedTyped DEF Passes
<1> QED BY <1>4, <1>5, EprAsideBesides, UnaskedSilent DEF Response

LEMMA FirstChunkBesides ==
  ASSUME Typed, NEW m \in Packet, FirstChunk(m)
  PROVE Besides /\ Silent /\ Passes(m)
<1>1. info' \in [Steps -> Statuses] /\ Passes(m)
  BY RecordedTyped DEF FirstChunk, ResponseMatches, Passes, Statuses
<1>2. probe' \in ProbeSet
  BY DEF FirstChunk, Typed, PartsTyped, ProbeSet
<1>3. Num("chunkinfo", m.n) \in Sent
  BY NumSent DEF Packet, Plain, Kinds
<1>4. Num("chunkinfo", m.n).k \notin Negotiation
  BY DEF Num, Message, Negotiation, Requests
<1>5. Silent /\ tx' \in Sent /\ now' \in BOOLEAN
  BY <1>3, <1>4, AskChunkSilent DEF FirstChunk
<1>6. EprAside
  BY <1>5 DEF FirstChunk, Await, Callbacks, Typed, PartsTyped, eprFrame,
     EprAside, Aside, Negotiating, Handlers, Null
<1> QED BY <1>1, <1>2, <1>5, <1>6, EprAsideBesides

LEMMA ProbeDeliveredBesides ==
  ASSUME Typed, NEW m \in Packet, ProbeDelivered(m)
  PROVE Besides /\ Silent /\ Passes(m)
<1>1. CASE Unrelated(m)
  <2>1. tx' \in Sent /\ now' \in BOOLEAN
    BY <1>1, SendNoneTyped DEF Unrelated, Typed
  <2>2. EprAside /\ probe' \in ProbeSet /\ info' \in [Steps -> Statuses]
    BY <1>1, <2>1 DEF Unrelated, Await, Callbacks, Typed, PartsTyped, eprFrame,
       EprAside, Aside, Negotiating, Handlers, Null
  <2> QED BY <1>1, <2>2, EprAsideBesides, UnaskedSilent, SameInfo DEF Unrelated
<1>2. CASE FirstChunk(m)
  BY <1>2, FirstChunkBesides
<1>3. CASE Response(m)
  BY <1>3, ResponseBesides
<1>4. CASE probe' = Concluded(probe) /\ UNCHANGED info /\ CapsDelivered(m)
  <2>1. probe' \in ProbeSet /\ info' \in [Steps -> Statuses]
    BY <1>4, ConcludedTyped, ProbeAnyStep DEF Typed, PartsTyped
  <2> QED BY <1>4, <2>1, CapsDeliveredAside, EprAsideBesides, SameInfo
<1>5. CASE SendNext([NextStep EXCEPT !.quiet = 0]) /\ Unasked /\ UNCHANGED info
  <2>1. [NextStep EXCEPT !.quiet = 0] \in AnyStep
    BY NextStepTyped
  <2>2. info' \in [Steps -> Statuses]
    BY <1>5 DEF Typed, PartsTyped
  <2> QED BY <1>5, <2>1, <2>2, SendNextAside, EprAsideBesides, SameInfo,
        UnaskedSilent
<1> QED BY <1>1, <1>2, <1>3, <1>4, <1>5 DEF ProbeDelivered

\* A timeout or a failure passes no step
NoPass == \A s \in Steps : info'[s] = "pass" => info[s] = "pass"

LEMMA ProbeLateBesides ==
  ASSUME Typed, ProbeLate PROVE Besides /\ Silent /\ NoPass
<1>1. CASE NoAnswer
  <2>1. info' \in [Steps -> Statuses] /\ NoPass
    BY <1>1, RecordedTyped DEF NoAnswer, NoPass, Statuses
  <2>2. [NextStep EXCEPT !.quiet = @ + 1] \in AnyStep
    BY NextStepTyped
  <2>3. EprAside /\ probe' \in ProbeSet
    BY <1>1, <2>2, SendNextAside, ContinueAside, ConcludedTyped, ProbeAnyStep
       DEF NoAnswer
  <2> QED BY <2>1, <2>3, EprAsideBesides, UnaskedSilent DEF ProbeLate
<1>2. CASE NoChunk
  <2>1. NextStep \in AnyStep
    BY NextStepTyped
  <2>2. EprAside /\ probe' \in ProbeSet /\ info' \in [Steps -> Statuses]
    BY <1>2, <2>1, SendNextAside DEF NoChunk, Typed, PartsTyped
  <2> QED BY <1>2, <2>2, EprAsideBesides, UnaskedSilent
        DEF ProbeLate, NoChunk, NoPass
<1> QED BY <1>1, <1>2 DEF ProbeLate

LEMMA ForgottenTyped ==
  ASSUME NEW STATE v, v \in VdmSet PROVE Forgotten(v) \in VdmSet
<1> DEFINE w == [v EXCEPT !.svids = 0]
<1>1. w \in VdmSet
  BY DEF VdmSet
<1> QED BY <1>1 DEF Forgotten, VdmSet

LEMMA ProbeTxFailedBesides ==
  ASSUME Typed, ProbeTxFailed PROVE Besides /\ NoPass
<1>1. info' \in [Steps -> Statuses] /\ NoPass
  BY RecordedTyped DEF ProbeTxFailed, NoPass, Statuses
<1>2. probe' \in ProbeSet
  BY ConcludedTyped, ProbeAnyStep DEF ProbeTxFailed
<1>3. Forgotten(vdm) \in VdmSet
  BY ForgottenTyped DEF Typed, PartsTyped
<1>4. CASE settle' = TRUE /\ Rest /\ SendNone /\ vdm' = Forgotten(vdm)
           /\ UNCHANGED <<epr, critical, offer, contract, guard>>
  <2>1. tx' \in Sent /\ now' \in BOOLEAN
    BY <1>4, SendNoneTyped DEF Typed
  <2> QED BY <1>1, <1>2, <1>3, <1>4, <2>1 DEF Typed, PartsTyped, Rest,
        IdleOnly, Callbacks, Besides, Aside, Negotiating, Handlers, Null
<1>5. CASE EprEnter(epr, Forgotten(vdm), offer, FALSE) /\ UNCHANGED eprFrame
  <2>1. WireTyped /\ critical \in BOOLEAN
    BY DEF Typed, PartsTyped
  <2>2. Aside /\ vdm' \in VdmSet /\ critical' \in BOOLEAN
    BY <1>3, <1>5, <2>1, EprEnterAside
  <2> QED BY <1>1, <1>2, <1>5, <2>2 DEF Typed, PartsTyped, eprFrame, Besides
<1> QED BY <1>4, <1>5 DEF ProbeTxFailed

-----------------------------------------------------------------------------
(* Vdm *)

\* A handler of the discovery, but for its frame
VdmAside == Aside /\ vdm' \in VdmSet

Results == {"pending", "done", "refused", "noresponse"}

LEMMA VdmAsideBesides ==
  ASSUME Typed, VdmAside, UNCHANGED <<vdmFrame, contract>> PROVE Besides
  BY DEF Typed, PartsTyped, VdmAside, vdmFrame, Besides

LEMMA FinishAside ==
  ASSUME NEW STATE v, v \in VdmSet, NEW result \in Results, Finish(v, result)
  PROVE VdmAside
<1>1. tx' \in Sent
  BY MsgSent DEF Finish, NoTx, Plain, Kinds
<1> QED BY <1>1 DEF Finish, Results, VdmSet, Rest, IdleOnly, Callbacks,
      VdmAside, Aside, Negotiating, Handlers, Null

LEMMA ModesNextAside ==
  ASSUME NEW STATE v, v \in VdmSet, ModesNext(v) PROVE VdmAside
<1>1. CASE Finish(v, "done")
  BY <1>1, FinishAside DEF Results
<1>2. CASE vdm' = v /\ Queue(Num("modes", v.index))
           /\ Await("RX_VDM", "ModeTimeout", "ModeTimeout")
  <2>1. Num("modes", v.index) \in Sent
    BY NumSent DEF Plain, Kinds, VdmSet
  <2> QED BY <1>2, <2>1 DEF Queue, Await, Callbacks, VdmAside, Aside,
        Negotiating, Handlers, Null
<1> QED BY <1>1, <1>2 DEF ModesNext

LEMMA NextModeTyped ==
  ASSUME Typed PROVE vdm \in VdmSet /\ [vdm EXCEPT !.index = @ + 1] \in VdmSet
  BY DEF Typed, PartsTyped, VdmSet

LEMMA RxAnswerAside ==
  ASSUME Typed, NEW m \in Packet, RxAnswer(m) PROVE VdmAside
<1>1. CASE DiscoverSvidsOf(vdm)
  <2>1. tx' \in Sent
    BY <1>1, MsgSent DEF DiscoverSvidsOf, Queue, Plain, Kinds
  <2> DEFINE a == [vdm EXCEPT !.svids = 0]
  <2>2. a \in VdmSet
    BY NextModeTyped DEF VdmSet
  <2>3. vdm' = [a EXCEPT !.index = 0]
    BY <1>1 DEF DiscoverSvidsOf
  <2> HIDE DEF a
  <2>4. vdm' \in VdmSet
    BY <2>2, <2>3 DEF VdmSet
  <2> QED BY <1>1, <2>1, <2>4 DEF DiscoverSvidsOf, Queue, Await, Callbacks,
        VdmAside, Aside, Negotiating, Handlers, Null
<1>2. CASE m.k = "acksvids"
  <2> DEFINE n == IF m.n > MaxSvids THEN MaxSvids ELSE m.n
             a == [vdm EXCEPT !.svids = n]
             b == [vdm EXCEPT !.svids = 0]
  <2>1. n \in Int
    BY SvidAssumption DEF Packet
  <2>2. \/ Finish(b, "done")
       \/ ModesNext([a EXCEPT !.index = 0])
       \/ DiscoverSvidsOf(vdm)
       \/ ModesNext([vdm EXCEPT !.index = @ + 1])
       \/ Finish(vdm, "refused")
    BY DEF RxAnswer
  <2> HIDE DEF n
  <2>3. a \in VdmSet /\ b \in VdmSet
    BY <2>1, NextModeTyped DEF VdmSet
  <2> HIDE DEF a, b
  <2>4. [a EXCEPT !.index = 0] \in VdmSet
    BY <2>3 DEF VdmSet
  <2> QED BY <1>1, <2>2, <2>3, <2>4, NextModeTyped, FinishAside, ModesNextAside
        DEF Results
<1>3. CASE \/ ModesNext([vdm EXCEPT !.index = @ + 1])
           \/ Finish(vdm, "refused")
  BY <1>3, NextModeTyped, FinishAside, ModesNextAside DEF Results
<1> QED BY <1>1, <1>2, <1>3 DEF RxAnswer

LEMMA RxRequestAside ==
  ASSUME Typed, NEW m \in Packet, RxRequest(m) PROVE VdmAside
<1> DEFINE entered == (m.n = EnterMode) \/ (vdm.mode /\ m.n # ExitMode)
<1>1. CASE /\ Queue(Msg("vdmreply"))
           /\ cb' = Callbacks(Null, "IDLE", "TX_SoftRst", Null)
           /\ UNCHANGED waitRx /\ vdm' = [vdm EXCEPT !.mode = entered]
  <2>1. entered \in BOOLEAN
    OBVIOUS
  <2> HIDE DEF entered
  <2>2. vdm' \in VdmSet
    BY <1>1, <2>1, NextModeTyped DEF VdmSet
  <2>3. tx' \in Sent
    BY <1>1, MsgSent DEF Queue, Plain, Kinds
  <2> QED BY <1>1, <2>2, <2>3 DEF Queue, Callbacks, Typed, WireTyped,
        VdmAside, Aside, Negotiating, Handlers, Null
<1>2. CASE cb' = [cb EXCEPT !.rx = Null] /\ SendNone /\ UNCHANGED <<waitRx, vdm>>
  <2>1. tx' \in Sent /\ now' \in BOOLEAN
    BY <1>2, SendNoneTyped DEF Typed
  <2> QED BY <1>2, <2>1, NextModeTyped DEF Callbacks, Typed, WireTyped,
        VdmAside, Aside, Negotiating, Null
<1> QED BY <1>1, <1>2 DEF RxRequest

LEMMA RxVdmBesides ==
  ASSUME Typed, NEW m \in Packet, RxVdm(m) PROVE Besides /\ Passes(m)
<1>1. ASSUME cb' = [cb EXCEPT !.rx = Null], SendNone, UNCHANGED <<waitRx, vdm>>
      PROVE VdmAside
  <2>1. tx' \in Sent /\ now' \in BOOLEAN
    BY <1>1, SendNoneTyped DEF Typed
  <2> QED BY <1>1, <2>1, NextModeTyped DEF Callbacks, Typed, WireTyped,
        VdmAside, Aside, Negotiating, Null
<1>2. VdmAside
  BY <1>1, RxAnswerAside, RxRequestAside, FinishAside, NextModeTyped
     DEF RxVdm, Results
<1> QED BY <1>2, VdmAsideBesides, SameInfo DEF RxVdm, vdmFrame

LEMMA VdmLateBesides == ASSUME Typed, VdmLate PROVE Besides /\ Silent /\ NoPass
<1>1. VdmAside
  BY NextModeTyped, FinishAside, ModesNextAside DEF VdmLate, Results
<1> QED BY <1>1, VdmAsideBesides, UnaskedSilent DEF VdmLate, NoPass, vdmFrame

LEMMA VdmTxFailedBesides == ASSUME Typed, VdmTxFailed PROVE Besides /\ NoPass
<1>1. VdmAside
  BY NextModeTyped, FinishAside, ModesNextAside DEF VdmTxFailed, Results
<1> QED BY <1>1, VdmAsideBesides DEF VdmTxFailed, NoPass, vdmFrame

\* The negotiation, or the lack of one, goes on as it was
Keeps ==
  /\ WireTyped' /\ PartsTyped'
  /\ cb'.rx = cb.rx /\ contract' = contract

LEMMA VdmTickBesides ==
  ASSUME Typed, VdmTick PROVE (Besides \/ Keeps) /\ Silent /\ NoPass
<1>1. CASE vdm' = Cancelled(vdm) /\ SendNone /\ UNCHANGED <<cb, waitRx>>
  <2>1. tx' \in Sent /\ now' \in BOOLEAN
    BY <1>1, SendNoneTyped DEF Typed
  <2>2. vdm' \in VdmSet
    BY <1>1, NextModeTyped DEF Cancelled, VdmSet
  <2> QED BY <1>1, <2>1, <2>2, UnaskedSilent DEF VdmTick, vdmFrame, Keeps, Typed,
        WireTyped, PartsTyped, NoPass
<1>2. CASE /\ vdm' = [Forgotten(vdm) EXCEPT !.armed = FALSE, !.done = TRUE]
           /\ SendNow(Msg("ident"))
           /\ Await("RX_VDM", "pDiscIdent_TxFailed", "pDiscIdent_NoResponse")
  <2> DEFINE a == [Forgotten(vdm) EXCEPT !.armed = FALSE]
  <2>1. a \in VdmSet
    BY NextModeTyped, ForgottenTyped DEF VdmSet
  <2>2. vdm' = [a EXCEPT !.done = TRUE]
    BY <1>2
  <2> HIDE DEF a
  <2>3. vdm' \in VdmSet
    BY <2>1, <2>2 DEF VdmSet
  <2>4. tx' \in Sent
    BY <1>2, MsgSent DEF SendNow, Plain, Kinds
  <2>5. VdmAside
    BY <1>2, <2>3, <2>4 DEF SendNow, Await, Callbacks, VdmAside, Aside,
       Negotiating, Handlers, Null
  <2> QED BY <2>5, VdmAsideBesides, UnaskedSilent DEF VdmTick, vdmFrame, NoPass
<1> QED BY <1>1, <1>2 DEF VdmTick

-----------------------------------------------------------------------------
(* Request *)

\* A handler gives up what was negotiated, and may begin anew: a Request that
\* leaves at once
Leaves ==
  /\ WireTyped' /\ PartsTyped' /\ contract' \in {contract, FALSE}
  /\ cb'.rx # "RX_PS_RDY" /\ (cb'.rx = "RX_Accept" => now' = TRUE)

\* An Accept, and a PS_RDY, of the Request that left
Advances(m) ==
  /\ WireTyped' /\ PartsTyped' /\ contract' = contract
  /\ cb.rx = "RX_Accept" /\ cb'.rx = "RX_PS_RDY"
  /\ m.k = "accept" /\ aged = 0 /\ now' = FALSE
Begins(m) ==
  /\ WireTyped' /\ PartsTyped' /\ contract' = TRUE
  /\ cb.rx = "RX_PS_RDY" /\ cb'.rx \notin Negotiating
  /\ m.k = "psrdy" /\ aged = 0 /\ round' = round

\* What any handler may do with m
Outcome(m) ==
  Leaves \/ (Keeps /\ UNCHANGED round) \/ Advances(m) \/ Begins(m)

LEMMA BesidesLeaves == ASSUME Besides PROVE Leaves
  BY DEF Besides, Aside, Leaves, WireTyped, Negotiating

LEMMA AsideTyped == ASSUME Aside PROVE WireTyped'
  BY DEF Aside, WireTyped, Negotiating

LEMMA RestAside == ASSUME WireTyped, Rest, SendNone PROVE Aside
<1>1. tx' \in Sent /\ now' \in BOOLEAN
  BY SendNoneTyped
<1> QED BY <1>1 DEF Rest, IdleOnly, Callbacks, Aside, Negotiating, Handlers,
      Null

\* Only the wire has changed
LEMMA FrameTyped ==
  ASSUME Typed, UNCHANGED reqFrame, contract' \in BOOLEAN,
         offer' \in [now : Fingerprints, held : Fingerprints]
  PROVE PartsTyped'
  BY DEF Typed, PartsTyped, reqFrame, probeVars

LEMMA SameParts ==
  ASSUME Typed, UNCHANGED <<reqFrame, contract, offer>>
  PROVE PartsTyped' /\ contract' \in {contract, FALSE} /\ UNCHANGED info
  BY DEF Typed, PartsTyped, reqFrame, probeVars

LEMMA TxRequestAsks ==
  ASSUME NEW STATE r, NEW STATE current, TxRequest(r, current)
  PROVE WireTyped' /\ cb'.rx = "RX_Accept" /\ now' = TRUE
<1>1. tx' \in Sent
  BY NumSent DEF TxRequest, SendNow, Plain, Kinds
<1> QED BY <1>1 DEF TxRequest, SendNow, Await, Callbacks, WireTyped, Handlers,
      Null

LEMMA RequestFailedAside ==
  ASSUME WireTyped, RequestFailed PROVE Aside
  BY RestAside DEF RequestFailed

LEMMA HardResetSilent ==
  ASSUME WireTyped, NEW STATE c, c \in {Taken, [cb EXCEPT !.late = Null]},
         HardReset(c)
  PROVE Silent
<1>2. cb'.rx \in {cb.rx, Null}
  BY DEF HardReset, Taken, WireTyped, Callbacks
<1>1. Msg("hardreset") \in Packet /\ Msg("hardreset").k \notin Negotiation
  BY MsgSent DEF Plain, Kinds, Sent, Msg, Message, Negotiation, Requests
<1> QED BY <1>1, <1>2 DEF HardReset, Silent

LEMMA TakenAside ==
  ASSUME WireTyped, cb' = Taken, waitRx' \in BOOLEAN, tx' \in Sent,
         now' \in BOOLEAN
  PROVE Aside
  BY DEF Taken, Callbacks, WireTyped, Aside, Negotiating, Null

LEMMA HardResetTaken ==
  ASSUME WireTyped, HardReset(Taken) PROVE Aside /\ Silent
<1>1. tx' \in Sent /\ now' \in BOOLEAN
  BY SendNoneTyped DEF HardReset
<1> QED BY <1>1, TakenAside, HardResetSilent DEF HardReset

LEMMA HardResetLateKeeps ==
  ASSUME Typed, HardReset([cb EXCEPT !.late = Null]),
         UNCHANGED <<reqFrame, contract, offer>>
  PROVE Keeps /\ Silent /\ NoPass
<1>1. tx' \in Sent /\ now' \in BOOLEAN
  BY SendNoneTyped DEF HardReset, Typed
<1>2. WireTyped' /\ cb'.rx = cb.rx
  BY <1>1 DEF HardReset, Typed, WireTyped, Callbacks
<1> QED BY <1>2, SameParts, HardResetSilent DEF Keeps, NoPass, Typed

LEMMA RearmOutcome ==
  ASSUME Typed, NEW rx \in Negotiating, NEW late, cb.rx = rx, Rearm(rx, late),
         UNCHANGED <<reqFrame, contract, offer>>
  PROVE (Leaves \/ (Keeps /\ UNCHANGED round)) /\ Silent /\ NoPass
<1>1. CASE Await(rx, Null, late) /\ SendNone /\ Unasked
  <2>1. tx' \in Sent /\ now' \in BOOLEAN
    BY <1>1, SendNoneTyped DEF Typed
  <2>2. WireTyped' /\ cb'.rx = cb.rx
    BY <1>1, <2>1 DEF Await, Callbacks, Typed, WireTyped
  <2> QED BY <1>1, <2>2, SameParts, UnaskedSilent
        DEF Keeps, NoPass, Unasked, chargerVars
<1>2. CASE RequestFailed /\ Unasked
  BY <1>2, RequestFailedAside, SameParts, BesidesLeaves, UnaskedSilent
     DEF Besides, Typed, NoPass
<1>3. CASE HardReset(Taken)
  BY <1>3, HardResetTaken, SameParts, BesidesLeaves DEF Besides, Typed, NoPass
<1> QED BY <1>1, <1>2, <1>3 DEF Rearm

LEMMA RxAcceptOutcome ==
  ASSUME Typed, NEW m \in Packet, RxAccept(m)
  PROVE Outcome(m) /\ Silent /\ NoPass
<1> USE DEF RxAccept
<1>1. CASE /\ m.k = "accept" /\ PostTx
           /\ Await("RX_PS_RDY", Null, "PS_RDY_Failed")
           /\ SendNone /\ Unasked /\ UNCHANGED <<req, offer>>
  <2>1. tx' \in Sent /\ now' = FALSE
    BY <1>1, SendNoneTyped DEF Typed, SendNone
  <2>2. WireTyped' /\ cb'.rx = "RX_PS_RDY"
    BY <1>1, <2>1 DEF Await, Callbacks, WireTyped, Handlers, Null
  <2> QED BY <1>1, <2>1, <2>2, SameParts, UnaskedSilent
        DEF PostTx, Advances, Outcome, NoPass
<1>2. CASE m.k = "caps" /\ offer' = [now |-> m.o, held |-> m.o]
           /\ TxRequest(req, m.o) /\ Unasked
  <2>1. offer' \in [now : Fingerprints, held : Fingerprints]
    BY <1>2 DEF Packet, Fingerprints
  <2>2. PartsTyped' /\ contract' \in {contract, FALSE}
    BY <2>1, FrameTyped DEF Typed, PartsTyped
  <2> QED BY <1>2, <2>2, TxRequestAsks, UnaskedSilent
        DEF Leaves, Outcome, NoPass, reqFrame, probeVars
<1>3. CASE RequestFailed /\ Unasked /\ UNCHANGED offer
  BY <1>3, RequestFailedAside, SameParts, BesidesLeaves, UnaskedSilent
     DEF Besides, Typed, Outcome, NoPass
<1>4. CASE Rearm("RX_Accept", "Request_Failed") /\ UNCHANGED offer
  BY <1>4, RearmOutcome DEF Outcome, Negotiating
<1> QED BY <1>1, <1>2, <1>3, <1>4

LEMMA EstablishedBegins ==
  ASSUME Typed, NEW m, cb.rx = "RX_PS_RDY", m.k = "psrdy", aged = 0, Established,
         Unasked
  PROVE Begins(m) /\ NoPass
<1>1. contract' = TRUE /\ NoPass
      /\ UNCHANGED <<offer, guard, settle, info, round>>
  BY DEF Established, NoPass, Unasked, chargerVars
<1>2. SUFFICES Aside /\ vdm' \in VdmSet /\ critical' \in BOOLEAN
               /\ probe' \in ProbeSet
  BY <1>1, AsideTyped DEF Begins, Aside, Negotiating, Typed, PartsTyped
<1>3. WireTyped /\ vdm \in VdmSet /\ critical \in BOOLEAN /\ probe \in ProbeSet
      /\ offer.now \in Fingerprints
  BY DEF Typed, PartsTyped
<1> DEFINE known == [probe EXCEPT !.done = TRUE, !.probed = offer.now]
<1>4. known \in ProbeSet
  <2> DEFINE a == [probe EXCEPT !.done = TRUE]
  <2>1. a \in ProbeSet
    BY <1>3 DEF ProbeSet
  <2> HIDE DEF a
  <2>2. [a EXCEPT !.probed = offer.now] \in ProbeSet
    BY <1>3, <2>1 DEF ProbeSet
  <2> QED BY <2>2 DEF a
<1>5. CASE probe' = known /\ EprEnter(epr, vdm, offer, FALSE)
  BY <1>3, <1>4, <1>5, EprEnterAside
<1>6. CASE probe' = known /\ critical' = FALSE /\ vdm' = Armed(vdm)
           /\ Rest /\ SendNone
  BY <1>3, <1>4, <1>6, RestAside DEF Armed, VdmSet
<1>7. CASE ProbeStart
  <2>1. CASE probe.active
    BY <1>3, <1>7, <2>1, RestAside DEF ProbeStart
  <2>2. CASE ~probe.active
    <3> DEFINE a == [probe EXCEPT !.active = TRUE]
               b == [a EXCEPT !.step = 1]
    <3>1. a \in ProbeSet
      BY <1>3 DEF ProbeSet
    <3> HIDE DEF a
    <3>2. 1 \in 0..LastProbe+1 /\ 1 \in Steps
      BY StepAssumption DEF Steps
    <3>3. b \in ProbeSet
      BY <3>1, <3>2 DEF ProbeSet
    <3>4. probe' = [b EXCEPT !.quiet = 0]
      BY <1>7, <2>2 DEF ProbeStart, a
    <3> HIDE DEF b
    <3>5. probe' \in ProbeSet
      BY <3>3, <3>4 DEF ProbeSet
    <3>6. tx' \in Sent
      BY <1>7, <2>2, <3>2, GetSent DEF ProbeStart, Queue
    <3>7. now' = FALSE /\ UNCHANGED <<vdm, critical>>
          /\ Await("InfoProbe_RX", "InfoProbe_TxFailed", "InfoProbe_RxTimeout")
      BY <1>7, <2>2 DEF ProbeStart, Queue
    <3>8. Aside
      BY <3>6, <3>7 DEF Await, Callbacks, Aside, Negotiating, Handlers, Null
    <3> QED BY <1>3, <3>5, <3>7, <3>8
  <2> QED BY <2>1, <2>2
<1> QED BY <1>5, <1>6, <1>7 DEF Established

LEMMA RxPsRdyOutcome ==
  ASSUME Typed, NEW m \in Packet, RxPsRdy(m)
  PROVE Outcome(m) /\ Silent /\ NoPass
<1> USE DEF RxPsRdy
<1>1. CASE m.k = "psrdy" /\ PostTx /\ Established /\ Unasked
  BY <1>1, EstablishedBegins, UnaskedSilent DEF PostTx, Outcome
<1>2. CASE RequestFailed /\ Unasked /\ UNCHANGED <<reqFrame, contract, offer>>
  BY <1>2, RequestFailedAside, SameParts, BesidesLeaves, UnaskedSilent
     DEF Besides, Typed, Outcome, NoPass
<1>3. CASE /\ Rearm("RX_PS_RDY", "PS_RDY_Failed")
           /\ UNCHANGED <<reqFrame, contract, offer>>
  BY <1>3, RearmOutcome DEF Outcome, Negotiating
<1> QED BY <1>1, <1>2, <1>3

LEMMA RequestLateOutcome ==
  ASSUME Typed, RequestLate PROVE (Leaves \/ Keeps) /\ Silent /\ NoPass
<1>1. CASE RequestFailed /\ Unasked /\ UNCHANGED <<reqFrame, contract, offer>>
  BY <1>1, RequestFailedAside, SameParts, BesidesLeaves, UnaskedSilent
     DEF Besides, Typed, NoPass
<1>2. CASE /\ HardReset([cb EXCEPT !.late = Null])
           /\ UNCHANGED <<reqFrame, req, contract, offer>>
  BY <1>2, HardResetLateKeeps
<1> QED BY <1>1, <1>2 DEF RequestLate

LEMMA RequestTxFailedBesides ==
  ASSUME Typed, RequestTxFailed PROVE Besides /\ NoPass
  BY RequestFailedAside, SameParts
     DEF RequestTxFailed, Besides, Typed, NoPass

-----------------------------------------------------------------------------
(* Source_Capabilities *)

\* The wire as Leaves has it, and what goes with it
Offered(v) ==
  /\ WireTyped'
  /\ cb'.rx # "RX_PS_RDY" /\ (cb'.rx = "RX_Accept" => now' = TRUE)
  /\ vdm' \in VdmSet /\ critical' \in BOOLEAN
  /\ offer' \in [now : Fingerprints, held : Fingerprints]

LEMMA UnderContractOffered ==
  ASSUME Typed, contract = TRUE, NEW STATE e, NEW STATE p, NEW STATE r,
         NEW STATE v, v \in VdmSet, NEW o \in Offers,
         UnderContract(e, p, v, o, r)
  PROVE /\ Offered(v) /\ contract' \in BOOLEAN
        /\ guard' \in BOOLEAN /\ settle' \in BOOLEAN
<1>1. /\ WireTyped /\ critical \in BOOLEAN /\ waitRx \in BOOLEAN
      /\ guard \in BOOLEAN /\ settle \in BOOLEAN
  BY DEF Typed, PartsTyped, WireTyped
<1>2. offer' \in [now : Fingerprints, held : Fingerprints]
  BY DEF UnderContract, Fingerprints
<1>3. CASE Upgrade(e, v, o)
  <2> DEFINE f == [e EXCEPT !.pps = FALSE, !.done = FALSE, !.sinkcap = FALSE]
             n == [now |-> o, held |-> o]
  <2>1. EprEnter(f, Cancelled(v), n, waitRx) /\ contract' = TRUE
        /\ UNCHANGED <<guard, settle>>
    BY <1>3 DEF Upgrade
  <2>2. Cancelled(v) \in VdmSet
    BY DEF Cancelled, VdmSet
  <2> HIDE DEF f, n
  <2>3. Aside /\ vdm' \in VdmSet /\ critical' \in BOOLEAN
    BY <1>1, <2>1, <2>2, EprEnterAside
  <2> QED BY <1>1, <1>2, <2>1, <2>3, AsideTyped
        DEF Offered, Aside, Negotiating
<1>4. CASE Hold(e, p, v, o)
  <2>1. Aside
    BY <1>1, <1>4, RestAside DEF Hold
  <2> QED BY <1>1, <1>2, <1>4, <2>1, AsideTyped
        DEF Hold, Offered, Aside, Negotiating
<1>5. CASE Renegotiate(e, p, v, o, r)
  BY <1>1, <1>2, <1>5, TxRequestAsks DEF Renegotiate, Offered
<1> QED BY <1>3, <1>4, <1>5 DEF UnderContract

LEMMA FirstOfferOffered ==
  ASSUME Typed, NEW STATE e, NEW STATE r, NEW STATE v, v \in VdmSet,
         NEW o \in Offers, FirstOffer(e, v, o, r), critical' \in BOOLEAN
  PROVE Offered(v) /\ contract' = FALSE
<1>1. WireTyped /\ critical \in BOOLEAN /\ offer.held \in Fingerprints
  BY DEF Typed, PartsTyped
<1>2. CASE Muted(e, v, r) /\ offer' = [now |-> o, held |-> offer.held]
  <2>1. Aside
    BY <1>1, <1>2, RestAside DEF Muted
  <2> QED BY <1>1, <1>2, <2>1, AsideTyped
        DEF Muted, Offered, Aside, Negotiating, Fingerprints
<1>3. CASE Ask(e, v, o, r) /\ offer' = [now |-> o, held |-> o]
  <2> DEFINE q == [r EXCEPT !.stop = FALSE]
  <2>1. TxRequest(q, o) /\ contract' = FALSE /\ vdm' = v
    BY <1>3 DEF Ask
  <2> HIDE DEF q
  <2> QED BY <1>1, <1>3, <2>1, TxRequestAsks DEF Offered, Fingerprints
<1> QED BY <1>2, <1>3 DEF FirstOffer

LEMMA OfferReceivedLeaves ==
  ASSUME Typed, NEW o \in Offers, NEW first, NEW STATE e, NEW STATE p,
         p \in ProbeSet, NEW STATE r, NEW STATE v, v \in VdmSet, NEW STATE c,
         c \in {contract, FALSE}, OfferReceived(o, first, e, p, r, v, c),
         info' \in [Steps -> Statuses],
         ~c => guard' \in BOOLEAN /\ settle' \in BOOLEAN
               /\ critical' \in BOOLEAN
  PROVE Leaves
<1> DEFINE new == Restarted(p, o, first)
           q == IF new THEN [p EXCEPT !.probed = NoOffer, !.done = FALSE] ELSE p
           f == IF new THEN [e EXCEPT !.done = FALSE] ELSE e
<1>1. /\ probe' = q
      /\ \/ c /\ UnderContract(f, q, v, o, r)
         \/ ~c /\ FirstOffer(f, v, o, r)
  BY DEF OfferReceived
<1>2. q \in ProbeSet
  <2> DEFINE a == [p EXCEPT !.probed = NoOffer]
  <2>1. a \in ProbeSet
    BY DEF ProbeSet, Fingerprints
  <2> HIDE DEF a
  <2>2. [a EXCEPT !.done = FALSE] \in ProbeSet
    BY <2>1 DEF ProbeSet
  <2> QED BY <2>2 DEF a
<1> HIDE DEF q, f, new
<1>3. CASE c /\ UnderContract(f, q, v, o, r)
  <2>1. contract = TRUE
    BY <1>3 DEF Typed, PartsTyped
  <2>2. /\ Offered(v) /\ contract' \in BOOLEAN
        /\ guard' \in BOOLEAN /\ settle' \in BOOLEAN
    BY <1>3, <2>1, UnderContractOffered
  <2> QED BY <1>1, <1>2, <2>1, <2>2 DEF Offered, Leaves, PartsTyped
<1>4. CASE ~c /\ FirstOffer(f, v, o, r)
  <2>1. Offered(v) /\ contract' = FALSE
    BY <1>4, FirstOfferOffered
  <2> QED BY <1>1, <1>2, <1>4, <2>1 DEF Offered, Leaves, PartsTyped
<1> QED BY <1>1, <1>3, <1>4

LEMMA OfferInTyped == ASSUME NEW m \in Packet PROVE OfferIn(m) \in Offers
  BY OfferAssumption DEF OfferIn, Packet

LEMMA RxSrcCapLeaves ==
  ASSUME Typed, NEW m \in Packet, NEW STATE e, RxSrcCap(m, e)
  PROVE Leaves /\ Silent /\ NoPass
<1>1. PICK first \in IsFirst(m) :
        OfferReceived(OfferIn(m), first, e, probe, req, vdm, contract)
  BY DEF RxSrcCap
<1>2. /\ probe \in ProbeSet /\ vdm \in VdmSet /\ contract \in BOOLEAN
      /\ info' \in [Steps -> Statuses]
      /\ ~contract => guard' \in BOOLEAN /\ settle' \in BOOLEAN
                     /\ critical' \in BOOLEAN
  BY DEF RxSrcCap, Typed, PartsTyped
<1>3. Leaves
  BY <1>1, <1>2, OfferInTyped, OfferReceivedLeaves
<1> QED BY <1>3, UnaskedSilent DEF RxSrcCap, NoPass

LEMMA OfferDeliveredLeaves ==
  ASSUME Typed, NEW m \in Packet, OfferDelivered(m)
  PROVE Leaves /\ Silent /\ NoPass
<1>1. ASSUME NEW STATE e, RxSrcCap(m, e) PROVE Leaves /\ Silent /\ NoPass
  BY <1>1, RxSrcCapLeaves
<1>2. CASE /\ m.k = "caps" /\ offer' = [now |-> m.o, held |-> m.o]
           /\ TxRequest(req, m.o) /\ Unasked
           /\ UNCHANGED <<probeVars, vdm, critical, contract, guard, settle>>
  <2>1. offer' \in [now : Fingerprints, held : Fingerprints]
    BY <1>2 DEF Packet, Fingerprints
  <2>2. PartsTyped' /\ contract' \in {contract, FALSE}
    BY <1>2, <2>1 DEF Typed, PartsTyped, probeVars
  <2> QED BY <1>2, <2>2, TxRequestAsks, UnaskedSilent
        DEF Leaves, NoPass, probeVars
<1>3. CASE RxSrcCap(m, [epr EXCEPT !.exits = 0])
  <2> DEFINE e == [epr EXCEPT !.exits = 0]
  <2> HIDE DEF e
  <2>1. RxSrcCap(m, e)
    BY <1>3 DEF e
  <2> QED BY <1>1, <2>1
<1> QED BY <1>1, <1>2, <1>3 DEF OfferDelivered

-----------------------------------------------------------------------------
(* Soft_Reset *)

LEMMA AcceptSent == Msg("accept") \in Sent
  BY MsgSent DEF Plain, Kinds

LEMMA AnswerSoftResetBesides ==
  ASSUME Typed, NEW STATE p, p \in ProbeSet, NEW STATE e, NEW STATE v,
         v \in VdmSet, AnswerSoftReset(p, e, v),
         info' \in [Steps -> Statuses]
  PROVE Besides /\ Silent
<1>1. p \in AnyStep
  BY StepAssumption DEF ProbeSet, AnyStep
<1>2. probe' \in ProbeSet
  BY <1>1, ConcludedTyped DEF AnswerSoftReset
<1>3. vdm' \in VdmSet
  BY DEF AnswerSoftReset, VdmSet
<1>4. Aside
  BY AcceptSent DEF AnswerSoftReset, Queue, Callbacks, Aside, Negotiating,
     Handlers, Null
<1>5. contract' = FALSE /\ guard' = FALSE /\ settle' = FALSE
      /\ UNCHANGED <<critical, offer>>
  BY DEF AnswerSoftReset
<1> QED BY <1>2, <1>3, <1>4, <1>5, UnaskedSilent
      DEF AnswerSoftReset, Besides, Typed, PartsTyped

LEMMA SoftResetReceivedBesides ==
  ASSUME Typed, SoftResetReceived PROVE Besides /\ Silent /\ NoPass
<1>1. probe \in ProbeSet /\ vdm \in VdmSet /\ info \in [Steps -> Statuses]
  BY DEF Typed, PartsTyped
<1> DEFINE over == [Concluded(probe) EXCEPT !.quiet = 0]
<1>2. over \in ProbeSet /\ Forgotten(vdm) \in VdmSet
  BY <1>1, ConcludedTyped, ProbeAnyStep, ForgottenTyped
<1> HIDE DEF over
<1>3. CASE AnswerSoftReset(probe, epr, vdm) /\ UNCHANGED info
  BY <1>1, <1>3, AnswerSoftResetBesides DEF NoPass
<1>4. CASE AnswerSoftReset(over, epr, Forgotten(vdm)) /\ UNCHANGED info
  BY <1>1, <1>2, <1>4, AnswerSoftResetBesides DEF NoPass
<1>5. CASE AnswerSoftReset(over, epr, vdm)
           /\ info' = Recorded(probe.step, "rejected")
  <2>1. info' \in [Steps -> Statuses] /\ NoPass
    BY <1>5, RecordedTyped DEF NoPass, Statuses
  <2> QED BY <1>1, <1>2, <1>5, <2>1, AnswerSoftResetBesides
<1>6. ASSUME NEW STATE e, AnswerSoftReset(probe, e, vdm), UNCHANGED info
      PROVE Besides /\ Silent /\ NoPass
  BY <1>1, <1>6, AnswerSoftResetBesides DEF NoPass
<1>7. CASE /\ AnswerSoftReset(probe, [epr EXCEPT !.resets = 0, !.buf = FALSE], vdm)
           /\ UNCHANGED info
  <2> DEFINE e == [epr EXCEPT !.resets = 0, !.buf = FALSE]
  <2>1. AnswerSoftReset(probe, e, vdm) /\ UNCHANGED info
    BY <1>7
  <2> HIDE DEF e
  <2> QED BY <1>6, <2>1
<1> QED BY <1>3, <1>4, <1>5, <1>7 DEF SoftResetReceived, over

LEMMA TxSoftResetBesides ==
  ASSUME Typed, TxSoftReset PROVE Besides /\ NoPass
<1>1. tx' \in Sent
  BY MsgSent DEF TxSoftReset, Queue, Plain, Kinds
<1>2. vdm' \in VdmSet
  BY DEF TxSoftReset, Typed, PartsTyped, VdmSet
<1>3. Aside
  BY <1>1 DEF TxSoftReset, Queue, Await, Callbacks, Aside, Negotiating,
     Handlers, Null
<1>4. contract' = FALSE /\ guard' = FALSE /\ settle' = FALSE
      /\ UNCHANGED <<probeVars, critical, offer>>
  BY DEF TxSoftReset
<1> QED BY <1>2, <1>3, <1>4 DEF Besides, Typed, PartsTyped, probeVars, NoPass

LEMMA WaitSrcCapAside ==
  ASSUME WaitSrcCap, tx' \in Sent, now' \in BOOLEAN PROVE Aside
  BY DEF WaitSrcCap, Await, Callbacks, Aside, Negotiating, Handlers, Null

LEMMA SoftResetAnsweredBesides ==
  ASSUME Typed, NEW m, SoftResetAnswered(m) PROVE Besides /\ Silent /\ NoPass
<1>1. CASE WaitSrcCap /\ SendNone /\ Unasked
  BY <1>1, SendNoneTyped, WaitSrcCapAside, SameParts, UnaskedSilent
     DEF SoftResetAnswered, Besides, Typed, NoPass
<1>2. CASE HardReset(Taken)
  BY <1>2, HardResetTaken, SameParts
     DEF SoftResetAnswered, Besides, Typed, NoPass
<1> QED BY <1>1, <1>2 DEF SoftResetAnswered

-----------------------------------------------------------------------------
(* pProt_IDLE and the drain *)

LEMMA IdleControlAside ==
  ASSUME WireTyped, NEW m \in Packet, IdleControl(m) PROVE Aside /\ Silent
<1>1. CASE Reply /\ Unasked
  <2>1. tx' \in Sent /\ now' \in BOOLEAN /\ waitRx' \in BOOLEAN /\ cb' = Taken
    BY <1>1, MsgSent DEF Reply, SendNow, Plain, Kinds, WireTyped
  <2> QED BY <1>1, <2>1, TakenAside, UnaskedSilent
<1>2. CASE HardReset(Taken)
  BY <1>2, HardResetTaken
<1>3. CASE cb' = Taken /\ UNCHANGED waitRx /\ AskChunk(Num("chunkinfo", m.n))
  <2>1. Num("chunkinfo", m.n) \in Sent
    BY NumSent DEF Packet, Plain, Kinds
  <2>2. Num("chunkinfo", m.n).k \notin Negotiation
    BY DEF Num, Message, Negotiation, Requests
  <2>3. Silent /\ tx' \in Sent /\ now' \in BOOLEAN
    BY <1>3, <2>1, <2>2, AskChunkSilent
  <2> QED BY <1>3, <2>3, TakenAside DEF WireTyped
<1>4. CASE Ignored /\ Unasked
  <2>1. tx' \in Sent /\ now' \in BOOLEAN
    BY <1>4, SendNoneTyped DEF Ignored
  <2> QED BY <1>4, <2>1, TakenAside, UnaskedSilent DEF Ignored, WireTyped
<1> QED BY <1>1, <1>2, <1>3, <1>4 DEF IdleControl

LEMMA IdleBesides ==
  ASSUME Typed, NEW m \in Packet, Idle(m) PROVE Besides /\ Silent /\ Passes(m)
<1>1. CASE Quarantined(m) /\ Unasked
  <2>1. tx' \in Sent /\ now' \in BOOLEAN
    BY <1>1, SendNoneTyped DEF Quarantined, Typed
  <2>2. Aside
    BY <1>1, <2>1 DEF Quarantined, IdleOnly, Callbacks, Typed, WireTyped,
       Aside, Negotiating, Handlers, Null
  <2> QED BY <1>1, <2>2, UnaskedSilent, SameInfo
        DEF Quarantined, Besides, Typed, PartsTyped, probeVars
<1>2. CASE CapsDelivered(m) /\ UNCHANGED <<probeVars, req>>
  BY <1>2, CapsDeliveredAside, EprAsideBesides, SameInfo
     DEF Typed, PartsTyped, probeVars
<1>3. CASE TxSoftReset /\ Unasked
  BY <1>3, TxSoftResetBesides, UnaskedSilent DEF NoPass, Passes
<1>4. CASE RxVdm(m) /\ Unasked
  BY <1>4, RxVdmBesides, UnaskedSilent
<1>5. CASE IdleControl(m) /\ UNCHANGED <<reqFrame, req, contract, offer>>
  BY <1>5, IdleControlAside, SameParts, SameInfo DEF Besides, Typed
<1> QED BY <1>1, <1>2, <1>3, <1>4, <1>5 DEF Idle

LEMMA NoHandlerOutcome ==
  ASSUME Typed, NEW m \in Packet, NoHandler(m)
  PROVE Outcome(m) /\ Silent /\ NoPass
<1>1. CASE RxSrcCap(m, epr)
  BY <1>1, RxSrcCapLeaves DEF Outcome
<1>2. CASE /\ SendNow(Msg("accept")) \/ SendNone
           /\ UNCHANGED <<cb, waitRx>>
           /\ Unasked /\ UNCHANGED policyVars
  <2>1. tx' \in Sent /\ now' \in BOOLEAN
    BY <1>2, AcceptSent, SendNoneTyped DEF SendNow, Typed
  <2>2. Keeps /\ NoPass
    BY <1>2, <2>1 DEF Keeps, NoPass, Typed, WireTyped, PartsTyped, policyVars,
       eprFrame
  <2> QED BY <1>2, <2>2, UnaskedSilent DEF Outcome, Unasked, chargerVars
<1> QED BY <1>1, <1>2 DEF NoHandler

LEMMA HandleOutcome ==
  ASSUME Typed, NEW m \in Packet, Handle(m)
  PROVE Outcome(m) /\ Silent /\ Passes(m)
<1>1. CASE EprDelivered(m) /\ UNCHANGED <<probeVars, req>>
  <2>1. Besides /\ Silent /\ Passes(m)
    BY <1>1, EprDeliveredAside, EprAsideBesides, SameInfo
       DEF Typed, PartsTyped, probeVars
  <2> QED BY <2>1, BesidesLeaves DEF Outcome
<1>2. CASE ProbeDelivered(m)
  BY <1>2, ProbeDeliveredBesides, BesidesLeaves DEF Outcome
<1>3. CASE VdmDelivered(m) /\ Unasked
  BY <1>3, RxVdmBesides, BesidesLeaves, UnaskedSilent DEF VdmDelivered, Outcome
<1>4. CASE RxAccept(m)
  BY <1>4, RxAcceptOutcome DEF NoPass, Passes
<1>5. CASE RxPsRdy(m)
  BY <1>5, RxPsRdyOutcome DEF NoPass, Passes
<1>6. CASE SoftResetAnswered(m)
  BY <1>6, SoftResetAnsweredBesides, BesidesLeaves DEF Outcome, NoPass, Passes
<1>7. CASE OfferDelivered(m)
  BY <1>7, OfferDeliveredLeaves DEF Outcome, NoPass, Passes
<1>8. CASE IdleDelivered(m)
  BY <1>8, IdleBesides, BesidesLeaves DEF IdleDelivered, Outcome
<1>9. CASE NoHandler(m)
  BY <1>9, NoHandlerOutcome DEF NoPass, Passes
<1>10. CASE SrcCapSoftReset /\ Unasked /\ UNCHANGED <<probeVars, req>>
  <2>1. Besides /\ Silent /\ Passes(m)
    BY <1>10, SrcCapSoftResetAside, EprAsideBesides, SameInfo, UnaskedSilent
       DEF Typed, PartsTyped, probeVars
  <2> QED BY <2>1, BesidesLeaves DEF Outcome
<1> QED BY <1>1, <1>2, <1>3, <1>4, <1>5, <1>6, <1>7, <1>8, <1>9, <1>10 DEF Handle

LEMMA AttachAndOfferLeaves ==
  ASSUME Typed, NEW m \in Packet, AttachAndOffer(m)
  PROVE Leaves /\ Silent /\ NoPass
<1> DEFINE ended == [probe EXCEPT !.active = FALSE, !.step = 0]
           p == IF probe.active /\ offer.now # NoOffer
                THEN [ended EXCEPT !.done = TRUE, !.probed = offer.now]
                ELSE ended
           r == [req EXCEPT !.stop = FALSE]
           v == [Forgotten(vdm) EXCEPT !.mode = FALSE]
<1>1. info' \in [Steps -> Statuses] /\ NoPass
  BY DEF AttachAndOffer, InfoFresh, Statuses, NoPass
<1>2. PICK first : OfferReceived(OfferIn(m), first, epr, p, r, v, FALSE)
  BY DEF AttachAndOffer
<1>3. v \in VdmSet
  <2>1. Forgotten(vdm) \in VdmSet
    BY ForgottenTyped DEF Typed, PartsTyped
  <2> QED BY <2>1 DEF VdmSet
<1>4. ended \in ProbeSet
  <2> DEFINE a == [probe EXCEPT !.active = FALSE]
  <2>1. a \in ProbeSet
    BY DEF Typed, PartsTyped, ProbeSet
  <2> HIDE DEF a
  <2>2. 0 \in 0..LastProbe+1
    BY StepAssumption
  <2>3. [a EXCEPT !.step = 0] \in ProbeSet
    BY <2>1, <2>2 DEF ProbeSet
  <2> QED BY <2>3 DEF a
<1>5. p \in ProbeSet
  <2> DEFINE a == [ended EXCEPT !.done = TRUE]
  <2> HIDE DEF ended
  <2>1. a \in ProbeSet
    BY <1>4 DEF ProbeSet
  <2> HIDE DEF a
  <2>2. [a EXCEPT !.probed = offer.now] \in ProbeSet
    BY <2>1, ProbeAnyStep DEF ProbeSet
  <2> QED BY <1>4, <2>2 DEF a
<1>6. guard' \in BOOLEAN /\ settle' \in BOOLEAN /\ critical' \in BOOLEAN
  BY DEF AttachAndOffer
<1> HIDE DEF p, r, v
<1>7. Leaves
  BY <1>1, <1>2, <1>3, <1>5, <1>6, OfferInTyped, OfferReceivedLeaves
<1> QED BY <1>1, <1>7, UnaskedSilent DEF AttachAndOffer

-----------------------------------------------------------------------------
(* The timers and the failed transmissions *)

LEMMA TimeoutOutcome ==
  ASSUME Typed, Timeout PROVE (Leaves \/ Keeps) /\ Silent /\ NoPass
<1>1. CASE EprLate /\ UNCHANGED <<probeVars, req>>
  <2>1. Besides /\ Silent /\ NoPass
    BY <1>1, EprLateAside, EprAsideBesides DEF Typed, PartsTyped, probeVars, NoPass
  <2> QED BY <2>1, BesidesLeaves
<1>2. CASE (ProbeLate \/ VdmLate) /\ UNCHANGED req
  BY <1>2, ProbeLateBesides, VdmLateBesides, BesidesLeaves
<1>3. CASE RequestLate
  BY <1>3, RequestLateOutcome
<1>4. CASE HardResetLate
  BY <1>4, HardResetLateKeeps DEF HardResetLate
<1>5. CASE /\ waitRx' = FALSE /\ SendNone
           /\ Unasked /\ UNCHANGED <<cb, policyVars>>
  <2>1. tx' \in Sent /\ now' \in BOOLEAN
    BY <1>5, SendNoneTyped DEF Typed
  <2>2. Keeps /\ NoPass
    BY <1>5, <2>1 DEF Keeps, NoPass, Typed, WireTyped, PartsTyped, policyVars,
       eprFrame
  <2> QED BY <1>5, <2>2, UnaskedSilent
<1> QED BY <1>1, <1>2, <1>3, <1>4, <1>5 DEF Timeout

LEMMA GuardTickOutcome ==
  ASSUME Typed, GuardTick PROVE (Leaves \/ Keeps) /\ Silent /\ NoPass
<1>1. PartsTyped' /\ contract' = contract /\ contract \in BOOLEAN
  BY DEF GuardTick, Typed, PartsTyped, probeVars
<1>2. CASE SendNone /\ UNCHANGED <<cb, waitRx>>
  <2>1. tx' \in Sent /\ now' \in BOOLEAN
    BY <1>2, SendNoneTyped DEF Typed
  <2> QED BY <1>1, <1>2, <2>1, UnaskedSilent
        DEF GuardTick, Keeps, NoPass, Typed, WireTyped, probeVars
<1>3. CASE TxRequest(req, offer.now)
  BY <1>1, <1>3, TxRequestAsks, UnaskedSilent
     DEF GuardTick, Leaves, NoPass, probeVars
<1> QED BY <1>2, <1>3 DEF GuardTick

LEMMA SettleTickOutcome ==
  ASSUME Typed, SettleTick PROVE (Leaves \/ Keeps) /\ Silent /\ NoPass
<1>1. /\ settle' = FALSE /\ Silent /\ NoPass
      /\ UNCHANGED <<probe, info, guard, contract, offer>>
  BY UnaskedSilent DEF SettleTick, NoPass, probeVars
<1>2. CASE SendNone /\ UNCHANGED <<cb, waitRx, epr, vdm, critical>>
  <2>1. tx' \in Sent /\ now' \in BOOLEAN
    BY <1>2, SendNoneTyped DEF Typed
  <2> QED BY <1>1, <1>2, <2>1 DEF Keeps, Typed, WireTyped, PartsTyped
<1>3. CASE EprEnter(epr, vdm, offer, FALSE)
  <2>1. WireTyped /\ vdm \in VdmSet /\ critical \in BOOLEAN
    BY DEF Typed, PartsTyped
  <2>2. Aside /\ vdm' \in VdmSet /\ critical' \in BOOLEAN
    BY <1>3, <2>1, EprEnterAside
  <2>3. Besides
    BY <1>1, <2>2 DEF Besides, Typed, PartsTyped
  <2> QED BY <1>1, <2>3, BesidesLeaves
<1> QED BY <1>2, <1>3 DEF SettleTick

LEMMA TicksOutcome ==
  ASSUME Typed, Ticks PROVE (Leaves \/ Keeps) /\ Silent /\ NoPass
  BY VdmTickBesides, GuardTickOutcome, SettleTickOutcome, BesidesLeaves DEF Ticks

\* The handlers of a transmission that failed
Failed ==
  \/ EprTxFailed /\ UNCHANGED <<probeVars, req>>
  \/ (ProbeTxFailed \/ VdmTxFailed) /\ UNCHANGED req
  \/ RequestTxFailed
  \/ cb.fail = "TX_SoftRst" /\ TxSoftReset /\ Overtaken
  \/ /\ cb.fail = Null /\ SendNone /\ Overtaken
     /\ UNCHANGED <<cb, waitRx, policyVars>>

LEMMA FailedOutcome ==
  ASSUME Typed, Failed PROVE (Besides \/ Keeps) /\ NoPass
<1>1. CASE EprTxFailed /\ UNCHANGED <<probeVars, req>>
  BY <1>1, EprTxFailedAside, EprAsideBesides
     DEF Typed, PartsTyped, probeVars, NoPass
<1>2. CASE (ProbeTxFailed \/ VdmTxFailed) /\ UNCHANGED req
  BY <1>2, ProbeTxFailedBesides, VdmTxFailedBesides
<1>3. CASE RequestTxFailed
  BY <1>3, RequestTxFailedBesides
<1>4. CASE TxSoftReset /\ Overtaken
  BY <1>4, TxSoftResetBesides
<1>5. CASE SendNone /\ Overtaken /\ UNCHANGED <<cb, waitRx, policyVars>>
  <2>1. tx' \in Sent /\ now' \in BOOLEAN
    BY <1>5, SendNoneTyped DEF Typed
  <2> QED BY <1>5, <2>1 DEF Keeps, NoPass, Typed, WireTyped, PartsTyped,
        policyVars, eprFrame
<1> QED BY <1>1, <1>2, <1>3, <1>4, <1>5 DEF Failed

-----------------------------------------------------------------------------
(* The charger *)

\* What the charger may answer to what it heard
LEMMA AnswerTyped ==
  ASSUME NEW q \in Packet, NEW a, set \in Offers, a \in Answers(q)
  PROVE /\ a.m \in Packet /\ a.then \in Packet
        /\ a.m.k = "psrdy" => q.k = "accepted"
        /\ a.then.k \notin Requests
        /\ a.then.k = "accepted" => q.k \in Requests /\ a.m.k = "accept"
<1> DEFINE Fine(x) ==
      /\ x.m \in Packet /\ x.then \in Packet
      /\ x.m.k = "psrdy" => q.k = "accepted"
      /\ x.then.k \notin Requests
      /\ x.then.k = "accepted" => q.k \in Requests /\ x.m.k = "accept"
      Spoken == Kinds \ {"caps", "get", "info", "infomore", "accepted"}
<1>1. ASSUME NEW k \in Spoken, k # "psrdy" PROVE Fine(Last(Msg(k)))
  BY <1>1 DEF Last, Answer, Msg, Message, NoTx, Packet, Kinds, Requests
<1>2. ASSUME NEW k \in Spoken, NEW j \in Spoken \ Requests, k # "psrdy"
      PROVE Fine(Answer(Msg(k), Msg(j)))
  BY <1>2 DEF Answer, Msg, Message, Packet, Kinds, Requests
<1>3. ASSUME NEW n \in Int PROVE Fine(Last(Message("caps", set, n)))
  BY DEF Last, Answer, Msg, Message, NoTx, Packet, Kinds, Requests
<1>4. ASSUME NEW n \in Int PROVE Fine(Last(Num("acksvids", n)))
  BY DEF Last, Answer, Msg, Num, Message, NoTx, Packet, Kinds, Requests
<1>5. CASE q.k \in Requests
  <2>1. Fine(Answer(Msg("accept"), Num("accepted", q.n)))
    BY <1>5 DEF Answer, Msg, Num, Message, Packet, Kinds, Requests
  <2>2. a \in {Answer(Msg("accept"), Num("accepted", q.n))} \cup Refusal
                \cup Capabilities(1)
    BY <1>5 DEF Answers, Requests
  <2> QED BY <1>1, <1>3, <2>1, <2>2 DEF Refusal, Capabilities, Kinds, Fine
<1>6. CASE q.k = "accepted"
  <2>1. a = Last(Msg("psrdy"))
    BY <1>6 DEF Answers, Requests
  <2> QED BY <1>6, <2>1 DEF Last, Answer, Msg, Message, NoTx, Packet, Kinds,
        Requests
<1>7. CASE q.k = "get"
  <2>1. Fine(Last(Num("info", q.n))) /\ Fine(Last(Num("infomore", q.n)))
    BY <1>7 DEF Last, Answer, Msg, Num, Message, NoTx, Packet, Kinds, Requests
  <2>2. a \in {Last(Num("info", q.n)), Last(Num("infomore", q.n))} \cup Refusal
    BY <1>7 DEF Answers, Requests
  <2> HIDE DEF Fine
  <2> QED BY <1>1, <2>1, <2>2 DEF Refusal, Kinds, Fine
<1>8. CASE q.k = "svids"
  <2>1. \/ \E n \in 0..MaxSvids+1 : a = Last(Num("acksvids", n))
       \/ a = Last(Msg("vdmnak"))
    BY <1>8 DEF Answers, Requests
  <2> HIDE DEF Fine
  <2> QED BY <1>1, <1>4, <2>1, SvidAssumption DEF Kinds, Fine
<1>9. CASE q.k \in {"chunkinfo", "chunk", "garbled", "ppsstatus", "sinkcap"}
  <2>1. a \in {Last(Msg("infochunk")), Last(Msg("eprcaps1")),
               Last(Msg("notsupported")), Last(Msg("status"))}
                \cup Capabilities(1)
    BY <1>9 DEF Answers, Requests
  <2> HIDE DEF Fine
  <2> QED BY <1>1, <1>3, <2>1 DEF Capabilities, Kinds, Fine
<1>10. CASE q.k \in {"eprenter", "entering", "entered"}
  <2>1. a \in {Answer(Msg("eprack"), Msg("entering")),
               Answer(Msg("eprok"), Msg("entered")),
               Last(Msg("eprfail")), Last(Msg("notsupported")),
               Last(Msg("eprcaps0")), Last(Msg("eprcapsall"))}
    BY <1>10 DEF Answers, Requests
  <2> HIDE DEF Fine
  <2> QED BY <1>1, <1>2, <2>1 DEF Kinds, Requests, Fine
<1>11. CASE q.k \in {"eprexit", "ident", "modes", "softreset"}
  <2>1. a \in {Answer(Msg("exitack"), Msg("again")),
               Last(Msg("ackident")), Last(Msg("vdmnak")),
               Last(Msg("ackmodes")), Answer(Msg("accept"), Msg("restart"))}
                \cup Capabilities(1)
    BY <1>11 DEF Answers, Requests
  <2> HIDE DEF Fine
  <2> QED BY <1>1, <1>2, <1>3, <2>1 DEF Capabilities, Kinds, Requests, Fine
<1>12. CASE q.k \in {"again", "restart", "accept", "hardreset"}
  <2>1. a \in Capabilities(0) \cup Capabilities(1)
    BY <1>12 DEF Answers, Requests
  <2> HIDE DEF Fine
  <2> QED BY <1>3, <2>1 DEF Capabilities, Fine
<1>13. CASE q.k \notin Requests \cup {"accepted", "get", "svids", "chunkinfo",
          "chunk", "garbled", "ppsstatus", "sinkcap", "eprenter", "entering",
          "entered", "eprexit", "ident", "modes", "softreset", "again",
          "restart", "accept", "hardreset"}
  BY <1>13 DEF Answers
<1> QED BY <1>5, <1>6, <1>7, <1>8, <1>9, <1>10, <1>11, <1>12, <1>13

-----------------------------------------------------------------------------
(* The inductive invariant.  What the charger still has to say fits the    *)
(* round; while the device negotiates, and the Request has left, a PS_RDY  *)
(* that came after it is the one the charger granted; and an answer to a   *)
(* GET_* is in the ring, or recorded, only after the charger gave it.      *)

AskFits ==
  /\ ask.k \in Requests => round = "asked"
  /\ ask.k = "accepted" => round = "agreed"

Granted ==
  cb.rx \in Negotiating /\ ~now =>
    \A i \in aged+1..Len(inbox) : inbox[i].k = "psrdy" => round = "granted"

Told ==
  /\ \A i \in 1..Len(inbox) :
       inbox[i].k \in {"info", "infomore"} => inbox[i].n \in told
  /\ PassMeansAnswered

Inv == TypeInv /\ AskFits /\ Granted /\ Told

\* The charger says m, in the round r
Speaks(m, r) ==
  /\ m \in Packet /\ ask' \in Packet /\ round' \in Rounds /\ set' \in Offers
  /\ told \subseteq told' /\ told' \subseteq Steps
  /\ m.k \in {"info", "infomore"} => m.n \in told'
  /\ m.k = "psrdy" => round' = "granted"
  /\ \/ round' \in {r, "none"}
     \/ r = "asked" /\ round' = "agreed"
     \/ r = "agreed" /\ round' = "granted"
  /\ r = "granted" => round' = "granted"
  /\ AskFits'

LEMMA AnswerSpeaks ==
  ASSUME NEW q \in Packet, NEW a, a \in Answers(q), NEW r \in Rounds,
         q.k \in Requests => r = "asked", q.k = "accepted" => r = "agreed",
         ChargerTyped, Says(a.m, a.then, r)
  PROVE Speaks(a.m, r)
<1>1. /\ a.m \in Packet /\ a.then \in Packet
      /\ a.m.k = "psrdy" => q.k = "accepted"
      /\ a.then.k \notin Requests
      /\ a.then.k = "accepted" => q.k \in Requests /\ a.m.k = "accept"
  BY AnswerTyped DEF ChargerTyped
<1>2. ask' = a.then /\ set' = set
  BY DEF Says
<1>3. a.m.k \in {"info", "infomore"} => a.m.n \in Steps
  BY <1>1 DEF Packet
<1>4. /\ told \subseteq told' /\ told' \subseteq Steps
      /\ a.m.k \in {"info", "infomore"} => a.m.n \in told'
  BY <1>3 DEF Says, ChargerTyped
<1>5. round' = CASE r = "asked" /\ a.m.k = "accept"  -> "agreed"
                 [] r = "agreed" /\ a.m.k = "psrdy"  -> "granted"
                 [] a.m.k \in Refusals \cup {"caps"} -> Ended(r)
                 [] OTHER -> r
  BY DEF Says
<1>6. /\ round' \in Rounds
      /\ a.m.k = "psrdy" => round' = "granted"
      /\ \/ round' \in {r, "none"}
         \/ r = "asked" /\ round' = "agreed"
         \/ r = "agreed" /\ round' = "granted"
      /\ r = "granted" => round' = "granted"
      /\ a.then.k = "accepted" => round' = "agreed"
  BY <1>1, <1>5 DEF Rounds, Refusals, Ended
<1> QED BY <1>1, <1>2, <1>4, <1>6 DEF Speaks, AskFits, ChargerTyped

LEMMA NoTxPacket == NoTx \in Packet /\ NoTx.k = "none"
  BY MsgSent DEF NoTx, Plain, Kinds, Sent, Msg, Message

LEMMA InterruptsSpeaks ==
  ASSUME ChargerTyped, AskFits, Interrupts
  PROVE \E m \in Packet : Speaks(m, round) /\ Arrives(m)
<1>1. PICK m \in Traffic :
        /\ Arrives(m)
        /\ ask' = (IF GivesUp(m) THEN NoTx ELSE ask)
        /\ set' = (IF m.k = "caps" THEN m.o ELSE set)
        /\ round' = (IF m.k \in {"caps", "softreset"} THEN Ended(round)
                                                       ELSE round)
  BY DEF Interrupts
<1>2. m \in Packet /\ m.k \notin {"psrdy", "info", "infomore"}
  BY TrafficAssumption
<1>3. set' \in Offers /\ told' = told
  BY <1>1, <1>2 DEF ChargerTyped, Packet, Interrupts
<1>4. /\ round' \in Rounds /\ round' \in {round, "none"}
      /\ round = "granted" => round' = "granted"
  BY <1>1 DEF ChargerTyped, Ended, Rounds
<1>5. ask' \in Packet /\ AskFits'
  BY <1>1, <1>2, NoTxPacket DEF ChargerTyped, AskFits, GivesUp, Ended, Requests
<1> QED BY <1>1, <1>2, <1>3, <1>4, <1>5 DEF Speaks, ChargerTyped

\* What arrives joins the ring
LEMMA ArrivesRing ==
  ASSUME RingTyped, NEW m \in Packet, Arrives(m)
  PROVE /\ inbox' \in Seq(Packet) /\ Len(inbox') <= Depth
        /\ Len(inbox') = Len(inbox) + 1 /\ inbox'[Len(inbox) + 1] = m
        /\ \A i \in 1..Len(inbox) : inbox'[i] = inbox[i]
  BY AppendProperties, BoundAssumption DEF RingTyped, Arrives

\* The device hears of it later
LEMMA ArrivesInv ==
  ASSUME Inv, NEW m \in Packet, Arrives(m), Speaks(m, round),
         enters' \in 0..2, budget' \in 0..Budget, aged' = aged,
         waitRx' = FALSE, UNCHANGED <<conn, cb, tx, now, drain, policyVars>>
  PROVE Inv' /\ [Promise!Next]_<<Device, round, contract>>
<1>1. /\ inbox' \in Seq(Packet) /\ Len(inbox') <= Depth
      /\ Len(inbox') = Len(inbox) + 1 /\ inbox'[Len(inbox) + 1] = m
      /\ \A i \in 1..Len(inbox) : inbox'[i] = inbox[i]
  BY ArrivesRing DEF Inv, TypeInv
<1>8. ChargerTyped' /\ AskFits'
  BY DEF Speaks, ChargerTyped
<1>9. WireTyped' /\ PartsTyped'
  BY DEF Inv, TypeInv, WireTyped, PartsTyped, policyVars, eprFrame
<1>10. RingTyped'
  <2>1. aged \in 0..Len(inbox')
    BY <1>1, LenProperties DEF Inv, TypeInv, RingTyped
  <2> QED BY <1>1, <2>1 DEF Inv, TypeInv, RingTyped
<1>2. ChargerTyped' /\ AskFits' /\ WireTyped' /\ PartsTyped' /\ RingTyped'
  BY <1>8, <1>9, <1>10
<1>3. Len(inbox) \in Nat /\ aged \in Nat
  BY LenProperties DEF Inv, TypeInv, RingTyped
<1>4. Granted'
  <2> SUFFICES ASSUME cb.rx \in Negotiating, ~now, NEW i \in aged+1..Len(inbox'),
                      inbox'[i].k = "psrdy"
               PROVE round' = "granted"
    BY DEF Granted
  <2>1. CASE i = Len(inbox) + 1
    BY <1>1, <2>1 DEF Speaks
  <2>2. CASE i # Len(inbox) + 1
    <3>1. i \in aged+1..Len(inbox) /\ i \in 1..Len(inbox)
      BY <1>1, <1>3, <2>2
    <3>2. round = "granted"
      BY <1>1, <3>1 DEF Inv, Granted
    <3> QED BY <3>2 DEF Speaks
  <2> QED BY <2>1, <2>2
<1>5. Told'
  <2>1. PassMeansAnswered'
    BY DEF Inv, Told, PassMeansAnswered, Speaks, policyVars
  <2>2. ASSUME NEW i \in 1..Len(inbox'), inbox'[i].k \in {"info", "infomore"}
        PROVE inbox'[i].n \in told'
    <3>1. CASE i = Len(inbox) + 1
      BY <1>1, <2>2, <3>1 DEF Speaks
    <3>2. CASE i # Len(inbox) + 1
      <4>1. i \in 1..Len(inbox)
        BY <1>1, <1>3, <3>2
      <4> QED BY <1>1, <2>2, <4>1 DEF Inv, Told, Speaks
    <3> QED BY <3>1, <3>2
  <2> QED BY <2>1, <2>2 DEF Told
<1>6. Device' = Device /\ contract' = contract
  BY DEF Device, policyVars, eprFrame
<1>7. [Promise!Next]_<<Device, round, contract>>
  BY <1>6 DEF Speaks, Promise!Next, Promise!Agree, Promise!Grant,
     Promise!Refuse
<1> QED BY <1>2, <1>4, <1>5, <1>7 DEF Inv, TypeInv

LEMMA ChargerAnswersInv ==
  ASSUME Inv, ChargerAnswers
  PROVE Inv' /\ [Promise!Next]_<<Device, round, contract>>
<1>1. PICK a \in Answers(ask) : Arrives(a.m) /\ Says(a.m, a.then, round)
  BY DEF ChargerAnswers
<1>2. Speaks(a.m, round)
  BY <1>1, AnswerSpeaks DEF Inv, TypeInv, AskFits, ChargerTyped
<1>3. a.m \in Packet /\ enters' \in 0..2 /\ budget' \in 0..Budget
  BY <1>2 DEF Speaks, ChargerAnswers, Inv, TypeInv, ChargerTyped
<1> QED BY <1>1, <1>2, <1>3, ArrivesInv DEF ChargerAnswers

LEMMA BudgetSpent ==
  ASSUME ChargerTyped, budget > 0, budget' = budget - 1
  PROVE budget' \in 0..Budget
  BY BoundAssumption DEF ChargerTyped

LEMMA ChargerTalksInv ==
  ASSUME Inv, ChargerTalks
  PROVE Inv' /\ [Promise!Next]_<<Device, round, contract>>
<1>1. PICK m \in Packet : Speaks(m, round) /\ Arrives(m)
  BY InterruptsSpeaks DEF Inv, TypeInv, ChargerTalks
<1>2. enters' \in 0..2 /\ budget' \in 0..Budget
  BY BudgetSpent DEF Inv, TypeInv, ChargerTalks, Interrupts, ChargerTyped
<1> QED BY <1>1, <1>2, ArrivesInv DEF ChargerTalks

\* The ring is emptied
LEMMA AbortRing ==
  ASSUME Abort
  PROVE /\ inbox' \in Seq(Packet) /\ Len(inbox') <= Depth
        /\ aged' \in 0..Len(inbox') /\ Granted'
        /\ PassMeansAnswered' => Told'
<1>1. inbox' = <<>> /\ aged' = 0
  BY DEF Abort
<1>2. inbox' \in Seq(Packet) /\ Len(inbox') = 0
  BY <1>1, EmptySeq
<1> QED BY <1>1, <1>2, BoundAssumption DEF Granted, Told

LEMMA RestartPacket == Msg("restart") \in Packet /\ Msg("restart").k = "restart"
  BY MsgSent DEF Plain, Kinds, Sent, Msg, Message

LEMMA ChargerHardResetInv ==
  ASSUME Inv, ChargerHardReset
  PROVE Inv' /\ [Promise!Next]_<<Device, round, contract>>
<1>1. ChargerTyped' /\ AskFits'
  BY RestartPacket, BudgetSpent DEF ChargerHardReset, Inv, TypeInv,
     ChargerTyped, Rounds, AskFits, Requests
<1>2. PartsTyped'
  BY DEF ChargerHardReset, policyVars, eprFrame, Inv, TypeInv, PartsTyped
<1>3. PassMeansAnswered'
  BY DEF ChargerHardReset, policyVars, Inv, Told, PassMeansAnswered
<1>4. RingTyped' /\ Granted' /\ Told'
  BY <1>3, AbortRing DEF ChargerHardReset, Inv, TypeInv, RingTyped
<1>5. WireTyped' /\ (UNCHANGED cb \/ cb'.rx = "RX_SrcCap")
  <2>1. CASE WaitSrcCap
    BY <2>1 DEF ChargerHardReset, WaitSrcCap, Await, Callbacks, Inv, TypeInv,
       WireTyped, Handlers, Null, Negotiating
  <2>2. CASE UNCHANGED <<cb, waitRx>>
    BY <2>2 DEF ChargerHardReset, Inv, TypeInv, WireTyped
  <2> QED BY <2>1, <2>2 DEF ChargerHardReset
<1>6. [Promise!Next]_<<Device, round, contract>>
  BY <1>5 DEF ChargerHardReset, policyVars, eprFrame, Device, Promise!Next,
     Promise!Reset
<1> QED BY <1>1, <1>2, <1>4, <1>5, <1>6 DEF Inv, TypeInv

LEMMA VdmFreshTyped == VdmFresh \in VdmSet
  BY DEF VdmFresh, VdmSet

LEMMA ProbeFreshTyped == ProbeFresh \in ProbeSet
<1>1. 0 \in 0..LastProbe+1
  BY StepAssumption
<1> QED BY <1>1 DEF ProbeFresh, ProbeSet, Fingerprints

LEMMA InfoFreshTyped ==
  InfoFresh \in [Steps -> Statuses] /\ \A s \in Steps : InfoFresh[s] # "pass"
  BY DEF InfoFresh, Statuses

LEMMA DetachInv ==
  ASSUME Inv, Detach
  PROVE Inv' /\ [Promise!Next]_<<Device, round, contract>>
<1>1. ChargerTyped' /\ AskFits'
  BY RestartPacket, BudgetSpent DEF Detach, Inv, TypeInv,
     ChargerTyped, Rounds, AskFits, Requests
<1>2. PartsTyped'
  BY VdmFreshTyped, ProbeFreshTyped, InfoFreshTyped
     DEF Detach, Inv, TypeInv, PartsTyped
<1>3. PassMeansAnswered'
  BY InfoFreshTyped DEF Detach, PassMeansAnswered
<1>4. RingTyped' /\ Granted' /\ Told'
  BY <1>3, AbortRing DEF Detach, Inv, TypeInv, RingTyped
<1>5. WireTyped'
  BY MsgSent DEF Detach, Inv, TypeInv, WireTyped, NoTx, Plain, Kinds
<1>6. [Promise!Next]_<<Device, round, contract>>
  BY DEF Detach, Device, Promise!Next, Promise!Reset
<1> QED BY <1>1, <1>2, <1>4, <1>5, <1>6 DEF Inv, TypeInv

-----------------------------------------------------------------------------
(* The main loop *)

LEMMA SilentCharger ==
  ASSUME Inv, Silent PROVE ChargerTyped' /\ AskFits' /\ told' = told
  BY DEF Inv, TypeInv, Silent, ChargerTyped, AskFits, Rounds, Negotiation

LEMMA InvTyped == ASSUME Inv PROVE Typed
  BY DEF Inv, TypeInv, Typed

\* A handler keeps the promise
LEMMA OutcomePromise ==
  ASSUME NEW m, Outcome(m), Silent, Begins(m) => round = "granted"
  PROVE [Promise!Next]_<<Device, round, contract>>
<1>1. round' = round \/ (round' = "none" /\ cb'.rx \in {cb.rx, Null})
  BY DEF Silent
<1> USE DEF Device, Promise!Next
<1>2. CASE Leaves
  BY <1>1, <1>2 DEF Leaves, Promise!GiveUp, Promise!Ask, Promise!Reset, Null
<1>3. CASE Keeps /\ UNCHANGED round
  BY <1>3 DEF Keeps
<1>4. CASE Advances(m)
  BY <1>1, <1>4 DEF Advances, Promise!Agreed, Null
<1>5. CASE Begins(m)
  BY <1>5 DEF Begins, Promise!Begin, Negotiating
<1> QED BY <1>2, <1>3, <1>4, <1>5 DEF Outcome

LEMMA QuietPromise ==
  ASSUME Leaves \/ Keeps, Silent
  PROVE [Promise!Next]_<<Device, round, contract>>
<1>1. round' = round \/ (round' = "none" /\ cb'.rx \in {cb.rx, Null})
  BY DEF Silent
<1> USE DEF Device, Promise!Next
<1>2. CASE Leaves
  BY <1>1, <1>2 DEF Leaves, Promise!GiveUp, Promise!Ask, Promise!Reset, Null
<1>3. CASE Keeps
  BY <1>1, <1>3 DEF Keeps, Promise!Refuse
<1> QED BY <1>2, <1>3

LEMMA OutcomeTyped ==
  ASSUME NEW m, Outcome(m) \/ Keeps PROVE WireTyped' /\ PartsTyped'
  BY DEF Outcome, Leaves, Keeps, Advances, Begins

\* The packet the drain takes
LEMMA TailRing ==
  ASSUME RingTyped, inbox # <<>>, inbox' = Tail(inbox),
         aged' = IF aged = 0 THEN 0 ELSE aged - 1
  PROVE /\ inbox' \in Seq(Packet) /\ Len(inbox') <= Depth
        /\ aged' \in 0..Len(inbox')
        /\ Len(inbox) = Len(inbox') + 1
        /\ \A i \in 1..Len(inbox') : inbox'[i] = inbox[i+1]
<1>1. /\ Tail(inbox) \in Seq(Packet) /\ Len(Tail(inbox)) = Len(inbox) - 1
      /\ \A i \in 1..Len(Tail(inbox)) : Tail(inbox)[i] = inbox[i+1]
  BY HeadTailProperties DEF RingTyped
<1>2. Len(inbox) \in Nat \ {0}
  BY EmptySeq DEF RingTyped
<1> QED BY <1>1, <1>2, BoundAssumption DEF RingTyped

LEMMA HandledInv ==
  ASSUME Inv, NEW m \in Packet, inbox # <<>>, m = inbox[1], ~now,
         inbox' = Tail(inbox), aged' = IF aged = 0 THEN 0 ELSE aged - 1,
         conn' \in BOOLEAN, drain' \in BOOLEAN,
         Outcome(m), Silent, Passes(m)
  PROVE Inv' /\ [Promise!Next]_<<Device, round, contract>>
<1>1. /\ inbox' \in Seq(Packet) /\ Len(inbox') <= Depth
      /\ aged' \in 0..Len(inbox')
      /\ Len(inbox) = Len(inbox') + 1
      /\ \A i \in 1..Len(inbox') : inbox'[i] = inbox[i+1]
  BY TailRing DEF Inv, TypeInv
<1>2. Len(inbox') \in Nat /\ aged \in Nat
  BY <1>1, LenProperties DEF Inv, TypeInv, RingTyped
<1>3. ChargerTyped' /\ AskFits' /\ told' = told /\ WireTyped' /\ PartsTyped'
      /\ RingTyped'
  BY <1>1, SilentCharger, OutcomeTyped DEF RingTyped
<1>4. Begins(m) => round = "granted"
  <2> SUFFICES ASSUME Begins(m) PROVE round = "granted"
    OBVIOUS
  <2>1. 1 \in aged+1..Len(inbox) /\ inbox[1].k = "psrdy"
    BY <1>1, <1>2 DEF Begins
  <2> QED BY <2>1 DEF Inv, Granted, Begins, Negotiating
<1>5. Granted'
  <2> SUFFICES ASSUME cb'.rx \in Negotiating, ~now', NEW i \in aged'+1..Len(inbox'),
                      inbox'[i].k = "psrdy"
               PROVE round' = "granted"
    BY DEF Granted
  <2>1. cb.rx \in Negotiating /\ round' = round
    BY DEF Outcome, Leaves, Keeps, Advances, Begins, Silent, Negotiating, Null
  <2>2. i \in 1..Len(inbox') /\ i + 1 \in aged+1..Len(inbox)
    BY <1>1, <1>2
  <2>3. inbox[i+1].k = "psrdy"
    BY <1>1, <2>2
  <2> QED BY <2>1, <2>2, <2>3 DEF Inv, Granted
<1>6. Told'
  <2>1. ASSUME NEW i \in 1..Len(inbox'), inbox'[i].k \in {"info", "infomore"}
        PROVE inbox'[i].n \in told'
    <3>1. i + 1 \in 1..Len(inbox)
      BY <1>1, <1>2
    <3> QED BY <1>1, <1>3, <2>1, <3>1 DEF Inv, Told
  <2>2. ASSUME NEW s \in Steps, info'[s] = "pass" PROVE s \in told'
    <3>1. CASE info[s] = "pass"
      BY <1>3, <3>1 DEF Inv, Told, PassMeansAnswered
    <3>2. CASE m.k \in {"info", "infomore"} /\ m.n = s
      <4>1. 1 \in 1..Len(inbox)
        BY <1>1, <1>2
      <4> QED BY <1>3, <3>2, <4>1 DEF Inv, Told
    <3> QED BY <2>2, <3>1, <3>2 DEF Passes
  <2> QED BY <2>1, <2>2 DEF Told, PassMeansAnswered
<1> QED BY <1>3, <1>4, <1>5, <1>6, OutcomePromise DEF Inv, TypeInv

LEMMA NoPassAnswered ==
  ASSUME Inv, NoPass, told' = told PROVE PassMeansAnswered'
  BY DEF Inv, Told, PassMeansAnswered, NoPass

LEMMA AbortedInv ==
  ASSUME Inv, Abort, conn' \in BOOLEAN, drain' \in BOOLEAN,
         Leaves, Silent, NoPass
  PROVE Inv' /\ [Promise!Next]_<<Device, round, contract>>
<1>1. ChargerTyped' /\ AskFits' /\ PassMeansAnswered'
  BY SilentCharger, NoPassAnswered
<1>2. RingTyped' /\ Granted' /\ Told'
  BY <1>1, AbortRing DEF RingTyped
<1> QED BY <1>1, <1>2, QuietPromise DEF Inv, TypeInv, Leaves

LEMMA DeliverInv ==
  ASSUME Inv, Deliver
  PROVE Inv' /\ [Promise!Next]_<<Device, round, contract>>
<1> DEFINE m == Head(inbox)
<1>1. m \in Packet /\ m = inbox[1] /\ inbox # <<>> /\ ~now
  BY HeadTailProperties DEF Deliver, Flushing, Inv, TypeInv, RingTyped
<1>2. drain' \in BOOLEAN
  BY DEF Deliver
<1>3. CASE /\ inbox' = Tail(inbox)
           /\ aged' = (IF aged = 0 THEN 0 ELSE aged - 1)
           /\ Handle(m) /\ UNCHANGED conn
  <2>1. Outcome(m) /\ Silent /\ Passes(m) /\ conn' \in BOOLEAN
    BY <1>1, <1>3, HandleOutcome, InvTyped DEF Inv, TypeInv, RingTyped
  <2> HIDE DEF m
  <2> QED BY <1>1, <1>2, <1>3, <2>1, HandledInv
<1>4. CASE SoftResetReceived /\ UNCHANGED conn
  <2>1. Leaves /\ Silent /\ NoPass
    BY <1>4, SoftResetReceivedBesides, BesidesLeaves, InvTyped
  <2>2. Abort /\ conn' \in BOOLEAN
    BY <1>4 DEF SoftResetReceived, AnswerSoftReset, Inv, TypeInv, RingTyped
  <2> QED BY <1>2, <2>1, <2>2, AbortedInv
<1>5. CASE AttachAndOffer(m)
  <2>1. Leaves /\ Silent /\ NoPass
    BY <1>1, <1>5, AttachAndOfferLeaves, InvTyped
  <2>2. Abort /\ conn' \in BOOLEAN
    BY <1>5 DEF AttachAndOffer
  <2> QED BY <1>2, <2>1, <2>2, AbortedInv
<1> QED BY <1>3, <1>4, <1>5 DEF Deliver

LEMMA TimersInv ==
  ASSUME Inv, Timeout \/ Ticks
  PROVE Inv' /\ [Promise!Next]_<<Device, round, contract>>
<1>1. (Leaves \/ Keeps) /\ Silent /\ NoPass
  BY TimeoutOutcome, TicksOutcome, InvTyped
<1>2. ~now /\ UNCHANGED <<conn, inbox, aged, drain>>
  BY DEF Timeout, Ticks, Flushing
<1>3. ChargerTyped' /\ AskFits' /\ told' = told
  BY <1>1, SilentCharger
<1>4. WireTyped' /\ PartsTyped' /\ RingTyped'
  BY <1>1, <1>2 DEF Leaves, Keeps, Inv, TypeInv, RingTyped
<1>5. Told'
  <2>1. PassMeansAnswered'
    BY <1>1, <1>3, NoPassAnswered
  <2> QED BY <1>2, <1>3, <2>1 DEF Inv, Told
<1>6. Granted'
  <2>1. CASE inbox = <<>>
    BY <1>2, <2>1, EmptySeq DEF Granted, Inv, TypeInv, RingTyped
  <2>2. CASE Keeps /\ round' = round
    BY <1>2, <2>2 DEF Keeps, Inv, Granted
  <2>3. CASE Leaves
    BY <2>3 DEF Leaves, Granted, Negotiating
  <2>4. inbox = <<>> \/ (Ticks /\ round' = round)
    BY DEF Timeout, Ticks, VdmTick, GuardTick, SettleTick, Unasked, chargerVars
  <2> QED BY <1>1, <2>1, <2>2, <2>3, <2>4
<1> QED BY <1>1, <1>3, <1>4, <1>5, <1>6, QuietPromise DEF Inv, TypeInv

-----------------------------------------------------------------------------
(* The transmissions *)

LEMMA HeardTyped ==
  ASSUME Inv, NEW m, m \in Sent, Heard(m)
  PROVE /\ ask' \in Packet /\ round' \in Rounds /\ set' \in Offers
        /\ told' = told /\ enters' \in 0..2 /\ AskFits'
        /\ round' \in {round, "asked", "none"}
<1>1. m \in Packet /\ m.k # "accepted"
  BY DEF Sent
<1>2. enters' \in 0..2
  BY DEF Heard, CountEnter, Inv, TypeInv, ChargerTyped
<1>3. /\ ask' = m /\ round' = Begun(m) /\ UNCHANGED <<told, set>>
      /\ set \in Offers /\ round \in Rounds
  BY DEF Heard, Inv, TypeInv, ChargerTyped
<1> QED BY <1>1, <1>2, <1>3 DEF Begun, AskFits, Rounds

\* What pTxFinish may be
LEMMA FinishWire ==
  ASSUME Inv, TransmitOk
  PROVE WireTyped' /\ PartsTyped' /\ Device' = Device /\ contract' = contract
<1>1. tx' \in Sent /\ now' = FALSE /\ UNCHANGED policyVars
  BY MsgSent DEF TransmitOk, NoTx, Plain, Kinds
<1>2. PartsTyped' /\ contract' = contract
  BY <1>1 DEF Inv, TypeInv, PartsTyped, policyVars, eprFrame
<1>3. CASE UNCHANGED <<cb, waitRx>>
  BY <1>1, <1>2, <1>3 DEF Inv, TypeInv, WireTyped, Device
<1>4. CASE cb.ok = "Excute_SoftRst" /\ WaitSrcCap
  <2>1. Aside
    BY <1>1, <1>4, WaitSrcCapAside
  <2>2. cb.rx \notin Negotiating
    BY <1>4 DEF Inv, TypeInv, WireTyped, Null
  <2> QED BY <1>2, <2>1, <2>2, AsideTyped DEF Aside, Device, Negotiating
<1> QED BY <1>3, <1>4 DEF TransmitOk

\* A packet that comes instead of the acknowledgement
LEMMA TransmitArrives ==
  ASSUME Inv, Transmit, TransmitOk, NEW m \in Packet, Arrives(m),
         NEW r \in {round, Begun(tx)}, Speaks(m, r),
         enters' \in 0..2, budget' \in 0..Budget
  PROVE Inv' /\ [Promise!Next]_<<Device, round, contract>>
<1>1. /\ inbox' \in Seq(Packet) /\ Len(inbox') <= Depth
      /\ Len(inbox') = Len(inbox) + 1 /\ inbox'[Len(inbox) + 1] = m
      /\ \A i \in 1..Len(inbox) : inbox'[i] = inbox[i]
  BY ArrivesRing DEF Inv, TypeInv
<1>2. aged' = Len(inbox) /\ UNCHANGED info
  BY DEF TransmitOk, policyVars
<1>3. Len(inbox) \in Nat
  BY LenProperties DEF Inv, TypeInv, RingTyped
<1>4. WireTyped' /\ PartsTyped' /\ Device' = Device /\ contract' = contract
  BY FinishWire
<1>5. ChargerTyped' /\ AskFits'
  BY DEF Speaks, ChargerTyped
<1>6. RingTyped'
  <2>1. aged' \in 0..Len(inbox')
    BY <1>1, <1>2, <1>3
  <2>2. conn' \in BOOLEAN /\ drain' \in BOOLEAN
    BY DEF Transmit, Inv, TypeInv, RingTyped
  <2> QED BY <1>1, <2>1, <2>2 DEF RingTyped
<1>7. Granted'
  <2> SUFFICES ASSUME NEW i \in aged'+1..Len(inbox'), inbox'[i].k = "psrdy"
               PROVE round' = "granted"
    BY DEF Granted
  <2>1. i = Len(inbox) + 1
    BY <1>1, <1>2, <1>3
  <2> QED BY <1>1, <2>1 DEF Speaks
<1>8. Told'
  <2>1. PassMeansAnswered'
    BY <1>2 DEF Inv, Told, PassMeansAnswered, Speaks
  <2>2. ASSUME NEW i \in 1..Len(inbox'), inbox'[i].k \in {"info", "infomore"}
        PROVE inbox'[i].n \in told'
    <3>1. CASE i = Len(inbox) + 1
      BY <1>1, <2>2, <3>1 DEF Speaks
    <3>2. CASE i # Len(inbox) + 1
      <4>1. i \in 1..Len(inbox)
        BY <1>1, <1>3, <3>2
      <4> QED BY <1>1, <2>2, <4>1 DEF Inv, Told, Speaks
    <3> QED BY <3>1, <3>2
  <2> QED BY <2>1, <2>2 DEF Told
<1>9. [Promise!Next]_<<Device, round, contract>>
  BY <1>4 DEF Speaks, Begun, Promise!Next, Promise!Hear, Promise!Agree,
     Promise!Grant, Promise!Refuse
<1> QED BY <1>4, <1>5, <1>6, <1>7, <1>8, <1>9 DEF Inv, TypeInv

LEMMA TransmitOkInv ==
  ASSUME Inv, Transmit, TransmitOk
  PROVE Inv' /\ [Promise!Next]_<<Device, round, contract>>
<1>1. tx \in Sent /\ ChargerTyped /\ AskFits /\ round \in Rounds
  BY DEF Inv, TypeInv, WireTyped, ChargerTyped
<1>2. CASE Heard(tx) /\ inbox' = inbox /\ UNCHANGED budget
  <2>1. /\ ask' \in Packet /\ round' \in Rounds /\ set' \in Offers
        /\ told' = told /\ enters' \in 0..2 /\ AskFits'
        /\ round' \in {round, "asked", "none"}
    BY <1>1, <1>2, HeardTyped
  <2>2. WireTyped' /\ PartsTyped' /\ Device' = Device /\ contract' = contract
    BY FinishWire
  <2>3. ChargerTyped'
    BY <1>1, <1>2, <2>1 DEF ChargerTyped
  <2>4. aged' = Len(inbox) /\ UNCHANGED info /\ Len(inbox) \in Nat
    BY LenProperties DEF TransmitOk, policyVars, Inv, TypeInv, RingTyped
  <2>5. RingTyped'
    BY <1>2, <2>4 DEF Transmit, Inv, TypeInv, RingTyped
  <2>6. Granted'
    BY <1>2, <2>4 DEF Granted
  <2>7. Told'
    BY <1>2, <2>1, <2>4 DEF Inv, Told, PassMeansAnswered
  <2>8. [Promise!Next]_<<Device, round, contract>>
    BY <2>1, <2>2 DEF Promise!Next, Promise!Hear, Promise!Refuse
  <2> QED BY <2>1, <2>2, <2>3, <2>5, <2>6, <2>7, <2>8 DEF Inv, TypeInv
<1>3. CASE /\ \E a \in Answers(tx) : Arrives(a.m) /\ Says(a.m, a.then, Begun(tx))
           /\ CountEnter(tx) /\ UNCHANGED budget
  <2>1. PICK a \in Answers(tx) : Arrives(a.m) /\ Says(a.m, a.then, Begun(tx))
    BY <1>3
  <2>2. /\ tx \in Packet /\ Begun(tx) \in Rounds
        /\ tx.k \in Requests => Begun(tx) = "asked"
        /\ tx.k # "accepted"
    BY <1>1 DEF Sent, Begun, Rounds
  <2>3. Speaks(a.m, Begun(tx))
    BY <1>1, <2>1, <2>2, AnswerSpeaks
  <2>4. a.m \in Packet /\ enters' \in 0..2 /\ budget' \in 0..Budget
    BY <1>1, <1>3, <2>3 DEF Speaks, CountEnter, ChargerTyped
  <2> QED BY <2>1, <2>3, <2>4, TransmitArrives
<1>4. CASE Interrupts
  <2>1. PICK m \in Packet : Speaks(m, round) /\ Arrives(m)
    BY <1>1, <1>4, InterruptsSpeaks
  <2>2. enters' \in 0..2 /\ budget' \in 0..Budget
    BY <1>1, <1>4, BudgetSpent DEF Interrupts, ChargerTyped
  <2> QED BY <2>1, <2>2, TransmitArrives
<1>5. CASE /\ \E a \in Answers(ask) : Arrives(a.m) /\ Says(a.m, a.then, round)
           /\ budget > 0 /\ budget' = budget - 1 /\ UNCHANGED enters
  <2>1. PICK a \in Answers(ask) : Arrives(a.m) /\ Says(a.m, a.then, round)
    BY <1>5
  <2>2. Speaks(a.m, round)
    BY <1>1, <2>1, AnswerSpeaks DEF AskFits, ChargerTyped
  <2>3. a.m \in Packet /\ enters' \in 0..2 /\ budget' \in 0..Budget
    BY <1>1, <1>5, <2>2, BudgetSpent DEF Speaks, ChargerTyped
  <2> QED BY <2>1, <2>2, <2>3, TransmitArrives
<1> QED BY <1>2, <1>3, <1>4, <1>5 DEF TransmitOk

LEMMA FailedRing ==
  ASSUME Inv, Failed
  PROVE /\ inbox' \in Seq(Packet) /\ Len(inbox') <= Depth
        /\ aged' = Len(inbox') /\ aged' \in 0..Len(inbox')
        /\ inbox' \in {inbox, <<>>}
<1>1. Overtaken \/ Abort
  BY DEF Failed, EprTxFailed, ProbeTxFailed, VdmTxFailed, RequestTxFailed
<1>2. CASE Overtaken
  BY <1>2, LenProperties DEF Overtaken, Inv, TypeInv, RingTyped
<1>3. CASE Abort
  BY <1>3, AbortRing, EmptySeq DEF Abort
<1> QED BY <1>1, <1>2, <1>3

LEMMA TransmitFailedInv ==
  ASSUME Inv, Transmit, TransmitFailed
  PROVE Inv' /\ [Promise!Next]_<<Device, round, contract>>
<1>1. Failed /\ (Heard(tx) \/ UNCHANGED <<ask, round, power, set, told, enters>>)
  BY DEF TransmitFailed, Failed
<1>2. (Besides \/ Keeps) /\ NoPass
  BY <1>1, FailedOutcome, InvTyped
<1>3. /\ ask' \in Packet /\ round' \in Rounds /\ set' \in Offers
      /\ told' = told /\ enters' \in 0..2 /\ AskFits'
      /\ round' \in {round, "asked", "none"}
  <2>1. CASE Heard(tx)
    BY <2>1, HeardTyped DEF Inv, TypeInv, WireTyped
  <2>2. CASE UNCHANGED <<ask, round, power, set, told, enters>>
    BY <2>2 DEF Inv, TypeInv, ChargerTyped, AskFits
  <2> QED BY <1>1, <2>1, <2>2
<1>4. ChargerTyped'
  BY <1>3, BudgetSpent DEF TransmitFailed, Inv, TypeInv, ChargerTyped
<1>5. /\ inbox' \in Seq(Packet) /\ Len(inbox') <= Depth
      /\ aged' = Len(inbox') /\ aged' \in 0..Len(inbox')
      /\ inbox' \in {inbox, <<>>}
  BY <1>1, FailedRing
<1>6. RingTyped'
  BY <1>5 DEF Transmit, Inv, TypeInv, RingTyped
<1>7. Granted'
  BY <1>5 DEF Granted
<1>8. Told'
  <2>1. PassMeansAnswered'
    BY <1>2, <1>3, NoPassAnswered
  <2>2. CASE inbox' = inbox
    BY <1>3, <2>1, <2>2 DEF Inv, Told
  <2>3. CASE inbox' = <<>>
    BY <2>1, <2>3, EmptySeq DEF Told
  <2> QED BY <1>5, <2>2, <2>3
<1>9. WireTyped' /\ PartsTyped'
  BY <1>2, AsideTyped DEF Besides, Keeps
<1>10. [Promise!Next]_<<Device, round, contract>>
  <2>1. CASE Besides
    BY <1>3, <2>1 DEF Besides, Aside, Negotiating, Device, Promise!Next,
       Promise!GiveUp, Promise!Reset
  <2>2. CASE Keeps
    BY <1>3, <2>2 DEF Keeps, Device, Promise!Next, Promise!Hear, Promise!Refuse
  <2> QED BY <1>2, <2>1, <2>2
<1> QED BY <1>3, <1>4, <1>6, <1>7, <1>8, <1>9, <1>10 DEF Inv, TypeInv

-----------------------------------------------------------------------------
(* The theorems *)

LEMMA InitInv == Init => Inv /\ Promise!Init
<1> SUFFICES ASSUME Init PROVE Inv /\ Promise!Init
  OBVIOUS
<1>1. WireTyped
  BY MsgSent DEF Init, NoCallbacks, Callbacks, WireTyped, Null, NoTx, Plain,
     Kinds, Negotiating
<1>2. PartsTyped
  BY VdmFreshTyped, ProbeFreshTyped, InfoFreshTyped
     DEF Init, PartsTyped, Fingerprints
<1>3. ChargerTyped /\ AskFits
  BY RestartPacket, BoundAssumption DEF Init, ChargerTyped, Rounds, AskFits,
     Requests
<1>4. RingTyped /\ Len(inbox) = 0
  <2>1. /\ inbox = <<>> /\ aged = 0 /\ conn \in BOOLEAN /\ drain \in BOOLEAN
    BY DEF Init
  <2>2. inbox \in Seq(Packet) /\ Len(inbox) = 0
    BY <2>1, EmptySeq
  <2> QED BY <2>1, <2>2, BoundAssumption DEF RingTyped
<1>5. Granted
  BY DEF Init, Granted, NoCallbacks, Callbacks, Negotiating, Null
<1>6. Told
  BY <1>4, InfoFreshTyped DEF Init, Told, PassMeansAnswered
<1>7. Promise!Init
  BY DEF Init, Promise!Init, Device, NoCallbacks, Callbacks, Null
<1> QED BY <1>1, <1>2, <1>3, <1>4, <1>5, <1>6, <1>7 DEF Inv, TypeInv

\* Every step keeps the invariant, and is a step of Contract or none
LEMMA NextInv ==
  ASSUME Inv, [Next]_vars
  PROVE Inv' /\ [Promise!Next]_<<Device, round, contract>>
<1>1. CASE Deliver
  BY <1>1, DeliverInv
<1>2. CASE Transmit
  BY <1>2, TransmitOkInv, TransmitFailedInv DEF Transmit
<1>3. CASE Timeout \/ Ticks
  BY <1>3, TimersInv
<1>4. CASE ChargerAnswers
  BY <1>4, ChargerAnswersInv
<1>5. CASE ChargerTalks
  BY <1>5, ChargerTalksInv
<1>6. CASE ChargerHardReset
  BY <1>6, ChargerHardResetInv
<1>7. CASE Detach
  BY <1>7, DetachInv
<1>8. CASE UNCHANGED vars
  <2>1. WireTyped' /\ PartsTyped' /\ ChargerTyped' /\ RingTyped'
    BY <1>8 DEF vars, wireVars, chargerVars, policyVars, eprFrame, Inv, TypeInv,
       WireTyped, PartsTyped, ChargerTyped, RingTyped
  <2>2. AskFits' /\ Granted' /\ Told'
    BY <1>8 DEF vars, wireVars, chargerVars, policyVars, eprFrame, Inv,
       AskFits, Granted, Told, PassMeansAnswered
  <2>3. UNCHANGED <<Device, round, contract>>
    BY <1>8 DEF vars, wireVars, chargerVars, policyVars, eprFrame, Device
  <2> QED BY <2>1, <2>2, <2>3 DEF Inv, TypeInv
<1> QED BY <1>1, <1>2, <1>3, <1>4, <1>5, <1>6, <1>7, <1>8
      DEF Next, MainLoop, Charger

LEMMA AlwaysInv == Spec => []Inv
  BY InitInv, NextInv, PTL DEF Spec

(* The types hold in every state, and no handler is left that the drain,   *)
(* the timer or the transmission does not know.                            *)
THEOREM PolicyTypeSafe == Spec => []TypeOK
<1>1. Inv => TypeOK
  <2> SUFFICES ASSUME Inv PROVE TypeOK
    OBVIOUS
  <2>1. aged \in 0..Depth
    BY BoundAssumption, LenProperties DEF Inv, TypeInv, RingTyped
  <2> QED BY <2>1 DEF Inv, TypeInv, WireTyped, PartsTyped, ChargerTyped,
        RingTyped, TypeOK, Rounds, ProbeSet, Fingerprints
<1> QED BY <1>1, AlwaysInv, PTL

(* The negotiation of pProt_RX_Accept and pProt_RX_PS_RDY implements       *)
(* Contract: whatever is lost, late, repeated or sent unasked, a contract  *)
(* is believed in only after the charger granted the Request it heard last.*)
THEOREM PolicyImplementsContract == Spec => ContractGranted
<1>1. Init => Promise!Init
  BY InitInv
<1>2. Inv /\ [Next]_vars => [Promise!Next]_<<Device, round, contract>>
  BY NextInv
<1> QED BY <1>1, <1>2, AlwaysInv, PTL DEF Spec, ContractGranted, Promise!Spec

(* A step of the probe that PD_InfoProbe_RX records as answered was        *)
(* answered by this charger: no answer to an earlier step, and none of the *)
(* charger before it, is taken for it.                                     *)
THEOREM PolicyPassMeansAnswered == Spec => []PassMeansAnswered
<1>1. Inv => PassMeansAnswered
  BY DEF Inv, Told
<1> QED BY <1>1, AlwaysInv, PTL

(* A Soft_Reset taken from the ring in any state of Answering is answered  *)
(* with Accept by the same call of the handler.                            *)
THEOREM PolicySoftResetAccepted == Spec => SoftResetAccepted
<1>1. ASSUME Deliver, Head(inbox).k = "softreset", cb.rx \in Answering
      PROVE tx' = Msg("accept")
  <2>1. TakesSoftReset
    BY <1>1 DEF Answering, TakesSoftReset
  <2>2. CASE Handle(Head(inbox))
    BY <1>1, <2>1, <2>2 DEF Handle, SrcCapSoftReset, SendNow
  <2>3. CASE SoftResetReceived
    BY <2>3 DEF SoftResetReceived, AnswerSoftReset, Queue
  <2>4. CASE cb.rx = Null
    BY <1>1, <2>4 DEF Answering, SoftResetStates, Null
  <2> QED BY <1>1, <2>2, <2>3, <2>4 DEF Deliver
<1> QED BY <1>1, PTL DEF Spec, SoftResetAccepted

=============================================================================

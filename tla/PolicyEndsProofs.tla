--------------------------- MODULE PolicyEndsProofs ---------------------------
(***************************************************************************)
(* More about Policy for every set of offers, every unasked message and    *)
(* any number of faults: no exchange is left without an end, no SVID is    *)
(* asked for that was not received, and a charger that keeps to one set of *)
(* capabilities is asked to enter EPR mode once.  Each is a fact about     *)
(* what a handler leaves behind, seen to handler by handler.               *)
(***************************************************************************)
EXTENDS PolicyProofs

-----------------------------------------------------------------------------
(* What a handler leaves of an exchange: a wait, and a timeout that goes on *)
(* from there.  The three others end in no handler of an exchange.          *)

Endless == {Null, "PS_RDY_Failed", "TX_HRST"}

Minded == cb'.rx \in Exchanges => waitRx' /\ cb'.late \notin Endless

LEMMA AwaitMinded ==
  ASSUME NEW rx, NEW fail, NEW late, late \notin Endless, Await(rx, fail, late)
  PROVE Minded
  BY DEF Await, Callbacks, Minded

LEMMA AwaitOther ==
  ASSUME NEW rx, NEW fail, NEW late, rx \notin Exchanges, Await(rx, fail, late)
  PROVE Minded
  BY DEF Await, Callbacks, Minded

\* Back to the idle handler, or to none
LEMMA IdleMinded == ASSUME cb'.rx \in {Null, "IDLE"} PROVE Minded
  BY DEF Minded, Exchanges, Handlers, Null

LEMMA RestMinded == ASSUME Rest PROVE Minded
  BY IdleMinded DEF Rest, IdleOnly, Callbacks

LEMMA TakenMinded == ASSUME WireTyped, cb' = Taken PROVE Minded
  BY IdleMinded DEF WireTyped, Taken, Callbacks

LEMMA EprEnterMinded ==
  ASSUME NEW STATE e, NEW STATE v, NEW STATE o, NEW STATE w, EprEnter(e, v, o, w)
  PROVE Minded
<1>1. CASE PpsStart(e, v, o)
  BY <1>1, AwaitMinded DEF PpsStart, Endless, Null
<1>2. CASE SendSinkCap(e, v)
  BY <1>2, AwaitMinded DEF SendSinkCap, Endless, Null
<1>3. CASE SendEnter(e, v, o)
  BY <1>3, AwaitMinded DEF SendEnter, Endless, Null
<1>4. CASE SkipEpr(e, v, o, w)
  BY <1>4, IdleMinded DEF SkipEpr, IdleOnly, Callbacks
<1> QED BY <1>1, <1>2, <1>3, <1>4 DEF EprEnter

LEMMA EprExitMinded == ASSUME NEW STATE e, EprExit(e) PROVE Minded
  BY AwaitMinded DEF EprExit, Endless, Null

LEMMA EprClosedMinded == ASSUME NEW STATE e, EprClosed(e) PROVE Minded
  BY RestMinded DEF EprClosed

LEMMA EprRequestMinded ==
  ASSUME NEW STATE e, NEW stage, EprRequest(e, stage) PROVE Minded
  BY AwaitMinded DEF EprRequest, Endless, Null

LEMMA AwaitCapsMinded == ASSUME NEW STATE e, AwaitCaps(e) PROVE Minded
  BY AwaitMinded DEF AwaitCaps, Endless, Null

LEMMA CapsDeliveredMinded ==
  ASSUME NEW m, CapsDelivered(m) PROVE Minded
  BY AwaitCapsMinded, EprRequestMinded DEF CapsDelivered, EprCapsComplete

LEMMA EprDeliveredMinded == ASSUME NEW m, EprDelivered(m) PROVE Minded
<1>1. CASE PpsDelivered(m)
  BY <1>1, EprEnterMinded, AwaitMinded
     DEF PpsDelivered, Continue, PpsNext, SendPpsStatus, SendRestoreFixed,
     Endless, Null
<1>2. CASE SinkCapDelivered(m)
  BY <1>2, EprEnterMinded DEF SinkCapDelivered, Continue
<1>3. CASE EnterDelivered(m)
  BY <1>3, AwaitCapsMinded, EprClosedMinded, RestMinded DEF EnterDelivered
<1>4. CASE SrcCapDelivered(m)
  BY <1>4, AwaitCapsMinded, CapsDeliveredMinded, RestMinded, EprExitMinded
     DEF SrcCapDelivered, NoCapsDelivered
<1>5. CASE EprRequestDelivered(m)
  BY <1>5, AwaitMinded, EprExitMinded, EprRequestMinded
     DEF EprRequestDelivered, Endless, Null
<1>6. CASE ExitDelivered(m)
  BY <1>6, AwaitMinded, EprClosedMinded, RestMinded
     DEF ExitDelivered, Endless, Null
<1> QED BY <1>1, <1>2, <1>3, <1>4, <1>5, <1>6 DEF EprDelivered

LEMMA EprLateMinded == ASSUME EprLate PROVE Minded
  BY EprEnterMinded, EprClosedMinded, EprExitMinded, AwaitCapsMinded
     DEF EprLate, Continue, CapsTimeout

LEMMA EprTxFailedMinded == ASSUME EprTxFailed PROVE Minded
  BY EprEnterMinded, EprClosedMinded, EprExitMinded DEF EprTxFailed, Continue

LEMMA SendNextMinded == ASSUME NEW STATE p, SendNext(p) PROVE Minded
  BY AwaitMinded, EprEnterMinded DEF SendNext, SendGet, Continue, Endless, Null

LEMMA ProbeDeliveredMinded == ASSUME NEW m, ProbeDelivered(m) PROVE Minded
  BY AwaitMinded, SendNextMinded, CapsDeliveredMinded
     DEF ProbeDelivered, Unrelated, FirstChunk, Response, Endless, Null

LEMMA ProbeLateMinded == ASSUME ProbeLate PROVE Minded
  BY SendNextMinded, EprEnterMinded DEF ProbeLate, NoAnswer, NoChunk, Continue

LEMMA ProbeTxFailedMinded == ASSUME ProbeTxFailed PROVE Minded
  BY RestMinded, EprEnterMinded DEF ProbeTxFailed

LEMMA FinishMinded ==
  ASSUME NEW STATE v, NEW result, Finish(v, result) PROVE Minded
  BY RestMinded DEF Finish

LEMMA ModesNextMinded == ASSUME NEW STATE v, ModesNext(v) PROVE Minded
  BY FinishMinded, AwaitMinded DEF ModesNext, Endless, Null

LEMMA RxVdmMinded ==
  ASSUME WireTyped, NEW m, RxVdm(m) PROVE Minded
<1>1. ASSUME cb' = [cb EXCEPT !.rx = Null] PROVE Minded
  BY <1>1, TakenMinded DEF Taken
<1>2. ASSUME RxAnswer(m) PROVE Minded
  BY <1>2, FinishMinded, ModesNextMinded, AwaitMinded
     DEF RxAnswer, DiscoverSvidsOf, Endless, Null
<1>3. ASSUME RxRequest(m) PROVE Minded
  BY <1>1, <1>3, IdleMinded DEF RxRequest, Callbacks
<1> QED BY <1>1, <1>2, <1>3, FinishMinded DEF RxVdm

LEMMA VdmLateMinded == ASSUME VdmLate PROVE Minded
  BY FinishMinded, ModesNextMinded DEF VdmLate

LEMMA VdmTxFailedMinded == ASSUME VdmTxFailed PROVE Minded
  BY FinishMinded, ModesNextMinded DEF VdmTxFailed

LEMMA TxRequestMinded ==
  ASSUME NEW STATE r, NEW STATE current, TxRequest(r, current) PROVE Minded
  BY AwaitMinded DEF TxRequest, Endless, Null

LEMMA RequestFailedMinded == ASSUME RequestFailed PROVE Minded
  BY RestMinded DEF RequestFailed

LEMMA RearmMinded ==
  ASSUME WireTyped, NEW rx, NEW late, Rearm(rx, late),
         rx = "RX_PS_RDY" \/ late \notin Endless
  PROVE Minded
<1>1. "RX_PS_RDY" \notin Exchanges
  BY DEF Exchanges
<1> QED BY <1>1, AwaitMinded, AwaitOther, RequestFailedMinded, TakenMinded
     DEF Rearm, HardReset

LEMMA RxAcceptMinded == ASSUME WireTyped, NEW m, RxAccept(m) PROVE Minded
<1>1. "RX_PS_RDY" \notin Exchanges /\ "Request_Failed" \notin Endless
  BY DEF Exchanges, Endless, Null
<1> QED BY <1>1, AwaitOther, TxRequestMinded, RequestFailedMinded, RearmMinded
     DEF RxAccept

LEMMA EstablishedMinded == ASSUME Established PROVE Minded
  BY EprEnterMinded, RestMinded, AwaitMinded
     DEF Established, ProbeStart, Endless, Null

LEMMA RxPsRdyMinded == ASSUME WireTyped, NEW m, RxPsRdy(m) PROVE Minded
  BY EstablishedMinded, RequestFailedMinded, RearmMinded DEF RxPsRdy

LEMMA OfferReceivedMinded ==
  ASSUME NEW o, NEW first, NEW STATE e, NEW STATE p, NEW STATE r, NEW STATE v,
         NEW STATE c, OfferReceived(o, first, e, p, r, v, c)
  PROVE Minded
<1> DEFINE new == Restarted(p, o, first)
           q == IF new THEN [p EXCEPT !.probed = NoOffer, !.done = FALSE] ELSE p
           f == IF new THEN [e EXCEPT !.done = FALSE] ELSE e
<1>1. UnderContract(f, q, v, o, r) \/ FirstOffer(f, v, o, r)
  BY DEF OfferReceived
<1> HIDE DEF new, q, f
<1> QED BY <1>1, EprEnterMinded, RestMinded, TxRequestMinded
     DEF UnderContract, FirstOffer, Upgrade, Hold, Renegotiate, Muted, Ask

LEMMA RxSrcCapMinded ==
  ASSUME NEW m, NEW STATE e, RxSrcCap(m, e) PROVE Minded
<1>1. PICK first \in IsFirst(m) :
        OfferReceived(OfferIn(m), first, e, probe, req, vdm, contract)
  BY DEF RxSrcCap
<1> QED BY <1>1, OfferReceivedMinded

LEMMA OfferDeliveredMinded == ASSUME NEW m, OfferDelivered(m) PROVE Minded
  BY RxSrcCapMinded, TxRequestMinded DEF OfferDelivered

LEMMA AnswerSoftResetMinded ==
  ASSUME NEW STATE p, NEW STATE e, NEW STATE v, AnswerSoftReset(p, e, v)
  PROVE Minded
  BY IdleMinded DEF AnswerSoftReset, Callbacks

LEMMA WaitSrcCapMinded == ASSUME WaitSrcCap PROVE Minded
  BY AwaitOther DEF WaitSrcCap, Exchanges

LEMMA TxSoftResetMinded == ASSUME TxSoftReset PROVE Minded
  BY AwaitOther DEF TxSoftReset, Exchanges

LEMMA SoftResetMinded ==
  ASSUME WireTyped, NEW m,
         SoftResetReceived \/ SoftResetAnswered(m) \/ SrcCapSoftReset
  PROVE Minded
  BY AnswerSoftResetMinded, WaitSrcCapMinded, TakenMinded, AwaitCapsMinded
     DEF SoftResetReceived, SoftResetAnswered, HardReset, SrcCapSoftReset

LEMMA IdleDeliveredMinded ==
  ASSUME WireTyped, NEW m, IdleDelivered(m) PROVE Minded
<1>1. ASSUME IdleControl(m) PROVE Minded
  BY <1>1, TakenMinded DEF IdleControl, Reply, HardReset, Ignored
<1>2. ASSUME Quarantined(m) PROVE Minded
  BY <1>2, IdleMinded DEF Quarantined, IdleOnly, Callbacks
<1> QED BY <1>1, <1>2, CapsDeliveredMinded, TxSoftResetMinded, RxVdmMinded
     DEF IdleDelivered, Idle

LEMMA NoHandlerMinded == ASSUME WireTyped, NEW m, NoHandler(m) PROVE Minded
  BY RxSrcCapMinded, IdleMinded DEF NoHandler

LEMMA AttachAndOfferMinded == ASSUME NEW m, AttachAndOffer(m) PROVE Minded
<1>1. PICK o, first :
        \E p, r, v : OfferReceived(o, first, epr, p, r, v, FALSE)
  BY DEF AttachAndOffer
<1> QED BY <1>1, OfferReceivedMinded

LEMMA DeliverMinded == ASSUME WireTyped, Deliver PROVE Minded
<1> DEFINE m == Head(inbox)
<1>1. Handle(m) \/ SoftResetReceived \/ AttachAndOffer(m)
  BY DEF Deliver
<1>2. ASSUME Handle(m) PROVE Minded
  BY <1>2, EprDeliveredMinded, ProbeDeliveredMinded, RxVdmMinded,
     RxAcceptMinded, RxPsRdyMinded, SoftResetMinded, OfferDeliveredMinded,
     IdleDeliveredMinded, NoHandlerMinded DEF Handle, VdmDelivered
<1> QED BY <1>1, <1>2, SoftResetMinded, AttachAndOfferMinded

-----------------------------------------------------------------------------
(* An exchange that is waited for, or whose answer the interrupt has put    *)
(* into the ring.  A handler that is not minded leaves everything as it was. *)

Attended ==
  cb.rx \in Exchanges =>
    cb.late \notin Endless /\ (conn => waitRx \/ inbox # <<>>)

LEMMA MindedAttended == ASSUME Minded PROVE Attended'
  BY DEF Minded, Attended

\* Nothing of it changes but the ring, which has not become empty
LEMMA SameAttended ==
  ASSUME Attended, UNCHANGED <<cb, waitRx>>,
         conn' => conn /\ (inbox' = inbox \/ inbox' # <<>>)
  PROVE Attended'
  BY DEF Attended

\* The three timeouts that end in no exchange belong to none
LEMMA EndlessMinded ==
  ASSUME WireTyped, Attended, cb.late \in Endless,
         cb' \in {cb, [cb EXCEPT !.late = Null]}
  PROVE Minded
<1>1. cb'.rx = cb.rx
  BY DEF WireTyped, Callbacks
<1> QED BY <1>1 DEF Attended, Minded

LEMMA TimeoutMinded == ASSUME WireTyped, Attended, Timeout PROVE Minded
<1>1. ASSUME RequestLate \/ HardResetLate PROVE Minded
  BY <1>1, RequestFailedMinded, EndlessMinded
     DEF RequestLate, HardResetLate, HardReset, Endless
<1>2. ASSUME cb.late = Null, UNCHANGED cb PROVE Minded
  BY <1>2, EndlessMinded DEF Endless
<1> QED BY <1>1, <1>2, EprLateMinded, ProbeLateMinded, VdmLateMinded DEF Timeout

LEMMA TicksAttended == ASSUME Attended, Ticks PROVE Attended'
<1>1. conn' = conn /\ inbox' = inbox
  BY DEF Ticks
<1>2. ASSUME UNCHANGED <<cb, waitRx>> PROVE Attended'
  BY <1>1, <1>2, SameAttended
<1>3. ASSUME VdmTick PROVE Attended'
  BY <1>2, <1>3, AwaitMinded, MindedAttended DEF VdmTick, Endless, Null
<1>4. ASSUME GuardTick PROVE Attended'
  BY <1>2, <1>4, TxRequestMinded, MindedAttended DEF GuardTick
<1>5. ASSUME SettleTick PROVE Attended'
  BY <1>2, <1>5, EprEnterMinded, MindedAttended DEF SettleTick
<1> QED BY <1>3, <1>4, <1>5 DEF Ticks

LEMMA ArrivesSome ==
  ASSUME RingTyped, NEW m, Arrives(m) PROVE inbox' # <<>>
<1>1. Len(inbox') = Len(inbox) + 1 /\ Len(inbox) \in Nat
  BY DEF Arrives, RingTyped
<1> QED BY <1>1

LEMMA TransmitAttended ==
  ASSUME WireTyped, RingTyped, Attended, Transmit PROVE Attended'
<1>1. conn' = conn
  BY DEF Transmit
<1>2. CASE TransmitOk
  <2>1. inbox' = inbox \/ inbox' # <<>>
    BY <1>2, ArrivesSome DEF TransmitOk, Interrupts
  <2> QED BY <1>1, <1>2, <2>1, SameAttended, WaitSrcCapMinded, MindedAttended
        DEF TransmitOk
<1>3. CASE TransmitFailed
  <2>1. ASSUME Overtaken, UNCHANGED <<cb, waitRx>> PROVE Attended'
    BY <1>1, <2>1, SameAttended DEF Overtaken
  <2> QED BY <1>3, <2>1, EprTxFailedMinded, ProbeTxFailedMinded,
        VdmTxFailedMinded, RequestFailedMinded, TxSoftResetMinded,
        MindedAttended DEF TransmitFailed, RequestTxFailed
<1> QED BY <1>2, <1>3 DEF Transmit

\* Everything the charger sends is in the ring; a Hard Reset of its own takes
\* the exchange away
LEMMA ChargerAttended ==
  ASSUME RingTyped, Attended, Charger PROVE Attended'
<1>1. CASE ChargerAnswers \/ ChargerTalks
  <2>1. inbox' # <<>> /\ UNCHANGED <<cb, conn>>
    BY <1>1, ArrivesSome DEF ChargerAnswers, ChargerTalks, Interrupts
  <2> QED BY <2>1 DEF Attended
<1>2. CASE ChargerHardReset
  BY <1>2, WaitSrcCapMinded, MindedAttended, SameAttended DEF ChargerHardReset
<1> QED BY <1>1, <1>2 DEF Charger

LEMMA NextAttended == ASSUME Inv, Attended, [Next]_vars PROVE Attended'
<1>1. WireTyped /\ RingTyped
  BY DEF Inv, TypeInv
<1>2. CASE Deliver
  BY <1>1, <1>2, DeliverMinded, MindedAttended
<1>3. CASE Transmit
  BY <1>1, <1>3, TransmitAttended
<1>4. CASE Timeout
  BY <1>1, <1>4, TimeoutMinded, MindedAttended
<1>5. CASE Ticks
  BY <1>5, TicksAttended
<1>6. CASE Charger
  BY <1>1, <1>6, ChargerAttended
<1>7. CASE Detach
  BY <1>7 DEF Detach, Attended
<1>8. CASE UNCHANGED vars
  BY <1>8 DEF vars, wireVars, Attended
<1> QED BY <1>2, <1>3, <1>4, <1>5, <1>6, <1>7, <1>8 DEF Next, MainLoop

(* No exchange on a cable is left without an end: whatever handler, timeout *)
(* or failed transmission it came from, its answer is in the ring or it is  *)
(* waited for, and the timeout of that wait goes on from it.                *)
THEOREM PolicyNeverStuck == Spec => []NeverStuck
<1>1. Init => Attended
  BY DEF Init, NoCallbacks, Callbacks, Attended, Exchanges, Handlers, Null
<1>2. Inv /\ Attended /\ [Next]_vars => Attended'
  BY NextAttended
<1>3. Attended => NeverStuck
  BY DEF Attended, NeverStuck, Endless
<1> QED BY <1>1, <1>2, <1>3, AlwaysInv, PTL DEF Spec

-----------------------------------------------------------------------------
(* The list of SVIDs.  A Discover Modes that is queued names one of it, and  *)
(* whoever forgets or replaces the list takes that message back.             *)

InRange ==
  /\ vdm.svids \in 0..MaxSvids /\ vdm.index \in Nat
  /\ tx.k = "modes" => tx.n \in Nat /\ tx.n < vdm.svids

\* What a handler makes of it: the list stays, and no other message asks of
\* it; or it is forgotten; or the discovery, under a contract, goes on
SameList ==
  /\ vdm'.svids = vdm.svids /\ vdm'.index \in {vdm.index, 0}
  /\ tx'.k = "modes" => tx' = tx
NoList == vdm'.svids = 0 /\ vdm'.index = 0 /\ tx'.k # "modes"
Lists ==
  SameList \/ NoList \/ (InRange' /\ (vdm'.svids = vdm.svids \/ contract))

\* vdm as a caller hands it on, with the list as it was
Alike(v) == v.svids = vdm.svids /\ v.index \in {vdm.index, 0}

LEMMA ListsInRange ==
  ASSUME InRange, Lists PROVE InRange' /\ (vdm'.svids \in {vdm.svids, 0} \/ contract)
<1>1. 0 \in 0..MaxSvids
  BY SvidAssumption
<1> QED BY <1>1 DEF InRange, Lists, SameList, NoList

LEMMA OtherKinds ==
  ASSUME NEW k, k # "modes", NEW n PROVE Msg(k).k # "modes" /\ Num(k, n).k # "modes"
  BY DEF Msg, Num, Message

LEMMA NoTxOther == NoTx.k # "modes"
  BY OtherKinds DEF NoTx

\* Nothing is sent, or something that names no SVID
Mute == tx'.k = "modes" => tx' = Left

LEMMA SendNoneMute == ASSUME SendNone PROVE Mute
  BY DEF SendNone, Mute

LEMMA MuteKeeps == ASSUME Mute PROVE tx'.k = "modes" => tx' = tx
  BY NoTxOther DEF Mute, Left

LEMMA SendsMute ==
  ASSUME NEW k, k # "modes", NEW n,
         tx' \in {Msg(k), Num(k, n)}
  PROVE Mute
  BY OtherKinds DEF Mute

LEMMA AskChunkMute == ASSUME NEW STATE m, AskChunk(m) PROVE Mute
  BY NoTxOther DEF AskChunk, Mute

LEMMA ArmedAlike ==
  ASSUME NEW STATE v, v \in VdmSet
  PROVE /\ Armed(v).svids = v.svids /\ Armed(v).index = v.index
        /\ Cancelled(v).svids = v.svids /\ Cancelled(v).index = v.index
        /\ [v EXCEPT !.mode = FALSE].svids = v.svids
        /\ [v EXCEPT !.mode = FALSE].index = v.index
        /\ Forgotten(v).svids = 0 /\ Forgotten(v).index = 0
  BY DEF VdmSet, Armed, Cancelled, Forgotten

LEMMA EprEnterLists ==
  ASSUME NEW STATE e, NEW STATE v, v \in VdmSet, NEW STATE o, NEW STATE w,
         EprEnter(e, v, o, w)
  PROVE vdm'.svids = v.svids /\ vdm'.index = v.index /\ Mute
<1>1. CASE PpsStart(e, v, o)
  BY <1>1, SendsMute DEF PpsStart, SendNow
<1>2. CASE SendSinkCap(e, v)
  BY <1>2, SendsMute DEF SendSinkCap, SendNow
<1>3. CASE SendEnter(e, v, o)
  BY <1>3, SendsMute, ArmedAlike DEF SendEnter, SendNow
<1>4. CASE SkipEpr(e, v, o, w)
  BY <1>4, SendNoneMute, ArmedAlike DEF SkipEpr
<1> QED BY <1>1, <1>2, <1>3, <1>4 DEF EprEnter

\* With the list as it was
LEMMA EprEnterAlike ==
  ASSUME NEW STATE e, NEW STATE v, v \in VdmSet, Alike(v), NEW STATE o,
         NEW STATE w, EprEnter(e, v, o, w)
  PROVE SameList
  BY EprEnterLists, MuteKeeps DEF Alike, SameList

LEMMA MuteSame == ASSUME Mute, UNCHANGED vdm PROVE SameList
  BY MuteKeeps DEF SameList

LEMMA TypedVdm == ASSUME Typed PROVE vdm \in VdmSet /\ Alike(vdm)
  BY DEF Typed, PartsTyped, Alike

LEMMA ContinueLists == ASSUME Typed, Continue PROVE SameList
  BY TypedVdm, EprEnterAlike DEF Continue

LEMMA EprClosedLists == ASSUME Typed, NEW STATE e, EprClosed(e) PROVE SameList
  BY TypedVdm, ArmedAlike, SendNoneMute, MuteKeeps DEF EprClosed, SameList

LEMMA EprExitLists == ASSUME NEW STATE e, EprExit(e) PROVE SameList
  BY SendsMute, MuteSame DEF EprExit, Queue

LEMMA EprRequestLists ==
  ASSUME NEW STATE e, NEW stage, EprRequest(e, stage) PROVE SameList
  BY SendsMute, MuteSame DEF EprRequest, SendNow

LEMMA CapsDeliveredLists == ASSUME NEW m, CapsDelivered(m) PROVE SameList
  BY AskChunkMute, MuteSame, EprRequestLists
     DEF CapsDelivered, EprCapsComplete, AwaitCaps

LEMMA EprDeliveredLists == ASSUME Typed, NEW m, EprDelivered(m) PROVE SameList
<1>1. CASE PpsDelivered(m)
  BY <1>1, ContinueLists, SendsMute, SendNoneMute, MuteSame
     DEF PpsDelivered, PpsNext, SendPpsStatus, SendRestoreFixed, Queue,
     SendNow, ppsFrame
<1>2. CASE SinkCapDelivered(m)
  BY <1>2, ContinueLists DEF SinkCapDelivered
<1>3. CASE EnterDelivered(m)
  BY <1>3, EprClosedLists, TypedVdm, ArmedAlike, SendNoneMute, MuteKeeps,
     MuteSame DEF EnterDelivered, AwaitCaps, SameList
<1>4. CASE SrcCapDelivered(m)
  BY <1>4, CapsDeliveredLists, SendNoneMute, MuteSame, EprExitLists
     DEF SrcCapDelivered, NoCapsDelivered, AwaitCaps
<1>5. CASE EprRequestDelivered(m)
  BY <1>5, SendNoneMute, MuteSame, EprExitLists, EprRequestLists
     DEF EprRequestDelivered
<1>6. CASE ExitDelivered(m)
  BY <1>6, EprClosedLists, SendNoneMute, MuteSame DEF ExitDelivered
<1> QED BY <1>1, <1>2, <1>3, <1>4, <1>5, <1>6 DEF EprDelivered

LEMMA EprLateLists == ASSUME Typed, EprLate PROVE SameList
  BY ContinueLists, EprClosedLists, EprExitLists, AskChunkMute, MuteSame
     DEF EprLate, CapsTimeout, AwaitCaps

LEMMA EprTxFailedLists == ASSUME Typed, EprTxFailed PROVE SameList
  BY ContinueLists, EprClosedLists, EprExitLists DEF EprTxFailed

LEMMA SendNextLists == ASSUME Typed, NEW STATE p, SendNext(p) PROVE SameList
  BY ContinueLists, SendsMute, MuteSame DEF SendNext, SendGet, Queue

LEMMA ProbeDeliveredLists ==
  ASSUME Typed, NEW m, ProbeDelivered(m) PROVE SameList
  BY SendNoneMute, AskChunkMute, MuteSame, SendNextLists, CapsDeliveredLists
     DEF ProbeDelivered, Unrelated, FirstChunk, Response

LEMMA ProbeLateLists == ASSUME Typed, ProbeLate PROVE SameList
  BY SendNextLists, ContinueLists DEF ProbeLate, NoAnswer, NoChunk

\* The list is forgotten; nothing is left queued by a transmission
LEMMA ProbeTxFailedLists ==
  ASSUME Typed, Flushing, ProbeTxFailed PROVE NoList
<1> DEFINE v == Forgotten(vdm)
<1>1. v \in VdmSet /\ v.svids = 0 /\ v.index = 0
  BY ForgottenTyped, TypedVdm, ArmedAlike
<1>2. ASSUME Mute PROVE tx'.k # "modes"
  BY <1>2, NoTxOther DEF Mute, Left
<1>3. CASE SendNone /\ vdm' = v
  BY <1>1, <1>2, <1>3, SendNoneMute DEF NoList
<1>4. CASE EprEnter(epr, v, offer, FALSE)
  <2> HIDE DEF v
  <2> QED BY <1>1, <1>2, <1>4, EprEnterLists DEF NoList
<1> QED BY <1>3, <1>4 DEF ProbeTxFailed

LEMMA FinishLists ==
  ASSUME NEW STATE v, v \in VdmSet, NEW result, Finish(v, result)
  PROVE vdm'.svids = v.svids /\ vdm'.index = v.index /\ tx'.k # "modes"
  BY NoTxOther DEF Finish, VdmSet

LEMMA ModesNextInRange ==
  ASSUME NEW STATE v, v \in VdmSet, v.svids \in 0..MaxSvids, v.index \in Nat,
         ModesNext(v)
  PROVE InRange' /\ vdm'.svids = v.svids
<1>1. CASE Finish(v, "done")
  BY <1>1, FinishLists DEF InRange
<1>2. CASE v.index < v.svids /\ vdm' = v /\ Queue(Num("modes", v.index))
  BY <1>2 DEF Queue, Num, Message, InRange
<1> QED BY <1>1, <1>2 DEF ModesNext

LEMMA NextModeLists ==
  ASSUME Typed, InRange, ModesNext([vdm EXCEPT !.index = @ + 1])
  PROVE InRange' /\ vdm'.svids = vdm.svids
<1> DEFINE v == [vdm EXCEPT !.index = @ + 1]
<1>1. v \in VdmSet /\ v.svids = vdm.svids /\ v.index = vdm.index + 1
  BY NextModeTyped DEF VdmSet
<1>2. v.svids \in 0..MaxSvids /\ v.index \in Nat
  BY <1>1 DEF InRange
<1>3. ModesNext(v)
  OBVIOUS
<1> HIDE DEF v
<1> QED BY <1>1, <1>2, <1>3, ModesNextInRange

LEMMA FinishedLists ==
  ASSUME Typed, InRange, NEW result, Finish(vdm, result)
  PROVE InRange' /\ vdm'.svids = vdm.svids
  BY FinishLists, TypedVdm DEF InRange

LEMMA RxAnswerLists ==
  ASSUME Typed, InRange, contract, NEW m \in Packet, RxAnswer(m) PROVE Lists
<1>1. CASE DiscoverSvidsOf(vdm)
  <2>1. vdm'.svids = 0 /\ vdm'.index = 0
    BY <1>1, TypedVdm DEF DiscoverSvidsOf, VdmSet
  <2> QED BY <1>1, <2>1, OtherKinds DEF DiscoverSvidsOf, Queue, Lists, NoList
<1>2. CASE m.k = "acksvids"
  <2> DEFINE n == IF m.n > MaxSvids THEN MaxSvids ELSE m.n
             c == [vdm EXCEPT !.svids = n]
             a == [c EXCEPT !.index = 0]
             b == [vdm EXCEPT !.svids = 0]
  <2>1. n \in Int /\ (n > 0 => n \in 0..MaxSvids)
    BY SvidAssumption DEF Packet
  <2>2. \/ Finish(b, "done")
        \/ n > 0 /\ ModesNext(a)
        \/ DiscoverSvidsOf(vdm)
        \/ ModesNext([vdm EXCEPT !.index = @ + 1])
        \/ Finish(vdm, "refused")
    BY <1>2 DEF RxAnswer
  <2> HIDE DEF n
  <2>3. c \in VdmSet /\ c.svids = n /\ b \in VdmSet /\ b.svids = 0 /\ b.index = vdm.index
    BY <2>1, TypedVdm DEF VdmSet
  <2> HIDE DEF c, b
  <2>4. a \in VdmSet /\ a.svids = n /\ a.index = 0
    BY <2>3 DEF VdmSet
  <2> HIDE DEF a
  <2>5. CASE Finish(b, "done")
    <3>1. vdm'.svids = 0 /\ vdm'.index = vdm.index /\ tx'.k # "modes"
      BY <2>3, <2>5, FinishLists
    <3> QED BY <3>1, SvidAssumption DEF InRange, Lists
  <2>6. CASE n > 0 /\ ModesNext(a)
    BY <2>1, <2>4, <2>6, ModesNextInRange DEF Lists
  <2> QED BY <1>1, <2>2, <2>5, <2>6, NextModeLists, FinishedLists DEF Lists
<1>3. CASE \/ ModesNext([vdm EXCEPT !.index = @ + 1])
           \/ Finish(vdm, "refused")
  BY <1>3, NextModeLists, FinishedLists DEF Lists
<1> QED BY <1>1, <1>2, <1>3 DEF RxAnswer

LEMMA RxVdmLists ==
  ASSUME Typed, InRange, NEW m \in Packet, RxVdm(m) PROVE Lists
<1>1. ASSUME SendNone, UNCHANGED vdm PROVE Lists
  BY <1>1, SendNoneMute, MuteSame DEF Lists
<1>2. CASE Queue(Msg("vdmreply")) /\ \E b : vdm' = [vdm EXCEPT !.mode = b]
  BY <1>2, SendsMute, MuteKeeps, TypedVdm
     DEF Queue, VdmSet, SameList, Lists
<1>3. ASSUME RxRequest(m) PROVE Lists
  BY <1>1, <1>2, <1>3 DEF RxRequest
<1> QED BY <1>1, <1>3, RxAnswerLists, FinishedLists DEF RxVdm, Lists

LEMMA VdmTimedLists ==
  ASSUME Typed, InRange, VdmLate \/ VdmTxFailed PROVE Lists
  BY FinishedLists, NextModeLists DEF VdmLate, VdmTxFailed, Lists

LEMMA VdmTickLists == ASSUME Typed, VdmTick PROVE Lists
<1>1. CASE vdm' = Cancelled(vdm) /\ SendNone
  BY <1>1, TypedVdm, ArmedAlike, SendNoneMute, MuteKeeps DEF SameList, Lists
<1>2. CASE /\ vdm' = [Forgotten(vdm) EXCEPT !.armed = FALSE, !.done = TRUE]
           /\ SendNow(Msg("ident"))
  <2> DEFINE v == Forgotten(vdm)
  <2>1. v \in VdmSet /\ v.svids = 0 /\ v.index = 0
    BY ForgottenTyped, TypedVdm, ArmedAlike
  <2>2. vdm' = [v EXCEPT !.armed = FALSE, !.done = TRUE]
    BY <1>2
  <2> HIDE DEF v
  <2>3. vdm'.svids = 0 /\ vdm'.index = 0
    BY <2>1, <2>2 DEF VdmSet
  <2> QED BY <1>2, <2>3, OtherKinds DEF SendNow, NoList, Lists
<1> QED BY <1>1, <1>2 DEF VdmTick

LEMMA TxRequestMute ==
  ASSUME NEW STATE r, NEW STATE current, TxRequest(r, current) PROVE Mute
  BY SendsMute DEF TxRequest, SendNow

LEMMA RequestFailedMute == ASSUME RequestFailed PROVE Mute
  BY SendNoneMute DEF RequestFailed

LEMMA HardResetMute == ASSUME NEW STATE c, HardReset(c) PROVE Mute
  BY SendNoneMute DEF HardReset

LEMMA FrameSame == ASSUME UNCHANGED reqFrame, Mute PROVE SameList
  BY MuteSame DEF reqFrame

LEMMA RearmMute == ASSUME NEW rx, NEW late, Rearm(rx, late) PROVE Mute
  BY SendNoneMute, RequestFailedMute, HardResetMute DEF Rearm

LEMMA RxAcceptLists == ASSUME NEW m, RxAccept(m) PROVE SameList
<1>1. Mute
  BY SendNoneMute, TxRequestMute, RequestFailedMute, RearmMute DEF RxAccept
<1> QED BY <1>1, FrameSame DEF RxAccept

LEMMA EstablishedLists == ASSUME Typed, Established PROVE SameList
<1>1. CASE EprEnter(epr, vdm, offer, FALSE)
  BY <1>1, TypedVdm, EprEnterAlike
<1>2. CASE vdm' = Armed(vdm) /\ SendNone
  BY <1>2, TypedVdm, ArmedAlike, SendNoneMute, MuteKeeps DEF SameList
<1>3. CASE ProbeStart
  BY <1>3, SendNoneMute, SendsMute, MuteSame DEF ProbeStart, Queue
<1> QED BY <1>1, <1>2, <1>3 DEF Established

LEMMA RxPsRdyLists == ASSUME Typed, NEW m, RxPsRdy(m) PROVE SameList
<1>1. CASE Established
  BY <1>1, EstablishedLists
<1>2. CASE Mute /\ UNCHANGED reqFrame
  BY <1>2, FrameSame
<1> QED BY <1>1, <1>2, RequestFailedMute, RearmMute DEF RxPsRdy

LEMMA RequestLateLists == ASSUME RequestLate \/ RequestTxFailed PROVE SameList
<1>1. Mute /\ UNCHANGED reqFrame
  BY RequestFailedMute, HardResetMute DEF RequestLate, RequestTxFailed
<1> QED BY <1>1, FrameSame

LEMMA OfferReceivedLists ==
  ASSUME NEW o, NEW first, NEW STATE e, NEW STATE p, NEW STATE r, NEW STATE v,
         v \in VdmSet, Alike(v), NEW STATE c, OfferReceived(o, first, e, p, r, v, c)
  PROVE SameList
<1> DEFINE new == Restarted(p, o, first)
           q == IF new THEN [p EXCEPT !.probed = NoOffer, !.done = FALSE] ELSE p
           f == IF new THEN [e EXCEPT !.done = FALSE] ELSE e
<1>1. UnderContract(f, q, v, o, r) \/ FirstOffer(f, v, o, r)
  BY DEF OfferReceived
<1> HIDE DEF new, q, f
<1>2. CASE Upgrade(f, v, o)
  <2>1. Cancelled(v) \in VdmSet /\ Alike(Cancelled(v))
    BY ArmedAlike DEF Cancelled, VdmSet, Alike
  <2> QED BY <1>2, <2>1, EprEnterAlike DEF Upgrade
<1>3. CASE vdm' = v /\ Mute
  BY <1>3, MuteKeeps DEF Alike, SameList
<1> QED BY <1>1, <1>2, <1>3, SendNoneMute, TxRequestMute
     DEF UnderContract, FirstOffer, Hold, Renegotiate, Muted, Ask

LEMMA RxSrcCapLists ==
  ASSUME Typed, NEW m, NEW STATE e, RxSrcCap(m, e) PROVE SameList
<1>1. PICK first \in IsFirst(m) :
        OfferReceived(OfferIn(m), first, e, probe, req, vdm, contract)
  BY DEF RxSrcCap
<1> QED BY <1>1, TypedVdm, OfferReceivedLists

LEMMA OfferDeliveredLists ==
  ASSUME Typed, NEW m, OfferDelivered(m) PROVE SameList
  BY RxSrcCapLists, TxRequestMute, MuteSame DEF OfferDelivered

LEMMA AnswerSoftResetLists ==
  ASSUME NEW STATE p, NEW STATE e, NEW STATE v, v \in VdmSet,
         Alike(v) \/ (v.svids = 0 /\ v.index = 0), AnswerSoftReset(p, e, v)
  PROVE Lists
<1>1. vdm'.svids = v.svids /\ vdm'.index = v.index
  BY ArmedAlike DEF AnswerSoftReset
<1>2. tx'.k # "modes"
  BY OtherKinds DEF AnswerSoftReset, Queue
<1> QED BY <1>1, <1>2 DEF Alike, Lists, SameList, NoList

LEMMA SoftResetReceivedLists == ASSUME Typed, SoftResetReceived PROVE Lists
<1>1. ASSUME NEW STATE p, NEW STATE e, AnswerSoftReset(p, e, vdm) PROVE Lists
  BY <1>1, TypedVdm, AnswerSoftResetLists
<1>2. ASSUME NEW STATE p, NEW STATE e, AnswerSoftReset(p, e, Forgotten(vdm))
      PROVE Lists
  <2> DEFINE v == Forgotten(vdm)
  <2>1. AnswerSoftReset(p, e, v) /\ v \in VdmSet /\ v.svids = 0 /\ v.index = 0
    BY <1>2, ForgottenTyped, TypedVdm, ArmedAlike
  <2> HIDE DEF v
  <2> QED BY <2>1, AnswerSoftResetLists
<1> QED BY <1>1, <1>2 DEF SoftResetReceived

LEMMA TxSoftResetLists == ASSUME Typed, TxSoftReset PROVE SameList
  BY TypedVdm, ArmedAlike, SendsMute, MuteKeeps DEF TxSoftReset, Queue, SameList

LEMMA SoftResetAnsweredLists == ASSUME NEW m, SoftResetAnswered(m) PROVE SameList
<1>1. Mute /\ UNCHANGED reqFrame
  BY SendNoneMute, HardResetMute DEF SoftResetAnswered
<1> QED BY <1>1, FrameSame

LEMMA SrcCapSoftResetLists == ASSUME SrcCapSoftReset PROVE SameList
  BY SendsMute, MuteSame DEF SrcCapSoftReset, AwaitCaps, SendNow

LEMMA IdleDeliveredLists ==
  ASSUME Typed, InRange, NEW m \in Packet, IdleDelivered(m) PROVE Lists
<1>1. ASSUME IdleControl(m) PROVE Mute
  BY <1>1, SendsMute, HardResetMute, AskChunkMute, SendNoneMute
     DEF IdleControl, Reply, SendNow, Ignored
<1>2. ASSUME Quarantined(m) PROVE SameList
  BY <1>2, SendNoneMute, MuteSame DEF Quarantined
<1> QED BY <1>1, <1>2, FrameSame, CapsDeliveredLists, TxSoftResetLists, RxVdmLists
     DEF IdleDelivered, Idle, Lists

LEMMA NoHandlerLists == ASSUME Typed, NEW m, NoHandler(m) PROVE SameList
  BY RxSrcCapLists, SendsMute, SendNoneMute, MuteSame
     DEF NoHandler, SendNow, policyVars

LEMMA HandleLists ==
  ASSUME Typed, InRange, NEW m \in Packet, Handle(m) PROVE Lists
<1>1. ASSUME SameList PROVE Lists
  BY <1>1 DEF Lists
<1> QED BY <1>1, EprDeliveredLists, ProbeDeliveredLists, RxVdmLists,
     RxAcceptLists, RxPsRdyLists, SoftResetAnsweredLists, OfferDeliveredLists,
     IdleDeliveredLists, NoHandlerLists, SrcCapSoftResetLists
     DEF Handle, VdmDelivered

(* Before a cable is there only what a charger says first is in the ring:   *)
(* nothing of it makes a contract, without which no list is received.       *)
Detached ==
  ~conn => /\ ~contract /\ vdm.svids = 0
           /\ \A i \in 1..Len(inbox) : inbox[i].k \in Unattached
Listed == InRange /\ Detached

LEMMA AttachAndOfferLists ==
  ASSUME Typed, vdm.svids = 0, NEW m, AttachAndOffer(m) PROVE SameList
<1> DEFINE w == Forgotten(vdm)
           v == [w EXCEPT !.mode = FALSE]
<1>1. PICK o, first :
        \E p, r : OfferReceived(o, first, epr, p, r, v, FALSE)
  BY DEF AttachAndOffer
<1>2. w \in VdmSet /\ w.svids = 0 /\ w.index = 0
  BY ForgottenTyped, TypedVdm, ArmedAlike
<1> HIDE DEF w
<1>3. v \in VdmSet /\ v.svids = 0 /\ v.index = 0
  BY <1>2 DEF VdmSet
<1> HIDE DEF v
<1> QED BY <1>1, <1>3, OfferReceivedLists DEF Alike

\* A contract is not made before a cable is there
LEMMA DetachedStep ==
  ASSUME Detached, Lists, InRange, conn' = conn, conn \/ contract' = FALSE,
         \A i \in 1..Len(inbox') : conn \/ inbox'[i].k \in Unattached
  PROVE Listed'
<1>1. InRange' /\ (vdm'.svids \in {vdm.svids, 0} \/ contract)
  BY ListsInRange
<1> QED BY <1>1 DEF Detached, Listed

LEMMA HandledListed ==
  ASSUME Inv, Listed, Deliver, Handle(Head(inbox)), inbox' = Tail(inbox),
         UNCHANGED conn
  PROVE Listed'
<1> DEFINE m == Head(inbox)
<1>1. m \in Packet /\ m = inbox[1] /\ inbox # <<>>
  BY HeadTailProperties DEF Deliver, Inv, TypeInv, RingTyped
<1>2. /\ Len(inbox) \in Nat /\ Len(inbox) = Len(inbox') + 1
      /\ Len(inbox') \in Nat
      /\ \A i \in 1..Len(inbox') : inbox'[i] = inbox[i+1]
  BY <1>1, HeadTailProperties, LenProperties DEF Inv, TypeInv, RingTyped
<1>3. Outcome(m) /\ Lists
  BY <1>1, HandleOutcome, HandleLists, InvTyped DEF Listed
<1>4. ASSUME ~conn PROVE contract' = FALSE
  <2>1. m.k \in Unattached /\ contract = FALSE
    BY <1>1, <1>2, <1>4 DEF Listed, Detached, Inv, TypeInv, PartsTyped
  <2> QED BY <1>3, <2>1
        DEF Unattached, Outcome, Leaves, Keeps, Advances, Begins
<1>5. ASSUME NEW i \in 1..Len(inbox'), ~conn PROVE inbox'[i].k \in Unattached
  <2>1. i + 1 \in 1..Len(inbox)
    BY <1>2
  <2> QED BY <1>2, <1>5, <2>1 DEF Listed, Detached
<1> QED BY <1>3, <1>4, <1>5, DetachedStep DEF Listed

\* The ring is emptied
LEMMA AbortedListed ==
  ASSUME Inv, Listed, Abort, Lists, contract' \in {contract, FALSE},
         UNCHANGED conn
  PROVE Listed'
<1>1. \A i \in 1..Len(inbox') : conn \/ inbox'[i].k \in Unattached
  BY DEF Abort
<1>2. conn \/ contract' = FALSE
  BY DEF Listed, Detached, Inv, TypeInv, PartsTyped
<1> QED BY <1>1, <1>2, DetachedStep DEF Listed

LEMMA DeliverListed == ASSUME Inv, Listed, Deliver PROVE Listed'
<1> DEFINE m == Head(inbox)
<1>1. CASE inbox' = Tail(inbox) /\ Handle(m) /\ UNCHANGED conn
  BY <1>1, HandledListed
<1>2. CASE SoftResetReceived /\ UNCHANGED conn
  <2>1. Abort /\ Lists /\ contract' \in {contract, FALSE}
    BY <1>2, SoftResetReceivedLists, SoftResetReceivedBesides, InvTyped
       DEF SoftResetReceived, AnswerSoftReset, Besides
  <2> QED BY <1>2, <2>1, AbortedListed
<1>3. CASE ~conn /\ AttachAndOffer(m)
  <2>1. Abort /\ conn' = TRUE
    BY <1>3 DEF AttachAndOffer
  <2>2. SameList
    BY <1>3, AttachAndOfferLists, InvTyped DEF Listed, Detached
  <2> QED BY <2>1, <2>2, ListsInRange DEF Lists, Listed, Detached
<1> QED BY <1>1, <1>2, <1>3 DEF Deliver

LEMMA TimersListed == ASSUME Inv, Listed, Timeout \/ Ticks PROVE Listed'
<1>1. Typed /\ InRange
  BY InvTyped DEF Listed
<1>2. conn' = conn /\ inbox' = inbox
  BY DEF Timeout, Ticks
<1>3. contract' \in {contract, FALSE}
  BY <1>1, TimeoutOutcome, TicksOutcome DEF Leaves, Keeps
<1>4. ASSUME SameList PROVE Lists
  BY <1>4 DEF Lists
<1>5. ASSUME Timeout PROVE Lists
  <2>1. ASSUME HardResetLate PROVE SameList
    BY <2>1, HardResetMute, FrameSame DEF HardResetLate
  <2>2. ASSUME SendNone, UNCHANGED policyVars PROVE SameList
    BY <2>2, SendNoneMute, MuteSame DEF policyVars
  <2> QED BY <1>1, <1>4, <1>5, <2>1, <2>2, EprLateLists, ProbeLateLists,
        VdmTimedLists, RequestLateLists DEF Timeout
<1>6. ASSUME Ticks PROVE Lists
  <2>1. ASSUME GuardTick PROVE SameList
    BY <2>1, SendNoneMute, TxRequestMute, MuteSame DEF GuardTick
  <2>2. ASSUME SettleTick PROVE SameList
    BY <1>1, <2>2, SendNoneMute, MuteSame, TypedVdm, EprEnterAlike DEF SettleTick
  <2> QED BY <1>1, <1>4, <1>6, <2>1, <2>2, VdmTickLists DEF Ticks
<1> QED BY <1>1, <1>2, <1>3, <1>5, <1>6, DetachedStep DEF Listed, Detached, Inv,
      TypeInv, PartsTyped

LEMMA ArrivesListed ==
  ASSUME RingTyped, Detached, NEW m, Arrives(m)
  PROVE \A i \in 1..Len(inbox') : conn \/ inbox'[i].k \in Unattached
<1>1. /\ Len(inbox) \in Nat /\ Len(inbox') = Len(inbox) + 1
      /\ inbox'[Len(inbox) + 1] = m
      /\ \A i \in 1..Len(inbox) : inbox'[i] = inbox[i]
  BY DEF Arrives, RingTyped
<1>2. ASSUME NEW i \in 1..Len(inbox'), ~conn PROVE inbox'[i].k \in Unattached
  <2>1. CASE i = Len(inbox) + 1
    BY <1>1, <1>2, <2>1 DEF Arrives
  <2>2. CASE i \in 1..Len(inbox)
    BY <1>1, <1>2, <2>2 DEF Detached
  <2> QED BY <1>1, <1>2, <2>1, <2>2
<1> QED BY <1>2

\* The transmission that failed, as any handler of it leaves the list
LEMMA FailedLists ==
  ASSUME Typed, InRange, Flushing, Failed PROVE Lists
<1>1. ASSUME SendNone, UNCHANGED policyVars PROVE SameList
  BY <1>1, SendNoneMute, MuteSame DEF policyVars
<1> QED BY <1>1, EprTxFailedLists, ProbeTxFailedLists, VdmTimedLists,
     RequestLateLists, TxSoftResetLists DEF Failed, Lists

LEMMA TransmitListed == ASSUME Inv, Listed, Transmit PROVE Listed'
<1>1. Typed /\ RingTyped /\ InRange /\ Detached /\ conn' = conn
  BY InvTyped DEF Inv, TypeInv, Listed, Transmit
<1>2. CASE TransmitOk
  <2>1. UNCHANGED <<vdm, contract>> /\ tx' = NoTx
    BY <1>2 DEF TransmitOk, policyVars, eprFrame
  <2>2. Lists /\ (conn \/ contract' = FALSE)
    BY <1>1, <2>1, NoTxOther DEF Lists, SameList, Detached, Typed, PartsTyped
  <2>3. \A i \in 1..Len(inbox') : conn \/ inbox'[i].k \in Unattached
    <3>1. CASE inbox' = inbox
      BY <1>1, <3>1 DEF Detached
    <3> QED BY <1>1, <1>2, <3>1, ArrivesListed DEF TransmitOk, Interrupts
  <2> QED BY <1>1, <2>2, <2>3, DetachedStep
<1>3. CASE TransmitFailed
  <2>1. Failed
    BY <1>3 DEF TransmitFailed, Failed
  <2>2. Lists /\ contract' \in {contract, FALSE} /\ inbox' \in {inbox, <<>>}
    BY <1>1, <2>1, FailedLists, FailedOutcome, FailedRing
       DEF Transmit, Besides, Keeps
  <2>3. conn \/ contract' = FALSE
    BY <1>1, <2>2 DEF Detached, Typed, PartsTyped
  <2>4. \A i \in 1..Len(inbox') : conn \/ inbox'[i].k \in Unattached
    <3>1. CASE inbox' = inbox
      BY <1>1, <3>1 DEF Detached
    <3>2. CASE inbox' = <<>>
      <4>1. Len(inbox') = 0
        BY <3>2
      <4> QED BY <4>1
    <3> QED BY <2>2, <3>1, <3>2
  <2> QED BY <1>1, <2>2, <2>3, <2>4, DetachedStep
<1> QED BY <1>2, <1>3 DEF Transmit

LEMMA ChargerListed == ASSUME Inv, Listed, Charger PROVE Listed'
<1>1. Typed /\ RingTyped /\ InRange /\ Detached
  BY InvTyped DEF Inv, TypeInv, Listed
<1>2. UNCHANGED <<conn, tx, vdm, contract>>
  BY DEF Charger, ChargerAnswers, ChargerTalks, ChargerHardReset, policyVars,
     eprFrame
<1>3. Lists /\ (conn \/ contract' = FALSE)
  BY <1>1, <1>2 DEF Lists, SameList, Detached, Typed, PartsTyped
<1>4. \A i \in 1..Len(inbox') : conn \/ inbox'[i].k \in Unattached
  <2>1. CASE ChargerHardReset
    BY <2>1 DEF ChargerHardReset, Abort
  <2> QED BY <1>1, <2>1, ArrivesListed
        DEF Charger, ChargerAnswers, ChargerTalks, Interrupts
<1> QED BY <1>1, <1>2, <1>3, <1>4, DetachedStep

LEMMA NextListed == ASSUME Inv, Listed, [Next]_vars PROVE Listed'
<1>1. CASE Detach
  <2>1. Len(inbox') = 0 /\ contract' = FALSE
    BY <1>1 DEF Detach, Abort
  <2>2. InRange' /\ vdm'.svids = 0
    BY <1>1, NoTxOther, SvidAssumption DEF Detach, VdmFresh, InRange
  <2> QED BY <2>1, <2>2 DEF Listed, Detached
<1>2. CASE UNCHANGED vars
  BY <1>2 DEF vars, wireVars, policyVars, eprFrame, Listed, InRange, Detached
<1> QED BY <1>1, <1>2, DeliverListed, TimersListed, TransmitListed, ChargerListed
     DEF Next, MainLoop

(* Discover Modes is asked of an SVID that was received, and of no more     *)
(* than there is room for, whatever answer, timeout, Soft_Reset or cable    *)
(* comes between the list and the message.                                  *)
THEOREM PolicyModesInRange == Spec => []ModesInRange
<1>1. Init => Listed
  BY NoTxOther, SvidAssumption DEF Init, VdmFresh, Listed, InRange, Detached
<1>2. Inv /\ Listed /\ [Next]_vars => Listed'
  BY NextListed
<1>3. Listed => ModesInRange
  BY SvidAssumption DEF Listed, InRange, ModesInRange
<1> QED BY <1>1, <1>2, <1>3, AlwaysInv, PTL DEF Spec

-----------------------------------------------------------------------------
(* EPR_Mode Enter.  What was attempted is remembered by every handler but    *)
(* the one that sends the message, and that one has compared it with the     *)
(* offer it leaves behind.                                                   *)

Known(e)   == "attempted" \in DOMAIN e
Recalls(e) == Known(e) /\ e.attempted = epr.attempted

\* Nothing is sent, or something else
Quiet == tx'.k = "eprenter" => tx' = Left

Recalled == Known(epr') /\ epr'.attempted = epr.attempted /\ Quiet
Entering ==
  /\ offer'.held \in EprCapable
  /\ ~(epr.attempted # NoOffer /\ epr.attempted = offer'.now)
  /\ Known(epr') /\ epr'.attempted = offer'.now

\* What a handler may make of it, and of the offer
Tries == (Recalled \/ Entering) /\ (offer' = offer \/ offer'.now \in Offers)

LEMMA OtherMessages ==
  ASSUME NEW k, k # "eprenter", NEW n
  PROVE Msg(k).k # "eprenter" /\ Num(k, n).k # "eprenter"
  BY DEF Msg, Num, Message

LEMMA NoTxQuiet == NoTx.k # "eprenter"
  BY OtherMessages DEF NoTx

LEMMA SendNoneQuiet == ASSUME SendNone PROVE Quiet
  BY DEF SendNone, Quiet

LEMMA SendsQuiet ==
  ASSUME NEW k, k # "eprenter", NEW n, tx' \in {Msg(k), Num(k, n)} PROVE Quiet
  BY OtherMessages DEF Quiet

LEMMA AskChunkQuiet == ASSUME NEW STATE m, AskChunk(m) PROVE Quiet
  BY NoTxQuiet DEF AskChunk, Quiet

\* epr and the offer stay, or epr is a copy that remembers
LEMMA SameTries ==
  ASSUME Known(epr), Quiet, UNCHANGED <<epr, offer>> PROVE Tries
  BY DEF Tries, Recalled

LEMMA CopyTries ==
  ASSUME NEW STATE e, Recalls(e), epr' = e, Quiet, UNCHANGED offer PROVE Tries
  BY DEF Tries, Recalled, Recalls

LEMMA EprEnterTries ==
  ASSUME NEW STATE e, Recalls(e), NEW STATE v, NEW STATE o, NEW STATE w,
         EprEnter(e, v, o, w), offer' = o
  PROVE Recalled \/ Entering
<1>1. CASE PpsStart(e, v, o)
  BY <1>1, SendsQuiet DEF PpsStart, SendNow, Recalled, Recalls, Known
<1>2. CASE SendSinkCap(e, v)
  BY <1>2, SendsQuiet DEF SendSinkCap, SendNow, Recalled, Recalls, Known
<1>3. CASE SendEnter(e, v, o) /\ o.held \in EprCapable
  BY <1>3 DEF SendEnter, Tried, Entering, Recalls, Known
<1>4. CASE SkipEpr(e, v, o, w)
  BY <1>4, SendNoneQuiet DEF SkipEpr, Recalled, Recalls, Known
<1> QED BY <1>1, <1>2, <1>3, <1>4 DEF EprEnter

LEMMA SameEnterTries ==
  ASSUME Known(epr), NEW STATE v, NEW STATE w, EprEnter(epr, v, offer, w),
         UNCHANGED offer
  PROVE Tries
  BY EprEnterTries DEF Tries, Recalls

LEMMA ContinueTries == ASSUME Known(epr), Continue PROVE Tries
  BY SameEnterTries DEF Continue, eprFrame

LEMMA EprClosedTries ==
  ASSUME NEW STATE e, Recalls(e), EprClosed(e) PROVE Tries
  BY SendNoneQuiet, CopyTries DEF EprClosed, eprFrame

LEMMA EprExitTries == ASSUME NEW STATE e, Recalls(e), EprExit(e) PROVE Tries
<1>1. Quiet /\ UNCHANGED offer
  BY SendsQuiet DEF EprExit, Queue, eprFrame
<1>2. Recalled
  BY <1>1 DEF EprExit, Recalled, Recalls, Known
<1> QED BY <1>1, <1>2 DEF Tries

LEMMA EprRequestTries ==
  ASSUME NEW STATE e, Recalls(e), NEW stage, EprRequest(e, stage) PROVE Tries
<1>1. Quiet /\ UNCHANGED offer
  BY SendsQuiet DEF EprRequest, SendNow, eprFrame
<1>2. Recalled
  BY <1>1 DEF EprRequest, Recalled, Recalls, Known
<1> QED BY <1>1, <1>2 DEF Tries

LEMMA AwaitCapsTries ==
  ASSUME NEW STATE e, Recalls(e), AwaitCaps(e), Quiet PROVE Tries
  BY CopyTries DEF AwaitCaps, eprFrame

LEMMA CapsDeliveredTries ==
  ASSUME Known(epr), NEW m, CapsDelivered(m) PROVE Tries
<1> DEFINE e == [epr EXCEPT !.got = Stored(m), !.retry = 0,
                   !.resets = IF m.k = "eprcaps1" THEN @ ELSE 0,
                   !.buf = (m.k = "eprcaps0")]
<1>1. Recalls(e)
  BY DEF Recalls, Known
<1>2. \/ AwaitCaps(e) /\ AskChunk(Msg("chunk"))
      \/ EprCapsComplete(e)
  BY DEF CapsDelivered
<1> HIDE DEF e
<1>3. CASE AwaitCaps(e) /\ AskChunk(Msg("chunk"))
  BY <1>1, <1>3, AwaitCapsTries, AskChunkQuiet
<1>4. CASE EprCapsComplete(e)
  <2>1. Recalls([e EXCEPT !.report = "complete"])
    BY <1>1 DEF Recalls, Known
  <2> QED BY <1>4, <2>1, EprRequestTries DEF EprCapsComplete
<1> QED BY <1>2, <1>3, <1>4

LEMMA NoCapsDeliveredTries ==
  ASSUME Known(epr), NEW m, NoCapsDelivered(m) PROVE Tries
<1> DEFINE e == [epr EXCEPT !.buf = FALSE]
<1>1. Recalls(e)
  BY DEF Recalls, Known
<1>2. \/ AwaitCaps(e) /\ SendNone
      \/ epr' = e /\ SendNone /\ UNCHANGED offer
      \/ EprExit(e)
  BY DEF NoCapsDelivered, eprFrame
<1> HIDE DEF e
<1> QED BY <1>1, <1>2, AwaitCapsTries, SendNoneQuiet, CopyTries, EprExitTries

\* The counters of an exchange are not what was attempted
LEMMA CountersRecall ==
  ASSUME Known(epr)
  PROVE /\ Recalls(epr) /\ Recalls([epr EXCEPT !.exits = 0])
        /\ Recalls([epr EXCEPT !.exits = @ + 1])
        /\ Recalls([epr EXCEPT !.retry = @ + 1])
        /\ Recalls([epr EXCEPT !.resets = @ + 1, !.buf = FALSE])
        /\ Recalls([epr EXCEPT !.resets = 0, !.buf = FALSE])
        /\ Recalls([epr EXCEPT !.report = IF epr.got = "none" THEN @
                                                              ELSE "partial"])
  BY DEF Recalls, Known

LEMMA ExitDeliveredTries ==
  ASSUME Known(epr), NEW m, ExitDelivered(m) PROVE Tries
<1>1. ASSUME NEW STATE e, Recalls(e), epr' = e, SendNone, UNCHANGED offer
      PROVE Tries
  BY <1>1, SendNoneQuiet, CopyTries
<1>2. \/ EprClosed([epr EXCEPT !.exits = 0])
      \/ /\ epr' \in {[epr EXCEPT !.exits = 0], [epr EXCEPT !.exits = @ + 1]}
         /\ SendNone /\ UNCHANGED offer
  BY DEF ExitDelivered, eprFrame
<1> QED BY <1>1, <1>2, CountersRecall, EprClosedTries

LEMMA EprDeliveredTries ==
  ASSUME Known(epr), NEW m, EprDelivered(m) PROVE Tries
<1>1. CASE PpsDelivered(m)
  BY <1>1, ContinueTries, SendsQuiet, SendNoneQuiet, SameTries
     DEF PpsDelivered, PpsNext, SendPpsStatus, SendRestoreFixed, Queue,
     SendNow, ppsFrame, eprFrame
<1>2. CASE SinkCapDelivered(m)
  BY <1>2, ContinueTries DEF SinkCapDelivered
<1>3. CASE EnterDelivered(m)
  BY <1>3, CountersRecall, EprClosedTries, AwaitCapsTries, SendNoneQuiet,
     SameTries DEF EnterDelivered, eprFrame
<1>4. CASE SrcCapDelivered(m)
  BY <1>4, CapsDeliveredTries, NoCapsDeliveredTries DEF SrcCapDelivered
<1>5. CASE EprRequestDelivered(m)
  BY <1>5, CountersRecall, SendNoneQuiet, SameTries, EprExitTries,
     EprRequestTries DEF EprRequestDelivered, eprFrame
<1>6. CASE ExitDelivered(m)
  BY <1>6, ExitDeliveredTries
<1> QED BY <1>1, <1>2, <1>3, <1>4, <1>5, <1>6 DEF EprDelivered

LEMMA EprLateTries == ASSUME Known(epr), EprLate PROVE Tries
<1>1. CASE CapsTimeout
  BY <1>1, CountersRecall, AwaitCapsTries, AskChunkQuiet, EprExitTries
     DEF CapsTimeout
<1> QED BY <1>1, CountersRecall, ContinueTries, EprClosedTries, EprExitTries
      DEF EprLate

LEMMA EprTxFailedTries == ASSUME Known(epr), EprTxFailed PROVE Tries
  BY CountersRecall, ContinueTries, EprClosedTries, EprExitTries DEF EprTxFailed

LEMMA SendNextTries ==
  ASSUME Known(epr), NEW STATE p, SendNext(p) PROVE Tries
  BY ContinueTries, SendsQuiet, SameTries DEF SendNext, SendGet, Queue, eprFrame

LEMMA ProbeDeliveredTries ==
  ASSUME Known(epr), NEW m, ProbeDelivered(m) PROVE Tries
  BY SendNoneQuiet, AskChunkQuiet, SameTries, SendNextTries, CapsDeliveredTries
     DEF ProbeDelivered, Unrelated, FirstChunk, Response, eprFrame

LEMMA ProbeLateTries == ASSUME Known(epr), ProbeLate PROVE Tries
  BY SendNextTries, ContinueTries DEF ProbeLate, NoAnswer, NoChunk

LEMMA ProbeTxFailedTries == ASSUME Known(epr), ProbeTxFailed PROVE Tries
<1> DEFINE v == Forgotten(vdm)
<1>1. \/ SendNone /\ UNCHANGED <<epr, offer>>
      \/ EprEnter(epr, v, offer, FALSE) /\ UNCHANGED offer
  BY DEF ProbeTxFailed, eprFrame
<1> HIDE DEF v
<1> QED BY <1>1, SendNoneQuiet, SameTries, SameEnterTries

\* The discovery of the charger: Vdm knows nothing of epr
LEMMA FinishQuiet ==
  ASSUME NEW STATE v, NEW result, Finish(v, result) PROVE Quiet
  BY NoTxQuiet DEF Finish, Quiet

LEMMA ModesNextQuiet == ASSUME NEW STATE v, ModesNext(v) PROVE Quiet
  BY FinishQuiet, SendsQuiet DEF ModesNext, Queue

LEMMA DiscoverQuiet == ASSUME NEW STATE v, DiscoverSvidsOf(v) PROVE Quiet
  BY SendsQuiet DEF DiscoverSvidsOf, Queue

LEMMA RxVdmTries == ASSUME Known(epr), NEW m, RxVdm(m) PROVE Tries
<1>1. CASE RxAnswer(m)
  BY <1>1, FinishQuiet, ModesNextQuiet, DiscoverQuiet, SameTries
     DEF RxAnswer, RxVdm, vdmFrame
<1>2. CASE RxRequest(m)
  BY <1>2, SendsQuiet, SendNoneQuiet, SameTries
     DEF RxRequest, Queue, RxVdm, vdmFrame
<1> QED BY <1>1, <1>2, FinishQuiet, SendNoneQuiet, SameTries DEF RxVdm, vdmFrame

LEMMA VdmTimedTries ==
  ASSUME Known(epr), VdmLate \/ VdmTxFailed PROVE Tries
  BY FinishQuiet, ModesNextQuiet, SameTries DEF VdmLate, VdmTxFailed, vdmFrame

LEMMA VdmTickTries == ASSUME Known(epr), VdmTick PROVE Tries
  BY SendsQuiet, SendNoneQuiet, SameTries DEF VdmTick, SendNow, vdmFrame

LEMMA TxRequestQuiet ==
  ASSUME NEW STATE r, NEW STATE current, TxRequest(r, current) PROVE Quiet
  BY SendsQuiet DEF TxRequest, SendNow

LEMMA RequestFailedQuiet == ASSUME RequestFailed PROVE Quiet
  BY SendNoneQuiet DEF RequestFailed

LEMMA HardResetQuiet == ASSUME NEW STATE c, HardReset(c) PROVE Quiet
  BY SendNoneQuiet DEF HardReset

LEMMA RearmQuiet == ASSUME NEW rx, NEW late, Rearm(rx, late) PROVE Quiet
  BY SendNoneQuiet, RequestFailedQuiet, HardResetQuiet DEF Rearm

LEMMA RxAcceptTries ==
  ASSUME Known(epr), NEW m \in Packet, RxAccept(m) PROVE Tries
<1>1. Quiet
  BY SendNoneQuiet, TxRequestQuiet, RequestFailedQuiet, RearmQuiet DEF RxAccept
<1>2. UNCHANGED epr /\ (offer' = offer \/ offer'.now \in Offers)
  BY DEF RxAccept, reqFrame, Packet
<1> QED BY <1>1, <1>2 DEF Tries, Recalled

LEMMA EstablishedTries == ASSUME Known(epr), Established PROVE Tries
<1>1. CASE EprEnter(epr, vdm, offer, FALSE)
  BY <1>1, SameEnterTries DEF Established
<1>2. CASE SendNone /\ UNCHANGED epr
  BY <1>2, SendNoneQuiet, SameTries DEF Established
<1>3. CASE ProbeStart
  <2>1. Quiet
    BY <1>3, SendNoneQuiet, SendsQuiet DEF ProbeStart, Queue
  <2>2. Known(epr') /\ epr'.attempted = epr.attempted
    BY <1>3 DEF ProbeStart, Known
  <2> QED BY <2>1, <2>2 DEF Established, Tries, Recalled
<1> QED BY <1>1, <1>2, <1>3 DEF Established

LEMMA RxPsRdyTries == ASSUME Known(epr), NEW m, RxPsRdy(m) PROVE Tries
  BY EstablishedTries, RequestFailedQuiet, RearmQuiet, SameTries
     DEF RxPsRdy, reqFrame

LEMMA RequestLateTries ==
  ASSUME Known(epr), RequestLate \/ RequestTxFailed \/ HardResetLate
  PROVE Tries
  BY RequestFailedQuiet, HardResetQuiet, SameTries
     DEF RequestLate, RequestTxFailed, HardResetLate, reqFrame

LEMMA OfferReceivedTries ==
  ASSUME NEW o \in Offers, NEW first, NEW STATE e, Recalls(e), NEW STATE p,
         NEW STATE r, NEW STATE v, NEW STATE c,
         OfferReceived(o, first, e, p, r, v, c)
  PROVE Tries
<1> DEFINE new == Restarted(p, o, first)
           q == IF new THEN [p EXCEPT !.probed = NoOffer, !.done = FALSE] ELSE p
           f == IF new THEN [e EXCEPT !.done = FALSE] ELSE e
           g == [f EXCEPT !.pps = FALSE, !.done = FALSE, !.sinkcap = FALSE]
           now1 == [now |-> o, held |-> o]
<1>1. UnderContract(f, q, v, o, r) \/ FirstOffer(f, v, o, r)
  BY DEF OfferReceived
<1>2. Recalls(f)
  BY DEF Recalls, Known
<1>3. now1.now \in Offers
  OBVIOUS
<1> HIDE DEF new, q, f
<1>4. Recalls(g)
  BY <1>2 DEF Recalls, Known
<1>5. offer' = now1 \/ offer' = [now |-> o, held |-> offer.held]
  BY <1>1 DEF UnderContract, FirstOffer
<1>6. offer'.now \in Offers
  BY <1>5
<1>7. CASE offer' = now1 /\ Upgrade(f, v, o)
  <2> DEFINE a == Cancelled(v)
  <2>1. EprEnter(g, a, now1, waitRx) /\ offer' = now1
    BY <1>7 DEF Upgrade
  <2> HIDE DEF g, a, now1
  <2>2. Recalled \/ Entering
    BY <1>4, <2>1, EprEnterTries
  <2> QED BY <1>6, <2>2 DEF Tries
<1>8. CASE epr' = f /\ Quiet
  BY <1>2, <1>6, <1>8 DEF Tries, Recalled, Recalls
<1> QED BY <1>1, <1>7, <1>8, SendNoneQuiet, TxRequestQuiet
     DEF UnderContract, FirstOffer, Hold, Renegotiate, Muted, Ask

LEMMA RxSrcCapTries ==
  ASSUME NEW m \in Packet, NEW STATE e, Recalls(e), RxSrcCap(m, e) PROVE Tries
<1>1. PICK first \in IsFirst(m) :
        OfferReceived(OfferIn(m), first, e, probe, req, vdm, contract)
  BY DEF RxSrcCap
<1> QED BY <1>1, OfferInTyped, OfferReceivedTries

LEMMA OfferDeliveredTries ==
  ASSUME Known(epr), NEW m \in Packet, OfferDelivered(m) PROVE Tries
<1>1. CASE \/ RxSrcCap(m, epr)
           \/ RxSrcCap(m, [epr EXCEPT !.exits = 0])
  BY <1>1, CountersRecall, RxSrcCapTries
<1>2. CASE /\ m.k = "caps" /\ TxRequest(req, m.o)
           /\ offer' = [now |-> m.o, held |-> m.o]
           /\ epr' = [epr EXCEPT !.pps = TRUE]
  <2>1. Quiet /\ offer'.now \in Offers
    BY <1>2, TxRequestQuiet DEF Packet
  <2>2. Known(epr') /\ epr'.attempted = epr.attempted
    BY <1>2 DEF Known
  <2> QED BY <2>1, <2>2 DEF Tries, Recalled
<1> QED BY <1>1, <1>2 DEF OfferDelivered

LEMMA AnswerSoftResetTries ==
  ASSUME NEW STATE p, NEW STATE e, Recalls(e), NEW STATE v,
         AnswerSoftReset(p, e, v)
  PROVE Tries
  BY SendsQuiet, CopyTries DEF AnswerSoftReset, Queue

LEMMA SoftResetReceivedTries ==
  ASSUME Known(epr), SoftResetReceived PROVE Tries
<1>1. \E p, e, v : Recalls(e) /\ AnswerSoftReset(p, e, v)
  BY CountersRecall DEF SoftResetReceived
<1> QED BY <1>1, AnswerSoftResetTries

LEMMA SoftResetTries ==
  ASSUME Known(epr), NEW m,
         TxSoftReset \/ SoftResetAnswered(m) \/ SrcCapSoftReset
  PROVE Tries
<1>1. CASE TxSoftReset
  BY <1>1, SendsQuiet, SameTries DEF TxSoftReset, Queue
<1>2. CASE SoftResetAnswered(m)
  BY <1>2, SendNoneQuiet, HardResetQuiet, SameTries
     DEF SoftResetAnswered, reqFrame
<1>3. CASE SrcCapSoftReset
  BY <1>3, CountersRecall, AwaitCapsTries, SendsQuiet
     DEF SrcCapSoftReset, SendNow
<1> QED BY <1>1, <1>2, <1>3

LEMMA IdleDeliveredTries ==
  ASSUME Known(epr), NEW m \in Packet, IdleDelivered(m) PROVE Tries
<1>1. ASSUME IdleControl(m) PROVE Quiet
  BY <1>1, SendsQuiet, HardResetQuiet, AskChunkQuiet, SendNoneQuiet
     DEF IdleControl, Reply, SendNow, Ignored
<1>2. ASSUME Quarantined(m) PROVE Tries
  BY <1>2, SendNoneQuiet, SameTries DEF Quarantined
<1> QED BY <1>1, <1>2, SameTries, CapsDeliveredTries, SoftResetTries, RxVdmTries
     DEF IdleDelivered, Idle, reqFrame

LEMMA NoHandlerTries ==
  ASSUME Known(epr), NEW m \in Packet, NoHandler(m) PROVE Tries
  BY CountersRecall, RxSrcCapTries, SendsQuiet, SendNoneQuiet, SameTries
     DEF NoHandler, SendNow, policyVars, eprFrame

LEMMA HandleTries ==
  ASSUME Known(epr), NEW m \in Packet, Handle(m) PROVE Tries
  BY EprDeliveredTries, ProbeDeliveredTries, RxVdmTries, RxAcceptTries,
     RxPsRdyTries, SoftResetTries, OfferDeliveredTries, IdleDeliveredTries,
     NoHandlerTries DEF Handle, VdmDelivered

LEMMA AttachAndOfferTries ==
  ASSUME Known(epr), NEW m \in Packet, AttachAndOffer(m) PROVE Tries
<1>1. PICK first : \E p, r, v :
        OfferReceived(OfferIn(m), first, epr, p, r, v, FALSE)
  BY DEF AttachAndOffer
<1> QED BY <1>1, CountersRecall, OfferInTyped, OfferReceivedTries

LEMMA FailedTries == ASSUME Known(epr), Failed PROVE Tries
<1>1. ASSUME SendNone, UNCHANGED policyVars PROVE Tries
  BY <1>1, SendNoneQuiet, SameTries DEF policyVars, eprFrame
<1> QED BY <1>1, EprTxFailedTries, ProbeTxFailedTries, VdmTimedTries,
     RequestLateTries, SoftResetTries DEF Failed

LEMMA TimersTries == ASSUME Known(epr), Timeout \/ Ticks PROVE Tries
<1>1. CASE SendNone /\ UNCHANGED policyVars
  BY <1>1, SendNoneQuiet, SameTries DEF policyVars, eprFrame
<1>2. CASE GuardTick
  BY <1>2, SendNoneQuiet, TxRequestQuiet, SameTries DEF GuardTick
<1>3. CASE SettleTick
  BY <1>3, SendNoneQuiet, SameTries, SameEnterTries DEF SettleTick
<1> QED BY <1>1, <1>2, <1>3, EprLateTries, ProbeLateTries, VdmTimedTries,
     RequestLateTries, VdmTickTries DEF Timeout, Ticks

(* With one set of capabilities, what was attempted is that set from the    *)
(* first EPR_Mode Enter on, and the message waits to leave only once.       *)
Entered(o) ==
  /\ Known(epr) /\ (offer.held # NoOffer => offer.now # NoOffer)
  /\ enters > 0 \/ tx.k = "eprenter"
       => epr.attempted = offer.now /\ offer.now = o
  /\ tx.k = "eprenter" => enters = 0
Once(o) == enters <= 1 /\ Entered(o)

LEMMA TriesEntered ==
  ASSUME NEW o, Offers = {o}, Typed, enters \in 0..2, Entered(o), Tries
  PROVE /\ Known(epr') /\ (offer'.held # NoOffer => offer'.now # NoOffer)
        /\ \/ /\ Quiet
              /\ enters > 0 \/ tx.k = "eprenter"
                   => epr'.attempted = offer'.now /\ offer'.now = o
           \/ /\ enters = 0 /\ tx.k # "eprenter"
              /\ epr'.attempted = offer'.now /\ offer'.now = o
<1>1. o # NoOffer /\ EprCapable \subseteq {o}
  BY OfferAssumption
<1>2. offer.now \in {o, NoOffer} /\ offer.held \in {o, NoOffer}
  BY DEF Typed, PartsTyped, Fingerprints
<1>3. /\ offer'.held # NoOffer => offer'.now = o
      /\ offer.now = o => offer'.now = o
  BY <1>1, <1>2 DEF Tries, Entered
<1>4. CASE Recalled
  BY <1>1, <1>3, <1>4 DEF Recalled, Entered
<1>5. CASE Entering
  <2>1. offer'.now = o /\ epr'.attempted = o /\ epr.attempted # o /\ Known(epr')
    BY <1>1, <1>3, <1>5 DEF Entering
  <2>2. ~(enters > 0 \/ tx.k = "eprenter")
    BY <2>1 DEF Entered
  <2> QED BY <1>1, <2>1, <2>2
<1> QED BY <1>4, <1>5 DEF Tries

\* Steps that no EPR_Mode Enter reaches the charger in
LEMMA SilentOnce ==
  ASSUME NEW o, Offers = {o}, Typed, enters \in 0..2, Once(o), Tries,
         enters' = enters
  PROVE Once(o)'
<1>1. ASSUME Quiet, tx'.k = "eprenter" PROVE tx.k = "eprenter"
  BY <1>1, NoTxQuiet DEF Quiet, Left
<1>2. o # NoOffer
  BY OfferAssumption
<1> QED BY <1>1, <1>2, TriesEntered DEF Once, Entered

\* Steps that keep what was attempted, the offer, and the queue or empty it
LEMMA IdleOnce ==
  ASSUME NEW o, Once(o), UNCHANGED <<epr, offer, enters>>,
         tx' = tx \/ tx'.k # "eprenter"
  PROVE Once(o)'
  BY DEF Once, Entered

\* The message leaves, and may be heard
LEMMA CountedOnce ==
  ASSUME NEW o, Offers = {o}, Typed, enters \in 0..2, Once(o), Tries, Flushing,
         enters' = enters \/ CountEnter(tx)
  PROVE Once(o)'
<1>1. CASE Quiet /\ (enters > 0 \/ tx.k = "eprenter"
                       => epr'.attempted = offer'.now /\ offer'.now = o)
  <2>1. tx'.k # "eprenter"
    BY <1>1, NoTxQuiet DEF Quiet, Left
  <2>2. enters' \in 0..1 /\ (enters' > 0 => enters > 0 \/ tx.k = "eprenter")
    BY DEF CountEnter, Once, Entered
  <2> QED BY <1>1, <2>1, <2>2, TriesEntered DEF Once, Entered
<1>2. CASE /\ enters = 0 /\ tx.k # "eprenter"
           /\ epr'.attempted = offer'.now /\ offer'.now = o
  <2>1. enters' = 0
    BY <1>2 DEF CountEnter
  <2> QED BY <1>2, <2>1, TriesEntered DEF Once, Entered
<1> QED BY <1>1, <1>2, TriesEntered DEF Once

LEMMA DeliverOnce ==
  ASSUME NEW o, Offers = {o}, Inv, Once(o), Deliver PROVE Once(o)'
<1> DEFINE m == Head(inbox)
<1>1. m \in Packet
  BY HeadTailProperties DEF Deliver, Inv, TypeInv, RingTyped
<1>2. Typed /\ enters \in 0..2 /\ Known(epr)
  BY InvTyped DEF Inv, TypeInv, ChargerTyped, Once, Entered
<1> HIDE DEF m
<1>3. CASE Handle(m)
  BY <1>1, <1>2, <1>3, HandleTries, HandleOutcome, SilentOnce DEF Silent
<1>4. CASE SoftResetReceived
  BY <1>2, <1>4, SoftResetReceivedTries, SoftResetReceivedBesides, SilentOnce
     DEF Silent
<1>5. CASE AttachAndOffer(m)
  BY <1>1, <1>2, <1>5, AttachAndOfferTries, AttachAndOfferLeaves, SilentOnce
     DEF Silent
<1> QED BY <1>3, <1>4, <1>5 DEF Deliver, m

LEMMA TimersOnce ==
  ASSUME NEW o, Offers = {o}, Inv, Once(o), Timeout \/ Ticks PROVE Once(o)'
<1>1. Typed /\ enters \in 0..2 /\ Known(epr)
  BY InvTyped DEF Inv, TypeInv, ChargerTyped, Once, Entered
<1>2. Tries /\ enters' = enters
  BY <1>1, TimersTries, TimeoutOutcome, TicksOutcome DEF Silent
<1> QED BY <1>1, <1>2, SilentOnce

LEMMA TransmitOnce ==
  ASSUME NEW o, Offers = {o}, Inv, Once(o), Transmit PROVE Once(o)'
<1>1. Typed /\ enters \in 0..2 /\ Known(epr) /\ Flushing
  BY InvTyped DEF Inv, TypeInv, ChargerTyped, Once, Entered, Transmit
<1>2. enters' = enters \/ CountEnter(tx)
  BY DEF Transmit, TransmitOk, TransmitFailed, Heard, Interrupts
<1>3. CASE TransmitOk
  <2>1. Quiet /\ UNCHANGED <<epr, offer>>
    BY <1>3, NoTxQuiet DEF TransmitOk, policyVars, eprFrame, Quiet
  <2> QED BY <1>1, <1>2, <2>1, SameTries, CountedOnce
<1>4. CASE TransmitFailed
  <2>1. Failed
    BY <1>4 DEF TransmitFailed, Failed
  <2> QED BY <1>1, <1>2, <2>1, FailedTries, CountedOnce
<1> QED BY <1>3, <1>4 DEF Transmit

LEMMA NextOnce ==
  ASSUME NEW o, Offers = {o}, Inv, Once(o), [Next]_vars PROVE Once(o)'
<1>1. CASE Charger
  <2>1. UNCHANGED <<epr, offer, enters, tx>>
    BY <1>1 DEF Charger, ChargerAnswers, ChargerTalks, ChargerHardReset, Says,
       Interrupts, policyVars, eprFrame
  <2> QED BY <2>1, IdleOnce
<1>2. CASE Detach
  <2>1. /\ enters' = 0 /\ tx'.k # "eprenter" /\ offer' = offer
        /\ epr' = [epr EXCEPT !.done = FALSE, !.attempted = NoOffer,
                     !.sinkcap = FALSE, !.pps = FALSE, !.report = "none"]
    BY <1>2, NoTxQuiet DEF Detach
  <2> QED BY <2>1 DEF Once, Entered, Known
<1>3. CASE UNCHANGED vars
  BY <1>3, IdleOnce DEF vars, wireVars, chargerVars, policyVars, eprFrame
<1> QED BY <1>1, <1>2, <1>3, DeliverOnce, TimersOnce, TransmitOnce
     DEF Next, MainLoop

(* A charger that keeps to one set of capabilities hears EPR_Mode Enter at  *)
(* most once per connection: PD_EPR_Attempted_FP outlives the resets, the   *)
(* repeated offers and the retries that clear PD_EPR_Probe_Done.            *)
THEOREM PolicyOneSetOnce == Spec => []OneSetOnce
<1> DEFINE I == \A o \in Offers : Offers = {o} => Once(o)
<1>1. Init => I
  BY NoTxQuiet DEF Init, EprFresh, Once, Entered, Known
<1>2. Inv /\ I /\ [Next]_vars => I'
  BY NextOnce
<1>3. I => OneSetOnce
  BY DEF OneSetOnce, Once
<1> QED BY <1>1, <1>2, <1>3, AlwaysInv, PTL DEF Spec
=============================================================================

------------------------------- MODULE Request -------------------------------
(***************************************************************************)
(* The SPR contract of PD_Prot.c: Source_Capabilities, Request, Accept,    *)
(* PS_RDY, the guard that holds a Request back, Soft_Reset both ways, and  *)
(* pProt_IDLE, which sorts every message nobody waits for.                 *)
(***************************************************************************)
EXTENDS Vdm

VARIABLE req
  \* asked: PD_Request_SrcCap_Fingerprint, failed: PD_Failed_SrcCap_Fingerprint,
  \* stop: PD_Request_Stop_After_Fail, async: PD_Request_Async_Rx_Count

ReqFresh == [asked |-> NoOffer, failed |-> NoOffer, stop |-> FALSE, async |-> 0]

probeVars == <<probe, info>>

\* The handlers of this module that only concern the Request
reqFrame == <<probeVars, epr, vdm, critical, guard, settle>>

-----------------------------------------------------------------------------
(* Request *)

\* pProt_TX_Request, with req as the caller leaves it
TxRequest(r, current) ==
  /\ req' = [r EXCEPT !.asked = current, !.async = 0]
  /\ SendNow(Num("request", 0))
  /\ Await("RX_Accept", "Request_Failed", "Request_Failed")

\* pProt_Request_Failed_Common
RequestFailed ==
  /\ req' = [req EXCEPT !.stop = TRUE, !.failed = req.asked]
  /\ Rest /\ SendNone

\* PD_TX_HRST: the callbacks stay, a message already queued as well
HardReset(callbacks) ==
  /\ cb' = callbacks /\ waitRx' = FALSE /\ SendNone
  /\ ask' = Msg("hardreset") /\ round' = "none" /\ power' = "fixed"
  /\ UNCHANGED <<set, told, enters, budget>>

Taken == [cb EXCEPT !.rx = Null]

\* Mutant: an answer to an earlier Request is taken for the answer to this one
AnyAge == TRUE

\* pProt_Request_Rx_Is_PostTx
PostTx == aged = 0

\* pProt_Request_Rearm_After_Async
Rearm(rx, late) ==
  \/ /\ req.async < MaxAsync
     /\ req' = [req EXCEPT !.async = @ + 1]
     /\ Await(rx, Null, late) /\ SendNone /\ Unasked
  \/ /\ req.async >= MaxAsync
     /\ \/ rx = "RX_Accept" /\ RequestFailed /\ Unasked
        \/ /\ rx = "RX_PS_RDY" /\ HardReset(Taken)
           /\ req' = [req EXCEPT !.async = @ + 1]

\* pProt_RX_Accept, but for Soft_Reset
RxAccept(m) ==
  /\ cb.rx = "RX_Accept" /\ UNCHANGED <<reqFrame, contract>>
  /\ \/ /\ m.k = "accept" /\ PostTx
        /\ Await("RX_PS_RDY", Null, "PS_RDY_Failed")
        /\ SendNone /\ Unasked /\ UNCHANGED <<req, offer>>
     \/ /\ m.k = "caps"
        /\ offer' = [now |-> m.o, held |-> m.o]
        /\ TxRequest(req, m.o) /\ Unasked
     \/ /\ m.k \in Refusals /\ PostTx
        /\ RequestFailed /\ Unasked /\ UNCHANGED offer
     \/ /\ m.k # "caps" /\ ~(m.k \in {"accept"} \cup Refusals /\ PostTx)
        /\ Rearm("RX_Accept", "Request_Failed") /\ UNCHANGED offer

\* The contract is made: on to the information probe, or to EPR, or to the
\* source discovery
Established ==
  LET known == probe.done \/ (probe.probed # NoOffer /\ probe.probed = offer.now)
  IN /\ contract' = TRUE
     /\ UNCHANGED <<offer, guard, settle, info, req>>
     /\ \/ /\ known /\ ~epr.done
           /\ probe' = [probe EXCEPT !.done = TRUE, !.probed = offer.now]
           /\ EprEnter(epr, vdm, offer, FALSE)
        \/ /\ known /\ epr.done
           /\ probe' = [probe EXCEPT !.done = TRUE, !.probed = offer.now]
           /\ critical' = FALSE /\ vdm' = Armed(vdm)
           /\ Rest /\ SendNone /\ UNCHANGED epr
        \/ ~known /\ ProbeStart

\* pProt_RX_PS_RDY, but for Soft_Reset and Source_Capabilities
RxPsRdy(m) ==
  /\ cb.rx = "RX_PS_RDY" /\ m.k # "caps"
  /\ \/ m.k = "psrdy" /\ PostTx /\ Established /\ Unasked
     \/ /\ m.k \in Refusals /\ PostTx
        /\ RequestFailed /\ Unasked /\ UNCHANGED <<reqFrame, contract, offer>>
     \/ /\ ~(m.k \in {"psrdy"} \cup Refusals /\ PostTx)
        /\ Rearm("RX_PS_RDY", "PS_RDY_Failed")
        /\ UNCHANGED <<reqFrame, contract, offer>>

\* pProt_Request_Failed_Common and pProt_PS_RDY_Failed as timeouts and as the
\* end of a transmission without GoodCRC
RequestLate ==
  \/ /\ cb.late = "Request_Failed" /\ RequestFailed /\ Unasked
     /\ UNCHANGED <<reqFrame, contract, offer>>
  \/ /\ cb.late = "PS_RDY_Failed"
     /\ HardReset([cb EXCEPT !.late = Null])
     /\ UNCHANGED <<reqFrame, req, contract, offer>>

RequestTxFailed ==
  /\ cb.fail = "Request_Failed" /\ RequestFailed
  /\ UNCHANGED <<reqFrame, contract, offer>> /\ Overtaken

-----------------------------------------------------------------------------
(* Source_Capabilities: pProt_RX_SrcCap with the offer o.  p, r, v and c are *)
(* probe, req, vdm and contract as the caller leaves them.                   *)

\* Message ID 0 and another set than the one probed: everything anew
Restarted(p, o, first) == first /\ o # p.probed

\* Under a contract: the set became EPR capable
Upgrade(e, v, o) ==
  /\ offer.held \notin EprCapable /\ o \in EprCapable
  /\ EprEnter([e EXCEPT !.pps = FALSE, !.done = FALSE, !.sinkcap = FALSE],
              Cancelled(v), [now |-> o, held |-> o], waitRx)
  /\ contract' = TRUE /\ UNCHANGED <<guard, settle, req>>

\* Under a contract: leave the charger the time for an exchange of its own
Hold(e, p, v, o) ==
  /\ ~(offer.held \notin EprCapable /\ o \in EprCapable)
  /\ e.done \/ (p.done /\ o = Dell)
  /\ contract' = FALSE /\ guard' = TRUE
  /\ Rest /\ SendNone
  /\ epr' = e /\ vdm' = v /\ UNCHANGED <<critical, settle, req>>

Renegotiate(e, p, v, o, r) ==
  /\ ~(offer.held \notin EprCapable /\ o \in EprCapable)
  /\ ~(e.done \/ (p.done /\ o = Dell))
  /\ TxRequest(r, o)
  /\ contract' = TRUE
  /\ epr' = e /\ vdm' = v /\ UNCHANGED <<critical, guard, settle>>

\* Without one: the same set as that of a failed Request is let pass
Suppressed(r, o) == r.stop /\ o = r.failed

Muted(e, v, r) ==
  /\ Rest /\ SendNone
  /\ req' = r /\ contract' = FALSE
  /\ epr' = e /\ vdm' = v

Ask(e, v, o, r) ==
  /\ TxRequest([r EXCEPT !.stop = FALSE], o)
  /\ contract' = FALSE
  /\ epr' = e /\ vdm' = v

FirstOffer(e, v, o, r) ==
  \/ /\ Suppressed(r, o) /\ Muted(e, v, r)
     /\ offer' = [now |-> o, held |-> offer.held]
  \/ /\ ~Suppressed(r, o) /\ Ask(e, v, o, r)
     /\ offer' = [now |-> o, held |-> o]

UnderContract(e, p, v, o, r) ==
  /\ offer' = [now |-> o, held |-> o]
  /\ Upgrade(e, v, o) \/ Hold(e, p, v, o) \/ Renegotiate(e, p, v, o, r)

OfferReceived(o, first, e0, p0, r, v, c) ==
  LET new == Restarted(p0, o, first)
      p == IF new THEN [p0 EXCEPT !.probed = NoOffer, !.done = FALSE] ELSE p0
      e == IF new THEN [e0 EXCEPT !.done = FALSE] ELSE e0
  IN /\ probe' = p
     /\ \/ c /\ UnderContract(e, p, v, o, r)
        \/ ~c /\ FirstOffer(e, v, o, r)

\* What pProt_RX_SrcCap and the drain take for Source_Capabilities: the test
\* of the Message Type leaves the Extended bit out
LooksLikeOffer(m) == m.k = "caps" \/ (m.k = "info" /\ m.n = ExtStep)

OfferIn(m) == IF m.k = "caps" THEN m.o ELSE ExtCaps

\* Message ID 0; that of an extended message may be any
IsFirst(m) == IF m.k = "caps" THEN {m.n = 0} ELSE BOOLEAN

RxSrcCap(m, e) ==
  /\ \E first \in IsFirst(m) :
        OfferReceived(OfferIn(m), first, e, probe, req, vdm, contract)
  /\ \/ contract
     \/ ~contract /\ UNCHANGED <<guard, settle, critical>>
  /\ Unasked /\ UNCHANGED info

\* The handlers that call pProt_RX_SrcCap, and PD_PPS_RxAccept, which asks for
\* the fixed 5 V of the new set itself
OfferDelivered(m) ==
  \/ cb.rx = "RX_SrcCap" /\ LooksLikeOffer(m) /\ RxSrcCap(m, epr)
  \/ /\ cb.rx \in {"RX_PS_RDY", "IDLE", "EPR_SinkCap_RX"}
     /\ m.k = "caps" /\ RxSrcCap(m, epr)
  \/ /\ cb.rx = "EPR_Exit_RX"
     /\ m.k = "caps" /\ RxSrcCap(m, [epr EXCEPT !.exits = 0])
  \/ /\ cb.rx = "PPS_RxAccept" /\ m.k = "caps"
     /\ offer' = [now |-> m.o, held |-> m.o]
     /\ TxRequest(req, m.o) /\ epr' = [epr EXCEPT !.pps = TRUE]
     /\ Unasked /\ UNCHANGED <<probeVars, vdm, critical, contract, guard, settle>>

-----------------------------------------------------------------------------
(* Soft_Reset *)

\* Mutant: what was tried for EPR is forgotten with the exchange
AnswerAndForget(p, e, v) ==
  /\ Abort /\ Unasked
  /\ Queue(Msg("accept"))
  /\ cb' = Callbacks("Excute_SoftRst", "IDLE", Null, Null) /\ waitRx' = FALSE
  /\ probe' = (IF p.active \/ p.step # 0 THEN Concluded(p) ELSE p)
  /\ epr' = [e EXCEPT !.done = FALSE, !.attempted = NoOffer]
  /\ vdm' = [v EXCEPT !.mode = FALSE]
  /\ req' = [req EXCEPT !.stop = FALSE]
  /\ guard' = FALSE /\ settle' = FALSE /\ contract' = FALSE
  /\ UNCHANGED <<critical, offer>>

\* pProt_RX_SoftRst, with p, e and v as the caller leaves them: whatever was
\* going on is given up, and Accept sent
AnswerSoftReset(p, e, v) ==
  /\ Abort /\ Unasked
  /\ Queue(Msg("accept"))
  /\ cb' = Callbacks("Excute_SoftRst", "IDLE", Null, Null) /\ waitRx' = FALSE
  /\ probe' = (IF p.active \/ p.step # 0 THEN Concluded(p) ELSE p)
  /\ epr' = e /\ vdm' = [v EXCEPT !.mode = FALSE]
  /\ req' = [req EXCEPT !.stop = FALSE]
  /\ guard' = FALSE /\ settle' = FALSE /\ contract' = FALSE
  /\ UNCHANGED <<critical, offer>>

\* The states that hand a Soft_Reset over without an action of their own
SoftResetStates ==
  {"RX_SrcCap", "RX_Accept", "RX_PS_RDY", "IDLE", "PPS_RxAccept",
   "PPS_RxPS_RDY", "PPS_RxStatus", "PPS_RxRestoreAccept", "EPR_SinkCap_RX",
   "EPR_Request_Accept_RX", "EPR_Request_PS_RDY_RX"}

SoftResetReceived ==
  \/ /\ cb.rx \in SoftResetStates \/ (cb.rx = "RX_VDM" /\ contract)
     /\ AnswerSoftReset(probe, epr, vdm) /\ UNCHANGED info
  \/ /\ cb.rx = "InfoProbe_RX"
     /\ AnswerSoftReset([Concluded(probe) EXCEPT !.quiet = 0], epr,
                        Forgotten(vdm))
     /\ UNCHANGED info
  \/ /\ cb.rx = "InfoProbe_Chunk_RX"
     /\ AnswerSoftReset([Concluded(probe) EXCEPT !.quiet = 0], epr, vdm)
     /\ info' = Recorded(probe.step, "rejected")
  \/ /\ cb.rx = "EPR_SrcCap_RX" /\ epr.resets >= MaxResets
     /\ AnswerSoftReset(probe, [epr EXCEPT !.resets = 0, !.buf = FALSE], vdm)
     /\ UNCHANGED info

\* pProt_TX_SoftRst, and what the drain and a failed reply make of it
TxSoftReset ==
  /\ Queue(Msg("softreset"))
  /\ Await("SoftRst_RX_Accept", Null, "TX_HRST")
  /\ req' = [req EXCEPT !.stop = FALSE]
  /\ vdm' = [vdm EXCEPT !.mode = FALSE]
  /\ guard' = FALSE /\ settle' = FALSE /\ contract' = FALSE
  /\ UNCHANGED <<probeVars, epr, critical, offer>>

\* pProt_Wait_SrcCap
WaitSrcCap == Await("RX_SrcCap", Null, "TX_HRST")

\* pProt_SoftRst_RX_Accept
SoftResetAnswered(m) ==
  /\ cb.rx = "SoftRst_RX_Accept"
  /\ \/ m.k = "accept" /\ WaitSrcCap /\ SendNone /\ Unasked
     \/ m.k # "accept" /\ HardReset(Taken)
  /\ UNCHANGED <<reqFrame, req, contract, offer>>

\* PD_TX_HRST after a wait for capabilities or for an Accept
HardResetLate ==
  /\ cb.late = "TX_HRST" /\ HardReset([cb EXCEPT !.late = Null])
  /\ UNCHANGED <<reqFrame, req, contract, offer>>

-----------------------------------------------------------------------------
(* pProt_IDLE *)

\* Nothing but the GoodCRC: pRxFinish stays taken
Ignored == cb' = Taken /\ SendNone /\ UNCHANGED waitRx

\* The message stays to be answered by the charger's own exchange
Quarantined(m) ==
  /\ guard \/ settle
  /\ m = Num("vdmreq", DiscoverSvids)
  /\ cb' = IdleOnly /\ SendNone /\ UNCHANGED waitRx
  /\ UNCHANGED <<probeVars, epr, vdm, critical, guard, settle, req, contract,
                 offer>>

\* Replies of one message, PD_TX_NotSupported and PD_TX_Reject
Reply == SendNow(Msg("reply")) /\ cb' = Taken /\ UNCHANGED waitRx

\* What is neither capabilities, nor Soft_Reset, nor a VDM
IdleControl(m) ==
  \/ m.k = "asks" /\ Reply /\ Unasked
  \/ m.k = "drswap" /\ ~vdm.mode /\ Reply /\ Unasked
  \/ m.k = "drswap" /\ vdm.mode /\ HardReset(Taken)
  \/ /\ m.k = "infomore"
     /\ cb' = Taken /\ UNCHANGED waitRx /\ AskChunk(Num("chunkinfo", m.n))
  \/ /\ m.k \notin {"asks", "drswap", "infomore", "eprcaps0", "caps", "accept",
                    "softreset"} \cup VdmMsgs
     /\ Ignored /\ Unasked

Idle(m) ==
  \/ Quarantined(m) /\ Unasked
  \/ m.k = "eprcaps0" /\ CapsDelivered(m) /\ UNCHANGED <<probeVars, req>>
  \/ m.k = "accept" /\ TxSoftReset /\ Unasked
  \/ /\ m.k \in VdmMsgs /\ ~((guard \/ settle) /\ m = Num("vdmreq", DiscoverSvids))
     /\ RxVdm(m) /\ Unasked /\ UNCHANGED req
  \/ IdleControl(m) /\ UNCHANGED <<reqFrame, req, contract, offer>>

\* pProt_IDLE, and pProt_RX_SrcCap of anything but capabilities
IdleDelivered(m) ==
  /\ cb.rx = "IDLE" \/ (cb.rx = "RX_SrcCap" /\ ~LooksLikeOffer(m))
  /\ m.k \notin {"caps", "softreset"} /\ Idle(m)

-----------------------------------------------------------------------------
(* PD_Request_Arbiter_Tick *)

\* The charger was given its time: the Request held back leaves
GuardTick ==
  /\ guard /\ ~settle
  /\ \/ /\ ~conn /\ guard' = FALSE
        /\ SendNone /\ UNCHANGED <<cb, waitRx, req>>
     \/ /\ conn /\ WireFree /\ guard' = FALSE
        /\ TxRequest(req, offer.now)
  /\ Unasked /\ UNCHANGED <<probeVars, epr, vdm, critical, settle, contract, offer>>

\* The same for Dell before Sink_Capabilities
SettleTick ==
  /\ settle
  /\ \/ /\ ~conn /\ settle' = FALSE
        /\ SendNone /\ UNCHANGED <<cb, waitRx, epr, vdm, critical>>
     \/ /\ conn /\ WireFree /\ settle' = FALSE
        /\ EprEnter(epr, vdm, offer, FALSE)
  /\ Unasked /\ UNCHANGED <<probeVars, req, guard, contract, offer>>
=============================================================================

--------------------------------- MODULE Epr ---------------------------------
(***************************************************************************)
(* What follows the information probe, PD_Prot.c 1540-2539: the PPS        *)
(* contract and status probe, Sink_Capabilities, EPR_Mode Enter, the       *)
(* EPR_Source_Capabilities in one message or two chunks, EPR_Request and   *)
(* EPR_Mode Exit.  Soft_Reset and Source_Capabilities, which most of these *)
(* states share, are in Request.                                           *)
(***************************************************************************)
EXTENDS Session

CONSTANTS
  MaxRetry,   \* s_epr_chunk_request_retry < 2
  MaxResets,  \* s_epr_softreset_wait_cnt >= 3
  MaxAsync    \* unrelated messages an open exchange bears (8)

ASSUME EprAssumption == {MaxRetry, MaxResets, MaxAsync} \subseteq Nat

VARIABLE epr
  \* done: PD_EPR_Probe_Done, attempted: PD_EPR_Attempted_FP,
  \* sinkcap: s_epr_sinkcap_sent, pps: PD_PPS_Probe_Done,
  \* got: s_epr_pdo_buf and s_epr_total_size ("none", "part" chunk 0 only,
  \*   "all", "tail" chunk 1 only),
  \* buf: PD_RX_BUF still holds chunk 0, retry: s_epr_chunk_request_retry,
  \* resets: s_epr_softreset_wait_cnt, stage: s_epr_request_stage,
  \* exits: s_epr_exit_async_rx_count, report: the last PD_Result_UpdateEPR

EprFresh ==
  [done |-> FALSE, attempted |-> NoOffer, sinkcap |-> FALSE, pps |-> FALSE,
   got |-> "none", buf |-> FALSE, retry |-> 0, resets |-> 0, stage |-> 0,
   exits |-> 0, report |-> "none"]

Fixed   == 0   \* PD_EPR_REQUEST_FIXED
Obj5Pps == 1   \* PD_EPR_REQUEST_OBJ5_PPS
Restore == 2   \* PD_EPR_REQUEST_RESTORE_FIXED

\* What the steps below leave alone
eprFrame == <<offer, contract, guard, settle>>

-----------------------------------------------------------------------------
(* PD_EPR_Enter_Probe_If_Capable: e, v and o are epr, vdm and offer as the *)
(* caller leaves them, w is WaitMsgRx.                                     *)

\* PD_PPS_Probe_TryStart
PpsStart(e, v, o) ==
  /\ ~e.pps /\ o.held \in WithPps
  /\ epr' = [e EXCEPT !.pps = TRUE]
  /\ vdm' = v /\ UNCHANGED critical
  /\ SendNow(Num("request", 1))
  /\ Await("PPS_RxAccept", Null, "PPS_Probe_Failed")

\* Sink_Capabilities, once before the first EPR_Mode Enter
SendSinkCap(e, v) ==
  /\ ~e.sinkcap
  /\ epr' = [e EXCEPT !.pps = TRUE, !.sinkcap = TRUE]
  /\ vdm' = v /\ critical' = TRUE
  /\ SendNow(Msg("sinkcap"))
  /\ Await("EPR_SinkCap_RX", "EPR_SinkCap_TxFailed", "EPR_SinkCap_Done")

\* Tried in this cycle, or with this set of Source_Capabilities
Tried(e, o) == e.done \/ (e.attempted # NoOffer /\ e.attempted = o.now)

SendEnter(e, v, o) ==
  /\ e.sinkcap /\ ~Tried(e, o)
  /\ epr' = [e EXCEPT !.pps = TRUE, !.done = TRUE, !.attempted = o.now,
                      !.got = "none", !.retry = 0, !.resets = 0,
                      !.stage = Fixed]
  /\ vdm' = Cancelled(v) /\ critical' = TRUE
  /\ SendNow(Msg("eprenter"))
  /\ Await("EPR_Mode_Enter_RX", "EPR_Mode_TxFailed", "EPR_Mode_NoResponse")

\* Not EPR capable (yet), or tried
SkipEpr(e, v, o, w) ==
  /\ o.held \in EprCapable => e.sinkcap /\ Tried(e, o)
  /\ epr' = [e EXCEPT !.pps = TRUE]
  /\ vdm' = Armed(v) /\ UNCHANGED critical
  /\ SendNone
  /\ cb' = IdleOnly /\ waitRx' = w

EprEnter(e, v, o, w) ==
  \/ PpsStart(e, v, o)
  \/ /\ ~(~e.pps /\ o.held \in WithPps)
     /\ \/ o.held \in EprCapable /\ (SendSinkCap(e, v) \/ SendEnter(e, v, o))
        \/ SkipEpr(e, v, o, w)

Continue == EprEnter(epr, vdm, offer, FALSE) /\ UNCHANGED eprFrame

-----------------------------------------------------------------------------
(* The PPS contract probe *)

ppsFrame == <<epr, vdm, critical, eprFrame>>

\* PD_PPS_SendRestoreFixed
SendRestoreFixed ==
  /\ SendNow(Num("request", 0))
  /\ Await("PPS_RxRestoreAccept", Null, "PPS_Probe_Failed")
  /\ UNCHANGED ppsFrame

\* PD_PPS_RxPS_RDY: Get_PPS_Status leaves after the handler
SendPpsStatus ==
  /\ Queue(Msg("ppsstatus"))
  /\ Await("PPS_RxStatus", "PPS_Probe_Failed", "PPS_Probe_Failed")
  /\ UNCHANGED ppsFrame

PpsNext(rx) ==
  /\ Await(rx, Null, "PPS_Probe_Failed")
  /\ SendNone /\ UNCHANGED ppsFrame

\* The PPS handlers: PD_PPS_RxAccept, PD_PPS_RxPS_RDY, PD_PPS_RxStatus,
\* PD_PPS_RxRestoreAccept, PD_PPS_RxRestorePS_RDY.  An answer that does not
\* fit ends the probe (PD_PPS_Probe_Failed) and goes on with EPR, whatever
\* power the charger supplies.
PpsDelivered(m) ==
  \/ /\ cb.rx = "PPS_RxAccept"
     /\ \/ m.k = "accept" /\ PpsNext("PPS_RxPS_RDY")
        \/ m.k \notin {"accept", "caps"} /\ Continue
  \/ /\ cb.rx = "PPS_RxPS_RDY"
     /\ \/ m.k = "psrdy" /\ SendPpsStatus
        \/ m.k # "psrdy" /\ Continue
  \/ cb.rx = "PPS_RxStatus" /\ SendRestoreFixed
  \/ /\ cb.rx = "PPS_RxRestoreAccept"
     /\ \/ m.k = "accept" /\ PpsNext("PPS_RxRestorePS_RDY")
        \/ m.k # "accept" /\ Continue
  \/ cb.rx = "PPS_RxRestorePS_RDY" /\ Continue

\* PD_EPR_SinkCap_RX, but for Soft_Reset and Source_Capabilities
SinkCapDelivered(m) ==
  cb.rx = "EPR_SinkCap_RX" /\ m.k # "caps" /\ Continue

-----------------------------------------------------------------------------
(* EPR_Mode Enter and the capability exchange *)

\* PD_EPR_Mode_NoResponse, PD_EPR_Exit_NoResponse and the other ends of EPR
\* that release the withheld results and let the source discovery come
EprClosed(e) ==
  /\ Rest /\ critical' = FALSE
  /\ vdm' = Armed(vdm) /\ epr' = e
  /\ SendNone /\ UNCHANGED eprFrame

\* Wait for EPR_Source_Capabilities
AwaitCaps(e) ==
  /\ Await("EPR_SrcCap_RX", Null, "EPR_SrcCap_Timeout")
  /\ epr' = e /\ UNCHANGED <<vdm, critical, eprFrame>>

\* PD_EPR_Exit: queued, and flushed only if a handler of the ring called it
EprExit(e) ==
  /\ Queue(Msg("eprexit"))
  /\ Await("EPR_Exit_RX", Null, "EPR_Exit_NoResponse")
  /\ epr' = [e EXCEPT !.exits = 0]
  /\ UNCHANGED <<vdm, critical, eprFrame>>

\* PD_EPR_SendRequest and PD_EPR_SendRequestPacket
EprRequest(e, stage) ==
  /\ SendNow(Num("eprrequest", IF stage = Obj5Pps THEN 1 ELSE 0))
  /\ Await("EPR_Request_Accept_RX", "EPR_Request_Failed",
           "EPR_Request_Failed")
  /\ epr' = [e EXCEPT !.stage = stage]
  /\ UNCHANGED <<vdm, critical, eprFrame>>

EprCapsComplete(e) ==
  EprRequest([e EXCEPT !.report = "complete"],
             IF EprPps /\ e.got # "tail" THEN Obj5Pps ELSE Fixed)

\* PD_TX_ChunkRequest: sent at once, no callback told; it asks for the chunk
\* after the one PD_RX_BUF holds, whatever message that is now
AskChunk(m) ==
  /\ tx' = NoTx /\ now' = FALSE
  /\ ask' \in {ask, m}
  /\ UNCHANGED <<round, power, set, told, enters, budget>>

Unasked == UNCHANGED chargerVars

\* PD_EPR_Mode_Enter_RX
EnterDelivered(m) ==
  /\ cb.rx = "EPR_Mode_Enter_RX" /\ Unasked
  /\ \/ m.k \in {"eprack", "eprok"} /\ AwaitCaps(epr) /\ SendNone
     \/ m.k \in {"eprfail", "exitack"} /\ EprClosed(epr)
     \/ /\ m.k \notin {"eprack", "eprok", "eprfail", "exitack"}
        /\ Rest /\ vdm' = Armed(vdm)
        /\ SendNone /\ UNCHANGED <<epr, critical, eprFrame>>

\* What the reassembly buffer holds after one more message of capabilities
Stored(m) ==
  CASE m.k = "eprcaps0" -> "part"
    [] m.k = "eprcapsall" -> "all"
    [] m.k = "eprcaps1" -> IF epr.got \in {"part", "all"} THEN "all"
                                                         ELSE "tail"

\* Mutant: chunk 0 is taken for the whole list
ChunkEnough(m) ==
  /\ EprCapsComplete([epr EXCEPT !.got = Stored(m), !.retry = 0]) /\ Unasked

\* PD_EPR_SrcCap_RX of an EPR_Source_Capabilities
CapsDelivered(m) ==
  LET e == [epr EXCEPT !.got = Stored(m), !.retry = 0,
              !.resets = IF m.k = "eprcaps1" THEN @ ELSE 0,
              !.buf = (m.k = "eprcaps0")]
  IN \/ m.k = "eprcaps0" /\ AwaitCaps(e) /\ AskChunk(Msg("chunk"))
     \/ /\ m.k \in {"eprcapsall", "eprcaps1"}
        /\ EprCapsComplete(e) /\ Unasked

\* PD_EPR_SrcCap_RX of anything else, but for Soft_Reset
NoCapsDelivered(m) ==
  LET e == [epr EXCEPT !.buf = FALSE]
  IN /\ Unasked
     /\ \/ m.k \in {"eprack", "eprok"} /\ AwaitCaps(e) /\ SendNone
        \/ /\ m.k \in {"eprfail", "exitack"}
           /\ Rest /\ critical' = FALSE
           /\ epr' = e /\ SendNone /\ UNCHANGED <<vdm, eprFrame>>
        \/ /\ m.k \in Controls
           /\ Rest /\ epr' = e
           /\ SendNone /\ UNCHANGED <<vdm, critical, eprFrame>>
        \/ /\ m.k \notin Controls \cup {"eprack", "eprok", "eprfail", "exitack"}
           /\ EprExit(e)

EprCapsMsgs == {"eprcaps0", "eprcapsall", "eprcaps1"}

SrcCapDelivered(m) ==
  /\ cb.rx = "EPR_SrcCap_RX"
  /\ \/ m.k \in EprCapsMsgs /\ CapsDelivered(m)
     \/ m.k \notin EprCapsMsgs /\ NoCapsDelivered(m)

\* Mutant: the Soft_Reset of a charger about to send again is not answered
SrcCapSoftResetUnanswered ==
  /\ cb.rx = "EPR_SrcCap_RX" /\ epr.resets < MaxResets
  /\ AwaitCaps([epr EXCEPT !.resets = @ + 1, !.buf = FALSE]) /\ SendNone

\* PD_EPR_SrcCap_RX of a Soft_Reset: the charger is about to send the
\* capabilities again, so Accept it and keep waiting, a few times
SrcCapSoftReset ==
  /\ cb.rx = "EPR_SrcCap_RX" /\ epr.resets < MaxResets
  /\ AwaitCaps([epr EXCEPT !.resets = @ + 1, !.buf = FALSE])
  /\ SendNow(Msg("accept"))

\* PD_EPR_SrcCap_Timeout
CapsTimeout ==
  /\ cb.late = "EPR_SrcCap_Timeout"
  /\ \/ /\ epr.got # "none" /\ epr.retry < MaxRetry
        /\ AwaitCaps([epr EXCEPT !.retry = @ + 1])
        /\ AskChunk(IF epr.buf THEN Msg("chunk") ELSE Msg("garbled"))
     \/ /\ epr.got = "none" \/ epr.retry >= MaxRetry
        /\ EprExit([epr EXCEPT !.report = IF epr.got = "none" THEN @
                                                            ELSE "partial"])
        /\ Unasked

-----------------------------------------------------------------------------
(* EPR_Request, EPR_Mode Exit *)

\* PD_EPR_Request_Accept_RX and PD_EPR_Request_PS_RDY_RX, but for Soft_Reset;
\* any other answer is PD_EPR_Request_Failed
EprRequestDelivered(m) ==
  \/ /\ cb.rx = "EPR_Request_Accept_RX"
     /\ \/ /\ m.k = "accept"
           /\ Await("EPR_Request_PS_RDY_RX", Null, "EPR_Request_Failed")
           /\ SendNone /\ UNCHANGED <<epr, vdm, critical, eprFrame>>
        \/ m.k # "accept" /\ EprExit(epr)
  \/ /\ cb.rx = "EPR_Request_PS_RDY_RX"
     /\ \/ m.k = "psrdy" /\ epr.stage = Obj5Pps /\ EprRequest(epr, Restore)
        \/ ~(m.k = "psrdy" /\ epr.stage = Obj5Pps) /\ EprExit(epr)

DiscoverSvids == 2

\* PD_EPR_Exit_RX, but for Source_Capabilities.  A Soft_Reset is taken for
\* the end of EPR mode and not answered.
ExitDelivered(m) ==
  /\ cb.rx = "EPR_Exit_RX"
  /\ \/ /\ m.k \in {"exitack", "eprack", "eprok", "eprfail", "softreset"}
        /\ EprClosed([epr EXCEPT !.exits = 0])
     \/ /\ m = Num("vdmreq", DiscoverSvids)
        /\ Rest /\ contract' = FALSE /\ guard' = TRUE
        /\ epr' = [epr EXCEPT !.exits = 0]
        /\ SendNone /\ UNCHANGED <<vdm, critical, offer, settle>>
     \/ /\ m.k \notin {"exitack", "eprack", "eprok", "eprfail", "softreset",
                       "caps"}
        /\ m # Num("vdmreq", DiscoverSvids)
        /\ \/ /\ epr.exits < MaxAsync
              /\ Await("EPR_Exit_RX", Null, "EPR_Exit_NoResponse")
              /\ epr' = [epr EXCEPT !.exits = @ + 1]
              /\ SendNone /\ UNCHANGED <<vdm, critical, eprFrame>>
           \/ /\ epr.exits >= MaxAsync
              /\ EprClosed([epr EXCEPT !.exits = 0])

-----------------------------------------------------------------------------
(* The three ways the ring, the timer and the transmission call this module *)

EprDelivered(m) ==
  \/ (PpsDelivered(m) \/ SinkCapDelivered(m)) /\ Unasked
  \/ EnterDelivered(m)
  \/ SrcCapDelivered(m)
  \/ (EprRequestDelivered(m) \/ ExitDelivered(m)) /\ Unasked

EprLate ==
  \/ /\ cb.late \in {"PPS_Probe_Failed", "EPR_SinkCap_Done"}
     /\ Continue /\ Unasked
  \/ /\ cb.late \in {"EPR_Mode_NoResponse", "EPR_Exit_NoResponse"}
     /\ EprClosed([epr EXCEPT !.exits = 0]) /\ Unasked
  \/ cb.late = "EPR_Request_Failed" /\ EprExit(epr) /\ Unasked
  \/ CapsTimeout

\* PD_PPS_Probe_Failed, PD_EPR_SinkCap_TxFailed, PD_EPR_Mode_TxFailed (which
\* aborts the receiver), PD_EPR_Request_Failed
EprTxFailed ==
  \/ /\ cb.fail \in {"PPS_Probe_Failed", "EPR_SinkCap_TxFailed"}
     /\ Continue /\ Overtaken
  \/ cb.fail = "EPR_Mode_TxFailed" /\ EprClosed(epr) /\ Abort
  \/ cb.fail = "EPR_Request_Failed" /\ EprExit(epr) /\ Overtaken
=============================================================================

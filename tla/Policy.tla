------------------------------- MODULE Policy -------------------------------
(***************************************************************************)
(* The policy engine as a whole: the drain that hands packets to the       *)
(* handlers, the transmissions, the answer timeout and the millisecond     *)
(* ticks of the main loop, the interrupt that may come between any two of  *)
(* them, and a charger at the other end of the wire.                       *)
(***************************************************************************)
EXTENDS Request

policyVars == <<probe, info, epr, vdm, critical, eprFrame, req>>
vars == <<conn, inbox, aged, wireVars, chargerVars, policyVars>>

InfoFresh == [s \in Steps |-> "pending"]

Init ==
  /\ conn = FALSE /\ inbox = <<>> /\ aged = 0
  /\ cb = NoCallbacks /\ waitRx = FALSE
  /\ tx = NoTx /\ now = FALSE /\ drain = FALSE
  /\ ask = Msg("restart") /\ round = "none" /\ power = "fixed"
  /\ set \in Offers /\ told = {} /\ enters = 0
  /\ budget = Budget
  /\ offer = [now |-> NoOffer, held |-> NoOffer]
  /\ contract = FALSE /\ guard = FALSE /\ settle = FALSE /\ critical = FALSE
  /\ vdm = VdmFresh /\ epr = EprFresh /\ probe = ProbeFresh
  /\ info = InfoFresh /\ req = ReqFresh

-----------------------------------------------------------------------------
(* The charger *)

Requests == {"request", "eprrequest"}

\* What it may say to what it heard last, and what it may still say after it
Answer(m, then) == [m |-> m, then |-> then]
Last(m)         == Answer(m, NoTx)
Refusal         == {Last(Msg("notsupported")), Last(Msg("reject"))}
Capabilities(n) == {Last(Message("caps", set, n))}

Answers(a) ==
  CASE a.k \in Requests ->
         {Answer(Msg("accept"), Num("accepted", a.n))} \cup Refusal
           \cup Capabilities(1)
    [] a.k = "accepted"  -> {Last(Msg("psrdy"))}
    [] a.k = "get"       -> {Last(Num("info", a.n)), Last(Num("infomore", a.n))}
                              \cup Refusal
    [] a.k = "chunkinfo" -> {Last(Msg("infochunk"))}
    [] a.k = "chunk"     -> {Last(Msg("eprcaps1"))}
    [] a.k = "garbled"   -> {Last(Msg("notsupported"))}
    [] a.k = "ppsstatus" -> {Last(Msg("status")), Last(Msg("notsupported"))}
    [] a.k = "sinkcap"   -> Capabilities(1)
    [] a.k = "eprenter"  -> {Answer(Msg("eprack"), Msg("entering")),
                             Answer(Msg("eprok"), Msg("entered")),
                             Last(Msg("eprfail")), Last(Msg("notsupported"))}
    [] a.k = "entering"  -> {Answer(Msg("eprok"), Msg("entered")),
                             Last(Msg("eprfail"))}
    [] a.k = "entered"   -> {Last(Msg("eprcaps0")), Last(Msg("eprcapsall"))}
    [] a.k = "eprexit"   -> {Answer(Msg("exitack"), Msg("again"))}
                              \cup Capabilities(1)
    [] a.k = "ident"     -> {Last(Msg("ackident")), Last(Msg("vdmnak"))}
    [] a.k = "svids"     -> {Last(Num("acksvids", n)) : n \in 0..MaxSvids+1}
                              \cup {Last(Msg("vdmnak"))}
    [] a.k = "modes"     -> {Last(Msg("ackmodes")), Last(Msg("vdmnak"))}
    [] a.k = "softreset" -> {Answer(Msg("accept"), Msg("restart"))}
    [] a.k = "again"     -> Capabilities(1)
    [] a.k \in {"restart", "accept", "hardreset"} -> Capabilities(0)
    [] OTHER -> {}

CountEnter(m) ==
  enters' = IF m.k = "eprenter" /\ enters < 2 THEN enters + 1 ELSE enters

\* The round, once it has heard m
Begun(m) == IF m.k \in Requests THEN "asked"
            ELSE IF m.k = "softreset" THEN "none" ELSE round

Heard(m) ==
  /\ ask' = m /\ UNCHANGED <<told, power, set>>
  /\ CountEnter(m)
  /\ round' = Begun(m)

\* It says m, which ends the round it was asked for
Ended(r) == IF r = "granted" THEN r ELSE "none"

Says(m, then, r) ==
  /\ ask' = then
  /\ round' = CASE r = "asked" /\ m.k = "accept"  -> "agreed"
                [] r = "agreed" /\ m.k = "psrdy"  -> "granted"
                [] m.k \in Refusals \cup {"caps"} -> Ended(r)
                [] OTHER -> r
  /\ told' = IF m.k \in {"info", "infomore"} THEN told \cup {m.n} ELSE told
  /\ power' = IF m.k = "psrdy" THEN (IF ask.n = 1 THEN "pps" ELSE "fixed")
                               ELSE power
  /\ UNCHANGED set

Unattached == {"caps", "accept", "softreset"}

\* A packet is answered with GoodCRC, ends the wait and enters the ring
Arrives(m) ==
  /\ Len(inbox) < Depth /\ (conn \/ m.k \in Unattached)
  /\ inbox' = Append(inbox, m)

ChargerAnswers ==
  /\ \E a \in Answers(ask) : Arrives(a.m) /\ Says(a.m, a.then, round)
  /\ waitRx' = FALSE
  /\ UNCHANGED <<conn, aged, cb, tx, now, drain, enters, budget, policyVars>>

\* A Soft_Reset or a new offer of its own ends what it was about to answer
GivesUp(m) ==
  m.k = "softreset" \/ (m.k = "caps" /\ ask.k \in Requests \cup {"accepted"})

\* The charger sends something of its own
Interrupts ==
  /\ budget > 0 /\ budget' = budget - 1
  /\ \E m \in Traffic :
       /\ Arrives(m)
       /\ ask' = (IF GivesUp(m) THEN NoTx ELSE ask)
       /\ set' = (IF m.k = "caps" THEN m.o ELSE set)
       /\ round' = (IF m.k \in {"caps", "softreset"} THEN Ended(round)
                                                      ELSE round)
  /\ UNCHANGED <<power, told, enters>>

ChargerTalks ==
  /\ Interrupts /\ waitRx' = FALSE
  /\ UNCHANGED <<conn, aged, cb, tx, now, drain, policyVars>>

\* IF_RX_RESET in the interrupt
ChargerHardReset ==
  /\ budget > 0 /\ budget' = budget - 1
  /\ Abort /\ ask' = Msg("restart") /\ round' = "none" /\ power' = "fixed"
  /\ \/ conn /\ WaitSrcCap
     \/ ~conn /\ UNCHANGED <<cb, waitRx>>
  /\ UNCHANGED <<conn, tx, now, drain, set, told, enters, policyVars>>

\* The cable is removed, and another charger takes it: pDevice_Unattached
Detach ==
  /\ conn /\ ~Flushing
  /\ budget > 0 /\ budget' = budget - 1
  /\ conn' = FALSE /\ Abort
  /\ waitRx' = FALSE /\ tx' = NoTx /\ UNCHANGED <<cb, now, drain, req>>
  /\ ask' = Msg("restart") /\ round' = "none" /\ power' = "fixed" /\ told' = {}
  /\ set' \in Offers /\ enters' = 0
  /\ probe' = ProbeFresh /\ info' = InfoFresh
  /\ epr' = [epr EXCEPT !.done = FALSE, !.attempted = NoOffer,
                        !.sinkcap = FALSE, !.pps = FALSE, !.report = "none"]
  /\ vdm' = VdmFresh
  /\ contract' = FALSE /\ guard' = FALSE /\ settle' = FALSE
  /\ critical' = FALSE /\ UNCHANGED offer

-----------------------------------------------------------------------------
(* The drain *)

\* pDevice_Attached, then Source_Capabilities
AttachAndOffer(m) ==
  LET ended == [probe EXCEPT !.active = FALSE, !.step = 0]
      p == IF probe.active /\ offer.now # NoOffer
           THEN [ended EXCEPT !.done = TRUE, !.probed = offer.now] ELSE ended
  IN /\ conn' = TRUE /\ Abort /\ Unasked
     /\ info' = InfoFresh
     /\ guard' = FALSE /\ settle' = FALSE /\ critical' = FALSE
     /\ \E first \in IsFirst(m) :
          OfferReceived(OfferIn(m), first, epr, p, [req EXCEPT !.stop = FALSE],
                        [Forgotten(vdm) EXCEPT !.mode = FALSE], FALSE)

\* No handler: Source_Capabilities are taken all the same, and a charger heard
\* before the protocol is armed is answered
NoHandler(m) ==
  /\ cb.rx = Null
  /\ \/ LooksLikeOffer(m) /\ conn /\ RxSrcCap(m, epr)
     \/ /\ m.k = "softreset" /\ ~conn
        /\ SendNow(Msg("accept")) /\ UNCHANGED <<cb, waitRx>>
        /\ Unasked /\ UNCHANGED policyVars
     \/ /\ ~LooksLikeOffer(m) /\ ~(m.k = "softreset" /\ ~conn)
        /\ SendNone /\ UNCHANGED <<cb, waitRx>>
        /\ Unasked /\ UNCHANGED policyVars

\* Handlers that answer a Soft_Reset themselves
TakesSoftReset ==
  cb.rx \in SoftResetStates \cup {"InfoProbe_RX", "InfoProbe_Chunk_RX",
                                  "EPR_SrcCap_RX"}
    \/ (cb.rx = "RX_VDM" /\ contract)

\* The handlers, but for what they share
Handle(m) ==
  \/ /\ ~(m.k = "softreset" /\ TakesSoftReset)
     /\ \/ EprDelivered(m) /\ UNCHANGED <<probeVars, req>>
        \/ ProbeDelivered(m) /\ UNCHANGED req
        \/ VdmDelivered(m) /\ Unasked /\ UNCHANGED req
        \/ RxAccept(m) \/ RxPsRdy(m) \/ SoftResetAnswered(m)
        \/ OfferDelivered(m) \/ IdleDelivered(m) \/ NoHandler(m)
  \/ /\ m.k = "softreset" /\ SrcCapSoftReset /\ Unasked
     /\ UNCHANGED <<probeVars, req>>

Deliver ==
  /\ inbox # <<>> /\ ~Flushing
  /\ LET m == Head(inbox)
     IN \/ /\ inbox' = Tail(inbox)
           /\ aged' = (IF aged = 0 THEN 0 ELSE aged - 1)
           /\ Handle(m) /\ UNCHANGED conn
        \/ m.k = "softreset" /\ SoftResetReceived /\ UNCHANGED conn
        \/ cb.rx = Null /\ LooksLikeOffer(m) /\ ~conn /\ AttachAndOffer(m)
  /\ drain' = (tx' # NoTx)
  /\ UNCHANGED budget

-----------------------------------------------------------------------------
(* PD_PHY_SendPending *)

\* The queued message leaves and is acknowledged, or a packet of the charger
\* that comes instead, an answer to it or not, is taken for the
\* acknowledgement; pTxFinish
TransmitOk ==
  /\ \/ Heard(tx) /\ inbox' = inbox /\ UNCHANGED budget
     \/ /\ \E a \in Answers(tx) :
             /\ Arrives(a.m)
             /\ Says(a.m, a.then, Begun(tx))
        /\ CountEnter(tx) /\ UNCHANGED budget
     \/ Interrupts
     \/ /\ \E a \in Answers(ask) : Arrives(a.m) /\ Says(a.m, a.then, round)
        /\ budget > 0 /\ budget' = budget - 1 /\ UNCHANGED enters
  /\ \/ cb.ok = "Excute_SoftRst" /\ WaitSrcCap
     \/ cb.ok = Null /\ UNCHANGED <<cb, waitRx>>
  /\ tx' = NoTx /\ now' = FALSE
  /\ aged' = Len(inbox)
  /\ UNCHANGED policyVars

\* No acknowledgement, although the charger may have heard it; pTxTimeout
TransmitFailed ==
  /\ budget > 0 /\ budget' = budget - 1
  /\ Heard(tx) \/ UNCHANGED <<ask, round, power, set, told, enters>>
  /\ \/ EprTxFailed /\ UNCHANGED <<probeVars, req>>
     \/ (ProbeTxFailed \/ VdmTxFailed) /\ UNCHANGED req
     \/ RequestTxFailed
     \/ cb.fail = "TX_SoftRst" /\ TxSoftReset /\ Overtaken
     \/ /\ cb.fail = Null /\ SendNone /\ Overtaken
        /\ UNCHANGED <<cb, waitRx, policyVars>>

Transmit ==
  /\ Flushing /\ UNCHANGED conn
  /\ TransmitOk \/ TransmitFailed
  /\ drain' = (now /\ drain /\ tx' # NoTx)

-----------------------------------------------------------------------------
(* PD_PHY_TickMs *)

\* The answer wait is over.  The drain has just found the ring empty.
Timeout ==
  /\ waitRx /\ inbox = <<>> /\ ~Flushing
  /\ \/ EprLate /\ UNCHANGED <<probeVars, req>>
     \/ (ProbeLate \/ VdmLate) /\ UNCHANGED req
     \/ RequestLate \/ HardResetLate
     \/ /\ cb.late = Null /\ waitRx' = FALSE /\ SendNone
        /\ Unasked /\ UNCHANGED <<cb, policyVars>>
  /\ UNCHANGED <<conn, inbox, aged, drain>>

Ticks ==
  /\ ~Flushing
  /\ (VdmTick /\ UNCHANGED req) \/ GuardTick \/ SettleTick
  /\ UNCHANGED <<conn, inbox, aged, drain>>

MainLoop == Deliver \/ Transmit \/ Timeout \/ Ticks
Charger  == ChargerAnswers \/ ChargerTalks \/ ChargerHardReset
Next     == MainLoop \/ Charger \/ Detach

Spec == Init /\ [][Next]_vars

\* The main loop returns from everything it calls; nothing is assumed of the
\* charger
Fairness == WF_vars(Deliver) /\ WF_vars(Transmit) /\ WF_vars(Timeout)
              /\ WF_vars(Ticks)
FairSpec == Spec /\ Fairness

-----------------------------------------------------------------------------
(* Properties *)

Handlers ==
  {"IDLE", "RX_SrcCap", "RX_Accept", "RX_PS_RDY", "SoftRst_RX_Accept",
   "InfoProbe_RX", "InfoProbe_Chunk_RX", "PPS_RxAccept", "PPS_RxPS_RDY",
   "PPS_RxStatus", "PPS_RxRestoreAccept", "PPS_RxRestorePS_RDY",
   "EPR_SinkCap_RX", "EPR_Mode_Enter_RX", "EPR_SrcCap_RX",
   "EPR_Request_Accept_RX", "EPR_Request_PS_RDY_RX", "EPR_Exit_RX", "RX_VDM"}

\* The types of what the modules share, and no handler nobody handles
TypeOK ==
  /\ {conn, waitRx, now, drain, contract, guard, settle, critical} \subseteq BOOLEAN
  /\ Len(inbox) <= Depth /\ aged \in 0..Depth
  /\ cb.rx \in Handlers \cup {Null}
  /\ round \in {"none", "asked", "agreed", "granted"}
  /\ told \subseteq Steps /\ enters \in 0..2 /\ budget \in 0..Budget
  /\ offer.now \in Offers \cup {NoOffer} /\ offer.held \in Offers \cup {NoOffer}
  /\ info \in [Steps -> Statuses]
  /\ probe.step \in 0..LastProbe+1

\* The contract is believed in only once the charger has granted the Request
\* it heard last: neither an Accept or a PS_RDY of an earlier Request nor
\* another message makes one (pProt_RX_Accept, pProt_RX_PS_RDY)
Device == CASE cb.rx = "RX_Accept" -> "asking"
            [] cb.rx = "RX_PS_RDY" -> "agreed"
            [] OTHER -> "idle"
Promise == INSTANCE Contract WITH dev <- Device
ContractGranted == Promise!Spec

\* A charger that keeps to one set of capabilities is asked to enter EPR mode
\* once per connection, whatever resets, losses and repeated offers come
\* between (PD_EPR_Attempted_FP, PD_EPR_Probe_Done)
OneSetOnce == (\E o \in Offers : Offers = {o}) => enters <= 1

\* The same of a charger that may step down to a set without EPR and back:
\* the firmware "avoids forcing repeated EPR entry attempts"
EnteredOnce == Cardinality(EprCapable) = 1 => enters <= 1

\* An EPR_Request is made from a whole list of EPR capabilities
\* (PD_EPR_SrcCap_RX, PD_EPR_SendRequest)
WholeList == tx.k = "eprrequest" => epr.got = "all"

\* Discover Modes is asked of an SVID that was received, whatever answer or
\* timeout moves the index (VDM_Disc_Mode_Index, VDM_Disc_SVIDs)
ModesInRange == tx.k = "modes" => tx.n < vdm.svids /\ vdm.svids <= MaxSvids

\* A step of the probe is recorded as answered only if the charger answered
\* that step, in this connection (PD_InfoProbe_RX)
PassMeansAnswered == \A s \in Steps : info[s] = "pass" => s \in told

\* A Soft_Reset that reaches an exchange is answered with Accept before
\* anything else is sent; the wait for the answer to EPR_Mode Enter and Exit,
\* for a Soft_Reset of the device's own, and the last step of the PPS probe
\* are not among them
Answering ==
  SoftResetStates \cup {"InfoProbe_RX", "InfoProbe_Chunk_RX", "EPR_SrcCap_RX"}
SoftResetAccepted ==
  [][Deliver /\ Head(inbox).k = "softreset" /\ cb.rx \in Answering
       => tx' = Msg("accept")]_vars

\* An exchange on a cable is never left without an end: its answer is in the
\* ring, or the wait for it has a deadline, before its message has left as
\* well as after.  The handlers, the interrupt that ends a wait and the failed
\* transmissions each see to a part of it (WaitMsgRx, pRxFinish, pRxTimeout)
Exchanges  ==
  Handlers \ {"IDLE", "RX_SrcCap", "RX_PS_RDY", "SoftRst_RX_Accept"}
NeverStuck ==
  conn /\ cb.rx \in Exchanges
    => inbox # <<>> \/ (waitRx /\ cb.late # Null)

\* A step recorded as unanswered was sent: "GoodCRC received; source ignores",
\* says PD_InfoProbe_RxTimeout of it
NoAnswerMeansSent ==
  [][\A s \in Steps : info'[s] = "noresponse" /\ info[s] # "noresponse"
                       => tx = NoTx]_vars

\* Left alone, the device comes to rest: no chain of timeouts and retries of
\* its own goes round for ever (PD_InfoProbe_NoResponseCnt,
\* s_epr_chunk_request_retry, VDM_Disc_Mode_Index, s_source_probe_done)
LeftAlone == <>[](inbox = <<>>) => <>[](~waitRx /\ ~Flushing)
=============================================================================

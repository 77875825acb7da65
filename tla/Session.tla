------------------------------- MODULE Session -------------------------------
(***************************************************************************)
(* What every part of the policy engine of PD_Prot.c and PD_VDM.c stands   *)
(* on: the packets the receiver has queued, the four callbacks of          *)
(* PD_PHY, the one message that may be queued for transmission, and the    *)
(* answer wait.  The other end of the wire is a charger that answers what  *)
(* it hears, late or not at all, and may send anything else of its own.    *)
(*                                                                         *)
(* A handler runs to its end in one step, except for its transmissions:    *)
(* each is a step of its own, which the interrupt may precede, and calls   *)
(* the transmission callback.                                              *)
(***************************************************************************)
EXTENDS Integers, Sequences, FiniteSets

CONSTANTS
  Offers,      \* sets of Source_Capabilities the charger may advertise
  EprCapable,  \* those whose first PDO says EPR mode capable
  WithPps,     \* those with a PPS APDO
  Dell,        \* PD_DELL_LA280PM240_SRC_CAP_FP, if it is among them
  ExtCaps,     \* what Source_Capabilities_Extended looks like read as one
  NoOffer,     \* a fingerprint of zero
  LastProbe,   \* GET_* steps of the information probe (9)
  ExtStep,     \* the step of Get_Source_Cap_Extended (2)
  BatteryStep, \* the step of Get_Battery_Cap (8)
  EprPps,      \* object 5 of its EPR_Source_Capabilities is a PPS APDO
  Traffic,     \* messages the charger sends unasked
  Budget,      \* bound: transmissions without GoodCRC, and messages, Hard
               \* Resets and detaches nobody asked for
  Depth        \* bound: packets waiting in the deferred ring

ASSUME OfferAssumption ==
  /\ NoOffer \notin Offers /\ ExtCaps \in Offers
  /\ EprCapable \subseteq Offers /\ WithPps \subseteq Offers
ASSUME StepAssumption ==
  LastProbe \in Nat \ {0} /\ ExtStep \in Nat /\ BatteryStep \in Nat
ASSUME BoundAssumption == Budget \in Nat /\ Depth \in Nat

Steps == 1..LastProbe

\* A message: its kind, the offer of a Source_Capabilities, and a number: the
\* probe step of a GET_* and its answer, 1 for PPS power in a Request, the
\* Message ID where it matters
Message(k, o, n) == [k |-> k, o |-> o, n |-> n]
Msg(k)           == Message(k, NoOffer, 0)
Num(k, n)        == Message(k, NoOffer, n)
NoTx             == Msg("none")
Null             == "none"

\* What is told apart: the device's messages, either side's, the charger's,
\* and what the charger is about to do
Kinds ==
  {"none"}
    \cup {"request", "get", "chunkinfo", "ppsstatus", "sinkcap", "eprenter",
          "chunk", "garbled", "eprrequest", "eprexit", "ident", "svids",
          "modes", "reply", "vdmreply"}
    \cup {"accept", "softreset", "hardreset"}
    \cup {"caps", "psrdy", "reject", "notsupported", "info", "infomore",
          "infochunk", "status", "eprack", "eprok", "eprfail", "eprcaps0",
          "eprcaps1", "eprcapsall", "exitack", "ackident", "acksvids",
          "ackmodes", "vdmnak", "vdmreq", "attention", "asks", "drswap",
          "other"}
    \cup {"accepted", "entering", "entered", "again", "restart"}

\* A Source_Capabilities has an offer, a GET_* and its answer a step
Packet ==
  {m \in [k : Kinds, o : Offers \cup {NoOffer}, n : Int] :
     /\ m.k = "caps" => m.o \in Offers
     /\ m.k \in {"get", "info", "infomore"} => m.n \in Steps}

\* What is sent unasked is not the answer to a Request or to a GET_*
ASSUME TrafficAssumption ==
  Traffic \subseteq {m \in Packet : m.k \notin {"psrdy", "info", "infomore"}}

VARIABLES
  conn,    \* PD_DEVICE.ConnectStat
  inbox,   \* the deferred ring: messages answered with GoodCRC
  aged,    \* how many of them arrived before TxStartRxSequence
  cb,      \* PD_PHY.pTxFinish, pRxFinish, pTxTimeout, pRxTimeout
  waitRx,  \* PD_PHY.WaitMsgRx
  tx,      \* the message in PD_TX_BUF if PD_PHY.WaitMsgTx, or NoTx
  now,     \* the running handler has called PD_PHY_FlushTxNow
  drain,   \* it was called by PD_PHY_RunDeferredRx, which flushes after it
  ask,     \* the charger: what it heard last and may still answer
  round,   \* the charger: how far the last Request it heard has come
  power,   \* the charger: "pps" while it supplies a PPS contract
  set,     \* the charger: the Source_Capabilities it advertises
  told,    \* the charger: probe steps it has sent an answer to
  enters,  \* the charger: EPR_Mode Enters heard since the cable came (0..2)
  budget,  \* what is left of Budget
  offer,   \* now: PD_Current_SrcCap_Fingerprint, held: PD_Stored_SrcCap_*
  contract,\* VDM_State.Explicit_Contract_Established
  guard,   \* PD_PostExit_Request_DelayMs # 0
  settle,  \* PD_Dell_PreEPR_SettleActive
  critical,\* s_pd_result_protocol_critical
  vdm      \* armed: s_source_probe_delay_ms # 0, done: s_source_probe_done,
           \* svids: VDM_Disc_SVID_Count, index: VDM_Disc_Mode_Index,
           \* mode: VDM_State.Enter_Mode_already

wireVars    == <<cb, waitRx, tx, now, drain>>
ringVars    == <<inbox, aged>>
chargerVars == <<ask, round, power, set, told, enters, budget>>

-----------------------------------------------------------------------------
(* Callbacks, waits and transmissions, as the handlers use them *)

Callbacks(ok, rx, fail, late) ==
  [ok |-> ok, rx |-> rx, fail |-> fail, late |-> late]
NoCallbacks == Callbacks(Null, Null, Null, Null)
IdleOnly    == Callbacks(Null, "IDLE", Null, Null)

\* WaitMsgRx = 1 with its three callbacks
Await(rx, fail, late) ==
  waitRx' = TRUE /\ cb' = Callbacks(Null, rx, fail, late)

\* WaitMsgRx = 0 and PD_Prot_pSet(NULL, pProt_IDLE, NULL, NULL)
Rest == waitRx' = FALSE /\ cb' = IdleOnly

\* A transmission is due before anything else runs
Flushing == now \/ drain

\* What a handler finds queued: a transmission clears WaitMsgTx first
Left == IF Flushing THEN NoTx ELSE tx

\* PD_PHY_Header_Init, and the same with PD_PHY_FlushTxNow
Queue(m)   == tx' = m /\ now' = FALSE
SendNow(m) == tx' = m /\ now' = TRUE
SendNone   == tx' = Left /\ now' = FALSE

\* Control messages, as the handlers that ask for one tell them
Controls == {"accept", "reject", "notsupported", "psrdy", "softreset", "asks",
             "drswap", "other"}

\* TxStartRxSequence: what waits in the ring came before this transmission
Overtaken == inbox' = inbox /\ aged' = Len(inbox)

\* PD_PHY_Abort: the ring is emptied
Abort == inbox' = <<>> /\ aged' = 0

\* PD_Source_VDM_Probe_Arm_Delayed and PD_Source_VDM_Probe_Cancel
Armed(v)     == [v EXCEPT !.armed = @ \/ ~v.done]
Cancelled(v) == [v EXCEPT !.armed = FALSE]

\* VDM_Reset_Disc_State
Forgotten(v) == [v EXCEPT !.svids = 0, !.index = 0]
=============================================================================

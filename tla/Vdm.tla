--------------------------------- MODULE Vdm ---------------------------------
(***************************************************************************)
(* PD_VDM.c: the delayed discovery of the charger's identity, SVIDs and    *)
(* modes once the power exchange is over, and the responder to the         *)
(* charger's own discovery.                                                *)
(***************************************************************************)
EXTENDS Probe

CONSTANT MaxSvids   \* MAX_DISC_SVIDS (8)

ASSUME SvidAssumption == MaxSvids \in Nat

VdmFresh ==
  [armed |-> FALSE, done |-> FALSE, svids |-> 0, index |-> 0,
   mode |-> FALSE, result |-> "pending"]

\* Commands of a charger's request: Discover Identity, SVIDs, Modes, and
EnterMode == 4
ExitMode  == 5

VdmMsgs == {"vdmreq", "ackident", "acksvids", "ackmodes", "vdmnak",
            "attention"}

vdmFrame == <<probe, info, epr, critical, offer, guard, settle>>

\* VDM_Source_Probe_Finish: whatever was queued is given up
Finish(v, result) ==
  /\ tx' = NoTx /\ now' = FALSE /\ Rest
  /\ vdm' = [v EXCEPT !.result = result]

\* pProt_TX_DISC_SVIDS
DiscoverSvidsOf(v) ==
  /\ vdm' = [v EXCEPT !.svids = 0, !.index = 0]
  /\ Queue(Msg("svids"))
  /\ Await("RX_VDM", "SvidTimeout", "SvidTimeout")

\* Mutant: the end of the list is tested after the index has passed it
ModesNextLate(v) ==
  \/ v.index > v.svids /\ Finish(v, "done")
  \/ /\ v.index <= v.svids
     /\ vdm' = v
     /\ Queue(Num("modes", v.index))
     /\ Await("RX_VDM", "ModeTimeout", "ModeTimeout")

\* pProt_TX_DISC_MODES_Next
ModesNext(v) ==
  \/ v.index >= v.svids /\ Finish(v, "done")
  \/ /\ v.index < v.svids
     /\ vdm' = v
     /\ Queue(Num("modes", v.index))
     /\ Await("RX_VDM", "ModeTimeout", "ModeTimeout")

\* The answers to the discovery; what was asked is not compared
RxAnswer(m) ==
  \/ m.k = "ackident" /\ DiscoverSvidsOf(vdm)
  \/ /\ m.k = "acksvids"
     /\ LET n == IF m.n > MaxSvids THEN MaxSvids ELSE m.n
        IN \/ n = 0 /\ Finish([vdm EXCEPT !.svids = 0], "done")
           \/ n > 0 /\ ModesNext([vdm EXCEPT !.svids = n, !.index = 0])
  \/ m.k = "ackmodes" /\ ModesNext([vdm EXCEPT !.index = @ + 1])
  \/ m.k = "vdmnak" /\ Finish(vdm, "refused")

\* The UFP responders: the reply's failure becomes a Soft_Reset
RxRequest(m) ==
  \/ /\ m.k = "vdmreq"
     /\ Queue(Msg("vdmreply"))
     /\ cb' = Callbacks(Null, "IDLE", "TX_SoftRst", Null) /\ UNCHANGED waitRx
     /\ vdm' = [vdm EXCEPT !.mode = (m.n = EnterMode) \/ (@ /\ m.n # ExitMode)]
  \/ /\ m.k = "attention"
     /\ cb' = [cb EXCEPT !.rx = Null] /\ SendNone /\ UNCHANGED <<waitRx, vdm>>

\* pProt_RX_VDM, but for Soft_Reset
RxVdm(m) ==
  /\ UNCHANGED <<vdmFrame, contract>>
  /\ \/ /\ ~contract
        /\ cb' = [cb EXCEPT !.rx = Null]
        /\ SendNone /\ UNCHANGED <<waitRx, vdm>>
     \/ /\ contract
        /\ \/ RxAnswer(m) \/ RxRequest(m)
           \/ m.k \notin VdmMsgs /\ Finish(vdm, "refused")

VdmDelivered(m) == cb.rx = "RX_VDM" /\ RxVdm(m)

\* Mutant: a mode nobody answers for is asked again
VdmLateAgain ==
  /\ \/ cb.late \in {"SvidTimeout", "pDiscIdent_NoResponse"}
        /\ Finish(vdm, "noresponse")
     \/ cb.late = "ModeTimeout" /\ ModesNext(vdm)
  /\ UNCHANGED <<vdmFrame, contract>> /\ Unasked

VdmLate ==
  /\ \/ cb.late \in {"SvidTimeout", "pDiscIdent_NoResponse"}
        /\ Finish(vdm, "noresponse")
     \/ cb.late = "ModeTimeout" /\ ModesNext([vdm EXCEPT !.index = @ + 1])
  /\ UNCHANGED <<vdmFrame, contract>> /\ Unasked

VdmTxFailed ==
  /\ \/ cb.fail \in {"SvidTimeout", "pDiscIdent_TxFailed"}
        /\ Finish(vdm, "noresponse")
     \/ cb.fail = "ModeTimeout" /\ ModesNext([vdm EXCEPT !.index = @ + 1])
  /\ UNCHANGED <<vdmFrame, contract>> /\ Overtaken

\* Nothing queued and no answer awaited
WireFree == tx = NoTx /\ ~waitRx

\* PD_Source_VDM_Probe_Tick, once the delay is over; it tries again each
\* millisecond until there is a contract and the wire is free
VdmTick ==
  /\ vdm.armed /\ ~vdm.done
  /\ \/ /\ ~conn
        /\ vdm' = Cancelled(vdm)
        /\ SendNone /\ UNCHANGED <<cb, waitRx>>
     \/ /\ conn /\ contract /\ WireFree
        /\ vdm' = [Forgotten(vdm) EXCEPT !.armed = FALSE, !.done = TRUE]
        /\ SendNow(Msg("ident"))
        /\ Await("RX_VDM", "pDiscIdent_TxFailed", "pDiscIdent_NoResponse")
  /\ UNCHANGED <<vdmFrame, contract>> /\ Unasked
=============================================================================

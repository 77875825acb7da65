-------------------------------- MODULE Probe --------------------------------
(***************************************************************************)
(* The information probe of PD_Prot.c: once per set of Source_Capabilities *)
(* and after its first contract, a sequence of GET_* messages, each        *)
(* answered, refused or left unanswered, and then the EPR path.            *)
(***************************************************************************)
EXTENDS Epr

VARIABLES
  probe,  \* active: PD_InfoProbe_Active, step: PD_InfoProbe_Step,
          \* done: PD_InfoProbe_Done, quiet: PD_InfoProbe_NoResponseCnt,
          \* probed: PD_Probed_SrcCap_Fingerprint
  info    \* s_pd_result.info_probe_status

ProbeFresh ==
  [active |-> FALSE, step |-> 0, done |-> FALSE, quiet |-> 0,
   probed |-> NoOffer]

Statuses == {"pending", "pass", "unsupported", "rejected", "txfailed",
             "noresponse"}

\* PD_Result_RecordProbeStatus: a step of zero is not recorded
Recorded(step, status) ==
  IF step \in Steps THEN [info EXCEPT ![step] = status] ELSE info

\* The sequence is over, for these Source_Capabilities
Concluded(p) ==
  [p EXCEPT !.active = FALSE, !.step = 0, !.done = TRUE, !.probed = offer.now]

\* PD_InfoProbe_SendNext of a step that exists
SendGet(p) ==
  /\ Queue(Num("get", p.step))
  /\ Await("InfoProbe_RX", "InfoProbe_TxFailed", "InfoProbe_RxTimeout")
  /\ probe' = p
  /\ UNCHANGED <<epr, vdm, critical, eprFrame>>

\* Mutant: the end of the table is not noticed
AskPastEnd(p) == SendGet(p)

\* PD_InfoProbe_SendNext, with PD_InfoProbe_Finish after the last step
SendNext(p) ==
  \/ p.step \in Steps /\ SendGet(p)
  \/ /\ p.step \notin Steps
     /\ probe' = [Concluded(p) EXCEPT !.quiet = 0]
     /\ Continue

NextStep == [probe EXCEPT !.step = @ + 1]

-----------------------------------------------------------------------------
(* PD_InfoProbe_RX and PD_InfoProbe_Chunk_RX, but for Soft_Reset *)

\* Mutant: the next packet is the response
AnyResponse(m) == TRUE

\* PD_InfoProbe_Response_Matches
ResponseMatches(m) == m.k \in {"info", "infomore"} /\ m.n = probe.step

Refusals == {"notsupported", "reject"}

\* Mutant: the wait the interrupt ended is not taken up again
UnrelatedForgotten(m) ==
  /\ ~ResponseMatches(m) /\ m.k \notin Refusals \cup {"eprcaps0"}
  /\ cb' = Callbacks(Null, "InfoProbe_RX", "InfoProbe_TxFailed", Null)
  /\ SendNone /\ Unasked
  /\ UNCHANGED <<waitRx, probe, info, epr, vdm, critical, eprFrame>>

Unrelated(m) ==
  /\ ~ResponseMatches(m) /\ m.k \notin Refusals \cup {"eprcaps0"}
  /\ Await("InfoProbe_RX", "InfoProbe_TxFailed", "InfoProbe_RxTimeout")
  /\ SendNone /\ Unasked
  /\ UNCHANGED <<probe, info, epr, vdm, critical, eprFrame>>

\* More of the answer is asked for as its next chunk
FirstChunk(m) ==
  /\ ResponseMatches(m) /\ m.k = "infomore"
  /\ info' = Recorded(probe.step, "pass")
  /\ probe' = [probe EXCEPT !.quiet = 0]
  /\ Await("InfoProbe_Chunk_RX", "InfoProbe_TxFailed",
           "InfoProbe_Chunk_Timeout")
  /\ AskChunk(Num("chunkinfo", m.n))
  /\ UNCHANGED <<epr, vdm, critical, eprFrame>>

Response(m) ==
  /\ m.k \in Refusals \/ (ResponseMatches(m) /\ m.k # "infomore")
  /\ info' = Recorded(probe.step,
                      CASE m.k = "notsupported" -> "unsupported"
                        [] m.k = "reject" -> "rejected"
                        [] OTHER -> "pass")
  /\ SendNext([NextStep EXCEPT !.quiet = 0])
  /\ Unasked

ProbeDelivered(m) ==
  \/ /\ cb.rx = "InfoProbe_RX"
     /\ \/ Unrelated(m) \/ FirstChunk(m) \/ Response(m)
        \/ /\ m.k = "eprcaps0"
           /\ probe' = Concluded(probe) /\ UNCHANGED info
           /\ CapsDelivered(m)
  \/ /\ cb.rx = "InfoProbe_Chunk_RX"
     /\ SendNext([NextStep EXCEPT !.quiet = 0])
     /\ Unasked /\ UNCHANGED info

-----------------------------------------------------------------------------
(* Timeouts and failed transmissions *)

\* PD_InfoProbe_RxTimeout: two in a row end the probe
NoAnswer ==
  /\ cb.late = "InfoProbe_RxTimeout"
  /\ info' = Recorded(probe.step, "noresponse")
  /\ \/ /\ probe.quiet + 1 < 2
        /\ SendNext([NextStep EXCEPT !.quiet = @ + 1])
     \/ /\ probe.quiet + 1 >= 2
        /\ probe' = [Concluded(probe) EXCEPT !.quiet = 0]
        /\ Continue

\* PD_InfoProbe_Chunk_Timeout
NoChunk ==
  /\ cb.late = "InfoProbe_Chunk_Timeout"
  /\ SendNext(NextStep) /\ UNCHANGED info

ProbeLate == (NoAnswer \/ NoChunk) /\ Unasked

\* PD_InfoProbe_TxFailed: the probe ends, and goes on with EPR unless the
\* charger is the one that starts an exchange of its own after Get_Battery_Cap
ProbeTxFailed ==
  /\ cb.fail = "InfoProbe_TxFailed"
  /\ info' = Recorded(probe.step, "txfailed")
  /\ probe' = [Concluded(probe) EXCEPT !.quiet = 0]
  /\ Abort
  /\ IF probe.step = BatteryStep /\ offer.now = Dell
     THEN /\ settle' = TRUE /\ Rest /\ SendNone /\ vdm' = Forgotten(vdm)
          /\ UNCHANGED <<epr, critical, offer, contract, guard>>
     ELSE EprEnter(epr, Forgotten(vdm), offer, FALSE) /\ UNCHANGED eprFrame

-----------------------------------------------------------------------------
\* PD_InfoProbe_Start, after a contract
ProbeStart ==
  IF probe.active
  THEN /\ Rest /\ SendNone
       /\ UNCHANGED <<probe, epr, vdm, critical>>
  ELSE /\ probe' = [probe EXCEPT !.active = TRUE, !.step = 1, !.quiet = 0]
       /\ epr' = [epr EXCEPT !.sinkcap = FALSE]
       /\ Queue(Num("get", 1))
       /\ Await("InfoProbe_RX", "InfoProbe_TxFailed", "InfoProbe_RxTimeout")
       /\ UNCHANGED <<vdm, critical>>
=============================================================================

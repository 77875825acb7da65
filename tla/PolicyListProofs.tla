-------------------------- MODULE PolicyListProofs --------------------------
(***************************************************************************)
(* Proof that an EPR_Request is made from a whole list of capabilities,    *)
(* for every depth of the ring and any number of faults, with a charger    *)
(* that says nothing of EPR mode unasked and whose sets of capabilities    *)
(* are all EPR capable or none.                                            *)
(*                                                                         *)
(* The list is emptied with each EPR_Mode Enter, so the second chunk of an *)
(* earlier list must not be in the ring, nor still be due, behind the      *)
(* answer to it.  That follows from the contract that comes before: its    *)
(* PS_RDY is newer than the Request, and by then all of it has been heard. *)
(***************************************************************************)
EXTENDS PolicyProofs

Acks   == {"eprack", "eprok"}
Chunks == {"eprcaps0", "eprcaps1"}

\* What the charger still answers with a chunk, or with what leads to one
Due == {"chunk", "eprenter", "entering", "entered"}

\* Between the contract and EPR_Mode Enter
Setup ==
  {"InfoProbe_RX", "InfoProbe_Chunk_RX", "PPS_RxAccept", "PPS_RxPS_RDY",
   "PPS_RxStatus", "PPS_RxRestoreAccept", "PPS_RxRestorePS_RDY",
   "EPR_SinkCap_RX"}
SetupEnds ==
  {"InfoProbe_TxFailed", "InfoProbe_RxTimeout", "InfoProbe_Chunk_Timeout",
   "PPS_Probe_Failed", "EPR_SinkCap_TxFailed", "EPR_SinkCap_Done"}
EprAsking == {"EPR_Request_Accept_RX", "EPR_Request_PS_RDY_RX"}

Has(b, K)         == \E i \in 1..Len(b) : b[i].k \in K
Precedes(b, J, K) ==
  \E i, j \in 1..Len(b) : i < j /\ b[i].k \in J /\ b[j].k \in K

(* A ring b and what the charger may still answer, by its kind k.          *)

\* Nothing of an earlier exchange of lists is left
Clear(b, k) == ~Has(b, Chunks) /\ k \notin Due
Clean(b, k) == ~Has(b, {"eprcaps1"}) /\ k # "chunk"

\* No second chunk is behind an answer to EPR_Mode Enter
Acked(b, k) ==
  ~Precedes(b, Acks, {"eprcaps1"}) /\ (Has(b, Acks) => k # "chunk")

\* Nor will be, once a first chunk has been delivered
Tidy(b, k) ==
  /\ Acked(b, k) /\ ~Precedes(b, {"eprcaps0"}, Acks)
  /\ Has(b, {"eprcaps0"}) => k \notin {"eprenter", "entering"}

\* A PS_RDY behind the first n packets comes after all of it
Fresh(b, n, k) ==
  \A i \in n+1..Len(b) :
     b[i].k = "psrdy" =>
       k \notin Due /\ \A j \in i+1..Len(b) : b[j].k \notin Chunks

Got(e) == "got" \in DOMAIN e /\ e.got \in {"none", "part", "all"}

\* The callbacks that go on to EPR belong to the handlers of the setup
Mild   == cb.fail \notin SetupEnds /\ cb.late \notin SetupEnds
Paired == cb.rx \in Setup \/ Mild

Ordered ==
  /\ settle \/ cb.rx \in Setup => Tidy(inbox, ask.k)
  /\ settle /\ (cb.rx \in Setup \/ tx.k = "eprenter") => Clear(inbox, ask.k)
  /\ cb.rx = "EPR_Mode_Enter_RX" => Acked(inbox, ask.k)
  /\ cb.rx = "EPR_SrcCap_RX" /\ epr.got = "none" => Clean(inbox, ask.k)
  /\ cb.rx \in Negotiating /\ ~now => Fresh(inbox, aged, ask.k)

Queued ==
  /\ tx.k \notin {"chunk", "entering", "entered"}
  /\ tx.k \in {"eprenter", "eprrequest"} => now
  /\ tx.k = "eprenter" => cb.rx \notin Setup
  /\ tx.k = "eprrequest" \/ cb.rx \in EprAsking => epr.got = "all"
  /\ Got(epr) /\ Paired

\* Before the first offer nothing has begun
Unoffered ==
  offer.held = NoOffer =>
    /\ ~conn /\ ~contract /\ ~guard /\ ~settle
    /\ req = ReqFresh /\ cb = NoCallbacks

Lists == Ordered /\ Queued /\ Unoffered

-----------------------------------------------------------------------------
(* What a handler may make of it.  The offer is never taken back, and the  *)
(* pause before Sink_Capabilities never begun, but by a failed GET_*.      *)

Loaded == {"eprenter", "eprrequest", "chunk", "entering", "entered"}
Spots  == Setup \cup Negotiating \cup EprAsking
            \cup {"EPR_Mode_Enter_RX", "EPR_SrcCap_RX"}

Hush   == tx' = Left \/ tx'.k \notin Loaded
Kept   == Got(epr') /\ epr'.got = epr.got
Steady ==
  /\ settle' => settle
  /\ offer'.held = offer.held \/ offer'.held \in Offers
Deaf   == ask' = ask \/ ask'.k \in {"chunkinfo", "garbled", "hardreset"}

\* It leads elsewhere, or to a Request
Off     == Kept /\ Hush /\ Mild' /\ cb'.rx \notin Spots
Asking  == Kept /\ Hush /\ Mild' /\ cb'.rx = "RX_Accept" /\ now'
\* It stays with the handler it is with
Staying == Kept /\ Hush /\ cb'.rx = cb.rx /\ Paired'
\* It goes on waiting for the answer to a Request
Waiting == /\ Kept /\ Hush /\ Mild'
           /\ cb'.rx \in Negotiating /\ cb.rx \in Negotiating
\* It goes on to EPR mode, enters it, or lets it be
Walking == Kept /\ Hush /\ cb'.rx \in Setup
Enters  == /\ Got(epr') /\ epr'.got = "none" /\ Mild'
           /\ tx'.k = "eprenter" /\ now' /\ cb'.rx = "EPR_Mode_Enter_RX"
Onward  == Off \/ Walking \/ Enters
\* It waits for the list, has the first chunk, or asks for the power
Listens  == Kept /\ Hush /\ Mild' /\ cb'.rx = "EPR_SrcCap_RX"
Collects == /\ Got(epr') /\ epr'.got = "part"
            /\ Hush /\ Mild' /\ cb'.rx = "EPR_SrcCap_RX"
Powers   == /\ Got(epr') /\ epr'.got = "all" /\ Mild' /\ cb'.rx \in EprAsking
            /\ Hush \/ (tx'.k = "eprrequest" /\ now')

LEMMA OtherKinds ==
  ASSUME NEW k, k \notin Loaded, NEW n
  PROVE Msg(k).k \notin Loaded /\ Num(k, n).k \notin Loaded
  BY DEF Msg, Num, Message

LEMMA NoTxKind == NoTx.k \notin Loaded
  BY OtherKinds DEF NoTx, Loaded

LEMMA SendNoneHush == ASSUME SendNone PROVE Hush
  BY DEF SendNone, Hush

LEMMA SendsHush ==
  ASSUME NEW k, k \notin Loaded, NEW n, tx' \in {Msg(k), Num(k, n)} PROVE Hush
  BY OtherKinds DEF Hush

LEMMA AskChunkHush == ASSUME NEW STATE m, AskChunk(m) PROVE Hush
  BY NoTxKind DEF AskChunk, Hush

LEMMA AwaitRx ==
  ASSUME NEW rx, NEW fail, NEW late, Await(rx, fail, late)
  PROVE /\ cb'.rx = rx
        /\ fail \notin SetupEnds /\ late \notin SetupEnds => Mild'
  BY DEF Await, Callbacks, Mild

LEMMA RestRx == ASSUME Rest \/ cb' = IdleOnly PROVE cb'.rx = "IDLE" /\ Mild'
  BY DEF Rest, IdleOnly, Callbacks, Mild, Null, SetupEnds

LEMMA TakenRx ==
  ASSUME WireTyped, Mild, cb' = Taken PROVE cb'.rx = Null /\ Mild'
  BY DEF WireTyped, Taken, Callbacks, Mild

LEMMA NoSpot ==
  /\ Null \notin Spots /\ "IDLE" \notin Spots /\ "RX_SrcCap" \notin Spots
  /\ "RX_VDM" \notin Spots /\ "EPR_Exit_RX" \notin Spots
  /\ "SoftRst_RX_Accept" \notin Spots
  BY DEF Null, Spots, Setup, Negotiating, EprAsking

LEMMA FrameSteady == ASSUME UNCHANGED <<offer, settle>> PROVE Steady
  BY DEF Steady

LEMMA EprFrameSteady == ASSUME UNCHANGED eprFrame PROVE Steady
  BY DEF eprFrame, Steady

\* A copy of epr that keeps the list
Copies(e) == Got(e) /\ e.got = epr.got

LEMMA CopyKept == ASSUME NEW STATE e, Copies(e), epr' = e PROVE Kept
  BY DEF Copies, Kept

LEMMA CountersCopy ==
  ASSUME Got(epr)
  PROVE /\ Copies(epr) /\ Copies([epr EXCEPT !.exits = 0])
        /\ Copies([epr EXCEPT !.exits = @ + 1])
        /\ Copies([epr EXCEPT !.retry = @ + 1])
        /\ Copies([epr EXCEPT !.pps = TRUE])
        /\ Copies([epr EXCEPT !.sinkcap = FALSE])
        /\ Copies([epr EXCEPT !.buf = FALSE])
        /\ Copies([epr EXCEPT !.resets = @ + 1, !.buf = FALSE])
        /\ Copies([epr EXCEPT !.resets = 0, !.buf = FALSE])
        /\ Copies([epr EXCEPT !.report = IF epr.got = "none" THEN @
                                                             ELSE "partial"])
  BY DEF Copies, Got

-----------------------------------------------------------------------------
(* Epr *)

LEMMA EprEnterOnward ==
  ASSUME NEW STATE e, Copies(e), NEW STATE v, NEW STATE o, NEW STATE w,
         EprEnter(e, v, o, w)
  PROVE Onward
<1>1. CASE PpsStart(e, v, o)
  <2>1. Kept
    BY <1>1 DEF PpsStart, Copies, Kept, Got
  <2>2. Hush
    BY <1>1, SendsHush DEF PpsStart, SendNow, Loaded
  <2>3. cb'.rx = "PPS_RxAccept"
    BY <1>1, AwaitRx DEF PpsStart
  <2> QED BY <2>1, <2>2, <2>3 DEF Onward, Walking, Setup
<1>2. CASE SendSinkCap(e, v)
  <2>1. Kept
    BY <1>2 DEF SendSinkCap, Copies, Kept, Got
  <2>2. Hush
    BY <1>2, SendsHush DEF SendSinkCap, SendNow, Loaded
  <2>3. cb'.rx = "EPR_SinkCap_RX"
    BY <1>2, AwaitRx DEF SendSinkCap
  <2> QED BY <2>1, <2>2, <2>3 DEF Onward, Walking, Setup
<1>3. CASE SendEnter(e, v, o)
  <2>1. Got(epr') /\ epr'.got = "none"
    BY <1>3 DEF SendEnter, Copies, Got
  <2>2. tx'.k = "eprenter" /\ now'
    BY <1>3 DEF SendEnter, SendNow, Msg, Message
  <2>3. cb'.rx = "EPR_Mode_Enter_RX" /\ Mild'
    BY <1>3, AwaitRx DEF SendEnter, SetupEnds
  <2> QED BY <2>1, <2>2, <2>3 DEF Onward, Enters
<1>4. CASE SkipEpr(e, v, o, w)
  <2>1. Kept
    BY <1>4 DEF SkipEpr, Copies, Kept, Got
  <2> QED BY <1>4, <2>1, SendNoneHush, RestRx, NoSpot DEF SkipEpr, Onward, Off
<1> QED BY <1>1, <1>2, <1>3, <1>4 DEF EprEnter

LEMMA ContinueOnward == ASSUME Got(epr), Continue PROVE Onward /\ Steady
  BY CountersCopy, EprEnterOnward, EprFrameSteady DEF Continue

LEMMA EprClosedOff ==
  ASSUME NEW STATE e, Copies(e), EprClosed(e) PROVE Off /\ Steady
  BY CopyKept, SendNoneHush, RestRx, NoSpot, EprFrameSteady DEF EprClosed, Off

LEMMA EprExitOff ==
  ASSUME NEW STATE e, Copies(e), EprExit(e) PROVE Off /\ Steady
<1>1. Kept
  BY DEF EprExit, Copies, Kept, Got
<1>2. Hush
  BY SendsHush DEF EprExit, Queue, Loaded
<1>3. cb'.rx = "EPR_Exit_RX" /\ Mild'
  BY AwaitRx DEF EprExit, SetupEnds, Null
<1> QED BY <1>1, <1>2, <1>3, NoSpot, EprFrameSteady DEF EprExit, Off

LEMMA EprRequestPowers ==
  ASSUME NEW STATE e, Got(e), e.got = "all", NEW stage, EprRequest(e, stage)
  PROVE Powers /\ Steady
<1>1. Got(epr') /\ epr'.got = "all"
  BY DEF EprRequest, Got
<1>2. tx'.k = "eprrequest" /\ now'
  BY DEF EprRequest, SendNow, Num, Message
<1>3. cb'.rx = "EPR_Request_Accept_RX" /\ Mild'
  BY AwaitRx DEF EprRequest, SetupEnds
<1> QED BY <1>1, <1>2, <1>3, EprFrameSteady DEF EprRequest, Powers, EprAsking

LEMMA AwaitCapsRx ==
  ASSUME NEW STATE e, AwaitCaps(e)
  PROVE cb'.rx = "EPR_SrcCap_RX" /\ Mild' /\ epr' = e /\ Steady
  BY AwaitRx, EprFrameSteady DEF AwaitCaps, SetupEnds, Null

LEMMA AwaitCapsListens ==
  ASSUME NEW STATE e, Copies(e), AwaitCaps(e), Hush PROVE Listens /\ Steady
  BY AwaitCapsRx, CopyKept DEF Listens

\* What the charger is told of it
LEMMA UnaskedDeaf == ASSUME Unasked PROVE Deaf /\ ask' = ask
  BY DEF Unasked, chargerVars, Deaf

\* A first chunk is kept and the second asked for; a second is the end of the
\* list if there was a first
LEMMA CapsDeliveredCollects ==
  ASSUME Got(epr), NEW m, CapsDelivered(m),
         m.k = "eprcaps1" => epr.got \in {"part", "all"}
  PROVE /\ Steady
        /\ \/ m.k = "eprcaps0" /\ Collects /\ (ask' = ask \/ ask'.k = "chunk")
           \/ Powers /\ Deaf
<1> DEFINE e == [epr EXCEPT !.got = Stored(m), !.retry = 0,
                   !.resets = IF m.k = "eprcaps1" THEN @ ELSE 0,
                   !.buf = (m.k = "eprcaps0")]
           f == [e EXCEPT !.report = "complete"]
<1>1. CASE m.k = "eprcaps0" /\ AwaitCaps(e) /\ AskChunk(Msg("chunk"))
  <2>1. Got(e) /\ e.got = "part"
    BY <1>1 DEF Got, Stored
  <2>2. ask' = ask \/ ask'.k = "chunk"
    BY <1>1 DEF AskChunk, Msg, Message
  <2> HIDE DEF e
  <2> QED BY <1>1, <2>1, <2>2, AwaitCapsRx, AskChunkHush DEF Collects
<1>2. CASE m.k \in {"eprcapsall", "eprcaps1"} /\ EprCapsComplete(e) /\ Unasked
  <2>1. Got(f) /\ f.got = "all"
    BY <1>2 DEF Got, Stored
  <2>2. \E stage : EprRequest(f, stage)
    BY <1>2 DEF EprCapsComplete
  <2> HIDE DEF f
  <2> QED BY <1>2, <2>1, <2>2, EprRequestPowers, UnaskedDeaf
<1> QED BY <1>1, <1>2 DEF CapsDelivered

\* What the delivery of m may come to
Turn(m) ==
  /\ Steady
  /\ \/ (Off \/ Asking \/ Waiting \/ Powers) /\ Deaf
     \/ /\ \/ cb.rx \in Setup
           \/ cb.rx = "RX_PS_RDY" /\ m.k = "psrdy" /\ aged = 0
        /\ Onward /\ Deaf
     \/ /\ cb.rx = "EPR_SrcCap_RX" \/ (cb.rx = "EPR_Mode_Enter_RX" /\ m.k \in Acks)
        /\ Listens /\ ask' = ask
     \/ m.k = "eprcaps0" /\ Collects /\ (ask' = ask \/ ask'.k = "chunk")

\* What it starts from
Ready(m) ==
  /\ Got(epr) /\ Paired
  /\ cb.rx \in EprAsking => epr.got = "all"
  /\ cb.rx = "EPR_SrcCap_RX" /\ m.k = "eprcaps1" => epr.got \in {"part", "all"}

LEMMA PpsDeliveredOnward ==
  ASSUME Got(epr), NEW m, PpsDelivered(m)
  PROVE Onward /\ Steady /\ cb.rx \in Setup
<1>1. ASSUME NEW rx \in Setup, NEW fail, NEW late, Await(rx, fail, late), Hush,
             UNCHANGED ppsFrame
      PROVE Onward /\ Steady
  BY <1>1, AwaitRx, CountersCopy, CopyKept, EprFrameSteady
     DEF ppsFrame, Onward, Walking
<1>2. ASSUME NEW rx \in Setup, PpsNext(rx) PROVE Onward /\ Steady
  BY <1>1, <1>2, SendNoneHush DEF PpsNext
<1>3. ASSUME SendRestoreFixed PROVE Onward /\ Steady
  <2>1. Hush
    BY <1>3, SendsHush DEF SendRestoreFixed, SendNow, Loaded
  <2> QED BY <1>1, <1>3, <2>1 DEF SendRestoreFixed, Setup
<1>4. ASSUME SendPpsStatus PROVE Onward /\ Steady
  <2>1. Hush
    BY <1>4, SendsHush DEF SendPpsStatus, Queue, Loaded
  <2> QED BY <1>1, <1>4, <2>1 DEF SendPpsStatus, Setup
<1> QED BY <1>2, <1>3, <1>4, ContinueOnward DEF PpsDelivered, Setup

LEMMA NoCapsDeliveredTurn ==
  ASSUME Got(epr), NEW m, cb.rx = "EPR_SrcCap_RX", NoCapsDelivered(m)
  PROVE Turn(m)
<1> DEFINE e == [epr EXCEPT !.buf = FALSE]
<1>1. Copies(e)
  BY CountersCopy
<1>2. Unasked /\ \/ AwaitCaps(e) /\ SendNone
                 \/ Rest /\ epr' = e /\ SendNone /\ UNCHANGED eprFrame
                 \/ EprExit(e)
  BY DEF NoCapsDelivered
<1> HIDE DEF e
<1>3. CASE AwaitCaps(e) /\ SendNone
  BY <1>1, <1>2, <1>3, AwaitCapsListens, SendNoneHush, UnaskedDeaf DEF Turn
<1>4. CASE Rest /\ epr' = e /\ SendNone /\ UNCHANGED eprFrame
  BY <1>1, <1>2, <1>4, CopyKept, SendNoneHush, RestRx, NoSpot, EprFrameSteady,
     UnaskedDeaf DEF Turn, Off
<1>5. CASE EprExit(e)
  BY <1>1, <1>2, <1>5, EprExitOff, UnaskedDeaf DEF Turn
<1> QED BY <1>2, <1>3, <1>4, <1>5

LEMMA EnterDeliveredTurn ==
  ASSUME Got(epr), NEW m, EnterDelivered(m) PROVE Turn(m)
<1>1. CASE m.k \in Acks /\ AwaitCaps(epr) /\ SendNone
  BY <1>1, CountersCopy, AwaitCapsListens, SendNoneHush, UnaskedDeaf
     DEF Turn, EnterDelivered
<1>2. CASE EprClosed(epr)
  BY <1>2, CountersCopy, EprClosedOff, UnaskedDeaf DEF Turn, EnterDelivered
<1>3. CASE Rest /\ SendNone /\ UNCHANGED <<epr, eprFrame>>
  BY <1>3, CountersCopy, CopyKept, SendNoneHush, RestRx, NoSpot,
     EprFrameSteady, UnaskedDeaf DEF Turn, Off, EnterDelivered
<1> QED BY <1>1, <1>2, <1>3 DEF EnterDelivered, Acks

LEMMA EprRequestDeliveredTurn ==
  ASSUME Got(epr), cb.rx \in EprAsking => epr.got = "all", NEW m, Unasked,
         EprRequestDelivered(m)
  PROVE Turn(m)
<1>1. CASE EprExit(epr)
  BY <1>1, CountersCopy, EprExitOff, UnaskedDeaf DEF Turn
<1>2. epr.got = "all"
  BY DEF EprRequestDelivered, EprAsking
<1>3. CASE EprRequest(epr, Restore)
  BY <1>2, <1>3, EprRequestPowers, UnaskedDeaf DEF Turn
<1>4. CASE /\ Await("EPR_Request_PS_RDY_RX", Null, "EPR_Request_Failed")
           /\ SendNone /\ UNCHANGED <<epr, vdm, critical, eprFrame>>
  <2>1. cb'.rx \in EprAsking /\ Mild'
    BY <1>4, AwaitRx DEF EprAsking, SetupEnds, Null
  <2> QED BY <1>2, <1>4, <2>1, SendNoneHush, EprFrameSteady, UnaskedDeaf
        DEF Turn, Powers
<1> QED BY <1>1, <1>3, <1>4 DEF EprRequestDelivered

LEMMA ExitDeliveredTurn ==
  ASSUME Got(epr), NEW m, Unasked, ExitDelivered(m) PROVE Turn(m)
<1>1. CASE EprClosed([epr EXCEPT !.exits = 0])
  BY <1>1, CountersCopy, EprClosedOff, UnaskedDeaf DEF Turn
<1>2. CASE /\ Rest /\ epr' = [epr EXCEPT !.exits = 0] /\ SendNone
           /\ UNCHANGED <<offer, settle>>
  BY <1>2, CountersCopy, CopyKept, SendNoneHush, RestRx, NoSpot, FrameSteady,
     UnaskedDeaf DEF Turn, Off
<1>3. CASE /\ Await("EPR_Exit_RX", Null, "EPR_Exit_NoResponse")
           /\ epr' = [epr EXCEPT !.exits = @ + 1] /\ SendNone
           /\ UNCHANGED eprFrame
  <2>1. cb'.rx \notin Spots /\ Mild'
    BY <1>3, AwaitRx, NoSpot DEF SetupEnds, Null
  <2> QED BY <1>3, <2>1, CountersCopy, CopyKept, SendNoneHush, EprFrameSteady,
        UnaskedDeaf DEF Turn, Off
<1> QED BY <1>1, <1>2, <1>3 DEF ExitDelivered

LEMMA EprDeliveredTurn ==
  ASSUME NEW m, Ready(m), EprDelivered(m) PROVE Turn(m)
<1>0. Got(epr)
  BY DEF Ready
<1>1. CASE (PpsDelivered(m) \/ SinkCapDelivered(m)) /\ Unasked
  BY <1>0, <1>1, PpsDeliveredOnward, ContinueOnward, UnaskedDeaf
     DEF SinkCapDelivered, Turn, Setup
<1>2. CASE SrcCapDelivered(m)
  BY <1>0, <1>2, NoCapsDeliveredTurn, CapsDeliveredCollects
     DEF SrcCapDelivered, Ready, Turn
<1>3. CASE (EprRequestDelivered(m) \/ ExitDelivered(m)) /\ Unasked
  BY <1>0, <1>3, EprRequestDeliveredTurn, ExitDeliveredTurn DEF Ready
<1> QED BY <1>0, <1>1, <1>2, <1>3, EnterDeliveredTurn DEF EprDelivered

\* What a timeout may come to, which finds the ring empty
Lapse ==
  /\ Steady
  /\ \/ (Off \/ Asking \/ Staying \/ Waiting) /\ Deaf
     \/ cb.rx \in Setup /\ Onward /\ Deaf
     \/ Listens /\ epr.got # "none"

\* What a failed transmission may come to, the charger apart
Failure ==
  \/ Steady /\ (Off \/ Staying \/ (cb.rx \in Setup /\ Onward))
  \/ Off /\ inbox' = <<>> /\ UNCHANGED offer

LEMMA EprLateLapse == ASSUME Got(epr), Paired, EprLate PROVE Lapse
<1>1. CASE /\ cb.late \in {"PPS_Probe_Failed", "EPR_SinkCap_Done"}
           /\ Continue /\ Unasked
  BY <1>1, ContinueOnward, UnaskedDeaf DEF Lapse, Paired, Mild, SetupEnds
<1>2. CASE EprClosed([epr EXCEPT !.exits = 0]) /\ Unasked
  BY <1>2, CountersCopy, EprClosedOff, UnaskedDeaf DEF Lapse
<1>3. CASE EprExit(epr) /\ Unasked
  BY <1>3, CountersCopy, EprExitOff, UnaskedDeaf DEF Lapse
<1>4. CASE CapsTimeout
  <2>1. CASE epr.got # "none" /\ AwaitCaps([epr EXCEPT !.retry = @ + 1])
             /\ \E m : AskChunk(m)
    BY <2>1, CountersCopy, AwaitCapsListens, AskChunkHush DEF Lapse
  <2>2. CASE Unasked /\ EprExit([epr EXCEPT !.report =
                                   IF epr.got = "none" THEN @ ELSE "partial"])
    BY <2>2, CountersCopy, EprExitOff, UnaskedDeaf DEF Lapse
  <2> QED BY <1>4, <2>1, <2>2 DEF CapsTimeout
<1> QED BY <1>1, <1>2, <1>3, <1>4 DEF EprLate

LEMMA EprTxFailedFailure ==
  ASSUME Got(epr), Paired, EprTxFailed PROVE Failure
<1>1. CASE /\ cb.fail \in {"PPS_Probe_Failed", "EPR_SinkCap_TxFailed"}
           /\ Continue
  BY <1>1, ContinueOnward DEF Failure, Paired, Mild, SetupEnds
<1>2. CASE EprClosed(epr) \/ EprExit(epr)
  BY <1>2, CountersCopy, EprClosedOff, EprExitOff DEF Failure
<1> QED BY <1>1, <1>2 DEF EprTxFailed

-----------------------------------------------------------------------------
(* Probe *)

LEMMA SendGetWalking ==
  ASSUME Got(epr), NEW STATE p, SendGet(p) PROVE Walking /\ Steady
<1>1. Hush
  BY SendsHush DEF SendGet, Queue, Loaded
<1>2. cb'.rx \in Setup
  BY AwaitRx DEF SendGet, Setup
<1> QED BY <1>1, <1>2, CountersCopy, CopyKept, EprFrameSteady
      DEF SendGet, Walking

LEMMA SendNextOnward ==
  ASSUME Got(epr), NEW STATE p, SendNext(p) PROVE Onward /\ Steady
  BY SendGetWalking, ContinueOnward DEF SendNext, Onward

LEMMA ProbeDeliveredTurn ==
  ASSUME NEW m, Ready(m), ProbeDelivered(m) PROVE Turn(m)
<1>0. Got(epr) /\ cb.rx \in Setup
  BY DEF Ready, ProbeDelivered, Setup
<1>1. ASSUME NEW rx \in Setup, NEW fail, NEW late, Await(rx, fail, late), Hush,
             UNCHANGED <<epr, eprFrame>>
      PROVE Onward /\ Steady
  BY <1>0, <1>1, AwaitRx, CountersCopy, CopyKept, EprFrameSteady
     DEF Onward, Walking
<1>2. CASE Unrelated(m)
  BY <1>0, <1>1, <1>2, SendNoneHush, UnaskedDeaf DEF Unrelated, Turn, Setup
<1>3. CASE FirstChunk(m)
  <2>1. Deaf
    BY <1>3 DEF FirstChunk, AskChunk, Num, Message, Deaf
  <2> QED BY <1>0, <1>1, <1>3, <2>1, AskChunkHush DEF FirstChunk, Turn, Setup
<1>4. CASE Response(m)
  BY <1>0, <1>4, SendNextOnward, UnaskedDeaf DEF Response, Turn
<1>5. CASE m.k = "eprcaps0" /\ CapsDelivered(m)
  BY <1>0, <1>5, CapsDeliveredCollects DEF Turn
<1>6. CASE SendNext([NextStep EXCEPT !.quiet = 0]) /\ Unasked
  BY <1>0, <1>6, SendNextOnward, UnaskedDeaf DEF Turn
<1> QED BY <1>2, <1>3, <1>4, <1>5, <1>6 DEF ProbeDelivered

LEMMA ProbeLateLapse == ASSUME Got(epr), Paired, ProbeLate PROVE Lapse
<1>1. cb.rx \in Setup
  BY DEF ProbeLate, NoAnswer, NoChunk, Paired, Mild, SetupEnds
<1>2. Onward /\ Steady
  BY SendNextOnward, ContinueOnward DEF ProbeLate, NoAnswer, NoChunk
<1> QED BY <1>1, <1>2, UnaskedDeaf DEF ProbeLate, Lapse

LEMMA ProbeTxFailedFailure ==
  ASSUME Got(epr), Paired, ProbeTxFailed PROVE Failure
<1>1. cb.rx \in Setup
  BY DEF ProbeTxFailed, Paired, Mild, SetupEnds
<1> DEFINE v == Forgotten(vdm)
<1>2. \/ Rest /\ SendNone /\ Abort /\ UNCHANGED <<epr, offer>>
      \/ EprEnter(epr, v, offer, FALSE) /\ UNCHANGED eprFrame
  BY DEF ProbeTxFailed
<1> HIDE DEF v
<1>3. CASE Rest /\ SendNone /\ Abort /\ UNCHANGED <<epr, offer>>
  BY <1>3, CountersCopy, CopyKept, SendNoneHush, RestRx, NoSpot
     DEF Abort, Off, Failure
<1>4. CASE EprEnter(epr, v, offer, FALSE) /\ UNCHANGED eprFrame
  BY <1>1, <1>4, CountersCopy, EprEnterOnward, EprFrameSteady DEF Failure
<1> QED BY <1>2, <1>3, <1>4

-----------------------------------------------------------------------------
(* Vdm *)

\* Handlers that leave epr alone
LEMMA SameKept == ASSUME Got(epr), UNCHANGED epr PROVE Kept
  BY CountersCopy, CopyKept

LEMMA FinishOff ==
  ASSUME Got(epr), UNCHANGED epr, NEW STATE v, NEW result, Finish(v, result)
  PROVE Off
  BY SameKept, NoTxKind, RestRx, NoSpot DEF Finish, Hush, Off

LEMMA AwaitOff ==
  ASSUME Kept, Hush, NEW rx, rx \notin Spots, NEW fail, fail \notin SetupEnds,
         NEW late, late \notin SetupEnds, Await(rx, fail, late)
  PROVE Off
  BY AwaitRx DEF Off

LEMMA ModesNextOff ==
  ASSUME Got(epr), UNCHANGED epr, NEW STATE v, ModesNext(v) PROVE Off
<1>1. CASE Queue(Num("modes", v.index)) /\ Await("RX_VDM", "ModeTimeout", "ModeTimeout")
  <2>1. Hush
    BY <1>1, SendsHush DEF Queue, Loaded
  <2> QED BY <1>1, <2>1, SameKept, AwaitOff, NoSpot DEF SetupEnds
<1> QED BY <1>1, FinishOff DEF ModesNext

LEMMA DiscoverOff ==
  ASSUME Got(epr), UNCHANGED epr, NEW STATE v, DiscoverSvidsOf(v) PROVE Off
<1>1. Hush
  BY SendsHush DEF DiscoverSvidsOf, Queue, Loaded
<1> QED BY <1>1, SameKept, AwaitOff, NoSpot DEF DiscoverSvidsOf, SetupEnds

LEMMA TakenOff ==
  ASSUME Kept, Hush, WireTyped, Mild, cb' = Taken PROVE Off
  BY TakenRx, NoSpot DEF Off

LEMMA RxVdmOff ==
  ASSUME Got(epr), WireTyped, Mild, NEW m, RxVdm(m) PROVE Off /\ Steady
<1>1. UNCHANGED epr /\ Kept /\ Steady
  BY SameKept, FrameSteady DEF RxVdm, vdmFrame
<1>2. CASE cb' = Taken /\ SendNone
  BY <1>1, <1>2, TakenOff, SendNoneHush
<1>3. CASE RxAnswer(m)
  BY <1>1, <1>3, FinishOff, ModesNextOff, DiscoverOff DEF RxAnswer
<1>4. CASE /\ Queue(Msg("vdmreply"))
           /\ cb' = Callbacks(Null, "IDLE", "TX_SoftRst", Null)
  <2>1. Hush
    BY <1>4, SendsHush DEF Queue, Loaded
  <2>2. cb'.rx = "IDLE" /\ Mild'
    BY <1>4 DEF Callbacks, Mild, SetupEnds, Null
  <2> QED BY <1>1, <2>1, <2>2, NoSpot DEF Off
<1>5. CASE Finish(vdm, "refused")
  BY <1>1, <1>5, FinishOff
<1> QED BY <1>1, <1>2, <1>3, <1>4, <1>5 DEF RxVdm, RxRequest, Taken

LEMMA VdmTimedOff ==
  ASSUME Got(epr), VdmLate \/ VdmTxFailed PROVE Off /\ Steady
<1>1. UNCHANGED epr /\ Steady
  BY FrameSteady DEF VdmLate, VdmTxFailed, vdmFrame
<1> DEFINE v == [vdm EXCEPT !.index = @ + 1]
<1>2. Finish(vdm, "noresponse") \/ ModesNext(v)
  BY DEF VdmLate, VdmTxFailed
<1> HIDE DEF v
<1> QED BY <1>1, <1>2, FinishOff, ModesNextOff

LEMMA VdmTickLapse == ASSUME Got(epr), Paired, VdmTick PROVE Lapse
<1>1. Kept /\ Steady /\ Deaf
  BY SameKept, FrameSteady, UnaskedDeaf DEF VdmTick, vdmFrame
<1>2. CASE SendNone /\ UNCHANGED cb
  BY <1>1, <1>2, SendNoneHush DEF Lapse, Staying, Paired, Mild
<1>3. CASE /\ SendNow(Msg("ident"))
           /\ Await("RX_VDM", "pDiscIdent_TxFailed", "pDiscIdent_NoResponse")
  <2>1. Hush
    BY <1>3, SendsHush DEF SendNow, Loaded
  <2>2. Off
    BY <1>1, <1>3, <2>1, AwaitOff, NoSpot DEF SetupEnds
  <2> QED BY <1>1, <2>2 DEF Lapse
<1> QED BY <1>2, <1>3 DEF VdmTick

-----------------------------------------------------------------------------
(* Request *)

LEMMA TxRequestAsking ==
  ASSUME Kept, NEW STATE r, NEW o, TxRequest(r, o) PROVE Asking
<1>1. Hush /\ now'
  BY SendsHush DEF TxRequest, SendNow, Loaded
<1>2. cb'.rx = "RX_Accept" /\ Mild'
  BY AwaitRx DEF TxRequest, SetupEnds
<1> QED BY <1>1, <1>2 DEF Asking

LEMMA RequestFailedOff == ASSUME Kept, RequestFailed PROVE Off
  BY SendNoneHush, RestRx, NoSpot DEF RequestFailed, Off

LEMMA HardResetDeaf ==
  ASSUME NEW STATE c, HardReset(c) PROVE Deaf /\ Hush /\ cb' = c
  BY SendNoneHush DEF HardReset, Deaf, Msg, Message

LEMMA TakenResetOff ==
  ASSUME Kept, WireTyped, Mild, HardReset(Taken) PROVE Off /\ Deaf
  BY HardResetDeaf, TakenOff

\* Its timeout keeps the handler
LEMMA LateResetStaying ==
  ASSUME Kept, WireTyped, Paired, HardReset([cb EXCEPT !.late = Null])
  PROVE Staying /\ Deaf
<1> DEFINE c == [cb EXCEPT !.late = Null]
<1>1. cb' = c /\ Hush /\ Deaf
  BY HardResetDeaf
<1>2. c.rx = cb.rx /\ c.fail = cb.fail /\ c.late = Null
  BY DEF WireTyped, Callbacks
<1> HIDE DEF c
<1> QED BY <1>1, <1>2 DEF Staying, Paired, Mild, SetupEnds, Null

LEMMA RearmTurn ==
  ASSUME Kept, WireTyped, Mild, cb.rx \in Negotiating,
         NEW rx \in Negotiating, NEW late, late \notin SetupEnds,
         Rearm(rx, late)
  PROVE (Off \/ Waiting) /\ Deaf
<1>1. CASE Await(rx, Null, late) /\ SendNone /\ Unasked
  <2>1. cb'.rx = rx /\ Mild'
    BY <1>1, AwaitRx DEF SetupEnds, Null
  <2> QED BY <1>1, <2>1, SendNoneHush, UnaskedDeaf DEF Waiting
<1>2. CASE RequestFailed /\ Unasked
  BY <1>2, RequestFailedOff, UnaskedDeaf
<1>3. CASE HardReset(Taken)
  BY <1>3, TakenResetOff
<1> QED BY <1>1, <1>2, <1>3 DEF Rearm

LEMMA RxAcceptTurn ==
  ASSUME WireTyped, NEW m, m.k = "caps" => m.o \in Offers, Ready(m), RxAccept(m)
  PROVE Turn(m)
<1>1. Kept /\ cb.rx \in Negotiating /\ Mild /\ settle' = settle
  BY SameKept DEF RxAccept, Ready, reqFrame, Negotiating, Paired, Setup
<1>2. CASE Await("RX_PS_RDY", Null, "PS_RDY_Failed") /\ SendNone /\ Unasked
           /\ UNCHANGED offer
  <2>1. cb'.rx \in Negotiating /\ Mild'
    BY <1>2, AwaitRx DEF SetupEnds, Null, Negotiating
  <2> QED BY <1>1, <1>2, <2>1, SendNoneHush, UnaskedDeaf
        DEF Waiting, Turn, Steady
<1>3. CASE m.k = "caps" /\ offer' = [now |-> m.o, held |-> m.o]
           /\ TxRequest(req, m.o) /\ Unasked
  BY <1>1, <1>3, TxRequestAsking, UnaskedDeaf DEF Turn, Steady
<1>4. CASE RequestFailed /\ Unasked /\ UNCHANGED offer
  BY <1>1, <1>4, RequestFailedOff, UnaskedDeaf DEF Turn, Steady
<1>5. CASE Rearm("RX_Accept", "Request_Failed") /\ UNCHANGED offer
  <2>1. (Off \/ Waiting) /\ Deaf
    BY <1>1, <1>5, RearmTurn DEF Negotiating, SetupEnds
  <2> QED BY <1>1, <1>5, <2>1 DEF Turn, Steady
<1> QED BY <1>2, <1>3, <1>4, <1>5 DEF RxAccept

LEMMA EstablishedOnward ==
  ASSUME Got(epr), Established PROVE Onward /\ Steady
<1>1. Steady
  BY FrameSteady DEF Established
<1>2. CASE EprEnter(epr, vdm, offer, FALSE)
  BY <1>1, <1>2, CountersCopy, EprEnterOnward
<1>3. CASE Rest /\ SendNone /\ UNCHANGED epr
  BY <1>1, <1>3, SameKept, SendNoneHush, RestRx, NoSpot DEF Off, Onward
<1>4. CASE ProbeStart
  <2>1. CASE Rest /\ SendNone /\ UNCHANGED epr
    BY <1>1, <2>1, SameKept, SendNoneHush, RestRx, NoSpot DEF Off, Onward
  <2>2. CASE /\ epr' = [epr EXCEPT !.sinkcap = FALSE] /\ Queue(Num("get", 1))
             /\ Await("InfoProbe_RX", "InfoProbe_TxFailed", "InfoProbe_RxTimeout")
    <3>1. Kept /\ Hush
      BY <2>2, CountersCopy, CopyKept, SendsHush DEF Queue, Loaded
    <3> QED BY <1>1, <2>2, <3>1, AwaitRx DEF Walking, Onward, Setup
  <2> QED BY <1>4, <2>1, <2>2 DEF ProbeStart
<1> QED BY <1>2, <1>3, <1>4 DEF Established

LEMMA RxPsRdyTurn ==
  ASSUME WireTyped, NEW m, Ready(m), RxPsRdy(m) PROVE Turn(m)
<1>1. Got(epr) /\ cb.rx \in Negotiating /\ Mild
  BY DEF RxPsRdy, Ready, Negotiating, Paired, Setup
<1>2. CASE m.k = "psrdy" /\ PostTx /\ Established /\ Unasked
  BY <1>1, <1>2, EstablishedOnward, UnaskedDeaf DEF Turn, PostTx, RxPsRdy
<1>3. ASSUME UNCHANGED <<reqFrame, contract, offer>> PROVE Kept /\ Steady
  BY <1>1, <1>3, SameKept, FrameSteady DEF reqFrame
<1>4. CASE RequestFailed /\ Unasked /\ UNCHANGED <<reqFrame, contract, offer>>
  BY <1>3, <1>4, RequestFailedOff, UnaskedDeaf DEF Turn
<1>5. CASE /\ Rearm("RX_PS_RDY", "PS_RDY_Failed")
           /\ UNCHANGED <<reqFrame, contract, offer>>
  <2>1. (Off \/ Waiting) /\ Deaf
    BY <1>1, <1>3, <1>5, RearmTurn DEF Negotiating, SetupEnds
  <2> QED BY <1>3, <1>5, <2>1 DEF Turn
<1> QED BY <1>2, <1>4, <1>5 DEF RxPsRdy

LEMMA RequestLateLapse ==
  ASSUME WireTyped, Got(epr), Paired, RequestLate \/ HardResetLate PROVE Lapse
<1>1. Kept /\ Steady
  BY SameKept, FrameSteady DEF RequestLate, HardResetLate, reqFrame
<1>2. CASE RequestFailed /\ Unasked
  BY <1>1, <1>2, RequestFailedOff, UnaskedDeaf DEF Lapse
<1>3. CASE HardReset([cb EXCEPT !.late = Null])
  BY <1>1, <1>3, LateResetStaying DEF Lapse
<1> QED BY <1>2, <1>3 DEF RequestLate, HardResetLate

LEMMA RequestTxFailedFailure ==
  ASSUME Got(epr), RequestTxFailed PROVE Failure
  BY SameKept, FrameSteady, RequestFailedOff
     DEF RequestTxFailed, reqFrame, Failure

\* A set that becomes EPR capable under a contract goes on to EPR mode at
\* once: not here
NoUpgrade == EprCapable \in {{}, Offers}

LEMMA OfferReceivedOff ==
  ASSUME NoUpgrade, NEW o \in Offers, NEW first, NEW STATE e0, Copies(e0),
         NEW STATE p0, NEW STATE r, NEW STATE v, NEW STATE c,
         c => offer.held \in Offers,
         OfferReceived(o, first, e0, p0, r, v, c)
  PROVE /\ Off \/ Asking
        /\ offer'.held = offer.held \/ offer'.held \in Offers
        /\ c => settle' = settle
<1> DEFINE new == Restarted(p0, o, first)
           e == IF new THEN [e0 EXCEPT !.done = FALSE] ELSE e0
           p == IF new THEN [p0 EXCEPT !.probed = NoOffer, !.done = FALSE]
                       ELSE p0
<1>1. Copies(e)
  BY DEF Copies, Got
<1>2. \/ c /\ UnderContract(e, p, v, o, r)
      \/ ~c /\ FirstOffer(e, v, o, r)
  BY DEF OfferReceived
<1> HIDE DEF e, p
<1>3. CASE c /\ UnderContract(e, p, v, o, r)
  <2>1. ~Upgrade(e, v, o)
    BY <1>3 DEF Upgrade, NoUpgrade
  <2>2. offer'.held = o /\ (Hold(e, p, v, o) \/ Renegotiate(e, p, v, o, r))
    BY <1>3, <2>1 DEF UnderContract
  <2>3. Kept
    BY <1>1, <2>2, CopyKept DEF Hold, Renegotiate
  <2>4. CASE Hold(e, p, v, o)
    BY <1>3, <2>2, <2>3, <2>4, SendNoneHush, RestRx, NoSpot DEF Hold, Off
  <2>5. CASE Renegotiate(e, p, v, o, r)
    BY <1>3, <2>2, <2>3, <2>5, TxRequestAsking DEF Renegotiate
  <2> QED BY <2>2, <2>4, <2>5
<1>4. CASE ~c /\ FirstOffer(e, v, o, r)
  <2>1. offer'.held \in {offer.held, o}
    BY <1>4 DEF FirstOffer
  <2>2. Muted(e, v, r) \/ Ask(e, v, o, r)
    BY <1>4 DEF FirstOffer
  <2>3. Kept
    BY <1>1, <2>2, CopyKept DEF Muted, Ask
  <2>4. CASE Muted(e, v, r)
    BY <1>4, <2>1, <2>3, <2>4, SendNoneHush, RestRx, NoSpot DEF Muted, Off
  <2>5. CASE Ask(e, v, o, r)
    BY <1>4, <2>1, <2>3, <2>5, TxRequestAsking DEF Ask
  <2> QED BY <2>2, <2>4, <2>5
<1> QED BY <1>2, <1>3, <1>4

LEMMA OfferInOffers ==
  ASSUME NEW m, m.k = "caps" => m.o \in Offers PROVE OfferIn(m) \in Offers
  BY OfferAssumption DEF OfferIn

LEMMA RxSrcCapTurn ==
  ASSUME NoUpgrade, NEW m, m.k = "caps" => m.o \in Offers,
         NEW STATE e, Copies(e),
         contract => offer.held \in Offers, RxSrcCap(m, e)
  PROVE Turn(m)
<1>1. PICK first : OfferReceived(OfferIn(m), first, e, probe, req, vdm, contract)
  BY DEF RxSrcCap
<1>2. /\ Off \/ Asking
      /\ offer'.held = offer.held \/ offer'.held \in Offers
      /\ contract => settle' = settle
  BY <1>1, OfferReceivedOff, OfferInOffers
<1>3. settle' = settle
  BY <1>2 DEF RxSrcCap
<1> QED BY <1>2, <1>3, UnaskedDeaf DEF RxSrcCap, Turn, Steady

LEMMA OfferDeliveredTurn ==
  ASSUME NoUpgrade, NEW m, m.k = "caps" => m.o \in Offers, Ready(m),
         contract => offer.held \in Offers, OfferDelivered(m)
  PROVE Turn(m)
<1>1. Got(epr)
  BY DEF Ready
<1>2. ASSUME RxSrcCap(m, epr) \/ RxSrcCap(m, [epr EXCEPT !.exits = 0])
      PROVE Turn(m)
  BY <1>1, <1>2, RxSrcCapTurn, CountersCopy
<1>3. CASE /\ offer' = [now |-> m.o, held |-> m.o] /\ m.k = "caps"
           /\ TxRequest(req, m.o) /\ epr' = [epr EXCEPT !.pps = TRUE]
           /\ Unasked /\ UNCHANGED settle
  BY <1>1, <1>3, CountersCopy, CopyKept, TxRequestAsking, UnaskedDeaf
     DEF Turn, Steady
<1> QED BY <1>2, <1>3 DEF OfferDelivered

LEMMA AnswerSoftResetOff ==
  ASSUME NEW STATE p, NEW STATE e, Copies(e), NEW STATE v,
         AnswerSoftReset(p, e, v)
  PROVE Off /\ Deaf /\ Steady /\ inbox' = <<>>
<1>1. Kept /\ Hush
  BY CopyKept, SendsHush DEF AnswerSoftReset, Queue, Loaded
<1>2. cb'.rx = "IDLE" /\ Mild'
  BY DEF AnswerSoftReset, Callbacks, Mild, SetupEnds, Null
<1> QED BY <1>1, <1>2, NoSpot, UnaskedDeaf
      DEF AnswerSoftReset, Abort, Off, Steady

LEMMA SoftResetReceivedTurn ==
  ASSUME Got(epr), NEW m, SoftResetReceived PROVE Turn(m) /\ inbox' = <<>>
<1>1. \E p, v : \/ AnswerSoftReset(p, epr, v)
                \/ AnswerSoftReset(p, [epr EXCEPT !.resets = 0, !.buf = FALSE], v)
  BY DEF SoftResetReceived
<1> QED BY <1>1, CountersCopy, AnswerSoftResetOff DEF Turn

LEMMA SrcCapSoftResetTurn ==
  ASSUME Got(epr), NEW m, SrcCapSoftReset, Unasked PROVE Turn(m)
<1> DEFINE e == [epr EXCEPT !.resets = @ + 1, !.buf = FALSE]
<1>1. Hush
  BY SendsHush DEF SrcCapSoftReset, SendNow, Loaded
<1>2. Copies(e) /\ AwaitCaps(e)
  BY CountersCopy DEF SrcCapSoftReset
<1> HIDE DEF e
<1> QED BY <1>1, <1>2, AwaitCapsListens, UnaskedDeaf DEF SrcCapSoftReset, Turn

LEMMA TxSoftResetOff ==
  ASSUME Got(epr), TxSoftReset PROVE Off /\ Steady
<1>1. Kept /\ Hush
  BY SameKept, SendsHush DEF TxSoftReset, Queue, Loaded
<1>2. Off
  BY <1>1, AwaitOff, NoSpot DEF TxSoftReset, SetupEnds, Null
<1> QED BY <1>2 DEF TxSoftReset, Steady

LEMMA WaitSrcCapRx == ASSUME WaitSrcCap PROVE cb'.rx = "RX_SrcCap" /\ Mild'
  BY AwaitRx DEF WaitSrcCap, SetupEnds, Null

LEMMA SoftResetAnsweredTurn ==
  ASSUME WireTyped, NEW m, Ready(m), SoftResetAnswered(m) PROVE Turn(m)
<1>1. Kept /\ Steady /\ Mild
  BY SameKept, FrameSteady
     DEF SoftResetAnswered, reqFrame, Ready, Paired, Setup
<1>2. CASE WaitSrcCap /\ SendNone /\ Unasked
  BY <1>1, <1>2, WaitSrcCapRx, SendNoneHush, NoSpot, UnaskedDeaf DEF Off, Turn
<1>3. CASE HardReset(Taken)
  BY <1>1, <1>3, TakenResetOff DEF Turn
<1> QED BY <1>2, <1>3 DEF SoftResetAnswered

LEMMA IdleControlTurn ==
  ASSUME WireTyped, Mild, Kept, NEW m, IdleControl(m) PROVE Off /\ Deaf
<1>1. CASE cb' = Taken /\ SendNone /\ Unasked
  BY <1>1, SendNoneHush, TakenOff, UnaskedDeaf
<1>2. CASE Reply /\ Unasked
  <2>1. Hush
    BY <1>2, SendsHush DEF Reply, SendNow, Loaded
  <2> QED BY <1>2, <2>1, TakenOff, UnaskedDeaf DEF Reply
<1>3. CASE HardReset(Taken)
  BY <1>3, TakenResetOff
<1>4. CASE cb' = Taken /\ AskChunk(Num("chunkinfo", m.n))
  <2>1. Deaf
    BY <1>4 DEF AskChunk, Num, Message, Deaf
  <2> QED BY <1>4, <2>1, AskChunkHush, TakenOff
<1> QED BY <1>1, <1>2, <1>3, <1>4 DEF IdleControl, Ignored

LEMMA IdleDeliveredTurn ==
  ASSUME WireTyped, NEW m, Ready(m), IdleDelivered(m) PROVE Turn(m)
<1>1. Got(epr) /\ Mild
  BY DEF Ready, IdleDelivered, Paired, Setup
<1>2. CASE Quarantined(m) /\ Unasked
  BY <1>1, <1>2, SameKept, RestRx, SendNoneHush, NoSpot, FrameSteady,
     UnaskedDeaf DEF Quarantined, Off, Turn
<1>3. CASE m.k = "eprcaps0" /\ CapsDelivered(m)
  BY <1>1, <1>3, CapsDeliveredCollects DEF Turn
<1>4. CASE TxSoftReset /\ Unasked
  BY <1>1, <1>4, TxSoftResetOff, UnaskedDeaf DEF Turn
<1>5. CASE RxVdm(m) /\ Unasked
  BY <1>1, <1>5, RxVdmOff, UnaskedDeaf DEF Turn
<1>6. CASE IdleControl(m) /\ UNCHANGED <<reqFrame, req, contract, offer>>
  <2>1. Kept /\ Steady
    BY <1>1, <1>6, SameKept, FrameSteady DEF reqFrame
  <2> QED BY <1>1, <1>6, <2>1, IdleControlTurn DEF Turn
<1> QED BY <1>2, <1>3, <1>4, <1>5, <1>6 DEF IdleDelivered, Idle

LEMMA NoHandlerTurn ==
  ASSUME NoUpgrade, NEW m, m.k = "caps" => m.o \in Offers, Ready(m),
         contract => offer.held \in Offers, NoHandler(m)
  PROVE Turn(m)
<1>1. Got(epr) /\ Mild /\ cb.rx \notin Spots
  BY NoSpot DEF Ready, NoHandler, Paired, Spots, Null
<1>2. CASE RxSrcCap(m, epr)
  BY <1>1, <1>2, RxSrcCapTurn, CountersCopy
<1>3. CASE /\ SendNow(Msg("accept")) \/ SendNone
           /\ UNCHANGED cb /\ Unasked /\ UNCHANGED policyVars
  <2>1. Kept /\ Steady
    BY <1>1, <1>3, SameKept, FrameSteady DEF policyVars, eprFrame
  <2>2. Hush
    BY <1>3, SendsHush, SendNoneHush DEF SendNow, Loaded
  <2> QED BY <1>1, <1>3, <2>1, <2>2, UnaskedDeaf DEF Off, Turn, Mild
<1> QED BY <1>2, <1>3 DEF NoHandler

LEMMA HandleTurn ==
  ASSUME WireTyped, NoUpgrade, NEW m, m.k = "caps" => m.o \in Offers, Ready(m),
         contract => offer.held \in Offers, Handle(m)
  PROVE Turn(m)
<1>1. CASE m.k = "softreset" /\ SrcCapSoftReset /\ Unasked
  BY <1>1, SrcCapSoftResetTurn DEF Ready
<1>2. CASE VdmDelivered(m) /\ Unasked
  BY <1>2, RxVdmOff, UnaskedDeaf DEF VdmDelivered, Ready, Paired, Setup, Turn
<1> QED BY <1>1, <1>2, EprDeliveredTurn, ProbeDeliveredTurn, RxAcceptTurn,
      RxPsRdyTurn, SoftResetAnsweredTurn, OfferDeliveredTurn,
      IdleDeliveredTurn, NoHandlerTurn DEF Handle

LEMMA AttachAndOfferTurn ==
  ASSUME NoUpgrade, NEW m, m.k = "caps" => m.o \in Offers, Got(epr),
         AttachAndOffer(m)
  PROVE Turn(m) /\ inbox' = <<>>
<1>1. PICK first, p, r, v : OfferReceived(OfferIn(m), first, epr, p, r, v, FALSE)
  BY DEF AttachAndOffer
<1>2. /\ Off \/ Asking
      /\ offer'.held = offer.held \/ offer'.held \in Offers
  BY <1>1, OfferReceivedOff, OfferInOffers, CountersCopy
<1> QED BY <1>2, UnaskedDeaf DEF AttachAndOffer, Abort, Turn, Steady

LEMMA SameStaying ==
  ASSUME Kept, Paired, SendNone, UNCHANGED cb PROVE Staying
  BY SendNoneHush DEF Staying, Paired, Mild

LEMMA GuardTickLapse == ASSUME Got(epr), Paired, GuardTick PROVE Lapse
<1>1. Kept /\ Steady /\ Deaf
  BY SameKept, FrameSteady, UnaskedDeaf DEF GuardTick
<1>2. CASE SendNone /\ UNCHANGED cb
  BY <1>1, <1>2, SameStaying DEF Lapse
<1>3. CASE TxRequest(req, offer.now)
  BY <1>1, <1>3, TxRequestAsking DEF Lapse
<1> QED BY <1>2, <1>3 DEF GuardTick

\* The pause before Sink_Capabilities is over
SettleOver == settle /\ Onward /\ ~settle'

LEMMA SettleTickLapse ==
  ASSUME Got(epr), Paired, SettleTick PROVE (Lapse \/ SettleOver) /\ Deaf /\ Steady
<1>1. Deaf /\ Steady
  BY UnaskedDeaf DEF SettleTick, Steady
<1>2. CASE SendNone /\ UNCHANGED <<cb, epr>>
  BY <1>1, <1>2, SameKept, SameStaying DEF Lapse
<1>3. CASE settle' = FALSE /\ EprEnter(epr, vdm, offer, FALSE)
  BY <1>1, <1>3, CountersCopy, EprEnterOnward DEF SettleTick, SettleOver
<1> QED BY <1>1, <1>2, <1>3 DEF SettleTick

LEMMA TimeoutLapse ==
  ASSUME WireTyped, Got(epr), Paired, Timeout PROVE Lapse
<1>1. CASE cb.late = Null /\ SendNone /\ Unasked /\ UNCHANGED <<cb, policyVars>>
  <2>1. Kept /\ Steady
    BY <1>1, SameKept, FrameSteady DEF policyVars, eprFrame
  <2> QED BY <1>1, <2>1, SameStaying, UnaskedDeaf DEF Lapse
<1>2. CASE VdmLate
  BY <1>2, VdmTimedOff, UnaskedDeaf DEF VdmLate, Lapse
<1> QED BY <1>1, <1>2, EprLateLapse, ProbeLateLapse, RequestLateLapse
      DEF Timeout

LEMMA TransmitFailedFailure ==
  ASSUME Got(epr), Paired, TransmitFailed
  PROVE Failure /\ (Overtaken \/ Abort)
<1>1. CASE /\ cb.fail = "TX_SoftRst" /\ TxSoftReset /\ Overtaken
  BY <1>1, TxSoftResetOff DEF Failure
<1>2. CASE /\ SendNone /\ Overtaken /\ UNCHANGED <<cb, waitRx, policyVars>>
  <2>1. Kept /\ Steady
    BY <1>2, SameKept, FrameSteady DEF policyVars, eprFrame
  <2> QED BY <1>2, <2>1, SameStaying DEF Failure
<1>3. CASE EprTxFailed
  BY <1>3, EprTxFailedFailure DEF EprTxFailed
<1>4. CASE ProbeTxFailed
  BY <1>4, ProbeTxFailedFailure DEF ProbeTxFailed
<1>5. CASE VdmTxFailed
  BY <1>5, VdmTimedOff DEF VdmTxFailed, Failure
<1>6. CASE RequestTxFailed
  BY <1>6, RequestTxFailedFailure DEF RequestTxFailed
<1> QED BY <1>1, <1>2, <1>3, <1>4, <1>5, <1>6 DEF TransmitFailed

-----------------------------------------------------------------------------
(* The ring, and what the charger still owes                               *)

LEMMA HasEmpty ==
  ASSUME NEW J, NEW K PROVE ~Has(<<>>, K) /\ ~Precedes(<<>>, J, K)
  BY DEF Has, Precedes

LEMMA HasTail ==
  ASSUME NEW b \in Seq(Packet), b # <<>>, NEW J, NEW K
  PROVE /\ Has(Tail(b), K) => Has(b, K)
        /\ Precedes(Tail(b), J, K) => Precedes(b, J, K)
        /\ Has(Tail(b), K) /\ Head(b).k \in J => Precedes(b, J, K)
<1> DEFINE t == Tail(b)
<1>1. /\ Len(t) = Len(b) - 1 /\ Len(b) \in Nat \ {0}
      /\ \A i \in 1..Len(t) : t[i] = b[i+1]
      /\ Head(b) = b[1]
  BY HeadTailProperties, EmptySeq, LenProperties
<1> HIDE DEF t
<1>2. ASSUME NEW i \in 1..Len(t)
      PROVE i+1 \in 1..Len(b) /\ t[i] = b[i+1] /\ 1 < i+1
  BY <1>1
<1>3. Has(t, K) => Has(b, K)
  BY <1>2 DEF Has
<1>4. ASSUME Precedes(t, J, K) PROVE Precedes(b, J, K)
  <2>1. PICK i, j \in 1..Len(t) : i < j /\ t[i].k \in J /\ t[j].k \in K
    BY <1>4 DEF Precedes
  <2>2. i+1 < j+1
    BY <2>1
  <2> QED BY <1>2, <2>1, <2>2 DEF Precedes
<1>5. ASSUME Has(t, K), Head(b).k \in J PROVE Precedes(b, J, K)
  <2>1. PICK i \in 1..Len(t) : t[i].k \in K
    BY <1>5 DEF Has
  <2>2. 1 \in 1..Len(b) /\ b[1].k \in J
    BY <1>1, <1>5
  <2> QED BY <1>2, <2>1, <2>2 DEF Precedes
<1> QED BY <1>3, <1>4, <1>5 DEF t

LEMMA HasAppend ==
  ASSUME NEW b \in Seq(Packet), NEW m \in Packet, NEW J, NEW K
  PROVE /\ Has(Append(b, m), K) => Has(b, K) \/ m.k \in K
        /\ Precedes(Append(b, m), J, K) =>
             Precedes(b, J, K) \/ (Has(b, J) /\ m.k \in K)
<1> DEFINE t == Append(b, m)
<1>1. /\ Len(t) = Len(b) + 1 /\ Len(b) \in Nat
      /\ \A i \in 1..Len(b) : t[i] = b[i]
      /\ t[Len(b)+1] = m
  BY AppendProperties, LenProperties
<1> HIDE DEF t
<1>2. \A i \in 1..Len(t) : i \in 1..Len(b) \/ i = Len(b) + 1
  BY <1>1
<1>3. Has(t, K) => Has(b, K) \/ m.k \in K
  BY <1>1, <1>2 DEF Has
<1>4. ASSUME Precedes(t, J, K)
      PROVE Precedes(b, J, K) \/ (Has(b, J) /\ m.k \in K)
  <2>1. PICK i, j \in 1..Len(t) : i < j /\ t[i].k \in J /\ t[j].k \in K
    BY <1>4 DEF Precedes
  <2>2. i \in 1..Len(b) /\ t[i] = b[i]
    BY <1>1, <2>1
  <2>3. j \in 1..Len(b) \/ j = Len(b) + 1
    BY <1>2
  <2> QED BY <1>1, <2>1, <2>2, <2>3 DEF Precedes, Has
<1> QED BY <1>3, <1>4 DEF t

LEMMA ClearTidy ==
  ASSUME NEW b, NEW k, Clear(b, k)
  PROVE Tidy(b, k) /\ Acked(b, k) /\ Clean(b, k)
  BY DEF Clear, Tidy, Acked, Clean, Has, Precedes, Chunks, Due

\* A ring nothing was added to, of a charger that owes the same or nothing of
\* the lists
Less(c, b)   == c = <<>> \/ (b # <<>> /\ c = Tail(b))
Mellow(l, k) == l = k \/ l \notin Due

LEMMA LessKeeps ==
  ASSUME NEW b \in Seq(Packet), NEW c, c = b \/ Less(c, b),
         NEW k, NEW l, Mellow(l, k)
  PROVE /\ Clear(b, k) => Clear(c, l)
        /\ Clean(b, k) => Clean(c, l)
        /\ Acked(b, k) => Acked(c, l)
        /\ Tidy(b, k) => Tidy(c, l)
<1>1. \A J, K : /\ Has(c, K) => Has(b, K)
                /\ Precedes(c, J, K) => Precedes(b, J, K)
  <2>1. CASE c = b
    BY <2>1
  <2>2. CASE c = <<>>
    BY <2>2, HasEmpty
  <2>3. CASE b # <<>> /\ c = Tail(b)
    BY <2>3, HasTail
  <2> QED BY <2>1, <2>2, <2>3 DEF Less
<1>2. Clear(b, k) => Clear(c, l)
  BY <1>1 DEF Clear, Mellow
<1>3. Clean(b, k) => Clean(c, l)
  BY <1>1 DEF Clean, Mellow, Due
<1>4. Acked(b, k) => Acked(c, l)
  BY <1>1 DEF Acked, Mellow, Due
<1>5. Tidy(b, k) => Tidy(c, l)
  BY <1>1, <1>4 DEF Tidy, Mellow, Due
<1> QED BY <1>2, <1>3, <1>4, <1>5

\* What the delivery of the first packet leaves
LEMMA LessGains ==
  ASSUME NEW b \in Seq(Packet), b # <<>>, NEW c, Less(c, b), NEW k
  PROVE /\ Head(b).k \in Acks /\ Acked(b, k) => Clean(c, k)
        /\ Head(b).k = "eprcaps0" /\ Tidy(b, k) => Tidy(c, "chunk")
<1>1. \A J, K : /\ Has(c, K) => Has(Tail(b), K)
                /\ Precedes(c, J, K) => Has(c, J) /\ Has(c, K)
  <2>1. \A K : Has(c, K) => Has(Tail(b), K)
    BY HasEmpty DEF Less
  <2>2. \A J, K : Precedes(c, J, K) => Has(c, J) /\ Has(c, K)
    BY DEF Precedes, Has
  <2> QED BY <2>1, <2>2
<1>2. \A J, K : Has(c, K) /\ Head(b).k \in J => Precedes(b, J, K)
  BY <1>1, HasTail
<1>3. ASSUME Head(b).k \in Acks, Acked(b, k) PROVE Clean(c, k)
  <2>1. ~Has(c, {"eprcaps1"})
    BY <1>2, <1>3 DEF Acked
  <2>2. Has(b, Acks)
    <3>1. 1 \in 1..Len(b) /\ Head(b) = b[1]
      BY EmptySeq, LenProperties
    <3> QED BY <1>3, <3>1 DEF Has
  <2> QED BY <1>3, <2>1, <2>2 DEF Acked, Clean
<1>4. ASSUME Head(b).k = "eprcaps0", Tidy(b, k) PROVE Tidy(c, "chunk")
  <2>1. ~Has(c, Acks)
    BY <1>2, <1>4 DEF Tidy
  <2> QED BY <1>1, <2>1 DEF Tidy, Acked
<1> QED BY <1>3, <1>4

\* A PS_RDY that no packet before its Request can be is the end of what came
\* before
LEMMA FreshGains ==
  ASSUME NEW b \in Seq(Packet), b # <<>>, NEW c, Less(c, b), NEW k,
         Head(b).k = "psrdy", Fresh(b, 0, k)
  PROVE Clear(c, k)
<1>1. 1 \in 1..Len(b) /\ Head(b) = b[1] /\ 0+1 = 1 /\ 1+1 = 2
  BY EmptySeq, LenProperties
<1>2. k \notin Due /\ \A j \in 2..Len(b) : b[j].k \notin Chunks
  BY <1>1 DEF Fresh
<1>3. ~Has(c, Chunks)
  <2>1. CASE c = <<>>
    BY <2>1, HasEmpty
  <2>2. CASE c = Tail(b)
    <3>1. Len(c) = Len(b) - 1 /\ \A i \in 1..Len(c) : c[i] = b[i+1]
      BY <2>2, HeadTailProperties
    <3>2. Len(b) \in Nat
      BY LenProperties
    <3>3. \A i \in 1..Len(c) : i+1 \in 2..Len(b)
      BY <3>1, <3>2
    <3> QED BY <1>2, <3>1, <3>3 DEF Has
  <2> QED BY <2>1, <2>2 DEF Less
<1> QED BY <1>2, <1>3 DEF Clear

LEMMA FreshTail ==
  ASSUME NEW b \in Seq(Packet), b # <<>>, NEW n \in Nat, NEW k, NEW l,
         Mellow(l, k), Fresh(b, n, k)
  PROVE Fresh(Tail(b), IF n = 0 THEN 0 ELSE n-1, l)
<1> DEFINE t == Tail(b)
           p == IF n = 0 THEN 0 ELSE n-1
<1>1. /\ Len(t) = Len(b) - 1 /\ Len(b) \in Nat
      /\ \A i \in 1..Len(t) : t[i] = b[i+1]
  BY HeadTailProperties, LenProperties
<1>2. p \in Nat /\ n <= p+1
  OBVIOUS
<1> HIDE DEF t, p
<1> SUFFICES ASSUME NEW i \in p+1..Len(t), t[i].k = "psrdy"
             PROVE l \notin Due /\ \A j \in i+1..Len(t) : t[j].k \notin Chunks
  BY DEF Fresh, t, p
<1>3. i+1 \in n+1..Len(b) /\ b[i+1].k = "psrdy"
  BY <1>1, <1>2
<1>4. k \notin Due /\ \A j \in i+1+1..Len(b) : b[j].k \notin Chunks
  BY <1>3 DEF Fresh
<1>5. \A j \in i+1..Len(t) : j+1 \in i+1+1..Len(b) /\ t[j] = b[j+1]
  BY <1>1, <1>2
<1> QED BY <1>4, <1>5 DEF Mellow

LEMMA FreshEnd ==
  ASSUME NEW b \in Seq(Packet), NEW k
  PROVE Fresh(b, Len(b), k) /\ Fresh(<<>>, 0, k)
<1>1. Len(b) \in Nat
  BY LenProperties
<1> QED BY <1>1 DEF Fresh

\* What the charger may say of the lists, and to what
Owed(q, a) ==
  /\ a.m.k \in Acks => q.k \in {"eprenter", "entering"}
  /\ a.m.k = "eprcaps0" => q.k = "entered"
  /\ a.m.k = "eprcaps1" => q.k = "chunk"
  /\ a.m.k \in Chunks \cup {"psrdy"} => a.then.k = "none"
  /\ a.then.k \in {"entering", "entered"} => q.k \in {"eprenter", "entering"}
  /\ a.then.k \notin {"chunk", "eprenter"}

LEMMA AnswerOwed == ASSUME NEW q, NEW a \in Answers(q) PROVE Owed(q, a)
<1> DEFINE Plainly == Kinds \ (Acks \cup Chunks)
<1>1. ASSUME NEW k \in Plainly PROVE Owed(q, Last(Msg(k)))
  BY <1>1 DEF Owed, Last, Answer, Msg, Message, NoTx, Acks, Chunks
<1>2. ASSUME NEW k \in Plainly \ {"psrdy"},
             NEW j \in {"accepted", "again", "restart"}, NEW n
      PROVE Owed(q, Answer(Msg(k), Num(j, n))) /\ Owed(q, Answer(Msg(k), Msg(j)))
  BY <1>2 DEF Owed, Answer, Msg, Num, Message, Acks, Chunks
<1>3. ASSUME NEW k \in Plainly, NEW n
      PROVE Owed(q, Last(Num(k, n))) /\ Owed(q, Last(Message(k, set, n)))
  BY <1>3 DEF Owed, Last, Answer, Msg, Num, Message, NoTx, Acks, Chunks
<1>4. CASE q.k \in Requests
  <2>1. a \in {Answer(Msg("accept"), Num("accepted", q.n))} \cup Refusal
                \cup Capabilities(1)
    BY <1>4 DEF Answers, Requests
  <2> HIDE DEF Owed
  <2> QED BY <1>1, <1>2, <1>3, <2>1
        DEF Refusal, Capabilities, Kinds, Acks, Chunks
<1>5. CASE q.k \in {"accepted", "get", "chunkinfo", "garbled", "ppsstatus",
                    "sinkcap", "ident", "modes"}
  <2>1. a \in {Last(Msg("psrdy")), Last(Num("info", q.n)),
               Last(Num("infomore", q.n)), Last(Msg("infochunk")),
               Last(Msg("notsupported")), Last(Msg("status")),
               Last(Msg("ackident")), Last(Msg("vdmnak")),
               Last(Msg("ackmodes"))} \cup Refusal \cup Capabilities(1)
    BY <1>5 DEF Answers, Requests
  <2> HIDE DEF Owed
  <2> QED BY <1>1, <1>3, <2>1 DEF Refusal, Capabilities, Kinds, Acks, Chunks
<1>6. CASE q.k = "svids"
  <2>1. \/ \E n \in 0..MaxSvids+1 : a = Last(Num("acksvids", n))
       \/ a = Last(Msg("vdmnak"))
    BY <1>6 DEF Answers, Requests
  <2> HIDE DEF Owed
  <2> QED BY <1>1, <1>3, <2>1 DEF Kinds, Acks, Chunks
<1>7. CASE q.k \in {"eprexit", "softreset", "again", "restart", "accept",
                    "hardreset"}
  <2>1. a \in {Answer(Msg("exitack"), Msg("again")),
               Answer(Msg("accept"), Msg("restart"))}
                \cup Capabilities(0) \cup Capabilities(1)
    BY <1>7 DEF Answers, Requests
  <2> HIDE DEF Owed
  <2> QED BY <1>2, <1>3, <2>1 DEF Capabilities, Kinds, Acks, Chunks
<1>8. CASE q.k \in {"chunk", "eprenter", "entering", "entered"}
  <2>1. \/ q.k = "chunk" /\ a = Last(Msg("eprcaps1"))
        \/ /\ q.k \in {"eprenter", "entering"}
           /\ a \in {Answer(Msg("eprack"), Msg("entering")),
                     Answer(Msg("eprok"), Msg("entered")),
                     Last(Msg("eprfail")), Last(Msg("notsupported"))}
        \/ /\ q.k = "entered"
           /\ a \in {Last(Msg("eprcaps0")), Last(Msg("eprcapsall"))}
    BY <1>8 DEF Answers, Requests
  <2> QED BY <2>1 DEF Owed, Last, Answer, Msg, Message, NoTx, Acks, Chunks
<1>9. CASE q.k \notin Requests \cup {"accepted", "get", "svids", "chunkinfo",
          "chunk", "garbled", "ppsstatus", "sinkcap", "eprenter", "entering",
          "entered", "eprexit", "ident", "modes", "softreset", "again",
          "restart", "accept", "hardreset"}
  BY <1>9 DEF Answers
<1> QED BY <1>4, <1>5, <1>6, <1>7, <1>8, <1>9 DEF Requests

LEMMA HearKeeps ==
  ASSUME NEW b, NEW k, NEW q, q \notin {"chunk", "entering", "entered"}
  PROVE /\ Clean(b, k) => Clean(b, q)
        /\ Acked(b, k) => Acked(b, q)
        /\ Tidy(b, k) /\ (q = "eprenter" => Clear(b, k)) => Tidy(b, q)
        /\ Clear(b, k) /\ q # "eprenter" => Clear(b, q)
<1>1. Clear(b, k) => ~Has(b, {"eprcaps0"})
  BY DEF Clear, Has, Chunks
<1> QED BY <1>1 DEF Clean, Acked, Tidy, Clear, Due

LEMMA AnswerKeeps ==
  ASSUME NEW b \in Seq(Packet), NEW q, NEW a, a.m \in Packet, Owed(q, a)
  PROVE LET c == Append(b, a.m) IN
        /\ Clear(b, q.k) => Clear(c, a.then.k)
        /\ Clean(b, q.k) => Clean(c, a.then.k)
        /\ Acked(b, q.k) => Acked(c, a.then.k)
        /\ Tidy(b, q.k) => Tidy(c, a.then.k)
<1> DEFINE c == Append(b, a.m)
<1>1. \A J, K : /\ Has(c, K) => Has(b, K) \/ a.m.k \in K
                /\ Precedes(c, J, K) =>
                     Precedes(b, J, K) \/ (Has(b, J) /\ a.m.k \in K)
  BY HasAppend
<1> HIDE DEF c
<1>2. Clear(b, q.k) => Clear(c, a.then.k)
  BY <1>1 DEF Clear, Owed, Chunks, Due
<1>3. Clean(b, q.k) => Clean(c, a.then.k)
  BY <1>1 DEF Clean, Owed
<1>4. Acked(b, q.k) => Acked(c, a.then.k)
  BY <1>1 DEF Acked, Owed
<1>5. Tidy(b, q.k) => Tidy(c, a.then.k)
  <2> SUFFICES ASSUME Tidy(b, q.k) PROVE Tidy(c, a.then.k)
    OBVIOUS
  <2>1. ~Precedes(c, {"eprcaps0"}, Acks)
    BY <1>1 DEF Tidy, Owed
  <2>2. Has(c, {"eprcaps0"}) => a.then.k \notin {"eprenter", "entering"}
    BY <1>1 DEF Tidy, Owed, Chunks
  <2> QED BY <1>4, <2>1, <2>2 DEF Tidy
<1> QED BY <1>2, <1>3, <1>4, <1>5 DEF c

LEMMA FreshAnswer ==
  ASSUME NEW b \in Seq(Packet), NEW n \in Nat, n <= Len(b), NEW q, NEW a,
         a.m \in Packet, Owed(q, a), Fresh(b, n, q.k)
  PROVE Fresh(Append(b, a.m), n, a.then.k)
<1> DEFINE c == Append(b, a.m)
<1>1. /\ Len(c) = Len(b) + 1 /\ Len(b) \in Nat
      /\ \A i \in 1..Len(b) : c[i] = b[i]
      /\ c[Len(b)+1] = a.m
  BY AppendProperties, LenProperties
<1> HIDE DEF c
<1> SUFFICES ASSUME NEW i \in n+1..Len(c), c[i].k = "psrdy"
             PROVE /\ a.then.k \notin Due
                   /\ \A j \in i+1..Len(c) : c[j].k \notin Chunks
  BY DEF Fresh, c
<1>2. CASE i = Len(b) + 1
  <2>1. a.m.k = "psrdy" /\ \A j \in i+1..Len(c) : FALSE
    BY <1>1, <1>2
  <2> QED BY <2>1 DEF Owed, Due
<1>3. CASE i # Len(b) + 1
  <2>1. i \in n+1..Len(b) /\ i \in 1..Len(b)
    BY <1>1, <1>3
  <2>2. q.k \notin Due /\ \A j \in i+1..Len(b) : b[j].k \notin Chunks
    BY <1>1, <2>1 DEF Fresh
  <2>3. a.m.k \notin Chunks /\ a.then.k \notin Due
    BY <2>2 DEF Owed, Due, Chunks
  <2>4. \A j \in i+1..Len(c) : \/ j \in i+1..Len(b) /\ j \in 1..Len(b)
                               \/ j = Len(b) + 1
    BY <1>1, <2>1
  <2> QED BY <1>1, <2>2, <2>3, <2>4
<1> QED BY <1>2, <1>3

\* A packet that has nothing to do with the lists, of a charger that owes the
\* same or nothing of them
LEMMA ForeignKeeps ==
  ASSUME NEW b \in Seq(Packet), NEW m \in Packet, m.k \notin Acks \cup Chunks,
         NEW k, NEW l, Mellow(l, k)
  PROVE LET c == Append(b, m) IN
        /\ Clear(b, k) => Clear(c, l)
        /\ Clean(b, k) => Clean(c, l)
        /\ Acked(b, k) => Acked(c, l)
        /\ Tidy(b, k) => Tidy(c, l)
<1> DEFINE c == Append(b, m)
<1>1. \A J, K : /\ Has(c, K) => Has(b, K) \/ m.k \in K
                /\ Precedes(c, J, K) =>
                     Precedes(b, J, K) \/ (Has(b, J) /\ m.k \in K)
  BY HasAppend
<1> HIDE DEF c
<1>2. m.k \notin Acks /\ m.k # "eprcaps0" /\ m.k # "eprcaps1"
  BY DEF Chunks
<1>3. Clear(b, k) => Clear(c, l)
  BY <1>1 DEF Clear, Mellow
<1>4. Clean(b, k) => Clean(c, l)
  BY <1>1, <1>2 DEF Clean, Mellow, Due
<1>5. Acked(b, k) => Acked(c, l)
  BY <1>1, <1>2 DEF Acked, Mellow, Due
<1>6. Tidy(b, k) => Tidy(c, l)
  BY <1>1, <1>2, <1>5 DEF Tidy, Mellow, Due
<1> QED BY <1>3, <1>4, <1>5, <1>6 DEF c

LEMMA FreshForeign ==
  ASSUME NEW b \in Seq(Packet), NEW n \in Nat, n <= Len(b), NEW m \in Packet,
         m.k \notin Chunks \cup {"psrdy"}, NEW k, NEW l, Mellow(l, k),
         Fresh(b, n, k)
  PROVE Fresh(Append(b, m), n, l)
<1> DEFINE c == Append(b, m)
<1>1. /\ Len(c) = Len(b) + 1 /\ Len(b) \in Nat
      /\ \A i \in 1..Len(b) : c[i] = b[i]
      /\ c[Len(b)+1] = m
  BY AppendProperties, LenProperties
<1> HIDE DEF c
<1> SUFFICES ASSUME NEW i \in n+1..Len(c), c[i].k = "psrdy"
             PROVE l \notin Due /\ \A j \in i+1..Len(c) : c[j].k \notin Chunks
  BY DEF Fresh, c
<1>2. i \in n+1..Len(b) /\ i \in 1..Len(b)
  BY <1>1
<1>3. k \notin Due /\ \A j \in i+1..Len(b) : b[j].k \notin Chunks
  BY <1>1, <1>2 DEF Fresh
<1>4. \A j \in i+1..Len(c) : \/ j \in i+1..Len(b) /\ j \in 1..Len(b)
                             \/ j = Len(b) + 1
  BY <1>1, <1>2
<1> QED BY <1>1, <1>3, <1>4 DEF Mellow

-----------------------------------------------------------------------------
(* The invariant.  After a step, first what the ring and the charger make  *)
(* of it, then what the handler does.                                      *)

\* Ordered, with the handler that was and the ring that is
Owes ==
  /\ settle \/ cb.rx \in Setup => Tidy(inbox', ask'.k)
  /\ settle /\ cb.rx \in Setup => Clear(inbox', ask'.k)
  /\ cb.rx = "EPR_Mode_Enter_RX" => Acked(inbox', ask'.k)
  /\ cb.rx = "EPR_SrcCap_RX" /\ epr.got = "none" => Clean(inbox', ask'.k)

\* What is left of an exchange of lists grows only by an EPR_Mode Enter
Carried ==
  /\ Clean(inbox, ask.k) => Clean(inbox', ask'.k)
  /\ Acked(inbox, ask.k) => Acked(inbox', ask'.k)
  /\ Tidy(inbox, ask.k) /\ (tx.k = "eprenter" => Clear(inbox, ask.k)) =>
       Tidy(inbox', ask'.k)
  /\ Clear(inbox, ask.k) /\ tx.k # "eprenter" => Clear(inbox', ask'.k)

LEMMA CarriedOwes == ASSUME Ordered, Queued, Carried PROVE Owes
  BY DEF Ordered, Queued, Carried, Owes

\* A negotiation that was one keeps its PS_RDY apart
StillFresh ==
  cb.rx \in Negotiating /\ cb'.rx \in Negotiating /\ ~now' =>
    Fresh(inbox', aged', ask'.k)

LEMMA SpotsApart ==
  /\ \A rx \in Setup : rx \in Spots /\ rx \notin Negotiating /\ rx \notin EprAsking
       /\ rx # "EPR_Mode_Enter_RX" /\ rx # "EPR_SrcCap_RX"
  /\ \A rx \in Negotiating : rx \in Spots /\ rx \notin Setup
       /\ rx \notin EprAsking /\ rx # "EPR_Mode_Enter_RX" /\ rx # "EPR_SrcCap_RX"
  /\ \A rx \in EprAsking : rx \in Spots /\ rx \notin Setup
       /\ rx # "EPR_Mode_Enter_RX" /\ rx # "EPR_SrcCap_RX"
  /\ "EPR_Mode_Enter_RX" \in Spots /\ "EPR_SrcCap_RX" \in Spots
  /\ "EPR_Mode_Enter_RX" \notin Setup /\ "EPR_SrcCap_RX" \notin Setup
  BY DEF Setup, Negotiating, EprAsking, Spots

LEMMA Unloaded ==
  ASSUME NEW k, k \notin Loaded
  PROVE k \notin {"chunk", "entering", "entered"} /\ k # "eprenter"
          /\ k # "eprrequest"
  BY DEF Loaded

LEMMA OffLists ==
  ASSUME Off \/ Asking, tx'.k \notin Loaded, settle' => Tidy(inbox', ask'.k)
  PROVE Ordered' /\ Queued'
<1>1. Got(epr') /\ Mild'
  BY DEF Off, Asking, Kept
<1>2. cb'.rx \notin Setup /\ cb'.rx \notin EprAsking
      /\ cb'.rx # "EPR_Mode_Enter_RX" /\ cb'.rx # "EPR_SrcCap_RX"
      /\ (cb'.rx \in Negotiating => now')
  BY SpotsApart DEF Off, Asking, Negotiating, Setup, EprAsking
<1>3. Ordered'
  BY <1>2, Unloaded DEF Ordered
<1>4. Queued'
  BY <1>1, <1>2, Unloaded DEF Queued, Paired
<1> QED BY <1>3, <1>4

LEMMA StayingLists ==
  ASSUME Queued, Owes, StillFresh, Staying, tx'.k \notin Loaded,
         settle' => settle
  PROVE Ordered' /\ Queued'
<1>1. Got(epr') /\ epr'.got = epr.got /\ cb'.rx = cb.rx /\ Paired'
  BY DEF Staying, Kept
<1>2. Ordered'
  BY <1>1, Unloaded DEF Ordered, Owes, StillFresh
<1>3. Queued'
  BY <1>1, Unloaded DEF Queued
<1> QED BY <1>2, <1>3

LEMMA WaitingLists ==
  ASSUME StillFresh, Waiting, tx'.k \notin Loaded,
         settle' => Tidy(inbox', ask'.k)
  PROVE Ordered' /\ Queued'
<1>1. Got(epr') /\ Mild' /\ cb'.rx \in Negotiating /\ cb.rx \in Negotiating
  BY DEF Waiting, Kept
<1>2. Ordered'
  BY <1>1, SpotsApart, Unloaded DEF Ordered, StillFresh
<1>3. Queued'
  BY <1>1, SpotsApart, Unloaded DEF Queued, Paired
<1> QED BY <1>2, <1>3

LEMMA OnwardLists ==
  ASSUME Onward, Hush => tx'.k \notin Loaded,
         Tidy(inbox', ask'.k), settle' => Clear(inbox', ask'.k)
  PROVE Ordered' /\ Queued'
<1>1. CASE Off
  BY <1>1, OffLists DEF Off
<1>2. CASE Walking
  <2>1. Got(epr') /\ cb'.rx \in Setup /\ tx'.k \notin Loaded
    BY <1>2 DEF Walking, Kept
  <2>2. Ordered'
    BY <2>1, SpotsApart DEF Ordered
  <2>3. Queued'
    BY <2>1, SpotsApart, Unloaded DEF Queued, Paired
  <2> QED BY <2>2, <2>3
<1>3. CASE Enters
  <2>1. /\ Got(epr') /\ Mild' /\ tx'.k = "eprenter" /\ now'
        /\ cb'.rx = "EPR_Mode_Enter_RX"
    BY <1>3 DEF Enters
  <2>2. Acked(inbox', ask'.k)
    BY DEF Tidy
  <2>3. Ordered'
    BY <2>1, <2>2, SpotsApart DEF Ordered
  <2>4. Queued'
    BY <2>1, SpotsApart DEF Queued, Paired
  <2> QED BY <2>3, <2>4
<1> QED BY <1>1, <1>2, <1>3 DEF Onward

LEMMA PowersLists ==
  ASSUME Powers, Hush => tx'.k \notin Loaded,
         settle' => Tidy(inbox', ask'.k)
  PROVE Ordered' /\ Queued'
<1>1. Got(epr') /\ epr'.got = "all" /\ Mild' /\ cb'.rx \in EprAsking
  BY DEF Powers
<1>2. tx'.k \notin Loaded \/ (tx'.k = "eprrequest" /\ now')
  BY DEF Powers
<1>3. cb'.rx \notin Setup /\ cb'.rx \notin Negotiating
      /\ cb'.rx # "EPR_Mode_Enter_RX" /\ cb'.rx # "EPR_SrcCap_RX"
  BY <1>1, SpotsApart
<1>4. Ordered'
  BY <1>2, <1>3, Unloaded DEF Ordered
<1>5. Queued'
  BY <1>1, <1>2, <1>3, Unloaded DEF Queued, Paired
<1> QED BY <1>4, <1>5

\* It waits for the list
LEMMA ListLists ==
  ASSUME Got(epr'), Mild', cb'.rx = "EPR_SrcCap_RX", tx'.k \notin Loaded,
         epr'.got = "none" => Clean(inbox', ask'.k),
         settle' => Tidy(inbox', ask'.k)
  PROVE Ordered' /\ Queued'
<1>1. cb'.rx \notin Setup /\ cb'.rx \notin Negotiating
      /\ cb'.rx \notin EprAsking /\ cb'.rx # "EPR_Mode_Enter_RX"
  BY SpotsApart DEF Negotiating, EprAsking
<1>2. Ordered'
  BY <1>1, Unloaded DEF Ordered
<1>3. Queued'
  BY <1>1, Unloaded DEF Queued, Paired
<1> QED BY <1>2, <1>3

LEMMA LessCarried ==
  ASSUME inbox \in Seq(Packet), inbox' = inbox \/ Less(inbox', inbox),
         Mellow(ask'.k, ask.k)
  PROVE Carried
  BY LessKeeps DEF Carried

LEMMA DeafMellow == ASSUME Deaf PROVE Mellow(ask'.k, ask.k)
  BY DEF Deaf, Mellow, Due

\* What the delivery of the first packet comes to keeps the order
LEMMA TurnLists ==
  ASSUME Ordered, Queued, inbox \in Seq(Packet), inbox # <<>>, ~Flushing,
         Less(inbox', inbox),
         \A l : Mellow(l, ask.k) /\ Fresh(inbox, aged, ask.k) =>
                  Fresh(inbox', aged', l),
         Turn(Head(inbox))
  PROVE Ordered' /\ Queued'
<1> DEFINE m == Head(inbox)
<1>1. ~now /\ (Hush => tx'.k \notin Loaded)
  <2>1. ~now /\ Left = tx
    BY DEF Flushing, Left
  <2>2. tx.k \notin Loaded
    BY <2>1 DEF Queued, Loaded
  <2> QED BY <2>1, <2>2 DEF Hush
<1>2. settle' => settle
  BY DEF Turn, Steady
<1>3. ASSUME Deaf PROVE Owes /\ StillFresh
  <2>1. Mellow(ask'.k, ask.k)
    BY <1>3, DeafMellow
  <2>2. Owes
    BY <2>1, LessCarried, CarriedOwes
  <2>3. StillFresh
    BY <1>1, <2>1 DEF StillFresh, Ordered
  <2> QED BY <2>2, <2>3
<1>4. CASE (Off \/ Asking \/ Waiting \/ Powers) /\ Deaf
  <2>1. settle' => Tidy(inbox', ask'.k)
    BY <1>2, <1>3, <1>4 DEF Owes
  <2> QED BY <1>1, <1>3, <1>4, <2>1, OffLists, WaitingLists, PowersLists
        DEF Off, Asking, Waiting
<1>5. CASE cb.rx \in Setup /\ Onward /\ Deaf
  BY <1>1, <1>2, <1>3, <1>5, OnwardLists DEF Owes
<1>6. CASE cb.rx = "RX_PS_RDY" /\ m.k = "psrdy" /\ aged = 0 /\ Onward /\ Deaf
  <2>1. Fresh(inbox, 0, ask.k)
    BY <1>1, <1>6 DEF Ordered, Negotiating
  <2>2. Clear(inbox', ask.k)
    BY <1>6, <2>1, FreshGains
  <2>3. ask.k \notin Due
    BY <2>2 DEF Clear
  <2>4. Clear(inbox', ask'.k)
    BY <1>6, <2>2, <2>3, DeafMellow DEF Mellow, Clear
  <2> QED BY <1>1, <1>6, <2>4, ClearTidy, OnwardLists
<1>7. CASE /\ \/ cb.rx = "EPR_SrcCap_RX"
              \/ cb.rx = "EPR_Mode_Enter_RX" /\ m.k \in Acks
           /\ Listens /\ ask' = ask
  <2>1. Owes
    BY <1>3, <1>7 DEF Deaf
  <2>2. /\ Got(epr') /\ epr'.got = epr.got /\ Mild' /\ tx'.k \notin Loaded
        /\ cb'.rx = "EPR_SrcCap_RX"
    BY <1>1, <1>7 DEF Listens, Kept
  <2>3. settle' => Tidy(inbox', ask'.k)
    BY <1>2, <2>1 DEF Owes
  <2>4. epr'.got = "none" => Clean(inbox', ask'.k)
    <3>1. CASE cb.rx = "EPR_SrcCap_RX"
      BY <2>1, <2>2, <3>1 DEF Owes
    <3>2. CASE cb.rx = "EPR_Mode_Enter_RX" /\ m.k \in Acks
      <4>1. Acked(inbox, ask.k)
        BY <3>2 DEF Ordered
      <4> QED BY <1>7, <3>2, <4>1, LessGains
    <3> QED BY <1>7, <3>1, <3>2
  <2> QED BY <2>2, <2>3, <2>4, ListLists
<1>8. CASE m.k = "eprcaps0" /\ Collects /\ (ask' = ask \/ ask'.k = "chunk")
  <2>1. /\ Got(epr') /\ epr'.got = "part" /\ Mild' /\ tx'.k \notin Loaded
        /\ cb'.rx = "EPR_SrcCap_RX"
    BY <1>1, <1>8 DEF Collects
  <2>2. ASSUME settle' PROVE Tidy(inbox', ask'.k)
    <3>1. Tidy(inbox, ask.k)
      BY <1>2, <2>2 DEF Ordered
    <3>2. CASE ask' = ask
      BY <1>3, <1>2, <2>2, <3>2 DEF Deaf, Owes
    <3>3. CASE ask'.k = "chunk"
      BY <1>8, <3>1, <3>3, LessGains
    <3> QED BY <1>8, <3>2, <3>3
  <2> QED BY <2>1, <2>2, ListLists
<1> QED BY <1>4, <1>5, <1>6, <1>7, <1>8 DEF Turn

\* And what a timeout comes to
LEMMA LapseLists ==
  ASSUME Ordered, Queued, inbox \in Seq(Packet), ~Flushing,
         UNCHANGED <<inbox, aged>>, Lapse, Deaf \/ inbox = <<>>
  PROVE Ordered' /\ Queued'
<1>1. ~now /\ (Hush => tx'.k \notin Loaded)
  <2>1. ~now /\ Left = tx
    BY DEF Flushing, Left
  <2>2. tx.k \notin Loaded
    BY <2>1 DEF Queued, Loaded
  <2> QED BY <2>1, <2>2 DEF Hush
<1>2. settle' => settle
  BY DEF Lapse, Steady
<1>3. ASSUME Deaf PROVE Owes
  BY <1>3, DeafMellow, LessCarried, CarriedOwes
<1>4. CASE (Off \/ Asking \/ Staying \/ Waiting) /\ Deaf
  <2>1. settle' => Tidy(inbox', ask'.k)
    BY <1>2, <1>3, <1>4 DEF Owes
  <2>2. StillFresh
    <3>1. Mellow(ask'.k, ask.k)
      BY <1>4, DeafMellow
    <3> QED BY <1>1, <3>1 DEF StillFresh, Ordered, Fresh, Mellow
  <2> QED BY <1>1, <1>2, <1>3, <1>4, <2>1, <2>2, OffLists, StayingLists,
        WaitingLists DEF Off, Asking, Staying, Waiting
<1>5. CASE cb.rx \in Setup /\ Onward /\ Deaf
  BY <1>1, <1>2, <1>3, <1>5, OnwardLists DEF Owes
<1>6. CASE Listens /\ epr.got # "none"
  <2>1. /\ Got(epr') /\ epr'.got # "none" /\ Mild' /\ tx'.k \notin Loaded
        /\ cb'.rx = "EPR_SrcCap_RX"
    BY <1>1, <1>6 DEF Listens, Kept
  <2>2. ASSUME settle' PROVE Tidy(inbox', ask'.k)
    <3>1. CASE Deaf
      BY <1>2, <1>3, <2>2, <3>1 DEF Owes
    <3>2. CASE inbox = <<>>
      BY <3>2, HasEmpty DEF Tidy, Acked
    <3> QED BY <3>1, <3>2
  <2> QED BY <2>1, <2>2, ListLists
<1> QED BY <1>4, <1>5, <1>6 DEF Lapse

LEMMA SettleOverLists ==
  ASSUME Ordered, Queued, inbox \in Seq(Packet), ~Flushing, UNCHANGED inbox,
         SettleOver, Deaf
  PROVE Ordered' /\ Queued'
<1>1. Hush => tx'.k \notin Loaded
  <2>1. ~now /\ Left = tx
    BY DEF Flushing, Left
  <2>2. tx.k \notin Loaded
    BY <2>1 DEF Queued, Loaded
  <2> QED BY <2>2, <2>1 DEF Hush
<1>2. Owes
  BY DeafMellow, LessCarried, CarriedOwes
<1> QED BY <1>1, <1>2, OnwardLists DEF SettleOver, Owes

\* What a failed transmission comes to, heard or not
LEMMA FailureLists ==
  ASSUME Ordered, Queued, inbox \in Seq(Packet), Flushing, tx \in Sent,
         Overtaken \/ Abort, Failure, ask' = ask \/ ask' = tx
  PROVE Ordered' /\ Queued'
<1>1. Hush => tx'.k \notin Loaded
  BY NoTxKind DEF Hush, Left
<1>2. inbox' = inbox \/ inbox' = <<>>
  BY DEF Overtaken, Abort
<1>3. Carried
  <2>1. CASE ask' = ask
    BY <1>2, <2>1, LessCarried DEF Less, Mellow
  <2>2. CASE ask' = tx /\ inbox' = <<>>
    <3>1. tx.k \notin {"chunk", "entering", "entered"}
      BY DEF Queued
    <3> QED BY <2>2, <3>1, HasEmpty
          DEF Carried, Clear, Clean, Acked, Tidy, Due
  <2>3. CASE ask' = tx /\ inbox' = inbox
    <3>1. tx.k \notin {"chunk", "entering", "entered"}
      BY DEF Queued
    <3> QED BY <2>3, <3>1, HearKeeps DEF Carried
  <2> QED BY <1>2, <2>1, <2>2, <2>3
<1>4. Owes
  BY <1>3, CarriedOwes
<1>5. StillFresh
  BY FreshEnd DEF StillFresh, Overtaken, Abort
<1>6. CASE Off /\ inbox' = <<>>
  BY <1>1, <1>6, OffLists, HasEmpty DEF Off, Tidy, Acked
<1>7. ASSUME Steady PROVE settle' => settle
  BY <1>7 DEF Steady
<1>8. CASE Steady /\ Off
  BY <1>1, <1>4, <1>7, <1>8, OffLists DEF Off, Owes
<1>9. CASE Steady /\ Staying
  BY <1>1, <1>4, <1>5, <1>7, <1>9, StayingLists DEF Staying
<1>10. CASE Steady /\ cb.rx \in Setup /\ Onward
  BY <1>1, <1>4, <1>7, <1>10, OnwardLists DEF Owes
<1> QED BY <1>6, <1>8, <1>9, <1>10 DEF Failure

-----------------------------------------------------------------------------
(* The charger and the acknowledged transmissions leave the handler alone  *)

LEMMA AloneLists ==
  ASSUME Queued, Owes, settle' => settle, Got(epr'), epr'.got = epr.got,
         UNCHANGED cb \/ (cb'.rx = "RX_SrcCap" /\ Mild'),
         UNCHANGED <<tx, now>> \/ tx' = NoTx,
         settle' /\ tx'.k = "eprenter" => Clear(inbox', ask'.k),
         UNCHANGED cb /\ cb.rx \in Negotiating /\ ~now' =>
           Fresh(inbox', aged', ask'.k)
  PROVE Ordered' /\ Queued'
<1>1. UNCHANGED <<tx, now>> \/ tx'.k \notin Loaded
  BY NoTxKind
<1>2. CASE UNCHANGED cb
  <2>1. Ordered'
    BY <1>2 DEF Ordered, Owes
  <2>2. Queued'
    BY <1>1, <1>2, Unloaded DEF Queued, Paired, Mild
  <2> QED BY <2>1, <2>2
<1>3. CASE cb'.rx = "RX_SrcCap" /\ Mild'
  <2>1. cb'.rx \notin Setup /\ cb'.rx \notin Negotiating /\ cb'.rx \notin EprAsking
    BY <1>3 DEF Setup, Negotiating, EprAsking
  <2>2. Ordered'
    BY <1>3, <2>1 DEF Ordered, Owes
  <2>3. Queued'
    BY <1>1, <1>3, <2>1, Unloaded DEF Queued, Paired
  <2> QED BY <2>2, <2>3
<1> QED BY <1>2, <1>3

\* From what was left and owed, k by its kind, to what is
Grows(k) ==
  /\ Clear(inbox, k) => Clear(inbox', ask'.k)
  /\ Clean(inbox, k) => Clean(inbox', ask'.k)
  /\ Acked(inbox, k) => Acked(inbox', ask'.k)
  /\ Tidy(inbox, k)  => Tidy(inbox', ask'.k)
  /\ \A n \in 0..Len(inbox) : Fresh(inbox, n, k) => Fresh(inbox', n, ask'.k)

LEMMA AnswerGrows ==
  ASSUME RingTyped, set \in Offers, NEW q \in Packet, NEW a \in Answers(q),
         Arrives(a.m), ask' = a.then
  PROVE Grows(q.k)
<1>1. inbox \in Seq(Packet) /\ inbox' = Append(inbox, a.m) /\ Len(inbox) \in Nat
  BY LenProperties DEF RingTyped, Arrives
<1>2. a.m \in Packet /\ Owed(q, a)
  BY AnswerTyped, AnswerOwed
<1>3. ASSUME NEW n \in 0..Len(inbox), Fresh(inbox, n, q.k)
      PROVE Fresh(inbox', n, ask'.k)
  <2>1. n \in Nat /\ n <= Len(inbox)
    BY <1>1
  <2> QED BY <1>1, <1>2, <1>3, <2>1, FreshAnswer
<1>4. /\ Clear(inbox, q.k) => Clear(inbox', ask'.k)
      /\ Clean(inbox, q.k) => Clean(inbox', ask'.k)
      /\ Acked(inbox, q.k) => Acked(inbox', ask'.k)
      /\ Tidy(inbox, q.k)  => Tidy(inbox', ask'.k)
  BY <1>1, <1>2, AnswerKeeps
<1> QED BY <1>3, <1>4 DEF Grows

\* The charger says nothing of EPR mode unasked
Modest == \A m \in Traffic : m.k \notin Acks \cup Chunks

LEMMA InterruptsGrows ==
  ASSUME RingTyped, Modest, Interrupts PROVE Grows(ask.k)
<1>1. PICK m \in Traffic :
        Arrives(m) /\ ask' = (IF GivesUp(m) THEN NoTx ELSE ask)
  BY DEF Interrupts
<1>2. m \in Packet /\ m.k \notin Acks \cup Chunks /\ m.k # "psrdy"
  BY TrafficAssumption DEF Modest
<1>3. Mellow(ask'.k, ask.k)
  BY <1>1, NoTxPacket DEF Mellow, Due
<1>4. inbox \in Seq(Packet) /\ inbox' = Append(inbox, m) /\ Len(inbox) \in Nat
  BY <1>1, LenProperties DEF RingTyped, Arrives
<1>5. ASSUME NEW n \in 0..Len(inbox), Fresh(inbox, n, ask.k)
      PROVE Fresh(inbox', n, ask'.k)
  <2>1. n \in Nat /\ n <= Len(inbox)
    BY <1>4
  <2> QED BY <1>2, <1>3, <1>4, <1>5, <2>1, FreshForeign
<1>6. /\ Clear(inbox, ask.k) => Clear(inbox', ask'.k)
      /\ Clean(inbox, ask.k) => Clean(inbox', ask'.k)
      /\ Acked(inbox, ask.k) => Acked(inbox', ask'.k)
      /\ Tidy(inbox, ask.k)  => Tidy(inbox', ask'.k)
  BY <1>2, <1>3, <1>4, ForeignKeeps
<1> QED BY <1>5, <1>6 DEF Grows

LEMMA ChargerSpeaksLists ==
  ASSUME Inv, Ordered, Queued, Modest, ChargerAnswers \/ ChargerTalks
  PROVE Ordered' /\ Queued'
<1>1. RingTyped /\ set \in Offers /\ ask \in Packet /\ aged \in 0..Len(inbox)
  BY DEF Inv, TypeInv, ChargerTyped, RingTyped
<1>2. Grows(ask.k)
  <2>1. CASE ChargerAnswers
    BY <1>1, <2>1, AnswerGrows DEF ChargerAnswers, Says
  <2>2. CASE ChargerTalks
    BY <1>1, <2>2, InterruptsGrows DEF ChargerTalks
  <2> QED BY <2>1, <2>2
<1>3. UNCHANGED <<aged, cb, tx, now, epr, settle>>
  BY DEF ChargerAnswers, ChargerTalks, policyVars, eprFrame
<1>4. Owes
  BY <1>2, CarriedOwes DEF Grows, Carried
<1>5. settle' /\ tx'.k = "eprenter" => Clear(inbox', ask'.k)
  BY <1>2, <1>3 DEF Grows, Ordered
<1>6. cb.rx \in Negotiating /\ ~now' => Fresh(inbox', aged', ask'.k)
  BY <1>1, <1>2, <1>3 DEF Grows, Ordered
<1> QED BY <1>3, <1>4, <1>5, <1>6, AloneLists DEF Queued

LEMMA TransmitOkLists ==
  ASSUME Inv, Ordered, Queued, Modest, TransmitOk PROVE Ordered' /\ Queued'
<1>1. /\ RingTyped /\ set \in Offers /\ ask \in Packet /\ tx \in Packet
      /\ inbox \in Seq(Packet) /\ Len(inbox) \in Nat
  BY LenProperties DEF Inv, TypeInv, WireTyped, ChargerTyped, RingTyped, Sent
<1>2. /\ Clean(inbox, ask.k) => Clean(inbox, tx.k)
      /\ Acked(inbox, ask.k) => Acked(inbox, tx.k)
      /\ Tidy(inbox, ask.k) /\ (tx.k = "eprenter" => Clear(inbox, ask.k)) =>
           Tidy(inbox, tx.k)
      /\ Clear(inbox, ask.k) /\ tx.k # "eprenter" => Clear(inbox, tx.k)
  BY HearKeeps DEF Queued
<1>3. \A k : Fresh(inbox, Len(inbox), k) /\ Len(inbox) \in 0..Len(inbox)
  BY <1>1, FreshEnd
<1>4. Carried /\ Fresh(inbox', Len(inbox), ask'.k)
  <2>1. CASE Heard(tx) /\ inbox' = inbox
    BY <1>2, <1>3, <2>1 DEF Heard, Carried
  <2>2. CASE \E a \in Answers(tx) : Arrives(a.m) /\ Says(a.m, a.then, Begun(tx))
    <3>1. Grows(tx.k)
      BY <1>1, <2>2, AnswerGrows DEF Says
    <3> QED BY <1>2, <1>3, <3>1 DEF Grows, Carried
  <2>3. CASE \/ Interrupts
             \/ \E a \in Answers(ask) : Arrives(a.m) /\ Says(a.m, a.then, round)
    <3>1. Grows(ask.k)
      BY <1>1, <2>3, AnswerGrows, InterruptsGrows DEF Says
    <3> QED BY <1>3, <3>1 DEF Grows, Carried
  <2> QED BY <2>1, <2>2, <2>3 DEF TransmitOk
<1>5. UNCHANGED <<epr, settle>> /\ tx' = NoTx /\ aged' = Len(inbox)
  BY DEF TransmitOk, policyVars, eprFrame
<1>6. UNCHANGED cb \/ (cb'.rx = "RX_SrcCap" /\ Mild')
  BY WaitSrcCapRx DEF TransmitOk
<1>7. tx'.k # "eprenter"
  BY <1>5, NoTxKind, Unloaded
<1> QED BY <1>4, <1>5, <1>6, <1>7, CarriedOwes, AloneLists DEF Queued

\* A Hard Reset of the charger's, and the end of a connection
LEMMA RestartLists ==
  ASSUME Queued, Abort, ask' = Msg("restart"), settle' => settle,
         Got(epr'), epr'.got = epr.got,
         UNCHANGED cb \/ (cb'.rx = "RX_SrcCap" /\ Mild'),
         UNCHANGED <<tx, now>> \/ tx' = NoTx
  PROVE Ordered' /\ Queued'
<1>1. inbox' = <<>> /\ aged' = 0 /\ ask'.k \notin Due
  BY DEF Abort, Msg, Message, Due
<1>2. Clear(inbox', ask'.k)
  BY <1>1, HasEmpty DEF Clear
<1>3. Owes
  BY <1>2, ClearTidy DEF Owes
<1>4. Fresh(inbox', aged', ask'.k)
  BY <1>1, FreshEnd, EmptySeq
<1> QED BY <1>2, <1>3, <1>4, AloneLists

LEMMA ChargerHardResetLists ==
  ASSUME Queued, ChargerHardReset PROVE Ordered' /\ Queued'
<1>1. UNCHANGED <<tx, now, epr, settle>> /\ Abort /\ ask' = Msg("restart")
  BY DEF ChargerHardReset, policyVars, eprFrame
<1>2. UNCHANGED cb \/ (cb'.rx = "RX_SrcCap" /\ Mild')
  BY WaitSrcCapRx DEF ChargerHardReset
<1> QED BY <1>1, <1>2, RestartLists DEF Queued

LEMMA DetachLists == ASSUME Queued, Detach PROVE Ordered' /\ Queued'
<1>1. Got(epr') /\ epr'.got = epr.got
  BY DEF Detach, Queued, Got
<1> QED BY <1>1, RestartLists DEF Detach

-----------------------------------------------------------------------------
(* The steps of the main loop *)

LEMMA HeadReady ==
  ASSUME Ordered, Queued, inbox \in Seq(Packet), inbox # <<>>
  PROVE Ready(Head(inbox))
<1>1. 1 \in 1..Len(inbox) /\ Head(inbox) = inbox[1]
  BY EmptySeq, LenProperties
<1>2. Head(inbox).k = "eprcaps1" => Has(inbox, {"eprcaps1"})
  BY <1>1 DEF Has
<1>3. cb.rx = "EPR_SrcCap_RX" /\ Head(inbox).k = "eprcaps1" =>
        epr.got \in {"part", "all"}
  BY <1>2 DEF Ordered, Clean, Queued, Got
<1> QED BY <1>3 DEF Ready, Queued

LEMMA OfferHeld ==
  ASSUME Inv, Unoffered
  PROVE /\ contract => offer.held \in Offers
        /\ offer.held # NoOffer => offer.held \in Offers
  BY DEF Inv, TypeInv, PartsTyped, Fingerprints, Unoffered

LEMMA DeliverTurn ==
  ASSUME Inv, Lists, NoUpgrade, Deliver
  PROVE /\ Turn(Head(inbox)) /\ Less(inbox', inbox)
        /\ \A l : Mellow(l, ask.k) /\ Fresh(inbox, aged, ask.k) =>
                    Fresh(inbox', aged', l)
<1> DEFINE m == Head(inbox)
<1>1. inbox \in Seq(Packet) /\ inbox # <<>> /\ aged \in Nat /\ WireTyped
  BY LenProperties DEF Deliver, Inv, TypeInv, RingTyped
<1>2. m \in Packet
  BY <1>1, HeadTailProperties
<1>3. Ready(m) /\ (m.k = "caps" => m.o \in Offers)
      /\ (contract => offer.held \in Offers) /\ Got(epr)
  BY <1>1, <1>2, HeadReady, OfferHeld DEF Lists, Packet, Queued
<1>4. CASE /\ inbox' = Tail(inbox)
           /\ aged' = (IF aged = 0 THEN 0 ELSE aged - 1)
           /\ Handle(m)
  <2>1. Turn(m)
    BY <1>1, <1>3, <1>4, HandleTurn
  <2> QED BY <1>1, <1>4, <2>1, FreshTail DEF Less
<1>5. CASE Turn(m) /\ inbox' = <<>> /\ aged' = 0
  BY <1>1, <1>5, FreshEnd DEF Less
<1>6. CASE SoftResetReceived
  <2>1. aged' = 0
    BY <1>6 DEF SoftResetReceived, AnswerSoftReset, Abort
  <2> QED BY <1>3, <1>5, <1>6, <2>1, SoftResetReceivedTurn
<1>7. CASE AttachAndOffer(m)
  <2>1. aged' = 0
    BY <1>7 DEF AttachAndOffer, Abort
  <2> QED BY <1>3, <1>5, <1>7, <2>1, AttachAndOfferTurn
<1> QED BY <1>4, <1>6, <1>7 DEF Deliver

LEMMA DeliverLists ==
  ASSUME Inv, Lists, NoUpgrade, Deliver PROVE Ordered' /\ Queued' /\ Steady
<1>1. inbox \in Seq(Packet) /\ inbox # <<>> /\ ~Flushing
  BY DEF Deliver, Inv, TypeInv, RingTyped
<1>2. /\ Turn(Head(inbox)) /\ Less(inbox', inbox)
      /\ \A l : Mellow(l, ask.k) /\ Fresh(inbox, aged, ask.k) =>
                  Fresh(inbox', aged', l)
  BY DeliverTurn
<1>3. Ordered' /\ Queued'
  BY <1>1, <1>2, TurnLists DEF Lists
<1> QED BY <1>2, <1>3 DEF Turn

LEMMA TimersLists ==
  ASSUME Inv, Ordered, Queued, Timeout \/ Ticks
  PROVE Ordered' /\ Queued' /\ Steady
<1>1. /\ inbox \in Seq(Packet) /\ ~Flushing /\ UNCHANGED <<inbox, aged>>
      /\ WireTyped /\ Got(epr) /\ Paired
  BY DEF Timeout, Ticks, Inv, TypeInv, RingTyped, Queued
<1>2. CASE Timeout
  BY <1>1, <1>2, TimeoutLapse, LapseLists DEF Timeout, Lapse
<1>3. CASE VdmTick \/ GuardTick
  <2>1. Deaf
    BY <1>3, UnaskedDeaf DEF VdmTick, GuardTick
  <2> QED BY <1>1, <1>3, <2>1, VdmTickLapse, GuardTickLapse, LapseLists
        DEF Lapse
<1>4. CASE SettleTick
  BY <1>1, <1>4, SettleTickLapse, LapseLists, SettleOverLists
<1> QED BY <1>2, <1>3, <1>4 DEF Ticks

LEMMA TransmitFailedLists ==
  ASSUME Inv, Ordered, Queued, Transmit, TransmitFailed
  PROVE /\ Ordered' /\ Queued'
        /\ Steady \/ UNCHANGED offer
<1>1. inbox \in Seq(Packet) /\ Flushing /\ tx \in Sent /\ Got(epr) /\ Paired
  BY DEF Transmit, Inv, TypeInv, RingTyped, WireTyped, Queued
<1>2. Failure /\ (Overtaken \/ Abort)
  BY <1>1, TransmitFailedFailure
<1>3. ask' = ask \/ ask' = tx
  BY DEF TransmitFailed, Heard
<1> QED BY <1>1, <1>2, <1>3, FailureLists DEF Failure

-----------------------------------------------------------------------------
(* Before the first offer *)

\* The handlers have nothing to say
Idling == UNCHANGED <<conn, contract, guard, settle, req, cb>>

LEMMA IdlingUnoffered ==
  ASSUME Unoffered, UNCHANGED offer, Idling PROVE Unoffered'
  BY DEF Unoffered, Idling

\* An offer that was made stays one
LEMMA OfferedUnoffered ==
  ASSUME offer'.held \in Offers PROVE Unoffered'
  BY OfferAssumption DEF Unoffered

LEMMA SteadyUnoffered ==
  ASSUME Inv, Unoffered, offer.held # NoOffer, Steady \/ UNCHANGED offer
  PROVE Unoffered'
  BY OfferHeld, OfferedUnoffered DEF Steady

LEMMA NoCallback ==
  ASSUME cb = NoCallbacks
  PROVE cb.ok = "none" /\ cb.rx = "none" /\ cb.fail = "none" /\ cb.late = "none"
  BY DEF NoCallbacks, Callbacks, Null

LEMMA DeliverUnoffered ==
  ASSUME Inv, Lists, offer.held = NoOffer, Deliver PROVE Unoffered'
<1> DEFINE m == Head(inbox)
<1>1. ~conn /\ ~contract /\ req = ReqFresh /\ cb.rx = "none"
  BY NoCallback DEF Lists, Unoffered
<1>2. m \in Packet
  BY HeadTailProperties DEF Deliver, Inv, TypeInv, RingTyped
<1>3. CASE Handle(m) /\ UNCHANGED conn
  <2>1. NoHandler(m)
    BY <1>1, <1>3 DEF Handle, EprDelivered, PpsDelivered, SinkCapDelivered,
       EnterDelivered, SrcCapDelivered, EprRequestDelivered, ExitDelivered,
       ProbeDelivered, VdmDelivered, RxAccept, RxPsRdy, SoftResetAnswered,
       OfferDelivered, IdleDelivered, SrcCapSoftReset
  <2>2. UNCHANGED <<cb, policyVars>>
    BY <1>1, <2>1 DEF NoHandler
  <2> QED BY <1>3, <2>2, IdlingUnoffered
        DEF Lists, Idling, policyVars, eprFrame
<1>4. ~SoftResetReceived
  BY <1>1 DEF SoftResetReceived, SoftResetStates
<1>5. CASE AttachAndOffer(m)
  <2> DEFINE r == [req EXCEPT !.stop = FALSE]
  <2>1. r.stop = FALSE
    BY <1>1 DEF ReqFresh
  <2>2. PICK first, p, v : OfferReceived(OfferIn(m), first, epr, p, r, v, FALSE)
    BY <1>5 DEF AttachAndOffer
  <2> HIDE DEF r
  <2>3. PICK e : FirstOffer(e, v, OfferIn(m), r)
    BY <2>2 DEF OfferReceived
  <2>4. offer'.held = OfferIn(m)
    BY <2>1, <2>3 DEF FirstOffer, Suppressed
  <2>5. OfferIn(m) \in Offers
    BY <1>2, OfferInTyped
  <2> QED BY <2>4, <2>5, OfferedUnoffered
<1> QED BY <1>3, <1>4, <1>5 DEF Deliver

LEMMA TimersUnoffered ==
  ASSUME Lists, offer.held = NoOffer, Timeout \/ Ticks PROVE Unoffered'
<1>1. ~conn /\ ~guard /\ ~settle /\ cb.late = "none"
  BY NoCallback DEF Lists, Unoffered
<1>2. CASE Timeout
  <2>1. UNCHANGED <<cb, policyVars>>
    BY <1>1, <1>2 DEF Timeout, EprLate, CapsTimeout, ProbeLate, NoAnswer,
       NoChunk, VdmLate, RequestLate, HardResetLate
  <2> QED BY <1>2, <2>1, IdlingUnoffered
        DEF Timeout, Lists, Idling, policyVars, eprFrame
<1>3. CASE Ticks
  <2>1. VdmTick /\ UNCHANGED req
    BY <1>1, <1>3 DEF Ticks, GuardTick, SettleTick
  <2>2. UNCHANGED cb
    BY <1>1, <2>1 DEF VdmTick
  <2> QED BY <1>3, <2>1, <2>2, IdlingUnoffered
        DEF Ticks, VdmTick, vdmFrame, Lists, Idling
<1> QED BY <1>2, <1>3

LEMMA TransmitUnoffered ==
  ASSUME Lists, offer.held = NoOffer, Transmit PROVE Unoffered'
<1>1. cb.ok = "none" /\ cb.fail = "none"
  BY NoCallback DEF Lists, Unoffered
<1>2. UNCHANGED <<cb, policyVars>>
  BY <1>1 DEF Transmit, TransmitOk, TransmitFailed, EprTxFailed, ProbeTxFailed,
     VdmTxFailed, RequestTxFailed
<1> QED BY <1>2, IdlingUnoffered
      DEF Transmit, Lists, Idling, policyVars, eprFrame

LEMMA ChargerUnoffered ==
  ASSUME Inv, Lists, Charger \/ Detach PROVE Unoffered'
<1>1. UNCHANGED offer
  BY DEF Charger, ChargerAnswers, ChargerTalks, ChargerHardReset, Detach,
     policyVars, eprFrame
<1>2. CASE offer.held # NoOffer
  BY <1>1, <1>2, SteadyUnoffered DEF Lists
<1>3. CASE offer.held = NoOffer
  <2>1. ~conn
    BY <1>3 DEF Lists, Unoffered
  <2>2. Idling
    BY <2>1 DEF Charger, ChargerAnswers, ChargerTalks, ChargerHardReset, Detach,
       policyVars, eprFrame, Idling
  <2> QED BY <1>1, <2>2, IdlingUnoffered DEF Lists
<1> QED BY <1>2, <1>3

-----------------------------------------------------------------------------
(* The theorem *)

LEMMA InitLists == ASSUME Init PROVE Lists
<1>1. cb.rx = "none" /\ tx.k = "none" /\ ~settle
  BY NoCallback, NoTxPacket DEF Init
<1>2. Ordered
  BY <1>1 DEF Ordered, Setup, Negotiating
<1>3. Queued
  <2>1. Got(epr)
    BY DEF Init, EprFresh, Got
  <2>2. Mild
    BY NoCallback DEF Init, Mild, SetupEnds
  <2> QED BY <1>1, <2>1, <2>2 DEF Queued, Paired, EprAsking
<1>4. Unoffered
  BY DEF Init, Unoffered
<1> QED BY <1>2, <1>3, <1>4 DEF Lists

LEMMA NextLists ==
  ASSUME Inv, Lists, NoUpgrade, Modest, [Next]_vars PROVE Lists'
<1>0. Ordered /\ Queued /\ Unoffered
  BY DEF Lists
<1>1. CASE Deliver
  <2>1. Ordered' /\ Queued' /\ Steady
    BY <1>1, DeliverLists
  <2>2. Unoffered'
    BY <1>0, <1>1, <2>1, DeliverUnoffered, SteadyUnoffered
  <2> QED BY <2>1, <2>2 DEF Lists
<1>2. CASE Transmit
  <2>1. CASE TransmitOk
    <3>1. UNCHANGED offer
      BY <2>1 DEF TransmitOk, policyVars, eprFrame
    <3>2. Unoffered'
      BY <1>0, <1>2, <3>1, TransmitUnoffered, SteadyUnoffered
    <3> QED BY <1>0, <2>1, <3>2, TransmitOkLists DEF Lists
  <2>2. CASE TransmitFailed
    <3>1. Ordered' /\ Queued' /\ (Steady \/ UNCHANGED offer)
      BY <1>0, <1>2, <2>2, TransmitFailedLists
    <3>2. Unoffered'
      BY <1>0, <1>2, <3>1, TransmitUnoffered, SteadyUnoffered
    <3> QED BY <3>1, <3>2 DEF Lists
  <2> QED BY <1>2, <2>1, <2>2 DEF Transmit
<1>3. CASE Timeout \/ Ticks
  <2>1. Ordered' /\ Queued' /\ Steady
    BY <1>0, <1>3, TimersLists
  <2>2. Unoffered'
    BY <1>0, <1>3, <2>1, TimersUnoffered, SteadyUnoffered
  <2> QED BY <2>1, <2>2 DEF Lists
<1>4. CASE ChargerAnswers \/ ChargerTalks
  BY <1>0, <1>4, ChargerSpeaksLists, ChargerUnoffered DEF Charger, Lists
<1>5. CASE ChargerHardReset
  BY <1>0, <1>5, ChargerHardResetLists, ChargerUnoffered DEF Charger, Lists
<1>6. CASE Detach
  BY <1>0, <1>6, DetachLists, ChargerUnoffered DEF Lists
<1>7. CASE UNCHANGED vars
  <2>1. UNCHANGED <<inbox, aged, ask, cb, tx, now, epr, settle>>
        /\ UNCHANGED <<conn, contract, guard, req, offer>>
    BY <1>7 DEF vars, wireVars, chargerVars, policyVars, eprFrame
  <2>2. Ordered'
    BY <1>0, <2>1 DEF Ordered
  <2>3. Queued'
    BY <1>0, <2>1 DEF Queued, Paired, Mild
  <2>4. Unoffered'
    BY <1>0, <2>1 DEF Unoffered
  <2> QED BY <2>2, <2>3, <2>4 DEF Lists
<1> QED BY <1>1, <1>2, <1>3, <1>4, <1>5, <1>6, <1>7
      DEF Next, MainLoop, Charger

(* An EPR_Request is made from a whole list of EPR capabilities, one that  *)
(* came in a single message or in its two chunks (PD_EPR_SrcCap_RX,        *)
(* PD_EPR_SendRequest), when the charger says nothing of EPR mode unasked  *)
(* and its sets of capabilities are EPR capable all, or none of them.  A   *)
(* second chunk sent unasked would be taken for the end of the list.       *)
THEOREM PolicyWholeList ==
  ASSUME EprCapable \in {{}, Offers},
         \A m \in Traffic : m.k \notin Acks \cup Chunks
  PROVE Spec => []WholeList
<1>1. NoUpgrade /\ Modest
  BY DEF NoUpgrade, Modest
<1>2. Init => Lists
  BY InitLists
<1>3. Inv /\ Lists /\ [Next]_vars => Lists'
  BY <1>1, NextLists
<1>4. Lists => WholeList
  BY DEF Lists, Queued, WholeList
<1> QED BY <1>2, <1>3, <1>4, AlwaysInv, PTL DEF Spec
=============================================================================

------------------------------- MODULE PhyRx -------------------------------
(***************************************************************************)
(* The receive path of the BMC PHY engine, pd_phy_h417.c: the USBPD        *)
(* interrupt handler that answers packets with a software GoodCRC, the     *)
(* four-slot ring that carries them to the main loop, the main loop's      *)
(* drain, and the polled transmissions that share all of it.  Three actors *)
(* interleave: the hardware with the charger behind it (Hw...), the        *)
(* interrupt handler (Isr...) and the main loop (the rest).                *)
(*                                                                         *)
(* The handler preempts the main loop while the interrupt is enabled and   *)
(* runs to its end; code between NVIC_DisableIRQ and NVIC_EnableIRQ is one *)
(* step.  A packet is a number: the charger's k-th SOP message is k, and   *)
(* every SOP' packet of the cable is Cable.                                *)
(***************************************************************************)
EXTENDS Naturals

CONSTANTS
  QueueLen,   \* slots of the deferred ring (PD_RX_DEFER_QUEUE_LEN = 4)
  MaxMsg,     \* the charger's SOP messages are 1..MaxMsg
  Caps,       \* those of message type 1: Source_Capabilities
  Pre,        \* those answered before protocol attach: Accept, SoftReset
  MaxSends,   \* bound: packets put on the wire, retransmissions included
  MaxCable,   \* bound: how many of them are the cable's
  MaxResets,  \* bound: Hard Resets seen on the wire
  MaxTx       \* bound: transmissions the main loop starts

ASSUME QueueLenAssumption == QueueLen \in Nat \ {0}
ASSUME BoundAssumption == /\ MaxMsg \in Nat \ {0} /\ MaxSends \in Nat
                          /\ MaxCable \in Nat /\ MaxResets \in Nat
                          /\ MaxTx \in Nat
ASSUME KindAssumption == Caps \subseteq 1..MaxMsg /\ Pre \subseteq 1..MaxMsg

Cable   == 0
SOP     == "SOP"
SOPP    == "SOPP"
NoSop   == "none"
Kinds   == {SOP, SOPP, NoSop}
Packet  == 0..MaxMsg
Entry   == [pkt : Packet, sop : Kinds, seq : Nat]
NoEntry == [pkt |-> Cable, sop |-> SOPP, seq |-> 0]
Slots   == 0..QueueLen-1

VARIABLES
  \* The USBPD peripheral
  rxBuf,      \* PD_Rx_Buf, the DMA buffer
  rxAct,      \* IF_RX_ACT: a packet is complete in rxBuf
  txEnd,      \* IF_TX_END
  rxRst,      \* IF_RX_RESET
  bmc,        \* "rx" listening, "tx" sending, "sent" sent but PD_TX_EN still up
  txFor,      \* the packet the latest GoodCRC answers
  nvic,       \* the USBPD interrupt is enabled
  \* The state the handler and the main loop share
  irqBuf,     \* s_irq_rx_buf: the packet whose GoodCRC is going out
  waiting,    \* s_waiting_gcrc_tx
  pendingBuf, \* s_pending_rx_buf: stashed behind that GoodCRC
  pending,    \* s_pending_rx
  ring, head, tail, count,  \* s_deferred_rx_*
  finish,     \* s_defer_rx_finish
  rxSeq,      \* PD_PHY.RxSequence
  lastSop,    \* PD_PHY.LastRxSop as the handler leaves it
  txStart,    \* PD_PHY.TxStartRxSequence
  connected,  \* PD_DEVICE.ConnectStat
  \* Where the two processes stand
  isr,        \* "off", or the stage the handler runs next: "tx", "arm", "rst"
  mpc,        \* main: "loop", "take", "handle", "attach", "txfail", "clr",
              \* "aborted"
  clr,        \* in "clr": which assignment is next, and for whom
  cur,        \* PD_RX_BUF with LastRxSequence: the packet handed over
  \* The charger: it repeats message next until it hears a GoodCRC
  next, sends, cables, resets, txs,
  \* History
  fresh,      \* packets received since the latest PD_PHY_DoTxNow began
  last,       \* the latest SOP packet handed over
  torn        \* an interrupt fell inside pd_clear_deferred_rx and left the
              \* indices apart

hwVars     == <<rxBuf, rxAct, txEnd, rxRst, bmc, txFor, nvic>>
ringVars   == <<ring, head, tail, count, finish, rxSeq>>
crcVars    == <<irqBuf, waiting, pendingBuf, pending>>
sourceVars == <<next, sends, cables, resets>>
mainVars   == <<mpc, cur, txs, txStart, connected, last>>
vars == <<hwVars, ringVars, crcVars, lastSop, isr, mainVars, clr, sourceVars,
          fresh, torn>>

Init ==
  /\ rxBuf = Cable /\ rxAct = FALSE /\ txEnd = FALSE /\ rxRst = FALSE
  /\ bmc = "rx" /\ txFor = 1 /\ nvic = TRUE
  /\ irqBuf = Cable /\ waiting = FALSE /\ pendingBuf = Cable /\ pending = FALSE
  /\ ring = [i \in Slots |-> NoEntry]
  /\ head = 0 /\ tail = 0 /\ count = 0 /\ finish = FALSE /\ rxSeq = 0
  /\ lastSop = SOP /\ txStart = 0 /\ connected = FALSE
  /\ isr = "off" /\ mpc = "loop"
  /\ clr = [step |-> 0, reset |-> FALSE, busy |-> FALSE]
  /\ cur = NoEntry
  /\ next = 1 /\ sends = 0 /\ cables = 0 /\ resets = 0 /\ txs = 0
  /\ fresh = {} /\ last = 0 /\ torn = FALSE

----------------------------------------------------------------------------
(* Helpers of the PHY: each names the variables it assigns.                *)

\* Mutants of Defer: no test for a full ring; a packet that is dropped still
\* takes a sequence number; the ring is called full one slot early.
DeferUnbounded(p, sop) ==
  /\ rxSeq' = rxSeq + 1
  /\ ring' = [ring EXCEPT ![tail] =
                [pkt |-> p, sop |-> sop, seq |-> rxSeq + 1]]
  /\ tail' = (tail + 1) % QueueLen
  /\ count' = count + 1
  /\ finish' = TRUE
  /\ head' = head
DeferCountsDropped(p, sop) ==
  IF count >= QueueLen
  THEN rxSeq' = rxSeq + 1 /\ UNCHANGED <<ring, head, tail, count, finish>>
  ELSE DeferUnbounded(p, sop)
DeferEarlyFull(p, sop) ==
  IF count >= QueueLen - 1 THEN UNCHANGED ringVars ELSE DeferUnbounded(p, sop)

\* pd_defer_rx_packet: append, or drop silently when the ring is full.
Defer(p, sop) ==
  IF count >= QueueLen THEN UNCHANGED ringVars
  ELSE /\ rxSeq' = rxSeq + 1
       /\ ring' = [ring EXCEPT ![tail] =
                     [pkt |-> p, sop |-> sop, seq |-> rxSeq + 1]]
       /\ tail' = (tail + 1) % QueueLen
       /\ count' = count + 1
       /\ finish' = TRUE
       /\ head' = head

\* pd_clear_deferred_rx, where nothing can come in between.  The mutant
\* forgets one index.
ForgetButTail == finish' = FALSE /\ head' = 0 /\ count' = 0 /\ tail' = tail
ForgetDeferred == finish' = FALSE /\ head' = 0 /\ tail' = 0 /\ count' = 0

\* STATUS is write-1-to-clear (it is wiped with 0xFF, and TX_END by writing
\* it): the handler's STATUS |= flag writes back every flag it reads as 1,
\* and so clears all that are latched, not the one it names.
NoFlags == rxAct' = FALSE /\ txEnd' = FALSE /\ rxRst' = FALSE

\* PD_Rx_Mode: PD_ALL_CLR wipes the latched flags; the interrupt comes on.
RxMode == NoFlags /\ bmc' = "rx" /\ nvic' = TRUE

\* PD_Phy_SendPack(0, ...): STATUS = 0xFF, then the GoodCRC for p goes out.
SendGoodCRC(p) == NoFlags /\ bmc' = "tx" /\ txFor' = p

\* pd_analyzer_may_goodcrc, for an SOP packet on a selected CC line.
MayGoodCRC(p) == connected \/ p \in Caps \cup Pre

----------------------------------------------------------------------------
(* The peripheral and the charger.                                         *)

\* pd_clear_deferred_rx takes less than a microsecond, the handler that may
\* preempt it some tens, and a packet several hundred: at most one event of
\* the wire falls inside a clear, and none once the handler has preempted it.
Occupy == clr' = IF mpc = "clr" THEN [clr EXCEPT !.busy = TRUE] ELSE clr
Pace == (mpc = "clr" => ~clr.busy) /\ Occupy

\* A packet arrives whole: between transmissions, or after one has left the
\* wire and before its TX_END is serviced ("HKY Cap during ACK GoodCRC").
HwReceive(p) ==
  /\ bmc \in {"rx", "sent"} /\ sends < MaxSends
  /\ Pace
  /\ p = Cable => cables < MaxCable
  /\ rxBuf' = p /\ rxAct' = TRUE
  /\ sends' = sends + 1
  /\ cables' = IF p = Cable THEN cables + 1 ELSE cables
  /\ fresh' = fresh \cup {p}
  /\ UNCHANGED <<txEnd, rxRst, bmc, txFor, nvic, ringVars, crcVars, lastSop,
                 isr, mainVars, next, resets, torn>>

\* The GoodCRC has left the wire; the charger may or may not have heard it.
HwTxDone(heard) ==
  /\ bmc = "tx"
  /\ bmc' = "sent" /\ txEnd' = TRUE
  /\ Pace
  /\ next' = IF heard /\ txFor = next THEN next + 1 ELSE next
  /\ UNCHANGED <<rxBuf, rxAct, rxRst, txFor, nvic, ringVars, crcVars, lastSop,
                 isr, mainVars, sends, cables, resets, fresh, torn>>

HwReset ==
  /\ resets < MaxResets /\ bmc \in {"rx", "sent"}
  /\ Pace
  /\ rxRst' = TRUE /\ resets' = resets + 1
  /\ UNCHANGED <<rxBuf, rxAct, txEnd, bmc, txFor, nvic, ringVars, crcVars,
                 lastSop, isr, mainVars, next, sends, cables, fresh, torn>>

----------------------------------------------------------------------------
(* PD_PHY_IRQHandler, in its four stages.                                  *)

\* IF_RX_ACT.  An SOP packet is stashed while a GoodCRC is going out and
\* answered otherwise; an SOP' packet is deferred and pauses the interrupt.
IsrReceive ==
  /\ rxAct
  /\ NoFlags
  /\ lastSop' = IF rxBuf = Cable THEN SOPP ELSE SOP
  /\ \/ /\ rxBuf # Cable /\ waiting
        /\ pendingBuf' = rxBuf /\ pending' = TRUE
        /\ UNCHANGED <<irqBuf, waiting, bmc, txFor, nvic, ringVars>>
     \/ /\ rxBuf # Cable /\ ~waiting /\ MayGoodCRC(rxBuf)
        /\ irqBuf' = rxBuf /\ waiting' = TRUE
        /\ SendGoodCRC(rxBuf)
        /\ UNCHANGED <<pendingBuf, pending, nvic, ringVars>>
     \/ /\ rxBuf # Cable /\ ~waiting /\ ~MayGoodCRC(rxBuf)
        /\ irqBuf' = rxBuf
        /\ UNCHANGED <<waiting, pendingBuf, pending, bmc, txFor, nvic,
                       ringVars>>
     \/ /\ rxBuf = Cable
        /\ irqBuf' = rxBuf /\ nvic' = FALSE
        /\ Defer(rxBuf, SOPP)
        /\ UNCHANGED <<waiting, pendingBuf, pending, bmc, txFor>>

IsrRx ==
  /\ isr = "off" /\ nvic /\ (rxAct \/ txEnd \/ rxRst)
  /\ isr' = "tx"
  /\ \/ IsrReceive
     \/ ~rxAct /\ UNCHANGED <<hwVars, ringVars, crcVars, lastSop>>
  /\ Occupy
  /\ UNCHANGED <<rxBuf, mainVars, sourceVars, fresh, torn>>

\* The GoodCRC has gone out and another packet is stashed: answer that one.
IsrChain ==
  /\ pending
  /\ irqBuf' = pendingBuf /\ pending' = FALSE /\ waiting' = TRUE
  /\ lastSop' = SOP
  /\ SendGoodCRC(pendingBuf)
  /\ isr' = "rst" /\ UNCHANGED <<pendingBuf, nvic>>

\* The GoodCRC has gone out and nothing is stashed: receive again.  The
\* mutant leaves PD_TX_EN up.
IsrListenTxUp ==
  /\ ~pending /\ waiting' = FALSE
  /\ NoFlags /\ bmc' = bmc /\ isr' = "arm"
  /\ UNCHANGED <<txFor, nvic, irqBuf, pendingBuf, pending, lastSop>>
IsrListen ==
  /\ ~pending /\ waiting' = FALSE
  /\ NoFlags /\ bmc' = "rx" /\ isr' = "arm"
  /\ UNCHANGED <<txFor, nvic, irqBuf, pendingBuf, pending, lastSop>>

\* IF_TX_END.  What was latched besides is lost.
IsrTx ==
  /\ isr = "tx"
  /\ \/ /\ txEnd /\ waiting
        /\ Defer(irqBuf, lastSop)
        /\ IsrChain \/ IsrListen
     \/ /\ txEnd /\ ~waiting
        /\ RxMode /\ isr' = "rst"
        /\ UNCHANGED <<txFor, ringVars, crcVars, lastSop>>
     \/ /\ ~txEnd
        /\ isr' = "rst"
        /\ UNCHANGED <<hwVars, ringVars, crcVars, lastSop>>
  /\ UNCHANGED <<rxBuf, mainVars, clr, sourceVars, fresh, torn>>

\* A packet complete since the re-arm is answered at once, whatever its SOP;
\* the handler then returns.
IsrRearmCatch ==
  /\ rxAct /\ rxBuf \notin Caps
  /\ pendingBuf' = rxBuf /\ pending' = TRUE /\ waiting' = TRUE
  /\ SendGoodCRC(rxBuf)
  /\ isr' = "off" /\ UNCHANGED nvic

\* Nothing to answer: pause the interrupt until the main loop has drained the
\* ring.  A packet of MsgType 1 is taken for a GoodCRC, its flag cleared.
IsrRearm ==
  /\ \/ rxAct /\ rxBuf \in Caps /\ NoFlags
     \/ ~rxAct /\ UNCHANGED <<rxAct, txEnd, rxRst>>
  /\ nvic' = FALSE /\ isr' = "rst"
  /\ UNCHANGED <<bmc, txFor, waiting, pendingBuf, pending>>

IsrArm ==
  /\ isr = "arm"
  /\ IsrRearmCatch \/ IsrRearm
  /\ UNCHANGED <<rxBuf, irqBuf, lastSop, ringVars, mainVars, clr, sourceVars,
                 fresh, torn>>

\* IF_RX_RESET: everything received is forgotten.
IsrRst ==
  /\ isr = "rst" /\ isr' = "off"
  /\ \/ /\ rxRst
        /\ waiting' = FALSE /\ pending' = FALSE
        /\ ForgetDeferred /\ torn' = FALSE
        /\ RxMode
        /\ UNCHANGED <<txFor, irqBuf, pendingBuf, ring, rxSeq>>
     \/ ~rxRst /\ UNCHANGED <<hwVars, crcVars, ringVars, torn>>
  /\ UNCHANGED <<rxBuf, lastSop, mainVars, clr, sourceVars, fresh>>

----------------------------------------------------------------------------
(* The main loop: it takes a step only while the handler is not running.   *)

Main(at) == isr = "off" /\ mpc = at

\* RunDeferredRx, the tests before the interrupt is disabled.
PollTest ==
  /\ Main("loop") /\ finish /\ bmc = "rx"
  /\ mpc' = "take"
  /\ UNCHANGED <<hwVars, ringVars, crcVars, lastSop, isr, clr, cur, txs,
                 txStart, connected, last, sourceVars, fresh, torn>>

\* RunDeferredRx with the interrupt off: the count was stale ...
PollEmpty ==
  /\ Main("take") /\ count = 0
  /\ finish' = FALSE /\ nvic' = TRUE /\ mpc' = "loop"
  /\ UNCHANGED <<rxBuf, rxAct, txEnd, rxRst, bmc, txFor, ring, head, tail,
                 count, rxSeq, crcVars, lastSop, isr, clr, cur, txs, txStart,
                 connected, last, sourceVars, fresh, torn>>

\* ... or the head of the ring is handed over.  An SOP' packet is decoded
\* after PD_Rx_Mode; for an SOP packet reception resumes, with PD_TX_EN
\* cleared unless a packet is latched (pd_resume_rx_preserve_latched).
PollTake ==
  /\ Main("take") /\ count > 0
  /\ cur' = ring[head]
  /\ head' = (head + 1) % QueueLen /\ count' = count - 1
  /\ finish' = (count > 1)
  /\ nvic' = TRUE
  /\ \/ /\ ring[head].sop = SOPP
        /\ mpc' = "loop" /\ bmc' = "rx" /\ NoFlags
        /\ UNCHANGED last
     \/ /\ ring[head].sop # SOPP
        /\ \/ mpc' = "handle"
           \/ mpc' = "attach" /\ ~connected /\ ring[head].pkt \in Caps
        /\ last' = IF ring[head].pkt = Cable THEN last ELSE ring[head].pkt
        /\ bmc' = IF rxAct THEN bmc ELSE "rx"
        /\ UNCHANGED <<rxAct, txEnd, rxRst>>
  /\ UNCHANGED <<rxBuf, txFor, ring, tail, rxSeq, crcVars, lastSop, isr, clr,
                 txs, txStart, connected, sourceVars, fresh, torn>>

\* PD_PHY_TickMs, or a handler, has the control: it may transmit; and it ends.
\* The loop ticks when the poll before it leaves nothing it could take.
Tick ==
  /\ Main("loop") /\ ~(finish /\ bmc = "rx") /\ txs < MaxTx
  /\ mpc' = "handle"
  /\ UNCHANGED <<hwVars, ringVars, crcVars, lastSop, isr, clr, cur, txs,
                 txStart, connected, last, sourceVars, fresh, torn>>

Return ==
  /\ isr = "off" /\ mpc \in {"handle", "txfail", "aborted"}
  /\ mpc' = "loop"
  /\ UNCHANGED <<hwVars, ringVars, crcVars, lastSop, isr, clr, cur, txs,
                 txStart, connected, last, sourceVars, fresh, torn>>

\* What every polled transmission shares: one more of them, interrupt off
\* from start to end, and the charger's message p put on the wire meanwhile.
Polled(p) ==
  /\ Main("handle") /\ txs < MaxTx /\ txs' = txs + 1
  /\ sends < MaxSends /\ sends' = sends + 1
  /\ p = Cable => cables < MaxCable
  /\ cables' = IF p = Cable THEN cables + 1 ELSE cables
  /\ rxBuf' = p
  /\ UNCHANGED <<clr, cur, connected, last, resets, isr>>

\* Hearing the GoodCRC for p, the charger moves on.
Hears(p, heard) == next' = IF heard /\ p = next THEN next + 1 ELSE next

\* How PD_PHY_DoTxNow begins (546-550): what the handler was doing is
\* forgotten, and w is left in s_waiting_gcrc_tx.  The mutant keeps the stash.
StartTxKeepsStash(w, arrived) ==
  /\ txStart' = rxSeq /\ fresh' = arrived
  /\ waiting' = w /\ UNCHANGED pending
StartTx(w, arrived) ==
  /\ txStart' = rxSeq /\ fresh' = arrived
  /\ waiting' = w /\ pending' = FALSE

\* PD_PHY_DoTxNow until its loops end: GoodCRC seen (acked) or not, and no
\* message came.  A GoodCRC the handler was sending is cut off.
DoTxQuiet(acked) ==
  /\ Main("handle") /\ txs < MaxTx
  /\ txs' = txs + 1 /\ StartTx(FALSE, {})
  /\ RxMode
  /\ mpc' = IF acked THEN "handle" ELSE "txfail"
  /\ UNCHANGED <<rxBuf, txFor, irqBuf, pendingBuf, ringVars, lastSop, isr,
                 clr, cur, connected, last, sourceVars, torn>>

\* reply_inline_ack: the charger answered while DoTxNow polled.  Deferred at
\* once and answered synchronously ...
DoTxReply(p, heard) ==
  /\ Polled(p) /\ Hears(p, heard)
  /\ StartTx(FALSE, {p}) /\ irqBuf' = p
  /\ Defer(p, SOP)
  /\ NoFlags /\ bmc' = "rx" /\ txFor' = p /\ nvic' = TRUE
  /\ UNCHANGED <<pendingBuf, lastSop, mpc, torn>>

\* ... or, after EPR_Mode Enter, left to the handler's TX_END.
DoTxReplyEPR(p) ==
  /\ connected /\ Polled(p) /\ UNCHANGED next
  /\ StartTx(TRUE, {p}) /\ irqBuf' = p
  /\ lastSop' = SOP
  /\ SendGoodCRC(p) /\ nvic' = TRUE
  /\ UNCHANGED <<pendingBuf, ringVars, mpc, torn>>

\* PD_TX_ChunkRequest: as DoTxNow, but TxStartRxSequence and a GoodCRC the
\* handler was sending are left as they are.  It answers an extended message,
\* so the protocol is attached; so is it when EPR_Mode Enter is sent.
ChunkQuiet ==
  /\ connected /\ Main("handle") /\ txs < MaxTx /\ txs' = txs + 1
  /\ RxMode
  /\ UNCHANGED <<rxBuf, txFor, crcVars, ringVars, lastSop, isr, mpc, clr, cur,
                 txStart, connected, last, sourceVars, fresh, torn>>

ChunkReply(p, heard) ==
  /\ connected /\ Polled(p) /\ Hears(p, heard)
  /\ fresh' = fresh \cup {p}
  /\ irqBuf' = p
  /\ Defer(p, SOP)
  /\ NoFlags /\ bmc' = "rx" /\ txFor' = p /\ nvic' = TRUE
  /\ UNCHANGED <<waiting, pendingBuf, pending, lastSop, mpc, txStart, torn>>

\* PD_PHY_Abort after a transmission failed, and PD_PHY_Reset_Value when a
\* Source_Capabilities attaches the protocol.  The interrupt may come in
\* between any two assignments of pd_clear_deferred_rx.
BeginAbort ==
  /\ Main("txfail")
  /\ waiting' = FALSE
  /\ mpc' = "clr" /\ clr' = [step |-> 1, reset |-> FALSE, busy |-> FALSE]
  /\ UNCHANGED <<hwVars, ringVars, irqBuf, pendingBuf, pending, lastSop, isr,
                 cur, txs, txStart, connected, last, sourceVars, fresh, torn>>

BeginReset ==
  /\ Main("attach")
  /\ waiting' = FALSE /\ lastSop' = NoSop
  /\ rxSeq' = 0 /\ txStart' = 0 /\ cur' = [cur EXCEPT !.seq = 0]
  /\ mpc' = "clr" /\ clr' = [step |-> 1, reset |-> TRUE, busy |-> FALSE]
  /\ UNCHANGED <<hwVars, ring, head, tail, count, finish, irqBuf, pendingBuf,
                 pending, isr, txs, connected, last, sourceVars, fresh, torn>>

\* pd_clear_deferred_rx, one assignment at a time.
ClearDeferred ==
  /\ Main("clr") /\ clr.step \in 1..4
  /\ clr' = [clr EXCEPT !.step = @ + 1]
  /\ finish' = IF clr.step = 1 THEN FALSE ELSE finish
  /\ head'   = IF clr.step = 2 THEN 0 ELSE head
  /\ tail'   = IF clr.step = 3 THEN 0 ELSE tail
  /\ count'  = IF clr.step = 4 THEN 0 ELSE count
  /\ torn'   = IF clr.step = 4 THEN tail # head ELSE torn
  /\ UNCHANGED <<hwVars, ring, rxSeq, crcVars, lastSop, isr, mpc, cur, txs,
                 txStart, connected, last, sourceVars, fresh>>

\* PD_PHY_Abort goes on to PD_PHY_ForceRxMode, which wipes the flags and
\* leaves the interrupt enable as it finds it.
EndAbort ==
  /\ Main("clr") /\ clr.step = 5 /\ ~clr.reset
  /\ pending' = FALSE
  /\ NoFlags /\ bmc' = "rx"
  /\ mpc' = "aborted"
  /\ UNCHANGED <<rxBuf, txFor, nvic, ringVars, irqBuf, waiting, pendingBuf,
                 lastSop, isr, clr, cur, txs, txStart, connected, last,
                 sourceVars, fresh, torn>>

\* pDevice_Attached goes on to enable the interrupt and set ConnectStat.
EndReset ==
  /\ Main("clr") /\ clr.step = 5 /\ clr.reset
  /\ pending' = FALSE
  /\ nvic' = TRUE /\ connected' = TRUE
  /\ mpc' = "handle"
  /\ UNCHANGED <<rxBuf, rxAct, txEnd, rxRst, bmc, txFor, ringVars, irqBuf,
                 waiting, pendingBuf, lastSop, isr, clr, cur, txs, txStart,
                 last, sourceVars, fresh, torn>>

----------------------------------------------------------------------------
OnWire == {p \in {next, Cable} : p <= MaxMsg}

Hardware == \/ \E p \in OnWire : HwReceive(p)
            \/ \E heard \in BOOLEAN : HwTxDone(heard)
            \/ HwReset
Handler  == IsrRx \/ IsrTx \/ IsrArm \/ IsrRst
Drain    == PollTest \/ PollEmpty \/ PollTake
Transmit == \/ \E acked \in BOOLEAN : DoTxQuiet(acked)
            \/ \E p \in OnWire, heard \in BOOLEAN : DoTxReply(p, heard)
            \/ \E p \in OnWire : DoTxReplyEPR(p)
            \/ ChunkQuiet
            \/ \E p \in OnWire, heard \in BOOLEAN : ChunkReply(p, heard)
Clear    == BeginAbort \/ BeginReset \/ ClearDeferred \/ EndAbort \/ EndReset

Next == Hardware \/ Handler \/ Drain \/ Tick \/ Return \/ Transmit \/ Clear

Spec == Init /\ [][Next]_vars

\* The handler runs when it is due, a transmission ends (SendPack bounds its
\* own wait), the main loop polls on every turn and its callbacks return.
Fairness == /\ WF_vars(Handler)
            /\ WF_vars(\E heard \in BOOLEAN : HwTxDone(heard))
            /\ WF_vars(Drain) /\ WF_vars(Return) /\ WF_vars(Clear)
FairSpec == Spec /\ Fairness

----------------------------------------------------------------------------
(* Properties.                                                             *)

\* Every variable has its type; the indices of s_deferred_rx_* stay in range.
TypeOK ==
  /\ rxBuf \in Packet /\ txFor \in Packet /\ bmc \in {"rx", "tx", "sent"}
  /\ rxAct \in BOOLEAN /\ txEnd \in BOOLEAN /\ rxRst \in BOOLEAN
  /\ nvic \in BOOLEAN /\ waiting \in BOOLEAN /\ pending \in BOOLEAN
  /\ finish \in BOOLEAN /\ connected \in BOOLEAN /\ torn \in BOOLEAN
  /\ irqBuf \in Packet /\ pendingBuf \in Packet
  /\ ring \in [Slots -> Entry]
  /\ head \in Slots /\ tail \in Slots /\ count \in 0..QueueLen
  /\ rxSeq \in Nat /\ txStart \in Nat /\ lastSop \in Kinds
  /\ isr \in {"off", "tx", "arm", "rst"}
  /\ mpc \in {"loop", "take", "handle", "attach", "txfail", "clr",
              "aborted"}
  /\ clr \in [step : 0..5, reset : BOOLEAN, busy : BOOLEAN]
  /\ cur \in Entry
  /\ next \in 1..MaxMsg+1 /\ sends \in Nat /\ cables \in Nat
  /\ resets \in Nat /\ txs \in Nat
  /\ fresh \subseteq Packet /\ last \in Packet

\* No clear is under way and the latest one was not torn by the handler.
Settled == ~torn /\ (mpc = "clr" => clr.step = 5)

\* The three fields of the ring that the handler and the main loop update in
\* turn (769-790, 868-883) agree, and a deferred packet is announced.
RingCoherent == Settled => /\ tail = (head + count) % QueueLen
                           /\ (count > 0 => finish)

\* The packets in the ring carry the latest count sequence numbers in order,
\* which is what pProt_Request_Rx_Is_PostTx (PD_Prot.c:3481) relies on.
SeqExact == Settled => \A i \in Slots :
  i < count => ring[(head + i) % QueueLen].seq + count = rxSeq + i + 1

\* A packet numbered above TxStartRxSequence did arrive after that
\* transmission began: no leftover of an older reception, latched, stashed,
\* waiting for its GoodCRC or of a torn clear, can pass for the answer to it
\* (546-552).
PostTxFresh == cur.seq > txStart => cur.pkt \in fresh

\* The main loop is handed the charger's messages in the order they were sent
\* (repeats included), through stash, ring and inline replies.
InOrder == [][Settled => last <= last']_vars

\* The packets in the ring.
Queued == {ring[(head + i) % QueueLen].pkt : i \in {j \in Slots : j < count}}

\* A packet the device has in hand: in the ring, under its GoodCRC, stashed.
Held(p) == \/ p \in Queued
           \/ waiting /\ irqBuf = p
           \/ pending /\ pendingBuf = p

\* The three ways in which a step of the handler drops the acknowledged p:
\* the ring is full (769-771), another packet is stashed over it (981), or
\* the bus is reset (1104-1106).
Dropped(p) ==
  \/ isr = "tx" /\ txEnd /\ waiting /\ irqBuf = p /\ count = QueueLen
  \/ isr = "off" /\ rxAct /\ waiting /\ pending /\ pendingBuf = p
  \/ isr = "rst" /\ rxRst

\* Without cable traffic, no step of the handler loses a message whose GoodCRC
\* the charger has heard, in any of the three places, but in the three ways
\* of Dropped (962-1116).
AckedKept ==
  [][ isr # isr' => \A p \in 1..next-1 :
        (Held(p) /\ ~Dropped(p)) => Held(p)' ]_vars

\* s_waiting_gcrc_tx and PD_TX_EN wait for a TX_END that the service of another
\* flag has cleared (962).
Stranded == waiting /\ bmc = "sent" /\ ~txEnd

\* Without cable traffic, packets in the ring are drained, unless the receiver
\* is Stranded: PD_TX_EN left up in any other way would shut the main loop
\* out of the ring for good (863-866).
DrainsOrStranded == finish ~> (~finish \/ Stranded)

\* "SOP' capture is deliberately passive" (README): no GoodCRC answers it.
SoppPassive == txFor # Cable

\* After a failed probe "Stay RX-only through that source AMS" (PD_Prot.c):
\* the interrupt is enabled, or work is queued whose drain enables it.
ListeningAfterAbort == mpc = "aborted" => nvic \/ finish

============================================================================

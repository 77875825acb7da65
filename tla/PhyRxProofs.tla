---------------------------- MODULE PhyRxProofs ----------------------------
(***************************************************************************)
(* Proofs about PhyRx for every queue length, every number of messages and *)
(* every bound: the type invariant, the coherence of the deferred ring     *)
(* under the interrupt handler, and the exactness of its sequence numbers. *)
(***************************************************************************)
EXTENDS PhyRx, TLAPS

(* Index arithmetic on the ring.                                           *)
LEMMA WrapSmall ==
  ASSUME NEW x \in 0..QueueLen-1 PROVE x % QueueLen = x
  BY QueueLenAssumption

LEMMA WrapLarge ==
  ASSUME NEW x \in QueueLen..(2*QueueLen-1)
  PROVE x % QueueLen = x - QueueLen
  BY QueueLenAssumption

LEMMA NextSlot ==
  ASSUME NEW x \in Slots PROVE (x + 1) % QueueLen \in Slots
  BY QueueLenAssumption DEF Slots

LEMMA WrapInjective ==
  ASSUME NEW h \in Slots, NEW i \in Slots, NEW j \in Slots, i < j
  PROVE (h + i) % QueueLen # (h + j) % QueueLen
<1>1. /\ h + i < QueueLen => (h + i) % QueueLen = h + i
      /\ h + i >= QueueLen => (h + i) % QueueLen = h + i - QueueLen
  BY WrapSmall, WrapLarge, QueueLenAssumption DEF Slots
<1>2. /\ h + j < QueueLen => (h + j) % QueueLen = h + j
      /\ h + j >= QueueLen => (h + j) % QueueLen = h + j - QueueLen
  BY WrapSmall, WrapLarge, QueueLenAssumption DEF Slots
<1> QED BY <1>1, <1>2, QueueLenAssumption DEF Slots

LEMMA WrapShift ==
  ASSUME NEW h \in Slots, NEW k \in Slots
  PROVE (((h + 1) % QueueLen) + k) % QueueLen = (h + (k + 1)) % QueueLen
<1>1. CASE h + 1 < QueueLen
  <2>1. (h + 1) % QueueLen = h + 1
    BY <1>1, WrapSmall, QueueLenAssumption DEF Slots
  <2>2. (h + 1) + k = h + (k + 1)
    BY QueueLenAssumption DEF Slots
  <2> QED BY <2>1, <2>2
<1>2. CASE h + 1 = QueueLen
  <2>1. (h + 1) % QueueLen = 0
    BY <1>2, WrapLarge, QueueLenAssumption DEF Slots
  <2>2. k % QueueLen = k
    BY WrapSmall, QueueLenAssumption DEF Slots
  <2>3. (h + (k + 1)) % QueueLen = k
    BY <1>2, WrapLarge, QueueLenAssumption DEF Slots
  <2>4. 0 + k = k
    BY QueueLenAssumption DEF Slots
  <2> QED BY <2>1, <2>2, <2>3, <2>4
<1> QED BY <1>1, <1>2, QueueLenAssumption DEF Slots

(* pd_defer_rx_packet keeps the types of the ring.                         *)
LEMMA DeferType ==
  ASSUME TypeOK, NEW p \in Packet, NEW k \in Kinds, Defer(p, k)
  PROVE /\ ring' \in [Slots -> Entry] /\ head' \in Slots /\ tail' \in Slots
        /\ count' \in 0..QueueLen /\ rxSeq' \in Nat /\ finish' \in BOOLEAN
<1>1. CASE count >= QueueLen
  BY <1>1 DEF Defer, TypeOK, ringVars
<1>2. CASE ~(count >= QueueLen)
  <2>1. (tail + 1) % QueueLen \in Slots
    BY NextSlot DEF TypeOK
  <2>2. [pkt |-> p, sop |-> k, seq |-> rxSeq + 1] \in Entry
    BY DEF TypeOK, Entry
  <2>3. count + 1 \in 0..QueueLen
    BY <1>2, QueueLenAssumption DEF TypeOK
  <2> QED BY <1>2, <2>1, <2>2, <2>3 DEF Defer, TypeOK
<1> QED BY <1>1, <1>2

(***************************************************************************)
(* Type correctness, one step per action.                                  *)
(***************************************************************************)
LEMMA InitType == Init => TypeOK
<1> SUFFICES ASSUME Init PROVE TypeOK
  OBVIOUS
<1>1. NoEntry \in Entry
  BY BoundAssumption DEF NoEntry, Entry, Packet, Kinds, Cable, SOPP
<1>2. ring \in [Slots -> Entry]
  BY <1>1 DEF Init
<1>3. 0 \in Slots /\ 0 \in 0..QueueLen
  BY QueueLenAssumption DEF Slots
<1>4. Cable \in Packet /\ 1 \in Packet /\ 1 \in 1..MaxMsg+1
  BY BoundAssumption DEF Packet, Cable
<1>5. clr \in [step : 0..5, reset : BOOLEAN, busy : BOOLEAN]
  BY DEF Init
<1>6. lastSop \in Kinds /\ fresh \subseteq Packet /\ last \in Packet
  BY <1>4 DEF Init, Kinds, Cable
<1> QED BY <1>1, <1>2, <1>3, <1>4, <1>5, <1>6 DEF Init, TypeOK

LEMMA OccupyType ==
  ASSUME TypeOK, Occupy
  PROVE clr' \in [step : 0..5, reset : BOOLEAN, busy : BOOLEAN]
  BY DEF TypeOK, Occupy

LEMMA HardwareType == TypeOK /\ Hardware => TypeOK'
<1> SUFFICES ASSUME TypeOK, Hardware PROVE TypeOK'
  OBVIOUS
<1> USE BoundAssumption, OccupyType DEF hwVars, ringVars, crcVars, mainVars, Pace
<1>1. ASSUME NEW p \in OnWire, HwReceive(p) PROVE TypeOK'
  BY <1>1 DEF TypeOK, HwReceive, OnWire, Packet, Cable
<1>2. ASSUME NEW heard \in BOOLEAN, HwTxDone(heard) PROVE TypeOK'
  BY <1>2 DEF TypeOK, HwTxDone, Packet
<1>3. CASE HwReset
  BY <1>3 DEF TypeOK, HwReset
<1> QED BY <1>1, <1>2, <1>3 DEF Hardware

LEMMA IsrRxType == TypeOK /\ IsrRx => TypeOK'
<1> SUFFICES ASSUME TypeOK, IsrRx PROVE TypeOK'
  OBVIOUS
<1> USE OccupyType DEF IsrRx, mainVars, sourceVars
<1>1. CASE ~rxAct /\ UNCHANGED <<hwVars, ringVars, crcVars, lastSop>>
  BY <1>1 DEF TypeOK, hwVars, ringVars, crcVars
<1>2. CASE IsrReceive
  <2> USE DEF IsrReceive, NoFlags, Kinds, SOP, SOPP
  <2>1. CASE rxBuf = Cable /\ Defer(rxBuf, SOPP)
    <3>1. /\ ring' \in [Slots -> Entry] /\ head' \in Slots /\ tail' \in Slots
          /\ count' \in 0..QueueLen /\ rxSeq' \in Nat /\ finish' \in BOOLEAN
      BY <2>1, DeferType DEF TypeOK
    <3> QED BY <1>2, <2>1, <3>1 DEF TypeOK
  <2>2. CASE rxBuf # Cable
    BY <1>2, <2>2 DEF TypeOK, ringVars, SendGoodCRC
  <2> QED BY <1>2, <2>1, <2>2
<1> QED BY <1>1, <1>2

LEMMA IsrTxType == TypeOK /\ IsrTx => TypeOK'
<1> SUFFICES ASSUME TypeOK, IsrTx PROVE TypeOK'
  OBVIOUS
<1> USE DEF IsrTx, mainVars, sourceVars
<1>1. CASE /\ txEnd /\ waiting
           /\ Defer(irqBuf, lastSop)
           /\ IsrChain \/ IsrListen
  <2>1. /\ ring' \in [Slots -> Entry] /\ head' \in Slots /\ tail' \in Slots
        /\ count' \in 0..QueueLen /\ rxSeq' \in Nat /\ finish' \in BOOLEAN
    BY <1>1, DeferType DEF TypeOK
  <2>2. CASE IsrChain
    BY <1>1, <2>1, <2>2
       DEF TypeOK, IsrChain, SendGoodCRC, NoFlags, Kinds, SOP
  <2>3. CASE IsrListen
    BY <1>1, <2>1, <2>3 DEF TypeOK, IsrListen, NoFlags
  <2> QED BY <1>1, <2>2, <2>3
<1>2. CASE txEnd /\ ~waiting
  BY <1>2 DEF TypeOK, RxMode, NoFlags, ringVars, crcVars
<1>3. CASE ~txEnd
  BY <1>3 DEF TypeOK, hwVars, ringVars, crcVars
<1> QED BY <1>1, <1>2, <1>3

LEMMA IsrArmType == TypeOK /\ IsrArm => TypeOK'
<1> SUFFICES ASSUME TypeOK, IsrArm PROVE TypeOK'
  OBVIOUS
<1>1. UNCHANGED <<rxBuf, irqBuf, lastSop, ringVars, mainVars, clr, sourceVars,
                  fresh, torn>>
  BY DEF IsrArm
<1>2. /\ rxAct' \in BOOLEAN /\ txEnd' \in BOOLEAN /\ rxRst' \in BOOLEAN
      /\ nvic' \in BOOLEAN /\ waiting' \in BOOLEAN /\ pending' \in BOOLEAN
      /\ isr' \in {"off", "rst"}
  BY DEF TypeOK, IsrArm, IsrRearmCatch, IsrRearm, SendGoodCRC, NoFlags
<1>3. /\ bmc' \in {"rx", "tx", "sent"}
      /\ txFor' \in Packet /\ pendingBuf' \in Packet
  BY DEF TypeOK, IsrArm, IsrRearmCatch, IsrRearm, SendGoodCRC
<1> QED BY <1>1, <1>2, <1>3 DEF TypeOK, ringVars, mainVars, sourceVars

LEMMA IsrRstType == TypeOK /\ IsrRst => TypeOK'
<1> SUFFICES ASSUME TypeOK, IsrRst PROVE TypeOK'
  OBVIOUS
<1> USE DEF TypeOK, IsrRst, mainVars, sourceVars
<1>1. CASE rxRst /\ ForgetDeferred
  <2>1. 0 \in Slots /\ 0 \in 0..QueueLen
    BY QueueLenAssumption DEF Slots
  <2> QED BY <1>1, <2>1 DEF ForgetDeferred, RxMode, NoFlags
<1>2. CASE ~rxRst
  BY <1>2 DEF hwVars, crcVars, ringVars
<1> QED BY <1>1, <1>2

LEMMA DrainType == TypeOK /\ (Drain \/ Tick \/ Return) => TypeOK'
<1> SUFFICES ASSUME TypeOK, Drain \/ Tick \/ Return PROVE TypeOK'
  OBVIOUS
<1> USE DEF Main, hwVars, ringVars, crcVars, sourceVars
<1>1. CASE PollTest \/ Tick \/ Return
  BY <1>1 DEF TypeOK, PollTest, Tick, Return
<1>2. CASE PollEmpty
  BY <1>2 DEF TypeOK, PollEmpty
<1>3. CASE PollTake
  <2>1. ring[head] \in Entry
    BY DEF TypeOK
  <2>2. (head + 1) % QueueLen \in Slots
    BY NextSlot DEF TypeOK
  <2>3. count - 1 \in 0..QueueLen
    BY <1>3, QueueLenAssumption DEF TypeOK, PollTake
  <2>4. cur' \in Entry /\ last' \in Packet
    BY <1>3, <2>1 DEF TypeOK, PollTake, Entry
  <2>5. mpc' \in {"loop", "handle", "attach"} /\ bmc' \in {"rx", "tx", "sent"}
    BY <1>3 DEF TypeOK, PollTake
  <2>6. rxAct' \in BOOLEAN /\ txEnd' \in BOOLEAN /\ rxRst' \in BOOLEAN
    BY <1>3 DEF TypeOK, PollTake, NoFlags
  <2> QED BY <1>3, <2>2, <2>3, <2>4, <2>5, <2>6 DEF TypeOK, PollTake
<1> QED BY <1>1, <1>2, <1>3 DEF Drain

LEMMA TransmitType == TypeOK /\ Transmit => TypeOK'
<1> SUFFICES ASSUME TypeOK, Transmit PROVE TypeOK'
  OBVIOUS
<1> USE DEF Main
<1>1. ASSUME NEW acked \in BOOLEAN, DoTxQuiet(acked) PROVE TypeOK'
  <2>1. txs' \in Nat /\ txStart' \in Nat
    BY <1>1 DEF TypeOK, DoTxQuiet, StartTx
  <2> QED BY <1>1, <2>1
             DEF TypeOK, DoTxQuiet, StartTx, RxMode, NoFlags, ringVars,
                 sourceVars
<1>2. ASSUME NEW p \in OnWire PROVE p \in Packet
  BY BoundAssumption DEF TypeOK, OnWire, Packet, Cable
<1>3. ASSUME NEW p \in OnWire, NEW heard \in BOOLEAN, Hears(p, heard)
      PROVE next' \in 1..MaxMsg+1
  BY <1>3, BoundAssumption DEF TypeOK, Hears, OnWire
<1>4. ASSUME NEW p \in OnWire, NEW heard \in BOOLEAN, DoTxReply(p, heard)
      PROVE TypeOK'
  <2>1. /\ ring' \in [Slots -> Entry] /\ head' \in Slots /\ tail' \in Slots
        /\ count' \in 0..QueueLen /\ rxSeq' \in Nat /\ finish' \in BOOLEAN
    BY <1>2, <1>4, DeferType DEF DoTxReply, Kinds
  <2>2. p \in Packet /\ next' \in 1..MaxMsg+1
    BY <1>2, <1>3, <1>4 DEF DoTxReply
  <2>3. txs' \in Nat /\ sends' \in Nat /\ cables' \in Nat
    BY <1>4 DEF TypeOK, DoTxReply, Polled
  <2> QED BY <1>4, <2>1, <2>2, <2>3
             DEF TypeOK, DoTxReply, Polled, StartTx, NoFlags
<1>5. ASSUME NEW p \in OnWire, DoTxReplyEPR(p) PROVE TypeOK'
  <2>1. p \in Packet /\ SOP \in Kinds
    BY <1>2 DEF Kinds
  <2>2. txs' \in Nat /\ sends' \in Nat /\ cables' \in Nat
    BY <1>5 DEF TypeOK, DoTxReplyEPR, Polled
  <2> QED BY <1>5, <2>1, <2>2
             DEF TypeOK, DoTxReplyEPR, Polled, StartTx, SendGoodCRC, NoFlags,
                 ringVars
<1>6. CASE ChunkQuiet
  <2>1. txs' \in Nat
    BY <1>6 DEF TypeOK, ChunkQuiet
  <2> QED BY <1>6, <2>1
             DEF TypeOK, ChunkQuiet, RxMode, NoFlags, ringVars, crcVars,
                 sourceVars
<1>7. ASSUME NEW p \in OnWire, NEW heard \in BOOLEAN, ChunkReply(p, heard)
      PROVE TypeOK'
  <2>1. /\ ring' \in [Slots -> Entry] /\ head' \in Slots /\ tail' \in Slots
        /\ count' \in 0..QueueLen /\ rxSeq' \in Nat /\ finish' \in BOOLEAN
    BY <1>2, <1>7, DeferType DEF ChunkReply, Kinds
  <2>2. p \in Packet /\ next' \in 1..MaxMsg+1
    BY <1>2, <1>3, <1>7 DEF ChunkReply
  <2>3. txs' \in Nat /\ sends' \in Nat /\ cables' \in Nat
    BY <1>7 DEF TypeOK, ChunkReply, Polled
  <2> QED BY <1>7, <2>1, <2>2, <2>3
             DEF TypeOK, ChunkReply, Polled, NoFlags
<1> QED BY <1>1, <1>4, <1>5, <1>6, <1>7 DEF Transmit

LEMMA ClearType == TypeOK /\ Clear => TypeOK'
<1> SUFFICES ASSUME TypeOK, Clear PROVE TypeOK'
  OBVIOUS
<1> USE DEF Main, hwVars, ringVars, crcVars, sourceVars
<1>1. CASE BeginAbort
  <2>1. clr' \in [step : 0..5, reset : BOOLEAN, busy : BOOLEAN]
    BY <1>1 DEF BeginAbort
  <2> QED BY <1>1, <2>1 DEF TypeOK, BeginAbort
<1>2. CASE BeginReset
  <2>1. cur' \in Entry /\ lastSop' \in Kinds
    BY <1>2 DEF TypeOK, BeginReset, Entry, Kinds
  <2>2. clr' \in [step : 0..5, reset : BOOLEAN, busy : BOOLEAN]
    BY <1>2 DEF BeginReset
  <2> QED BY <1>2, <2>1, <2>2 DEF TypeOK, BeginReset
<1>3. CASE ClearDeferred
  <2>1. 0 \in Slots /\ 0 \in 0..QueueLen
    BY QueueLenAssumption DEF Slots
  <2>2. clr' \in [step : 0..5, reset : BOOLEAN, busy : BOOLEAN]
    BY <1>3 DEF TypeOK, ClearDeferred
  <2>3. torn' \in BOOLEAN /\ finish' \in BOOLEAN
    BY <1>3 DEF TypeOK, ClearDeferred
  <2> QED BY <1>3, <2>1, <2>2, <2>3 DEF TypeOK, ClearDeferred
<1>4. CASE EndAbort
  BY <1>4 DEF TypeOK, EndAbort, NoFlags
<1>5. CASE EndReset
  BY <1>5 DEF TypeOK, EndReset
<1> QED BY <1>1, <1>2, <1>3, <1>4, <1>5 DEF Clear

LEMMA TypeStep == TypeOK /\ [Next]_vars => TypeOK'
<1> SUFFICES ASSUME TypeOK, [Next]_vars PROVE TypeOK'
  OBVIOUS
<1>1. CASE UNCHANGED vars
  BY <1>1 DEF TypeOK, vars, hwVars, ringVars, crcVars, mainVars, sourceVars
<1> QED BY <1>1, HardwareType, IsrRxType, IsrTxType, IsrArmType, IsrRstType,
           DrainType, TransmitType, ClearType DEF Next, Handler

\* Every variable keeps its type; in particular the indices and the count of
\* s_deferred_rx_* stay in range under any interleaving (764-791).
THEOREM PhyTypeSafe == Spec => []TypeOK
  BY InitType, TypeStep, PTL DEF Spec

(***************************************************************************)
(* The ring under the interrupt handler.  Between clears the indices, the  *)
(* count and the sequence numbers agree; while a clear is under way only   *)
(* ClearInv is known, and its last assignment decides whether the handler  *)
(* tore it.                                                                *)
(***************************************************************************)
Coherent == tail = (head + count) % QueueLen /\ (count > 0 => finish)

Exact == \A i \in Slots :
  i < count => ring[(head + i) % QueueLen].seq + count = rxSeq + i + 1

ClearInv == mpc = "clr" => /\ clr.step \in 1..5
                           /\ (clr.step \in {3, 4} => head = 0)

IInv == TypeOK /\ ClearInv /\ RingCoherent /\ SeqExact

(* Appending keeps the ring coherent and exact ...                         *)
LEMMA DeferRing ==
  ASSUME TypeOK, Coherent, Exact, NEW p \in Packet, NEW k \in Kinds,
         Defer(p, k)
  PROVE Coherent' /\ Exact'
<1>1. CASE count >= QueueLen
  BY <1>1 DEF Defer, ringVars, Coherent, Exact
<1>2. CASE ~(count >= QueueLen)
  <2> USE QueueLenAssumption
  <2>1. /\ head \in Slots /\ tail \in Slots /\ count \in Slots
        /\ head \in Nat /\ count \in Nat /\ rxSeq \in Nat
    BY <1>2 DEF TypeOK, Slots
  <2>2. /\ head' = head /\ tail' = (tail + 1) % QueueLen
        /\ count' = count + 1 /\ rxSeq' = rxSeq + 1 /\ finish' = TRUE
        /\ ring' = [ring EXCEPT ![tail] =
                      [pkt |-> p, sop |-> k, seq |-> rxSeq + 1]]
    BY <1>2 DEF Defer
  <2>3. tail' = (head' + count') % QueueLen
    <3>1. CASE head + count < QueueLen
      <4>1. tail = head + count
        BY <2>1, <3>1, WrapSmall DEF Coherent
      <4>2. tail + 1 = head + (count + 1)
        BY <2>1, <4>1
      <4> QED BY <2>2, <4>2
    <3>2. CASE head + count >= QueueLen
      <4>1. tail = head + count - QueueLen
        BY <2>1, <3>2, WrapLarge DEF Coherent, Slots
      <4>2. (tail + 1) % QueueLen = tail + 1
        BY <2>1, <4>1, WrapSmall DEF Slots
      <4>3. (head + (count + 1)) % QueueLen = head + (count + 1) - QueueLen
        BY <2>1, <3>2, WrapLarge DEF Slots
      <4> QED BY <2>1, <2>2, <4>1, <4>2, <4>3
    <3> QED BY <2>1, <3>1, <3>2
  <2>4. ASSUME NEW i \in Slots, i < count + 1
        PROVE ring'[(head + i) % QueueLen].seq + (count + 1)
                = (rxSeq + 1) + i + 1
    <3>1. CASE i = count
      <4>1. ring'[tail].seq = rxSeq + 1
        BY <2>1, <2>2 DEF TypeOK
      <4>2. (head + i) % QueueLen = tail
        BY <3>1 DEF Coherent
      <4> QED BY <2>1, <3>1, <4>1, <4>2
    <3>2. CASE i < count
      <4>1. (head + i) % QueueLen # tail
        BY <2>1, <3>2, WrapInjective DEF Coherent
      <4>2. (head + i) % QueueLen \in Slots
        BY <2>1 DEF Slots
      <4>3. ring'[(head + i) % QueueLen] = ring[(head + i) % QueueLen]
        BY <2>2, <4>1, <4>2 DEF TypeOK
      <4>4. ring[(head + i) % QueueLen].seq + count = rxSeq + i + 1
        BY <3>2 DEF Exact
      <4>5. ring[(head + i) % QueueLen].seq \in Nat
        BY <4>2 DEF TypeOK, Entry
      <4> QED BY <2>1, <4>3, <4>4, <4>5 DEF Slots
    <3> QED BY <2>1, <2>4, <3>1, <3>2 DEF Slots
  <2>5. Exact'
    BY <2>2, <2>4 DEF Exact, Slots
  <2> QED BY <2>2, <2>3, <2>5 DEF Coherent
<1> QED BY <1>1, <1>2

(* ... and so does taking the head.                                        *)
LEMMA TakeRing ==
  ASSUME TypeOK, Coherent, Exact, PollTake
  PROVE Coherent' /\ Exact'
<1> USE QueueLenAssumption
<1>1. /\ head \in Slots /\ head \in Nat /\ count \in Nat /\ count > 0
      /\ count - 1 \in Slots /\ rxSeq \in Nat
  BY DEF TypeOK, Slots, PollTake
<1>2. /\ head' = (head + 1) % QueueLen /\ count' = count - 1
      /\ finish' = (count > 1) /\ tail' = tail /\ ring' = ring
      /\ rxSeq' = rxSeq
  BY DEF PollTake
<1>3. tail' = (head' + count') % QueueLen
  <2>1. (head' + (count - 1)) % QueueLen = (head + ((count - 1) + 1)) % QueueLen
    BY <1>1, <1>2, WrapShift
  <2>2. (count - 1) + 1 = count
    BY <1>1
  <2> QED BY <1>2, <2>1, <2>2 DEF Coherent
<1>4. ASSUME NEW i \in Slots, i < count - 1
      PROVE ring[(head' + i) % QueueLen].seq + (count - 1) = rxSeq + i + 1
  <2>1. (head' + i) % QueueLen = (head + (i + 1)) % QueueLen
    BY <1>1, <1>2, WrapShift
  <2>2. i + 1 \in Slots /\ i + 1 < count
    BY <1>1, <1>4 DEF Slots
  <2>3. ring[(head + (i + 1)) % QueueLen].seq + count = rxSeq + (i + 1) + 1
    BY <2>2 DEF Exact
  <2>4. (head + (i + 1)) % QueueLen \in Slots
    BY <1>1, <2>2 DEF Slots
  <2>5. ring[(head + (i + 1)) % QueueLen].seq \in Nat
    BY <2>4 DEF TypeOK, Entry
  <2> QED BY <1>1, <2>1, <2>3, <2>5 DEF Slots
<1>5. Exact'
  BY <1>2, <1>4 DEF Exact, Slots
<1>6. count' > 0 => finish'
  <2>1. count' > 0 => count > 1
    BY <1>1, <1>2
  <2> QED BY <1>2, <2>1, Zenon
<1> QED BY <1>3, <1>5, <1>6 DEF Coherent

(* Steps that leave the ring, and where a clear stands, as they are.       *)
LEMMA KeepRing ==
  ASSUME IInv, UNCHANGED ringVars, UNCHANGED torn,
         Settled' => Settled, ClearInv'
  PROVE ClearInv' /\ RingCoherent' /\ SeqExact'
  BY DEF IInv, RingCoherent, SeqExact, ringVars

LEMMA AppendRing ==
  ASSUME IInv, NEW p \in Packet, NEW k \in Kinds, Defer(p, k),
         UNCHANGED torn, Settled' => Settled, ClearInv'
  PROVE ClearInv' /\ RingCoherent' /\ SeqExact'
<1>1. CASE ~Settled
  BY <1>1 DEF RingCoherent, SeqExact
<1>2. CASE Settled
  <2>1. TypeOK /\ Coherent /\ Exact
    BY <1>2 DEF IInv, RingCoherent, SeqExact, Coherent, Exact
  <2>2. Coherent' /\ Exact'
    BY <2>1, DeferRing
  <2> QED BY <2>2 DEF RingCoherent, SeqExact, Coherent, Exact
<1> QED BY <1>1, <1>2

LEMMA InitRing == Init => ClearInv /\ RingCoherent /\ SeqExact
<1> SUFFICES ASSUME Init PROVE ClearInv /\ RingCoherent /\ SeqExact
  OBVIOUS
<1>1. (head + count) % QueueLen = 0
  BY WrapSmall, QueueLenAssumption DEF Init
<1> QED BY <1>1, QueueLenAssumption
           DEF Init, ClearInv, RingCoherent, SeqExact, Slots

LEMMA RingHardware == IInv /\ Hardware => ClearInv' /\ RingCoherent' /\ SeqExact'
<1> SUFFICES ASSUME IInv, Hardware
             PROVE ClearInv' /\ RingCoherent' /\ SeqExact'
  OBVIOUS
<1>1. /\ UNCHANGED ringVars /\ UNCHANGED torn /\ mpc' = mpc /\ head' = head
      /\ Occupy
  BY DEF Hardware, HwReceive, HwTxDone, HwReset, Pace, mainVars, ringVars
<1>2. mpc = "clr" => clr'.step = clr.step
  BY <1>1 DEF Occupy, IInv, TypeOK
<1>3. (Settled' => Settled) /\ ClearInv'
  BY <1>1, <1>2 DEF Settled, ClearInv, IInv
<1> QED BY <1>1, <1>3, KeepRing

LEMMA RingIsrRx == IInv /\ IsrRx => ClearInv' /\ RingCoherent' /\ SeqExact'
<1> SUFFICES ASSUME IInv, IsrRx
             PROVE ClearInv' /\ RingCoherent' /\ SeqExact'
  OBVIOUS
<1>1. /\ UNCHANGED torn /\ mpc' = mpc /\ Occupy
      /\ UNCHANGED ringVars \/ Defer(rxBuf, SOPP)
  BY DEF IsrRx, IsrReceive, mainVars
<1>2. head' = head
  BY <1>1 DEF Defer, ringVars
<1>3. mpc = "clr" => clr'.step = clr.step
  BY <1>1 DEF Occupy, IInv, TypeOK
<1>4. (Settled' => Settled) /\ ClearInv'
  BY <1>1, <1>2, <1>3 DEF Settled, ClearInv, IInv
<1>5. rxBuf \in Packet /\ SOPP \in Kinds
  BY DEF IInv, TypeOK, Kinds
<1> QED BY <1>1, <1>4, <1>5, KeepRing, AppendRing

LEMMA RingIsrTx == IInv /\ IsrTx => ClearInv' /\ RingCoherent' /\ SeqExact'
<1> SUFFICES ASSUME IInv, IsrTx
             PROVE ClearInv' /\ RingCoherent' /\ SeqExact'
  OBVIOUS
<1>1. /\ UNCHANGED torn /\ mpc' = mpc /\ clr' = clr
      /\ UNCHANGED ringVars \/ Defer(irqBuf, lastSop)
  BY DEF IsrTx, mainVars
<1>2. head' = head
  BY <1>1 DEF Defer, ringVars
<1>3. (Settled' => Settled) /\ ClearInv'
  BY <1>1, <1>2 DEF Settled, ClearInv, IInv
<1>4. irqBuf \in Packet /\ lastSop \in Kinds
  BY DEF IInv, TypeOK
<1> QED BY <1>1, <1>3, <1>4, KeepRing, AppendRing

LEMMA RingIsrArm == IInv /\ IsrArm => ClearInv' /\ RingCoherent' /\ SeqExact'
<1> SUFFICES ASSUME IInv, IsrArm
             PROVE ClearInv' /\ RingCoherent' /\ SeqExact'
  OBVIOUS
<1>1. UNCHANGED ringVars /\ UNCHANGED <<torn, mpc, clr, head>>
  BY DEF IsrArm, mainVars, ringVars
<1>2. (Settled' => Settled) /\ ClearInv'
  BY <1>1 DEF Settled, ClearInv, IInv
<1> QED BY <1>1, <1>2, KeepRing

LEMMA RingIsrRst == IInv /\ IsrRst => ClearInv' /\ RingCoherent' /\ SeqExact'
<1> SUFFICES ASSUME IInv, IsrRst
             PROVE ClearInv' /\ RingCoherent' /\ SeqExact'
  OBVIOUS
<1>1. mpc' = mpc /\ clr' = clr
  BY DEF IsrRst, mainVars
<1>2. CASE ForgetDeferred
  <2>1. (0 + 0) % QueueLen = 0
    BY WrapSmall, QueueLenAssumption
  <2>2. ClearInv'
    BY <1>1, <1>2 DEF ForgetDeferred, ClearInv, IInv
  <2>3. RingCoherent'
    BY <1>2, <2>1 DEF ForgetDeferred, RingCoherent
  <2>4. SeqExact'
    BY <1>2, QueueLenAssumption DEF ForgetDeferred, SeqExact, Slots
  <2> QED BY <2>2, <2>3, <2>4
<1>3. CASE UNCHANGED ringVars /\ UNCHANGED torn
  <2>1. (Settled' => Settled) /\ ClearInv'
    BY <1>1, <1>3 DEF Settled, ClearInv, IInv, ringVars
  <2> QED BY <1>3, <2>1, KeepRing
<1> QED BY <1>2, <1>3 DEF IsrRst

LEMMA RingDrain ==
  IInv /\ (Drain \/ Tick \/ Return) => ClearInv' /\ RingCoherent' /\ SeqExact'
<1> SUFFICES ASSUME IInv, Drain \/ Tick \/ Return
             PROVE ClearInv' /\ RingCoherent' /\ SeqExact'
  OBVIOUS
<1>1. mpc # "clr" /\ mpc' # "clr" /\ UNCHANGED torn
  BY DEF Drain, PollTest, PollEmpty, PollTake, Tick, Return, Main
<1>2. (Settled' => Settled) /\ ClearInv'
  BY <1>1 DEF Settled, ClearInv
<1>3. CASE PollTest \/ Tick \/ Return
  <2>1. UNCHANGED ringVars
    BY <1>3 DEF PollTest, Tick, Return, ringVars
  <2> QED BY <1>1, <1>2, <2>1, KeepRing
<1>4. CASE PollEmpty
  <2>1. /\ head' = head /\ tail' = tail /\ count' = count /\ ring' = ring
        /\ rxSeq' = rxSeq /\ ~(count > 0)
    BY <1>4 DEF PollEmpty
  <2> QED BY <1>2, <2>1 DEF IInv, RingCoherent, SeqExact
<1>5. CASE PollTake
  <2>1. CASE ~Settled
    BY <1>2, <2>1 DEF RingCoherent, SeqExact
  <2>2. CASE Settled
    <3>1. TypeOK /\ Coherent /\ Exact
      BY <2>2 DEF IInv, RingCoherent, SeqExact, Coherent, Exact
    <3>2. Coherent' /\ Exact'
      BY <1>5, <3>1, TakeRing
    <3> QED BY <1>2, <3>2 DEF RingCoherent, SeqExact, Coherent, Exact
  <2> QED BY <2>1, <2>2
<1> QED BY <1>3, <1>4, <1>5 DEF Drain

LEMMA RingTransmit ==
  IInv /\ Transmit => ClearInv' /\ RingCoherent' /\ SeqExact'
<1> SUFFICES ASSUME IInv, Transmit
             PROVE ClearInv' /\ RingCoherent' /\ SeqExact'
  OBVIOUS
<1>1. mpc # "clr" /\ mpc' # "clr" /\ UNCHANGED torn
  BY DEF Transmit, DoTxQuiet, DoTxReply, DoTxReplyEPR, ChunkQuiet, ChunkReply,
         Polled, Main
<1>2. (Settled' => Settled) /\ ClearInv'
  BY <1>1 DEF Settled, ClearInv
<1>3. \/ UNCHANGED ringVars
      \/ \E p \in OnWire : Defer(p, SOP)
  BY DEF Transmit, DoTxQuiet, DoTxReply, DoTxReplyEPR, ChunkQuiet, ChunkReply
<1>4. ASSUME NEW p \in OnWire PROVE p \in Packet
  BY BoundAssumption DEF IInv, TypeOK, OnWire, Packet, Cable
<1>5. SOP \in Kinds
  BY DEF Kinds
<1> QED BY <1>1, <1>2, <1>3, <1>4, <1>5, KeepRing, AppendRing

LEMMA RingClear == IInv /\ Clear => ClearInv' /\ RingCoherent' /\ SeqExact'
<1> SUFFICES ASSUME IInv, Clear
             PROVE ClearInv' /\ RingCoherent' /\ SeqExact'
  OBVIOUS
<1>1. CASE BeginAbort \/ BeginReset
  <2>1. mpc' = "clr" /\ clr'.step = 1
    BY <1>1 DEF BeginAbort, BeginReset
  <2> QED BY <2>1 DEF ClearInv, RingCoherent, SeqExact, Settled
<1>2. CASE ClearDeferred
  <2> USE DEF ClearDeferred, Main
  <2>1. mpc = "clr" /\ mpc' = "clr" /\ clr'.step = clr.step + 1
    BY <1>2 DEF IInv, TypeOK
  <2>2. CASE clr.step \in 1..3
    <3>1. ~Settled'
      BY <2>1, <2>2 DEF Settled
    <3>2. ClearInv'
      BY <1>2, <2>1, <2>2 DEF ClearInv, IInv
    <3> QED BY <3>1, <3>2 DEF RingCoherent, SeqExact
  <2>3. CASE clr.step = 4
    <3>0. head = 0
      BY <2>1, <2>3 DEF ClearInv, IInv
    <3>1. head' = 0 /\ tail' = tail /\ count' = 0 /\ torn' = (tail # 0)
      BY <1>2, <2>3, <3>0
    <3>2. (0 + 0) % QueueLen = 0
      BY WrapSmall, QueueLenAssumption
    <3>3. ClearInv'
      BY <2>1, <2>3 DEF ClearInv
    <3>4. RingCoherent'
      <4>1. Settled' => tail' = 0
        BY <3>1, Zenon DEF Settled
      <4>2. ~(count' > 0)
        BY <3>1
      <4> QED BY <3>1, <3>2, <4>1, <4>2 DEF RingCoherent
    <3>5. SeqExact'
      BY <3>1, QueueLenAssumption DEF SeqExact, Slots
    <3> QED BY <3>3, <3>4, <3>5
  <2> QED BY <1>2, <2>2, <2>3
<1>3. CASE EndAbort \/ EndReset
  <2>1. /\ UNCHANGED ringVars /\ UNCHANGED torn
        /\ mpc = "clr" /\ clr.step = 5 /\ mpc' # "clr"
    BY <1>3 DEF EndAbort, EndReset, Main
  <2>2. (Settled' => Settled) /\ ClearInv'
    BY <2>1 DEF Settled, ClearInv
  <2> QED BY <2>1, <2>2, KeepRing
<1> QED BY <1>1, <1>2, <1>3 DEF Clear

LEMMA IInvStep == IInv /\ [Next]_vars => IInv'
<1> SUFFICES ASSUME IInv, [Next]_vars PROVE IInv'
  OBVIOUS
<1>1. TypeOK'
  BY TypeStep DEF IInv
<1>2. ClearInv' /\ RingCoherent' /\ SeqExact'
  <2>1. CASE UNCHANGED vars
    <3>1. UNCHANGED ringVars /\ UNCHANGED <<torn, mpc, clr, head>>
      BY <2>1 DEF vars, mainVars, ringVars
    <3>2. (Settled' => Settled) /\ ClearInv'
      BY <3>1 DEF Settled, ClearInv, IInv
    <3> QED BY <3>1, <3>2, KeepRing
  <2> QED BY <2>1, RingHardware, RingIsrRx, RingIsrTx, RingIsrArm, RingIsrRst,
             RingDrain, RingTransmit, RingClear DEF Next, Handler
<1> QED BY <1>1, <1>2 DEF IInv

\* For every queue length and under every interleaving of the handler with
\* the drain, the ring's indices and count agree whenever no clear is under
\* way or was torn, and a deferred packet is always announced (764-791).
THEOREM PhyRingCoherent == Spec => []RingCoherent
<1>1. Init => IInv
  BY InitType, InitRing DEF IInv
<1>2. IInv => RingCoherent
  BY DEF IInv
<1> QED BY <1>1, <1>2, IInvStep, PTL DEF Spec

\* Under the same condition the packets in the ring carry consecutive sequence
\* numbers that end at PD_PHY.RxSequence (774, PD_Prot.c:3481).
THEOREM PhySeqExact == Spec => []SeqExact
<1>1. Init => IInv
  BY InitType, InitRing DEF IInv
<1>2. IInv => SeqExact
  BY DEF IInv
<1> QED BY <1>1, <1>2, IInvStep, PTL DEF Spec
=============================================================================

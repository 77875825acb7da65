-------------------------- MODULE PhyRxOrderProofs --------------------------
(***************************************************************************)
(* Proofs about what PhyRx hands to the main loop, for every queue length, *)
(* number of messages and bound: a packet numbered after a transmission    *)
(* began did arrive after it, the charger's messages keep their order, and *)
(* without a cable none that was acknowledged is lost.                     *)
(*                                                                         *)
(* They rest on the invariant IInv of PhyRxProofs, and on what a clear of  *)
(* the ring that the handler tears leaves behind.                          *)
(***************************************************************************)
EXTENDS PhyRxProofs

(* Index arithmetic with one slot more than the ring has.                  *)
LEMMA WrapAround ==
  ASSUME NEW x \in 0..(2*QueueLen-1)
  PROVE ((x % QueueLen) + 1) % QueueLen = (x + 1) % QueueLen
<1> USE QueueLenAssumption
<1>1. CASE x < QueueLen
  BY <1>1, WrapSmall
<1>2. CASE x >= QueueLen /\ x + 1 < 2 * QueueLen
  <2>1. x % QueueLen = x - QueueLen
    BY <1>2, WrapLarge
  <2>2. (x - QueueLen + 1) % QueueLen = x - QueueLen + 1
    BY <1>2, WrapSmall
  <2>3. (x + 1) % QueueLen = x + 1 - QueueLen
    BY <1>2, WrapLarge
  <2> QED BY <2>1, <2>2, <2>3
<1>3. CASE x + 1 = 2 * QueueLen
  <2>1. x % QueueLen = QueueLen - 1
    BY <1>3, WrapLarge
  <2>2. QueueLen % QueueLen = 0
    BY WrapLarge
  <2>3. (2 * QueueLen) % QueueLen = 0
    OBVIOUS
  <2>4. (QueueLen - 1) + 1 = QueueLen
    OBVIOUS
  <2> QED BY <1>3, <2>1, <2>2, <2>3, <2>4
<1> QED BY <1>1, <1>2, <1>3

LEMMA WrapShiftAll ==
  ASSUME NEW h \in Slots, NEW k \in 0..QueueLen
  PROVE (((h + 1) % QueueLen) + k) % QueueLen = (h + (k + 1)) % QueueLen
<1> USE QueueLenAssumption DEF Slots
<1>1. CASE k < QueueLen
  BY <1>1, WrapShift
<1>2. CASE k = QueueLen
  <2>1. /\ h + 1 < QueueLen => (h + 1) % QueueLen = h + 1
        /\ h + 1 = QueueLen => (h + 1) % QueueLen = 0
    BY WrapSmall, WrapLarge
  <2>2. CASE h + 1 < QueueLen
    BY <1>2, <2>1, <2>2
  <2>3. CASE h + 1 = QueueLen
    <3>1. QueueLen % QueueLen = 0 /\ (2 * QueueLen) % QueueLen = 0
      BY WrapLarge
    <3>2. h + (k + 1) = 2 * QueueLen /\ 0 + k = QueueLen
      BY <1>2, <2>3
    <3> QED BY <2>1, <2>3, <3>1, <3>2
  <2> QED BY <2>2, <2>3
<1> QED BY <1>1, <1>2

(***************************************************************************)
(* Freshness.                                                              *)
(***************************************************************************)
(* What pProt_Request_Rx_Is_PostTx takes a packet's number for.            *)
Dated(e) == e.seq <= rxSeq /\ (e.seq > txStart => e.pkt \in fresh)

(* A torn clear leaves the tail one slot ahead of the count.               *)
Skew == IF torn THEN 1 ELSE 0

RingDated ==
  (mpc = "clr" => clr.step = 5) =>
    /\ tail = (head + count + Skew) % QueueLen
    /\ \A i \in 0..QueueLen :
         i < count + Skew => Dated(ring[(head + i) % QueueLen])

(* One event of the wire at most falls inside a clear, so no GoodCRC ends  *)
(* in it ...                                                               *)
ClearQuiet == mpc = "clr" /\ waiting => clr.busy /\ ~txEnd

(* ... and one packet at most is deferred between its last two assignments *)
ClearDated ==
  mpc = "clr" /\ clr.step = 4 =>
    \/ tail = 0
    \/ clr.busy /\ ~rxAct /\ tail = 1 % QueueLen /\ Dated(ring[0])

(* The packet latched, answered or stashed arrived since the latest        *)
(* transmission began.                                                     *)
InFlightFresh ==
  /\ rxAct => rxBuf \in fresh
  /\ waiting => irqBuf \in fresh
  /\ pending => pendingBuf \in fresh

FInv == ClearQuiet /\ InFlightFresh /\ Dated(cur) /\ RingDated /\ ClearDated

(* When the handler has begun to listen again nothing is answered or       *)
(* stashed, and s_irq_rx_buf still holds the packet it has just deferred.  *)
ArmFresh ==
  isr = "arm" => mpc # "clr" /\ ~waiting /\ ~pending /\ irqBuf \in fresh

(* The dates of what is in the ring last as long as each packet's does ... *)
LEMMA KeepDated ==
  ASSUME IInv, FInv, UNCHANGED <<ring, head, tail, count, torn>>,
         \A e \in Entry : Dated(e) => Dated(e)',
         (mpc' = "clr" => clr'.step = 5) => (mpc = "clr" => clr.step = 5)
  PROVE RingDated'
<1> SUFFICES ASSUME mpc' = "clr" => clr'.step = 5 PROVE RingDated'
  BY DEF RingDated
<1>1. /\ tail = (head + count + Skew) % QueueLen
      /\ \A i \in 0..QueueLen :
           i < count + Skew => Dated(ring[(head + i) % QueueLen])
  BY DEF FInv, RingDated
<1>2. \A i \in 0..QueueLen : ring[(head + i) % QueueLen] \in Entry
  BY QueueLenAssumption DEF IInv, TypeOK, Slots
<1>3. Skew' = Skew
  BY DEF Skew
<1>4. ASSUME NEW i \in 0..QueueLen, i < count + Skew
      PROVE Dated(ring[(head + i) % QueueLen])'
  BY <1>1, <1>2, <1>4
<1> QED BY <1>1, <1>3, <1>4 DEF RingDated

(* ... and a packet that is deferred has its own.                          *)
LEMMA AppendDated ==
  ASSUME IInv, FInv, NEW p \in Packet, NEW k \in Kinds, Defer(p, k),
         UNCHANGED torn,
         \A e \in Entry : Dated(e) => Dated(e)',
         p \in fresh',
         (mpc' = "clr" => clr'.step = 5) => (mpc = "clr" => clr.step = 5)
  PROVE RingDated'
<1>1. CASE count >= QueueLen
  BY <1>1, KeepDated DEF Defer, ringVars
<1>2. CASE ~(count >= QueueLen)
  <2> SUFFICES ASSUME mpc' = "clr" => clr'.step = 5 PROVE RingDated'
    BY DEF RingDated
  <2> USE QueueLenAssumption
  <2>0. PICK new \in Entry : /\ new.pkt = p /\ new.seq = rxSeq + 1
                             /\ ring' = [ring EXCEPT ![tail] = new]
    BY <1>2 DEF Defer, Entry, IInv, TypeOK
  <2>1. /\ head' = head /\ tail' = (tail + 1) % QueueLen
        /\ count' = count + 1 /\ rxSeq' = rxSeq + 1
    BY <1>2 DEF Defer
  <2>2. /\ head \in Slots /\ tail \in Slots /\ count \in Slots /\ rxSeq \in Nat
        /\ Skew \in 0..1 /\ Skew' = Skew /\ ring \in [Slots -> Entry]
    BY <1>2 DEF IInv, TypeOK, Slots, Skew
  <2>3. /\ tail = (head + count + Skew) % QueueLen
        /\ \A i \in 0..QueueLen :
             i < count + Skew => Dated(ring[(head + i) % QueueLen])
    BY DEF FInv, RingDated
  <2>4. tail' = (head' + count' + Skew') % QueueLen
    <3>1. head + count + Skew \in 0..(2*QueueLen-1)
      BY <2>2 DEF Slots
    <3>2. head' + count' + Skew' = (head + count + Skew) + 1
      BY <2>1, <2>2 DEF Slots
    <3> QED BY <2>1, <2>3, <3>1, <3>2, WrapAround
  <2>5. Dated(new)'
    BY <2>0, <2>1, <2>2 DEF Dated
  <2>6. ASSUME NEW i \in 0..QueueLen, i < count + 1 + Skew
        PROVE Dated(ring[(head + i) % QueueLen])'
    <3> DEFINE s == (head + i) % QueueLen
    <3>1. s \in Slots /\ s' = s
      BY <2>1, <2>2 DEF Slots
    <3>2. CASE s = tail
      <4>1. ring'[s] = new
        BY <2>0, <2>2, <3>2
      <4> HIDE DEF s
      <4> QED BY <2>5, <3>1, <4>1 DEF Dated, s
    <3>3. CASE s # tail
      <4>1. ring'[s] = ring[s] /\ ring[s] \in Entry
        BY <2>0, <2>2, <3>1, <3>3
      <4>2. i # count + Skew
        <5>1. i = count + Skew => head + i = head + count + Skew
          BY <2>2 DEF Slots
        <5> QED BY <2>3, <3>3, <5>1
      <4>3. i < count + Skew
        BY <2>2, <2>6, <4>2 DEF Slots
      <4>4. Dated(ring[s])
        BY <2>3, <4>3
      <4>5. ring'[s'] = ring[s]
        BY <3>1, <4>1
      <4> HIDE DEF s
      <4> QED BY <4>1, <4>4, <4>5 DEF Dated, s
    <3> QED BY <3>2, <3>3
  <2>7. count' + Skew' = count + 1 + Skew
    BY <2>1, <2>2
  <2> QED BY <2>4, <2>6, <2>7 DEF RingDated
<1> QED BY <1>1, <1>2

(* A number and its date, when numbers and arrivals only grow.             *)
LEMMA DatesLast ==
  ASSUME TypeOK, rxSeq' \in Nat, rxSeq' >= rxSeq, txStart' = txStart,
         fresh \subseteq fresh'
  PROVE \A e \in Entry : Dated(e) => Dated(e)'
  BY DEF Dated, TypeOK, Entry

LEMMA NumbersGrow ==
  ASSUME TypeOK, NEW p, NEW k, Defer(p, k) \/ UNCHANGED ringVars
  PROVE rxSeq' \in Nat /\ rxSeq' >= rxSeq
  BY DEF Defer, ringVars, TypeOK

LEMMA FreshHardware == ASSUME IInv, IInv', FInv, Hardware PROVE FInv'
<1>1. /\ UNCHANGED <<ring, head, tail, count, torn, rxSeq, txStart, cur, mpc>>
      /\ UNCHANGED <<irqBuf, waiting, pendingBuf, pending>>
      /\ fresh \subseteq fresh' /\ Pace
  BY DEF Hardware, HwReceive, HwTxDone, HwReset, ringVars, crcVars, mainVars
<1>2. mpc = "clr" => clr'.step = clr.step /\ clr'.busy /\ ~clr.busy
  BY <1>1 DEF Pace, Occupy, IInv, TypeOK
<1>3. \A e \in Entry : Dated(e) => Dated(e)'
  BY <1>1, DatesLast DEF IInv, TypeOK
<1>4. RingDated'
  BY <1>1, <1>2, <1>3, KeepDated
<1>5. ClearQuiet' /\ ClearDated'
  BY <1>1, <1>2 DEF FInv, ClearQuiet, ClearDated
<1>6. InFlightFresh'
  BY <1>1 DEF FInv, InFlightFresh, Hardware, HwReceive, HwTxDone, HwReset
<1>7. Dated(cur)'
  BY <1>1, <1>3 DEF FInv, IInv, TypeOK, Dated
<1> QED BY <1>4, <1>5, <1>6, <1>7 DEF FInv

LEMMA FreshIsrRx == ASSUME IInv, IInv', FInv, IsrRx PROVE FInv'
<1>1. /\ UNCHANGED <<torn, txStart, cur, mpc, fresh, rxBuf>> /\ Occupy
      /\ \/ Defer(rxBuf, SOPP) /\ rxAct /\ ~rxAct'
         \/ UNCHANGED ringVars
  BY DEF IsrRx, IsrReceive, NoFlags, mainVars, IInv, TypeOK
<1>2. mpc = "clr" => clr'.step = clr.step /\ clr'.busy
  BY <1>1 DEF Occupy, IInv, TypeOK
<1>3. rxSeq' \in Nat /\ rxSeq' >= rxSeq
  BY <1>1, NumbersGrow DEF IInv
<1>4. \A e \in Entry : Dated(e) => Dated(e)'
  BY <1>1, <1>3, DatesLast DEF IInv
<1>5. ClearQuiet'
  <2>1. CASE IsrReceive
    BY <1>1, <1>2, <2>1 DEF FInv, ClearQuiet, IsrReceive, SendGoodCRC, NoFlags
  <2>2. CASE UNCHANGED <<hwVars, crcVars>>
    BY <1>1, <1>2, <2>2 DEF FInv, ClearQuiet, hwVars, crcVars
  <2> QED BY <2>1, <2>2 DEF IsrRx
<1>6. InFlightFresh'
  <2>1. CASE IsrReceive
    BY <1>1, <2>1 DEF FInv, InFlightFresh, IsrReceive, SendGoodCRC, NoFlags
  <2>2. CASE UNCHANGED <<hwVars, crcVars>>
    BY <1>1, <2>2 DEF FInv, InFlightFresh, hwVars, crcVars
  <2> QED BY <2>1, <2>2 DEF IsrRx
<1>7. RingDated'
  <2>1. rxBuf \in Packet /\ SOPP \in Kinds
    BY DEF IInv, TypeOK, Kinds
  <2>2. CASE UNCHANGED ringVars
    BY <1>1, <1>2, <1>4, <2>2, KeepDated DEF ringVars
  <2>3. CASE Defer(rxBuf, SOPP) /\ rxAct
    <3>1. rxBuf \in fresh'
      BY <1>1, <2>3 DEF FInv, InFlightFresh
    <3> QED BY <1>1, <1>2, <1>4, <2>1, <2>3, <3>1, AppendDated
  <2> QED BY <1>1, <2>2, <2>3
<1>8. ClearDated'
  <2> SUFFICES ASSUME mpc = "clr", clr.step = 4 PROVE ClearDated'
    BY <1>1, <1>2 DEF ClearDated
  <2>0. \/ tail = 0
        \/ clr.busy /\ ~rxAct /\ tail = 1 % QueueLen /\ Dated(ring[0])
    BY DEF FInv, ClearDated
  <2>1. CASE rxAct
    <3>1. tail = 0
      BY <2>0, <2>1
    <3>2. CASE UNCHANGED ringVars
      BY <3>1, <3>2 DEF ClearDated, ringVars
    <3>3. CASE Defer(rxBuf, SOPP) /\ ~rxAct'
      <4>1. CASE count >= QueueLen
        BY <3>1, <3>3, <4>1 DEF ClearDated, Defer, ringVars
      <4>2. CASE ~(count >= QueueLen)
        <5>1. 0 \in Slots /\ rxBuf \in fresh
          BY <2>1, QueueLenAssumption DEF Slots, FInv, InFlightFresh
        <5>2. tail' = 1 % QueueLen /\ rxSeq' = rxSeq + 1
              /\ ring' = [ring EXCEPT ![0] =
                            [pkt |-> rxBuf, sop |-> SOPP, seq |-> rxSeq + 1]]
          BY <3>1, <3>3, <4>2 DEF Defer
        <5>3. ring'[0].pkt = rxBuf /\ ring'[0].seq = rxSeq'
          BY <5>1, <5>2 DEF IInv, TypeOK
        <5>4. Dated(ring[0])'
          BY <1>1, <1>3, <5>1, <5>3 DEF Dated
        <5> QED BY <1>2, <3>3, <5>2, <5>4 DEF ClearDated
      <4> QED BY <4>1, <4>2
    <3> QED BY <1>1, <3>2, <3>3
  <2>2. CASE ~rxAct
    <3>0. UNCHANGED hwVars /\ UNCHANGED ringVars
      BY <2>2 DEF IsrRx, IsrReceive
    <3>1. UNCHANGED ringVars /\ ~rxAct'
      BY <2>2, <3>0 DEF hwVars
    <3>2. 0 \in Slots
      BY QueueLenAssumption DEF Slots
    <3>3. Dated(ring[0]) => Dated(ring[0])'
      BY <1>1, <3>1, <3>2 DEF Dated, ringVars
    <3> QED BY <1>2, <2>0, <3>1, <3>3 DEF ClearDated, ringVars
  <2> QED BY <2>1, <2>2 DEF IInv, TypeOK
<1>9. Dated(cur)'
  BY <1>1, <1>4 DEF FInv, IInv, TypeOK, Dated
<1> QED BY <1>5, <1>6, <1>7, <1>8, <1>9 DEF FInv

LEMMA FreshIsrTx == ASSUME IInv, IInv', FInv, IsrTx PROVE FInv'
<1>1. /\ UNCHANGED <<torn, txStart, cur, mpc, clr, fresh, rxBuf>>
      /\ \/ Defer(irqBuf, lastSop) /\ txEnd /\ waiting
         \/ UNCHANGED ringVars
  BY DEF IsrTx, mainVars
<1>2. mpc = "clr" => ~(txEnd /\ waiting)
  BY DEF FInv, ClearQuiet
<1>3. rxSeq' \in Nat /\ rxSeq' >= rxSeq
  BY <1>1, NumbersGrow DEF IInv
<1>4. \A e \in Entry : Dated(e) => Dated(e)'
  BY <1>1, <1>3, DatesLast DEF IInv
<1>5. CASE txEnd /\ waiting
  <2>1. Defer(irqBuf, lastSop) /\ (IsrChain \/ IsrListen)
    BY <1>5 DEF IsrTx
  <2>2. irqBuf \in Packet /\ lastSop \in Kinds /\ irqBuf \in fresh'
    BY <1>1, <1>5 DEF IInv, TypeOK, FInv, InFlightFresh
  <2>3. RingDated'
    BY <1>1, <1>4, <2>1, <2>2, AppendDated
  <2>4. ClearQuiet' /\ ClearDated'
    BY <1>1, <1>2, <1>5 DEF ClearQuiet, ClearDated
  <2>5. InFlightFresh'
    <3> USE DEF InFlightFresh, SendGoodCRC, NoFlags
    <3>0. InFlightFresh /\ irqBuf \in fresh /\ fresh' = fresh /\ rxBuf' = rxBuf
      BY <1>1, <2>2 DEF FInv
    <3>1. CASE IsrChain
      BY <3>0, <3>1 DEF IsrChain
    <3>2. CASE IsrListen
      BY <3>0, <3>2 DEF IsrListen
    <3> QED BY <2>1, <3>1, <3>2
  <2>6. Dated(cur)'
    BY <1>1, <1>4 DEF FInv, IInv, TypeOK, Dated
  <2> QED BY <2>3, <2>4, <2>5, <2>6 DEF FInv
<1>6. CASE ~(txEnd /\ waiting)
  <2>1. UNCHANGED ringVars /\ UNCHANGED crcVars
        /\ (UNCHANGED hwVars \/ RxMode)
    BY <1>6 DEF IsrTx
  <2>2. /\ UNCHANGED <<ring, head, tail, count, rxSeq>>
        /\ UNCHANGED <<irqBuf, waiting, pendingBuf, pending>>
        /\ rxAct' => rxAct
        /\ txEnd' => txEnd
    BY <2>1 DEF ringVars, crcVars, hwVars, RxMode, NoFlags
  <2>3. RingDated'
    BY <1>1, <1>4, <2>2, KeepDated
  <2>4. ClearQuiet' /\ InFlightFresh'
    BY <1>1, <2>2 DEF FInv, ClearQuiet, InFlightFresh
  <2>5. ClearDated' /\ Dated(cur)'
    <3>1. 0 \in Slots
      BY QueueLenAssumption DEF Slots
    <3>2. (Dated(ring[0]) => Dated(ring[0])') /\ (Dated(cur) => Dated(cur)')
      BY <1>1, <2>2 DEF Dated
    <3> QED BY <1>1, <2>2, <3>2 DEF FInv, ClearDated
  <2> QED BY <2>3, <2>4, <2>5 DEF FInv
<1> QED BY <1>5, <1>6

LEMMA FreshIsrArm == ASSUME IInv, IInv', FInv, ArmFresh, IsrArm PROVE FInv'
<1>1. /\ UNCHANGED <<ring, head, tail, count, rxSeq, torn, txStart, cur, mpc>>
      /\ UNCHANGED <<clr, fresh, rxBuf, irqBuf>>
      /\ mpc # "clr" /\ irqBuf \in fresh
  BY DEF IsrArm, ArmFresh, ringVars, mainVars
<1>2. \A e \in Entry : Dated(e) => Dated(e)'
  BY <1>1 DEF Dated
<1>3. RingDated'
  BY <1>1, <1>2, KeepDated
<1>4. InFlightFresh'
  <2>1. CASE IsrRearmCatch
    BY <1>1, <2>1 DEF FInv, InFlightFresh, IsrRearmCatch, SendGoodCRC, NoFlags
  <2>2. CASE IsrRearm
    BY <1>1, <2>2 DEF FInv, InFlightFresh, IsrRearm, NoFlags
  <2> QED BY <2>1, <2>2 DEF IsrArm
<1> QED BY <1>1, <1>3, <1>4 DEF FInv, ClearQuiet, ClearDated, Dated

LEMMA FreshIsrRst == ASSUME IInv, IInv', FInv, IsrRst PROVE FInv'
<1>1. UNCHANGED <<txStart, cur, mpc, clr, fresh, rxBuf, rxSeq, ring>>
  BY DEF IsrRst, mainVars, ringVars
<1>2. Dated(cur)'
  BY <1>1 DEF FInv, Dated
<1>3. CASE rxRst
  <2>1. /\ waiting' = FALSE /\ pending' = FALSE /\ head' = 0 /\ tail' = 0
        /\ count' = 0 /\ torn' = FALSE /\ rxAct' = FALSE
    BY <1>3 DEF IsrRst, ForgetDeferred, RxMode, NoFlags
  <2>2. (0 + 0 + 0) % QueueLen = 0
    BY WrapSmall, QueueLenAssumption
  <2>3. RingDated'
    BY <2>1, <2>2 DEF RingDated, Skew
  <2> QED BY <1>2, <2>1, <2>3
          DEF FInv, ClearQuiet, ClearDated, InFlightFresh
<1>4. CASE ~rxRst
  <2>1. UNCHANGED <<hwVars, crcVars, ringVars, torn>>
    BY <1>4 DEF IsrRst
  <2>2. /\ UNCHANGED <<ring, head, tail, count, rxSeq, torn, rxAct, txEnd>>
        /\ UNCHANGED <<irqBuf, waiting, pendingBuf, pending>>
    BY <2>1 DEF hwVars, ringVars, crcVars
  <2>3. \A e \in Entry : Dated(e) => Dated(e)'
    BY <1>1 DEF Dated
  <2>4. RingDated'
    BY <1>1, <2>2, <2>3, KeepDated
  <2>5. Dated(ring[0]) => Dated(ring[0])'
    BY <1>1 DEF Dated
  <2> QED BY <1>1, <1>2, <2>2, <2>4, <2>5
          DEF FInv, ClearQuiet, ClearDated, InFlightFresh
<1> QED BY <1>3, <1>4 DEF IInv, TypeOK

(* Taking the head leaves dated packets behind, and hands one over.        *)
LEMMA FreshTake == ASSUME IInv, IInv', FInv, PollTake PROVE FInv'
<1> USE QueueLenAssumption
<1>1. /\ mpc = "take" /\ mpc' # "clr" /\ count > 0
      /\ head' = (head + 1) % QueueLen /\ count' = count - 1
      /\ cur' = ring[head]
      /\ UNCHANGED <<tail, ring, torn, rxSeq, txStart, fresh, rxBuf>>
      /\ UNCHANGED <<irqBuf, waiting, pendingBuf, pending>>
  BY DEF PollTake, Main, crcVars
<1>2. /\ head \in Slots /\ count \in 1..QueueLen /\ Skew \in 0..1
      /\ Skew' = Skew /\ ring \in [Slots -> Entry]
  BY <1>1 DEF IInv, TypeOK, Slots, Skew
<1>3. /\ tail = (head + count + Skew) % QueueLen
      /\ \A i \in 0..QueueLen :
           i < count + Skew => Dated(ring[(head + i) % QueueLen])
  BY <1>1 DEF FInv, RingDated
<1>4. Dated(cur)'
  <2>1. (head + 0) % QueueLen = head
    BY <1>2, WrapSmall DEF Slots
  <2>2. Dated(ring[head])
    BY <1>2, <1>3, <2>1
  <2> QED BY <1>1, <2>2 DEF Dated
<1>5. tail' = (head' + count' + Skew') % QueueLen
  <2>1. count' + Skew' \in 0..QueueLen
        /\ (count' + Skew') + 1 = count + Skew
        /\ head' + count' + Skew' = head' + (count' + Skew')
        /\ head + count + Skew = head + (count + Skew)
    <3>1. head \in Nat /\ head' \in Nat
      BY <1>1, <1>2, NextSlot DEF Slots
    <3> QED BY <1>1, <1>2, <3>1
  <2>2. (head' + (count' + Skew')) % QueueLen
          = (head + ((count' + Skew') + 1)) % QueueLen
    BY <1>1, <1>2, <2>1, WrapShiftAll
  <2> QED BY <1>1, <1>3, <2>1, <2>2
<1>6. ASSUME NEW i \in 0..QueueLen, i < count' + Skew'
      PROVE Dated(ring[(head + i) % QueueLen])'
  <2>1. (head' + i) % QueueLen = (head + (i + 1)) % QueueLen
    BY <1>1, <1>2, WrapShiftAll
  <2>2. i + 1 \in 0..QueueLen /\ i + 1 < count + Skew
    BY <1>1, <1>2, <1>6
  <2>3. Dated(ring[(head + (i + 1)) % QueueLen])
    BY <1>3, <2>2
  <2> QED BY <1>1, <2>1, <2>3 DEF Dated
<1>7. RingDated'
  BY <1>5, <1>6 DEF RingDated
<1>8. InFlightFresh'
  <2>1. rxAct' => rxAct
    BY DEF PollTake, NoFlags
  <2> QED BY <1>1, <2>1 DEF FInv, InFlightFresh
<1> QED BY <1>1, <1>4, <1>7, <1>8 DEF FInv, ClearQuiet, ClearDated

LEMMA FreshLoop ==
  ASSUME IInv, IInv', FInv, PollTest \/ PollEmpty \/ Tick \/ Return PROVE FInv'
<1>1. /\ mpc # "clr" /\ mpc' # "clr"
      /\ UNCHANGED <<head, count, tail, ring, torn, rxSeq, txStart, fresh, cur>>
      /\ UNCHANGED <<irqBuf, waiting, pendingBuf, pending, rxBuf, rxAct>>
  BY DEF PollTest, PollEmpty, Tick, Return, Main, crcVars, ringVars, hwVars
<1>2. \A e \in Entry : Dated(e) => Dated(e)'
  BY <1>1 DEF Dated
<1>3. RingDated'
  BY <1>1, <1>2, KeepDated
<1> QED BY <1>1, <1>3
        DEF FInv, ClearQuiet, ClearDated, InFlightFresh, Dated

LEMMA FreshTransmit == ASSUME IInv, IInv', FInv, Transmit PROVE FInv'
<1>1. /\ mpc # "clr" /\ mpc' # "clr" /\ UNCHANGED <<torn, cur>>
      /\ \/ txStart' = rxSeq
         \/ fresh \subseteq fresh' /\ txStart' = txStart
  BY DEF Transmit, DoTxQuiet, DoTxReply, DoTxReplyEPR, ChunkQuiet, ChunkReply,
         Polled, Main, StartTx
<1>2. \/ UNCHANGED ringVars
      \/ \E p \in OnWire : Defer(p, SOP) /\ p \in fresh'
  BY DEF Transmit, DoTxQuiet, DoTxReply, DoTxReplyEPR, ChunkQuiet, ChunkReply,
         StartTx
<1>3. rxSeq' \in Nat /\ rxSeq' >= rxSeq
  BY <1>2, NumbersGrow DEF IInv
<1>4. \A e \in Entry : Dated(e) => Dated(e)'
  <2>1. CASE txStart' = rxSeq
    BY <1>3, <2>1 DEF Dated, Entry, IInv, TypeOK
  <2>2. CASE fresh \subseteq fresh' /\ txStart' = txStart
    BY <1>3, <2>2, DatesLast DEF IInv
  <2> QED BY <1>1, <2>1, <2>2
<1>5. RingDated'
  <2>1. CASE UNCHANGED ringVars
    BY <1>1, <1>4, <2>1, KeepDated DEF ringVars
  <2>2. ASSUME NEW p \in OnWire, Defer(p, SOP), p \in fresh' PROVE RingDated'
    <3>1. p \in Packet /\ SOP \in Kinds
      BY BoundAssumption DEF IInv, TypeOK, OnWire, Packet, Cable, Kinds
    <3> QED BY <1>1, <1>4, <2>2, <3>1, AppendDated
  <2> QED BY <1>2, <2>1, <2>2
<1>6. Dated(cur)'
  BY <1>1, <1>4 DEF FInv, IInv, TypeOK, Dated
<1>7. InFlightFresh'
  <2> USE DEF InFlightFresh, NoFlags
  <2>0. InFlightFresh
    BY DEF FInv
  <2>1. ASSUME NEW acked \in BOOLEAN, DoTxQuiet(acked) PROVE InFlightFresh'
    BY <2>1 DEF DoTxQuiet, StartTx, RxMode
  <2>2. ASSUME NEW p \in OnWire, NEW heard \in BOOLEAN, DoTxReply(p, heard)
        PROVE InFlightFresh'
    BY <2>2 DEF DoTxReply, StartTx
  <2>3. ASSUME NEW p \in OnWire, DoTxReplyEPR(p) PROVE InFlightFresh'
    BY <2>3 DEF DoTxReplyEPR, StartTx, SendGoodCRC
  <2>4. CASE ChunkQuiet
    BY <2>0, <2>4 DEF ChunkQuiet, RxMode, crcVars
  <2>5. ASSUME NEW p \in OnWire, NEW heard \in BOOLEAN, ChunkReply(p, heard)
        PROVE InFlightFresh'
    BY <2>0, <2>5 DEF ChunkReply
  <2> QED BY <2>1, <2>2, <2>3, <2>4, <2>5 DEF Transmit
<1> QED BY <1>1, <1>5, <1>6, <1>7 DEF FInv, ClearQuiet, ClearDated

LEMMA FreshClear == ASSUME IInv, IInv', FInv, Clear PROVE FInv'
<1> USE QueueLenAssumption
<1>1. CASE BeginAbort \/ BeginReset
  <2>1. /\ mpc' = "clr" /\ clr'.step = 1 /\ waiting' = FALSE
        /\ UNCHANGED <<rxBuf, rxAct, pendingBuf, pending, fresh>>
    BY <1>1 DEF BeginAbort, BeginReset, hwVars
  <2>2. RingDated' /\ ClearQuiet' /\ ClearDated'
    BY <2>1 DEF RingDated, ClearQuiet, ClearDated
  <2>3. InFlightFresh'
    BY <2>1 DEF FInv, InFlightFresh
  <2>4. Dated(cur)'
    <3>1. CASE BeginAbort
      BY <3>1 DEF BeginAbort, ringVars, FInv, Dated
    <3>2. CASE BeginReset
      <4>1. cur'.seq = 0 /\ rxSeq' = 0 /\ txStart' = 0
        BY <3>2 DEF BeginReset, IInv, TypeOK, Entry
      <4> QED BY <4>1 DEF Dated
    <3> QED BY <1>1, <3>1, <3>2
  <2> QED BY <2>2, <2>3, <2>4 DEF FInv
<1>2. CASE ClearDeferred
  <2>1. /\ mpc = "clr" /\ mpc' = "clr" /\ clr.step \in 1..4
        /\ clr'.step = clr.step + 1 /\ clr'.busy = clr.busy
        /\ UNCHANGED <<hwVars, crcVars, ring, rxSeq, cur, txStart, fresh>>
    BY <1>2 DEF ClearDeferred, Main, IInv, TypeOK
  <2>2. ClearQuiet' /\ InFlightFresh' /\ Dated(cur)'
    BY <2>1 DEF FInv, ClearQuiet, InFlightFresh, Dated, hwVars, crcVars
  <2>3. CASE clr.step \in 1..3
    <3>1. RingDated'
      BY <2>1, <2>3 DEF RingDated
    <3>2. ClearDated'
      <4>1. clr'.step = 4 => clr.step = 3
        BY <2>1, <2>3
      <4>2. clr.step = 3 => tail' = 0
        BY <1>2 DEF ClearDeferred
      <4> QED BY <4>1, <4>2 DEF ClearDated
    <3> QED BY <2>2, <3>1, <3>2 DEF FInv
  <2>4. CASE clr.step = 4
    <3>1. head = 0
      BY <2>1, <2>4 DEF IInv, ClearInv
    <3>2. /\ head' = 0 /\ tail' = tail /\ count' = 0
          /\ torn' = (tail # 0)
      BY <1>2, <2>4, <3>1 DEF ClearDeferred
    <3>3. \/ tail = 0
          \/ tail = 1 % QueueLen /\ Dated(ring[0])
      BY <2>1, <2>4 DEF FInv, ClearDated
    <3>4. 0 % QueueLen = 0 /\ 0 \in Slots
      BY WrapSmall DEF Slots
    <3>5. CASE tail = 0
      <4>1. Skew' = 0
        BY <3>2, <3>5 DEF Skew
      <4>2. RingDated'
        BY <3>2, <3>4, <3>5, <4>1 DEF RingDated
      <4> QED BY <2>1, <2>2, <2>4, <4>2 DEF FInv, ClearDated
    <3>6. CASE tail # 0
      <4>1. Skew' = 1 /\ tail = 1 % QueueLen /\ Dated(ring[0])
        BY <3>2, <3>3, <3>6 DEF Skew
      <4>2. Dated(ring[0])'
        BY <2>1, <4>1 DEF Dated
      <4>3. ASSUME NEW i \in 0..QueueLen, i < count' + Skew'
            PROVE Dated(ring[(head + i) % QueueLen])'
        <5>1. i = 0 /\ head' + i = 0
          BY <3>2, <4>1, <4>3
        <5> QED BY <3>4, <4>2, <5>1 DEF Dated
      <4>4. tail' = (head' + count' + Skew') % QueueLen
        BY <3>2, <4>1
      <4>5. RingDated'
        BY <4>3, <4>4 DEF RingDated
      <4> QED BY <2>1, <2>2, <2>4, <4>5 DEF FInv, ClearDated
    <3> QED BY <3>5, <3>6
  <2> QED BY <2>1, <2>3, <2>4
<1>3. CASE EndAbort \/ EndReset
  <2>1. /\ mpc = "clr" /\ clr.step = 5 /\ mpc' # "clr"
        /\ UNCHANGED <<ring, head, tail, count, torn, rxSeq, cur, txStart, fresh>>
        /\ UNCHANGED <<rxBuf, irqBuf, waiting>> /\ pending' = FALSE
        /\ rxAct' => rxAct
    BY <1>3 DEF EndAbort, EndReset, Main, ringVars, NoFlags
  <2>2. \A e \in Entry : Dated(e) => Dated(e)'
    BY <2>1 DEF Dated
  <2>3. RingDated'
    BY <2>1, <2>2, KeepDated
  <2> QED BY <2>1, <2>3
          DEF FInv, ClearQuiet, ClearDated, InFlightFresh, Dated
<1> QED BY <1>1, <1>2, <1>3 DEF Clear

LEMMA MainIdle ==
  ASSUME Drain \/ Tick \/ Return \/ Transmit \/ Clear
  PROVE isr = "off" /\ isr' = "off"
  BY DEF Drain, PollTest, PollEmpty, PollTake, Tick, Return, Transmit,
         DoTxQuiet, DoTxReply, DoTxReplyEPR, ChunkQuiet, ChunkReply, Polled,
         Clear, BeginAbort, BeginReset, ClearDeferred, EndAbort, EndReset, Main

LEMMA HardwareOutside ==
  ASSUME Hardware
  PROVE /\ UNCHANGED <<isr, mpc, irqBuf, waiting, pendingBuf, pending>>
        /\ fresh \subseteq fresh'
  BY DEF Hardware, HwReceive, HwTxDone, HwReset, crcVars, mainVars

LEMMA ArmStep == ASSUME IInv, FInv, ArmFresh, [Next]_vars PROVE ArmFresh'
<1>1. CASE Hardware
  BY <1>1, HardwareOutside DEF ArmFresh
<1>2. CASE IsrTx
  <2> SUFFICES ASSUME isr' = "arm" PROVE ArmFresh'
    BY DEF ArmFresh
  <2>1. txEnd /\ waiting /\ IsrListen
    BY <1>2 DEF IsrTx, IsrChain
  <2>2. mpc' # "clr" /\ irqBuf \in fresh /\ fresh' = fresh
    BY <1>2, <2>1 DEF FInv, ClearQuiet, InFlightFresh, IsrTx, mainVars
  <2> QED BY <2>1, <2>2 DEF ArmFresh, IsrListen
<1>3. CASE IsrRx \/ IsrArm \/ IsrRst
  <2>1. isr' # "arm"
    BY <1>3 DEF IsrRx, IsrArm, IsrRearmCatch, IsrRearm, IsrRst
  <2> QED BY <2>1 DEF ArmFresh
<1>4. CASE Drain \/ Tick \/ Return \/ Transmit \/ Clear
  BY <1>4, MainIdle DEF ArmFresh
<1>5. CASE UNCHANGED vars
  BY <1>5 DEF vars, crcVars, mainVars, ArmFresh
<1> QED BY <1>1, <1>2, <1>3, <1>4, <1>5 DEF Next, Handler

LEMMA FreshStep == ASSUME IInv, FInv, ArmFresh, [Next]_vars PROVE FInv'
<1>1. IInv'
  BY IInvStep
<1>2. CASE UNCHANGED vars
  <2>1. /\ UNCHANGED <<ring, head, tail, count, torn, rxSeq, cur, txStart, fresh>>
        /\ UNCHANGED <<mpc, clr, rxBuf, rxAct, txEnd>>
        /\ UNCHANGED <<irqBuf, waiting, pendingBuf, pending>>
    BY <1>2 DEF vars, hwVars, ringVars, crcVars, mainVars
  <2>2. \A e \in Entry : Dated(e) => Dated(e)'
    BY <2>1 DEF Dated
  <2>3. RingDated'
    BY <2>1, <2>2, KeepDated
  <2> QED BY <2>1, <2>3
          DEF FInv, ClearQuiet, ClearDated, InFlightFresh, Dated
<1> QED BY <1>1, <1>2, FreshHardware, FreshIsrRx, FreshIsrTx, FreshIsrArm,
           FreshIsrRst, FreshTake, FreshLoop, FreshTransmit, FreshClear
        DEF Next, Handler, Drain

LEMMA FreshInit == ASSUME Init PROVE FInv /\ ArmFresh
<1>1. (0 + 0 + 0) % QueueLen = 0
  BY WrapSmall, QueueLenAssumption
<1> QED BY <1>1 DEF Init, FInv, ClearQuiet, ClearDated, InFlightFresh, Dated,
                    RingDated, Skew, NoEntry, ArmFresh

LEMMA PhyInvariant == Spec => []IInv
<1>1. Init => IInv
  BY InitType, InitRing DEF IInv
<1> QED BY <1>1, IInvStep, PTL DEF Spec

LEMMA FreshInvariant == Spec => [](FInv /\ ArmFresh)
<1> QED BY PhyInvariant, FreshInit, FreshStep, ArmStep, PTL DEF Spec

\* For every queue length, and whatever a clear left behind, a packet that is
\* handed over with a number above TxStartRxSequence arrived after the
\* transmission began (546-552, pProt_Request_Rx_Is_PostTx).
THEOREM PhyPostTxFresh == Spec => []PostTxFresh
<1>1. FInv => PostTxFresh
  BY DEF FInv, Dated, PostTxFresh
<1> QED BY <1>1, FreshInvariant, PTL

(***************************************************************************)
(* Order.  What the ring ever held is no newer than what is in flight, in  *)
(* every slot, so no clear can bring an old packet back after a new one.   *)
(***************************************************************************)
Ord(p, q) == p # Cable /\ q # Cable => p <= q

Newer(p) == Ord(last, p) /\ \A s \in Slots : Ord(ring[s].pkt, p)

(* A GoodCRC is going out, or has and is still to be serviced.  The flag   *)
(* s_waiting_gcrc_tx alone may be left over from one that was cut off.     *)
Answering == waiting /\ (bmc = "tx" \/ txEnd)

LatchedOrder == rxAct => Newer(rxBuf) /\ rxBuf <= next

AnswerOrder ==
  Answering => /\ Newer(irqBuf) /\ irqBuf <= next
               /\ rxAct => Ord(irqBuf, rxBuf)

StashOrder ==
  Answering /\ pending /\ mpc # "clr" =>
    /\ Newer(pendingBuf) /\ pendingBuf <= next
    /\ Ord(irqBuf, pendingBuf)
    /\ rxAct => Ord(pendingBuf, rxBuf)

StashBehind == mpc # "clr" => (pending => waiting)

At(i) == ring[(head + i) % QueueLen].pkt

QueueOrder ==
  Settled =>
    /\ \A i \in Slots : i < count => Ord(last, At(i))
    /\ \A i, j \in Slots : i < j /\ j < count => Ord(At(i), At(j))

OInv == /\ StashBehind /\ Newer(next)
        /\ LatchedOrder /\ AnswerOrder /\ StashOrder /\ QueueOrder

(* The packet left in s_irq_rx_buf goes to the ring once more if the       *)
(* handler finds another to answer, so it must not be an old one then.     *)
ArmOrder ==
  isr = "arm" => /\ Newer(irqBuf) /\ irqBuf <= next
                 /\ rxAct => Ord(irqBuf, rxBuf)

(* Packets newer than all before stay so when one of them is deferred.     *)
LEMMA NewerKept ==
  ASSUME IInv, NEW p \in Packet, NEW k \in Kinds,
         Defer(p, k) \/ UNCHANGED ringVars, UNCHANGED last,
         NEW q, Newer(q), Ord(p, q)
  PROVE Ord(last', q) /\ \A s \in Slots : Ord(ring'[s].pkt, q)
<1>1. UNCHANGED ringVars \/ ring' = [ring EXCEPT ![tail] =
                                [pkt |-> p, sop |-> k, seq |-> rxSeq + 1]]
  BY DEF Defer
<1>2. ASSUME NEW s \in Slots PROVE ring'[s].pkt \in {ring[s].pkt, p}
  BY <1>1 DEF ringVars, IInv, TypeOK
<1> QED BY <1>2 DEF Newer

(* What is newer than all before stays so further on.                      *)
LEMMA NewerLater ==
  ASSUME TypeOK, NEW p \in Nat \ {Cable}, NEW q \in Nat, p <= q, Newer(p)
  PROVE Newer(q)
<1>1. last \in Nat /\ \A s \in Slots : ring[s].pkt \in Nat
  BY BoundAssumption DEF TypeOK, Packet, Entry
<1>2. Ord(last, q)
  BY <1>1 DEF Newer, Ord
<1>3. ASSUME NEW s \in Slots PROVE Ord(ring[s].pkt, q)
  <2>1. ring[s].pkt \in Nat /\ Ord(ring[s].pkt, p)
    BY <1>1 DEF Newer
  <2> QED BY <2>1 DEF Ord
<1> QED BY <1>2, <1>3 DEF Newer

LEMMA KeepQueue ==
  ASSUME IInv, OInv, UNCHANGED <<ring, head, count, last>>, Settled' => Settled
  PROVE QueueOrder'
<1>1. ASSUME NEW i \in Slots PROVE At(i)' = At(i)
  BY DEF At
<1> QED BY <1>1 DEF OInv, QueueOrder

(* A packet newer than all before goes to the end.                         *)
LEMMA AppendQueue ==
  ASSUME IInv, OInv, NEW p \in Packet, NEW k \in Kinds, Defer(p, k),
         UNCHANGED last, Settled' => Settled, Newer(p)
  PROVE QueueOrder'
<1>1. CASE count >= QueueLen
  BY <1>1, KeepQueue DEF Defer, ringVars
<1>2. CASE ~(count >= QueueLen)
  <2> SUFFICES ASSUME Settled' PROVE QueueOrder'
    BY DEF QueueOrder
  <2> USE QueueLenAssumption
  <2>0. PICK new \in Entry : new.pkt = p /\ ring' = [ring EXCEPT ![tail] = new]
    BY <1>2 DEF Defer, Entry, IInv, TypeOK
  <2>1. head' = head /\ count' = count + 1 /\ last' = last
    BY <1>2 DEF Defer
  <2>2. /\ head \in Slots /\ tail \in Slots /\ count \in Slots
        /\ ring \in [Slots -> Entry] /\ tail = (head + count) % QueueLen
    BY <1>2 DEF IInv, TypeOK, Slots, RingCoherent
  <2>3. /\ \A i \in Slots : i < count => Ord(last, At(i))
        /\ \A i, j \in Slots : i < j /\ j < count => Ord(At(i), At(j))
    BY DEF OInv, QueueOrder
  <2>4. ASSUME NEW i \in Slots, i < count PROVE At(i)' = At(i)
    <3>1. (head + i) % QueueLen # tail
      BY <2>2, <2>4, WrapInjective
    <3>2. (head + i) % QueueLen \in Slots
      BY <2>2 DEF Slots
    <3> QED BY <2>0, <2>1, <2>2, <3>1, <3>2 DEF At
  <2>5. ASSUME NEW i \in Slots, i < count PROVE Ord(At(i), p)
    <3>1. (head + i) % QueueLen \in Slots
      BY <2>2 DEF Slots
    <3> QED BY <3>1 DEF Newer, At
  <2>6. \A i \in Slots : i < count + 1 => i < count \/ i = count
    BY <2>2 DEF Slots
  <2>7. ASSUME NEW i \in Slots, i < count + 1 PROVE Ord(last, At(i))'
    <3>1. CASE i < count
      BY <2>1, <2>3, <2>4, <3>1 DEF Ord
    <3>2. CASE i = count
      <4>1. At(i)' = p
        BY <2>0, <2>1, <2>2, <3>2 DEF At
      <4> QED BY <2>1, <4>1 DEF Ord, Newer
    <3> QED BY <2>6, <2>7, <3>1, <3>2
  <2>8. ASSUME NEW i \in Slots, NEW j \in Slots, i < j, j < count + 1
        PROVE Ord(At(i), At(j))'
    <3>0. i < count
      BY <2>2, <2>8 DEF Slots
    <3>1. CASE j < count
      BY <2>3, <2>4, <2>8, <3>0, <3>1 DEF Ord
    <3>2. CASE j = count
      <4>1. At(j)' = p
        BY <2>0, <2>1, <2>2, <3>2 DEF At
      <4> QED BY <2>4, <2>5, <3>0, <4>1 DEF Ord
    <3> QED BY <2>6, <2>8, <3>1, <3>2
  <2> QED BY <2>1, <2>7, <2>8 DEF QueueOrder
<1> QED BY <1>1, <1>2

(* Taking the head: what is left is no older, and what is in flight no     *)
(* older than it.                                                          *)
LEMMA OrderTake == ASSUME IInv, IInv', OInv, PollTake PROVE OInv'
<1> USE QueueLenAssumption
<1>1. /\ mpc = "take" /\ mpc' # "clr" /\ count > 0
      /\ head' = (head + 1) % QueueLen /\ count' = count - 1
      /\ last' \in {last, ring[head].pkt}
      /\ ring[head].pkt = Cable => last' = last
      /\ UNCHANGED <<ring, torn, rxBuf, next>>
      /\ UNCHANGED <<irqBuf, waiting, pendingBuf, pending>>
  BY DEF PollTake, Main, crcVars, sourceVars
<1>2. /\ head \in Slots /\ count \in 1..QueueLen /\ ring \in [Slots -> Entry]
  BY <1>1 DEF IInv, TypeOK
<1>3. (rxAct' => rxAct) /\ (Answering' => Answering)
  <2>1. CASE NoFlags /\ bmc' = "rx"
    BY <1>1, <2>1 DEF NoFlags, Answering
  <2>2. CASE UNCHANGED <<rxAct, txEnd, rxRst>> /\ bmc' \in {bmc, "rx"}
    BY <1>1, <2>2 DEF Answering
  <2> QED BY <2>1, <2>2 DEF PollTake
<1>4. ASSUME NEW q, Newer(q) PROVE Ord(last', q)
  BY <1>1, <1>2, <1>4 DEF Newer, Ord
<1>5. ASSUME NEW q, Newer(q)
      PROVE Ord(last', q) /\ \A s \in Slots : Ord(ring'[s].pkt, q)
  BY <1>1, <1>4, <1>5 DEF Newer
<1>6. Newer(next)' /\ LatchedOrder' /\ AnswerOrder' /\ StashOrder'
  BY <1>1, <1>3, <1>5
     DEF OInv, Newer, LatchedOrder, AnswerOrder, StashOrder, Ord
<1>7. ASSUME NEW i \in Slots, i < count - 1
      PROVE i + 1 \in Slots /\ i + 1 < count /\ At(i)' = At(i + 1)
  <2>1. i + 1 \in Slots /\ i + 1 < count
    BY <1>2, <1>7 DEF Slots
  <2>2. (head' + i) % QueueLen = (head + (i + 1)) % QueueLen
    BY <1>1, <1>2, WrapShift
  <2> QED BY <1>1, <2>1, <2>2 DEF At
<1>8. At(0) = ring[head].pkt /\ 0 \in Slots
  BY <1>2, WrapSmall DEF At, Slots
<1>9. QueueOrder'
  <2> SUFFICES ASSUME Settled' PROVE QueueOrder'
    BY DEF QueueOrder
  <2>1. /\ \A i \in Slots : i < count => Ord(last, At(i))
        /\ \A i, j \in Slots : i < j /\ j < count => Ord(At(i), At(j))
    BY <1>1 DEF OInv, QueueOrder, Settled
  <2>2. ASSUME NEW i \in Slots, i < count - 1 PROVE Ord(last, At(i))'
    <3>1. i + 1 \in Slots /\ i + 1 < count /\ At(i)' = At(i + 1) /\ 0 < i + 1
      BY <1>7, <2>2 DEF Slots
    <3>2. Ord(last, At(i + 1)) /\ Ord(At(0), At(i + 1))
      BY <1>8, <2>1, <3>1
    <3> QED BY <1>1, <1>8, <3>1, <3>2 DEF Ord
  <2>3. ASSUME NEW i \in Slots, NEW j \in Slots, i < j, j < count - 1
        PROVE Ord(At(i), At(j))'
    <3>1. i < count - 1 /\ i + 1 < j + 1
      BY <1>2, <2>3 DEF Slots
    <3>2. /\ i + 1 \in Slots /\ j + 1 \in Slots /\ j + 1 < count
          /\ At(i)' = At(i + 1) /\ At(j)' = At(j + 1)
      BY <1>7, <2>3, <3>1
    <3>3. Ord(At(i + 1), At(j + 1))
      BY <2>1, <3>1, <3>2
    <3> QED BY <3>2, <3>3 DEF Ord
  <2> QED BY <1>1, <2>2, <2>3 DEF QueueOrder
<1> QED BY <1>1, <1>6, <1>9 DEF OInv, StashBehind

(* The hardware.                                                           *)
LEMMA OrderHardware == ASSUME IInv, IInv', FInv, OInv, Hardware PROVE OInv'
<1>1. /\ UNCHANGED <<ring, head, tail, count, torn, last, mpc>>
      /\ UNCHANGED <<irqBuf, waiting, pendingBuf, pending>> /\ Pace
  BY DEF Hardware, HwReceive, HwTxDone, HwReset, ringVars, crcVars, mainVars
<1>2. mpc = "clr" => clr'.step = clr.step
  BY <1>1 DEF Pace, Occupy, IInv, TypeOK
<1>3. Settled' => Settled
  BY <1>1, <1>2 DEF Settled
<1>4. QueueOrder' /\ StashBehind'
  BY <1>1, <1>3, KeepQueue DEF OInv, StashBehind
<1>5. next \in Nat /\ next' \in Nat /\ Cable = 0
      /\ irqBuf \in Nat /\ pendingBuf \in Nat
  BY BoundAssumption DEF IInv, TypeOK, Packet, Cable
<1>6. ASSUME NEW q, Newer(q)
      PROVE Ord(last', q) /\ \A s \in Slots : Ord(ring'[s].pkt, q)
  BY <1>1, <1>6 DEF Newer
<1>7. ASSUME NEW p \in OnWire, HwReceive(p) PROVE OInv'
  <2>1. /\ next' = next /\ rxBuf' = p /\ UNCHANGED <<bmc, txEnd>>
        /\ p = Cable \/ p = next
    BY <1>7 DEF HwReceive, sourceVars, OnWire
  <2>2. Newer(next)' /\ Newer(rxBuf)' /\ rxBuf' <= next'
    <3>1. Ord(last, p) /\ \A s \in Slots : Ord(ring[s].pkt, p)
      BY <2>1 DEF OInv, Newer, Ord
    <3> QED BY <1>1, <1>5, <2>1, <3>1 DEF OInv, Newer
  <2>3. AnswerOrder' /\ StashOrder'
    <3>1. ASSUME NEW q \in Nat, q <= next PROVE Ord(q, p)
      BY <2>1, <3>1 DEF Ord
    <3>2. Answering' = Answering
      BY <1>1, <2>1 DEF Answering
    <3>3. CASE Answering
      <4>1. Newer(irqBuf) /\ irqBuf <= next /\ Ord(irqBuf, p)
        BY <1>5, <3>1, <3>3 DEF OInv, AnswerOrder
      <4>2. pending /\ mpc # "clr" =>
              /\ Newer(pendingBuf) /\ pendingBuf <= next
              /\ Ord(irqBuf, pendingBuf) /\ Ord(pendingBuf, p)
        BY <1>5, <3>1, <3>3 DEF OInv, StashOrder
      <4> QED BY <1>1, <1>6, <2>1, <4>1, <4>2
              DEF AnswerOrder, StashOrder, Newer, Ord
    <3>4. CASE ~Answering
      BY <3>2, <3>4 DEF AnswerOrder, StashOrder
    <3> QED BY <3>3, <3>4
  <2> QED BY <1>4, <2>2, <2>3 DEF OInv, LatchedOrder
<1>8. ASSUME NEW heard \in BOOLEAN, HwTxDone(heard) PROVE OInv'
  <2>1. /\ next' >= next /\ UNCHANGED <<rxBuf, rxAct>> /\ bmc = "tx"
        /\ Answering' => Answering
    BY <1>1, <1>5, <1>8 DEF HwTxDone, Answering
  <2>2. Newer(next)'
    <3>1. next # Cable
      BY DEF IInv, TypeOK, Cable
    <3>2. Newer(next')
      BY <1>5, <2>1, <3>1, NewerLater DEF IInv, OInv
    <3> QED BY <1>1, <3>2 DEF Newer
  <2>3. rxBuf \in Nat
    BY BoundAssumption DEF IInv, TypeOK, Packet
  <2>4. LatchedOrder'
    BY <1>1, <1>5, <1>6, <2>1, <2>3 DEF OInv, LatchedOrder, Newer, Ord
  <2>5. AnswerOrder'
    BY <1>1, <1>5, <1>6, <2>1, <2>3 DEF OInv, AnswerOrder, Newer, Ord
  <2>6. StashOrder'
    BY <1>1, <1>5, <1>6, <2>1, <2>3 DEF OInv, StashOrder, Newer, Ord
  <2> QED BY <1>4, <2>2, <2>4, <2>5, <2>6 DEF OInv
<1>9. CASE HwReset
  <2>1. UNCHANGED <<next, rxBuf, rxAct, bmc, txEnd>>
    BY <1>9 DEF HwReset
  <2>2. (Answering' = Answering)
    BY <1>1, <2>1 DEF Answering
  <2> QED BY <1>1, <1>4, <2>1, <2>2
          DEF OInv, Newer, LatchedOrder, AnswerOrder, StashOrder, Ord
<1> QED BY <1>7, <1>8, <1>9 DEF Hardware

(* The handler, stage by stage.                                            *)
LEMMA OrderIsrRx == ASSUME IInv, IInv', FInv, OInv, IsrRx PROVE OInv'
<1>1. /\ UNCHANGED <<torn, last, mpc, rxBuf, next>> /\ Occupy
      /\ \/ Defer(rxBuf, SOPP) /\ rxBuf = Cable
         \/ UNCHANGED ringVars
  BY DEF IsrRx, IsrReceive, mainVars, sourceVars
<1>2. mpc = "clr" => clr'.step = clr.step
  BY <1>1 DEF Occupy, IInv, TypeOK
<1>3. Settled' => Settled
  BY <1>1, <1>2 DEF Settled
<1>4. rxBuf \in Packet /\ SOPP \in Kinds
  BY DEF IInv, TypeOK, Kinds
<1>5. QueueOrder'
  <2>1. Newer(Cable)
    BY DEF Newer, Ord
  <2> QED BY <1>1, <1>3, <1>4, <2>1, KeepQueue, AppendQueue DEF ringVars
<1>6. ASSUME NEW q, Newer(q)
      PROVE Ord(last', q) /\ \A s \in Slots : Ord(ring'[s].pkt, q)
  <2>1. rxBuf = Cable => Ord(rxBuf, q)
    BY DEF Ord
  <2>2. CASE Defer(rxBuf, SOPP) /\ rxBuf = Cable
    BY <1>1, <1>4, <1>6, <2>1, <2>2, NewerKept
  <2>3. CASE UNCHANGED ringVars
    BY <1>1, <1>6, <2>3 DEF ringVars, Newer
  <2> QED BY <1>1, <2>2, <2>3
<1>7. Newer(next)'
  BY <1>1, <1>6 DEF OInv, Newer, Ord
<1>8. CASE ~rxAct /\ UNCHANGED <<hwVars, crcVars>>
  <2>1. UNCHANGED <<rxAct, bmc, txEnd, irqBuf, waiting, pendingBuf, pending>>
    BY <1>8 DEF hwVars, crcVars
  <2>2. Answering' = Answering
    BY <2>1 DEF Answering
  <2>3. LatchedOrder' /\ StashBehind'
    BY <1>1, <1>8, <2>1 DEF LatchedOrder, OInv, StashBehind
  <2>4. AnswerOrder' /\ StashOrder'
    BY <1>1, <1>6, <1>8, <2>1, <2>2
       DEF OInv, AnswerOrder, StashOrder, Newer, Ord
  <2> QED BY <1>5, <1>7, <2>3, <2>4 DEF OInv
<1>9. CASE IsrReceive
  <2>0. /\ rxAct /\ Newer(rxBuf) /\ rxBuf <= next /\ rxBuf \in Nat
        /\ next \in Nat /\ 0 <= next
    BY <1>9, BoundAssumption DEF IsrReceive, OInv, LatchedOrder, IInv, TypeOK, Packet
  <2>1. CASE /\ rxBuf # Cable /\ waiting
             /\ pendingBuf' = rxBuf /\ pending' = TRUE /\ rxAct' = FALSE
             /\ txEnd' = FALSE /\ UNCHANGED <<irqBuf, waiting, bmc>>
    <3>1. Answering' => Answering
      BY <2>1 DEF Answering
    <3>2. AnswerOrder'
      BY <1>1, <1>6, <2>1, <3>1 DEF OInv, AnswerOrder, Newer, Ord
    <3>3. StashOrder'
      <4>1. Answering => Ord(irqBuf, rxBuf)
        BY <2>0 DEF OInv, AnswerOrder
      <4> QED BY <1>1, <1>6, <2>0, <2>1, <3>1, <4>1 DEF StashOrder, Newer, Ord
    <3>4. LatchedOrder' /\ StashBehind'
      BY <2>1 DEF LatchedOrder, StashBehind
    <3> QED BY <1>5, <1>7, <3>2, <3>3, <3>4 DEF OInv
  <2>2. CASE /\ rxBuf # Cable /\ ~waiting
             /\ irqBuf' = rxBuf /\ waiting' = TRUE /\ rxAct' = FALSE
             /\ UNCHANGED <<pendingBuf, pending>>
    <3>1. mpc' # "clr" => ~pending'
      BY <1>1, <2>2 DEF OInv, StashBehind
    <3>2. LatchedOrder' /\ StashBehind' /\ StashOrder'
      BY <2>2, <3>1 DEF LatchedOrder, StashBehind, StashOrder
    <3>3. AnswerOrder'
      BY <1>1, <1>6, <2>0, <2>2 DEF AnswerOrder, Newer, Ord
    <3> QED BY <1>5, <1>7, <3>2, <3>3 DEF OInv
  <2>3. CASE /\ ~waiting /\ rxAct' = FALSE
             /\ UNCHANGED <<waiting, pendingBuf, pending>>
    <3>1. ~Answering'
      BY <2>3 DEF Answering
    <3>2. LatchedOrder' /\ StashBehind' /\ StashOrder' /\ AnswerOrder'
      BY <1>1, <2>3, <3>1
         DEF OInv, LatchedOrder, StashBehind, StashOrder, AnswerOrder
    <3> QED BY <1>5, <1>7, <3>2 DEF OInv
  <2>4. CASE /\ rxBuf = Cable /\ irqBuf' = rxBuf /\ rxAct' = FALSE
             /\ txEnd' = FALSE /\ UNCHANGED <<waiting, pendingBuf, pending, bmc>>
    <3>1. Answering' => Answering
      BY <2>4 DEF Answering
    <3>2. LatchedOrder' /\ StashBehind'
      BY <1>1, <2>4 DEF OInv, LatchedOrder, StashBehind
    <3>3. AnswerOrder'
      BY <1>1, <1>6, <2>0, <2>4 DEF AnswerOrder, Newer, Ord
    <3>4. StashOrder'
      BY <1>1, <1>6, <2>4, <3>1 DEF OInv, StashOrder, Newer, Ord
    <3> QED BY <1>5, <1>7, <3>2, <3>3, <3>4 DEF OInv
  <2> QED BY <1>9, <2>1, <2>2, <2>3, <2>4 DEF IsrReceive, SendGoodCRC, NoFlags
<1> QED BY <1>8, <1>9 DEF IsrRx

LEMMA OrderIsrTx == ASSUME IInv, IInv', FInv, OInv, IsrTx PROVE OInv'
<1>1. /\ UNCHANGED <<torn, last, mpc, clr, rxBuf, next>>
      /\ UNCHANGED ringVars \/ Defer(irqBuf, lastSop)
  BY DEF IsrTx, mainVars, sourceVars
<1>2. Settled' => Settled
  BY <1>1 DEF Settled
<1>3. /\ irqBuf \in Packet /\ lastSop \in Kinds /\ irqBuf \in Nat
      /\ pendingBuf \in Nat /\ rxBuf \in Nat /\ next \in Nat
  BY BoundAssumption DEF IInv, TypeOK, Packet
<1>4. CASE txEnd /\ waiting
  <2>1. Defer(irqBuf, lastSop) /\ (IsrChain \/ IsrListen)
    BY <1>4 DEF IsrTx
  <2>2. mpc # "clr"
    BY <1>4 DEF FInv, ClearQuiet
  <2>3. Newer(irqBuf) /\ irqBuf <= next /\ (rxAct => Ord(irqBuf, rxBuf))
    BY <1>4 DEF OInv, AnswerOrder, Answering
  <2>4. QueueOrder'
    BY <1>1, <1>2, <1>3, <2>1, <2>3, AppendQueue
  <2>5. ASSUME NEW q, Newer(q), Ord(irqBuf, q)
        PROVE Ord(last', q) /\ \A s \in Slots : Ord(ring'[s].pkt, q)
    BY <1>1, <1>3, <2>1, <2>5, NewerKept
  <2>6. Newer(next)'
    <3>1. Ord(irqBuf, next)
      BY <2>3 DEF Ord
    <3> QED BY <1>1, <2>5, <3>1 DEF OInv, Newer
  <2>7. pending => /\ Newer(pendingBuf) /\ pendingBuf <= next
                   /\ Ord(irqBuf, pendingBuf)
    BY <1>4, <2>2 DEF OInv, StashOrder, Answering
  <2>8. CASE IsrChain
    <3>1. /\ pending /\ irqBuf' = pendingBuf /\ pending' = FALSE
          /\ waiting' = TRUE /\ rxAct' = FALSE
      BY <2>8 DEF IsrChain, SendGoodCRC, NoFlags
    <3>2. LatchedOrder' /\ StashOrder' /\ StashBehind'
      BY <3>1 DEF LatchedOrder, StashOrder, StashBehind
    <3>3. AnswerOrder'
      BY <1>1, <2>5, <2>7, <3>1 DEF AnswerOrder, Newer
    <3> QED BY <2>4, <2>6, <3>2, <3>3 DEF OInv
  <2>9. CASE IsrListen
    <3>1. ~pending' /\ waiting' = FALSE /\ rxAct' = FALSE
      BY <2>9 DEF IsrListen, NoFlags
    <3> QED BY <2>4, <2>6, <3>1
            DEF OInv, LatchedOrder, StashBehind, StashOrder, AnswerOrder,
                Answering
  <2> QED BY <2>1, <2>8, <2>9
<1>5. CASE ~(txEnd /\ waiting)
  <2>1. UNCHANGED ringVars /\ UNCHANGED crcVars
        /\ (UNCHANGED hwVars \/ RxMode)
    BY <1>5 DEF IsrTx
  <2>2. /\ UNCHANGED <<ring, head, count>>
        /\ UNCHANGED <<irqBuf, waiting, pendingBuf, pending>>
        /\ rxAct' => rxAct
        /\ Answering' => Answering
    BY <2>1 DEF ringVars, crcVars, hwVars, RxMode, NoFlags, Answering
  <2>3. QueueOrder'
    BY <1>1, <1>2, <2>2, KeepQueue
  <2> QED BY <1>1, <2>2, <2>3
          DEF OInv, Newer, LatchedOrder, AnswerOrder, StashOrder, StashBehind, Ord
<1> QED BY <1>4, <1>5

LEMMA OrderIsrArm ==
  ASSUME IInv, IInv', ArmFresh, OInv, ArmOrder, IsrArm PROVE OInv'
<1>1. /\ UNCHANGED <<ring, head, count, torn, last, mpc, clr, rxBuf, next>>
      /\ UNCHANGED irqBuf
      /\ ~waiting /\ ~pending
      /\ Newer(irqBuf) /\ irqBuf <= next /\ (rxAct => Ord(irqBuf, rxBuf))
  BY DEF IsrArm, ArmFresh, ArmOrder, ringVars, mainVars, sourceVars
<1>2. QueueOrder'
  BY <1>1, KeepQueue DEF Settled
<1>3. ASSUME NEW q, Newer(q)
      PROVE Ord(last', q) /\ \A s \in Slots : Ord(ring'[s].pkt, q)
  BY <1>1, <1>3 DEF Newer
<1>4. Newer(next)'
  BY <1>1, <1>3 DEF OInv, Newer
<1>5. CASE IsrRearmCatch
  <2>1. /\ rxAct /\ pendingBuf' = rxBuf /\ pending' = TRUE
        /\ waiting' = TRUE /\ rxAct' = FALSE
    BY <1>5 DEF IsrRearmCatch, SendGoodCRC, NoFlags
  <2>2. Newer(rxBuf) /\ rxBuf <= next
    BY <2>1 DEF OInv, LatchedOrder
  <2>3. LatchedOrder' /\ StashBehind'
    BY <2>1 DEF LatchedOrder, StashBehind
  <2>4. AnswerOrder' /\ StashOrder'
    BY <1>1, <1>3, <2>1, <2>2 DEF AnswerOrder, StashOrder, Newer, Ord
  <2> QED BY <1>2, <1>4, <2>3, <2>4 DEF OInv
<1>6. CASE IsrRearm
  <2>1. ~waiting' /\ ~pending' /\ (rxAct' => rxAct)
    BY <1>1, <1>6 DEF IsrRearm, NoFlags
  <2>2. LatchedOrder'
    BY <1>1, <1>3, <2>1 DEF OInv, LatchedOrder, Newer
  <2> QED BY <1>2, <1>4, <2>1, <2>2
          DEF OInv, StashBehind, AnswerOrder, StashOrder, Answering
<1> QED BY <1>5, <1>6 DEF IsrArm

LEMMA OrderIsrRst == ASSUME IInv, IInv', FInv, OInv, IsrRst PROVE OInv'
<1>1. UNCHANGED <<last, mpc, clr, rxBuf, next, ring, irqBuf, pendingBuf>>
  BY DEF IsrRst, mainVars, sourceVars, crcVars, ringVars
<1>2. CASE rxRst
  <2>1. /\ waiting' = FALSE /\ pending' = FALSE /\ count' = 0 /\ rxAct' = FALSE
    BY <1>2 DEF IsrRst, ForgetDeferred, RxMode, NoFlags
  <2>2. QueueOrder'
    BY <2>1, QueueLenAssumption DEF QueueOrder, Slots
  <2>3. ~Answering'
    BY <2>1 DEF Answering
  <2> QED BY <1>1, <2>1, <2>2, <2>3
          DEF OInv, Newer, LatchedOrder, AnswerOrder, StashOrder, StashBehind
<1>3. CASE ~rxRst
  <2>1. UNCHANGED <<hwVars, crcVars, ringVars, torn>>
    BY <1>3 DEF IsrRst
  <2>2. /\ UNCHANGED <<head, count, torn, rxAct, txEnd, bmc, waiting, pending>>
    BY <2>1 DEF hwVars, ringVars, crcVars
  <2>3. (Settled' => Settled) /\ Answering' = Answering
    BY <1>1, <2>2 DEF Settled, Answering
  <2>4. QueueOrder'
    BY <1>1, <2>2, <2>3, KeepQueue
  <2> QED BY <1>1, <2>2, <2>3, <2>4
          DEF OInv, Newer, LatchedOrder, AnswerOrder, StashOrder, StashBehind, Ord
<1> QED BY <1>2, <1>3 DEF IInv, TypeOK

(* The main loop.                                                          *)
LEMMA OrderLoop ==
  ASSUME IInv, IInv', FInv, OInv, PollTest \/ PollEmpty \/ Tick \/ Return
  PROVE OInv'
<1>1. /\ mpc # "clr" /\ mpc' # "clr"
      /\ UNCHANGED <<head, count, ring, torn, last, next, rxBuf, rxAct, txEnd>>
      /\ UNCHANGED <<irqBuf, waiting, pendingBuf, pending, bmc>>
  BY DEF PollTest, PollEmpty, Tick, Return, Main, crcVars, ringVars, hwVars,
         sourceVars
<1>2. (Settled' => Settled) /\ Answering' = Answering
  BY <1>1 DEF Settled, Answering
<1>3. QueueOrder'
  BY <1>1, <1>2, KeepQueue
<1> QED BY <1>1, <1>2, <1>3
        DEF OInv, Newer, LatchedOrder, AnswerOrder, StashOrder, StashBehind, Ord

LEMMA OrderTransmit == ASSUME IInv, IInv', FInv, OInv, Transmit PROVE OInv'
<1>1. /\ mpc # "clr" /\ mpc' # "clr" /\ UNCHANGED <<torn, last>>
  BY DEF Transmit, DoTxQuiet, DoTxReply, DoTxReplyEPR, ChunkQuiet, ChunkReply,
         Polled, Main
<1>2. Settled' => Settled
  BY <1>1 DEF Settled
<1>3. rxAct' = FALSE
  BY DEF Transmit, DoTxQuiet, DoTxReply, DoTxReplyEPR, ChunkQuiet, ChunkReply,
         RxMode, SendGoodCRC, NoFlags
<1>4. next \in Nat \ {Cable} /\ next' \in Nat
  BY DEF IInv, TypeOK, Cable
<1>5. CASE UNCHANGED ringVars /\ UNCHANGED next
  <2>1. QueueOrder' /\ Newer(next)'
    BY <1>1, <1>2, <1>5, KeepQueue DEF ringVars, OInv, Newer, Ord
  <2>2. CASE ~Answering' /\ StashBehind'
    BY <1>3, <2>1, <2>2 DEF OInv, LatchedOrder, AnswerOrder, StashOrder
  <2>3. ASSUME NEW p \in OnWire, DoTxReplyEPR(p) PROVE OInv'
    <3>1. /\ irqBuf' = p /\ pending' = FALSE /\ p \in {next, Cable}
      BY <2>3 DEF DoTxReplyEPR, StartTx, OnWire
    <3>2. Newer(irqBuf)' /\ irqBuf' <= next'
      BY <1>1, <1>4, <1>5, <3>1 DEF OInv, Newer, Ord, ringVars, Cable
    <3> QED BY <1>3, <2>1, <3>1, <3>2
            DEF OInv, LatchedOrder, AnswerOrder, StashOrder, StashBehind
  <2>4. ~(\E p \in OnWire : DoTxReplyEPR(p)) => ~Answering' /\ StashBehind'
    <3>1. ASSUME NEW acked \in BOOLEAN, DoTxQuiet(acked)
          PROVE ~Answering' /\ StashBehind'
      BY <3>1 DEF DoTxQuiet, StartTx, Answering, StashBehind
    <3>2. ASSUME NEW p \in OnWire, NEW heard \in BOOLEAN, DoTxReply(p, heard)
          PROVE ~Answering' /\ StashBehind'
      BY <3>2 DEF DoTxReply, StartTx, Answering, StashBehind
    <3>3. CASE ChunkQuiet
      BY <1>1, <3>3
         DEF ChunkQuiet, RxMode, NoFlags, crcVars, Answering, StashBehind, OInv
    <3>4. ASSUME NEW p \in OnWire, NEW heard \in BOOLEAN, ChunkReply(p, heard)
          PROVE ~Answering' /\ StashBehind'
      BY <1>1, <3>4 DEF ChunkReply, NoFlags, Answering, StashBehind, OInv
    <3> QED BY <3>1, <3>2, <3>3, <3>4 DEF Transmit
  <2> QED BY <2>2, <2>3, <2>4
<1>6. ASSUME NEW p \in OnWire, NEW heard \in BOOLEAN,
             DoTxReply(p, heard) \/ ChunkReply(p, heard)
      PROVE OInv'
  <2>1. /\ Defer(p, SOP) /\ p \in {next, Cable}
        /\ Hears(p, heard)
    BY <1>6 DEF DoTxReply, ChunkReply, OnWire
  <2>2. p \in Packet /\ SOP \in Kinds
    BY BoundAssumption DEF IInv, TypeOK, OnWire, Packet, Cable, Kinds
  <2>3. Newer(p) /\ Ord(p, next)
    BY <1>4, <2>1 DEF OInv, Newer, Ord, Cable
  <2>4. QueueOrder'
    BY <1>1, <1>2, <2>1, <2>2, <2>3, AppendQueue
  <2>5. Newer(next)'
    <3>1. Ord(last', next) /\ \A s \in Slots : Ord(ring'[s].pkt, next)
      BY <1>1, <2>1, <2>2, <2>3, NewerKept DEF OInv
    <3>2. next' = next \/ next' = next + 1
      BY <2>1 DEF Hears
    <3>3. last' \in Nat /\ \A s \in Slots : ring'[s].pkt \in Nat
      BY BoundAssumption DEF IInv, TypeOK, Packet, Entry
    <3>4. Ord(last', next')
      BY <1>4, <3>1, <3>2, <3>3 DEF Ord
    <3>5. ASSUME NEW s \in Slots PROVE Ord(ring'[s].pkt, next')
      <4>1. ring'[s].pkt \in Nat /\ Ord(ring'[s].pkt, next)
        BY <3>1, <3>3
      <4> QED BY <1>4, <3>2, <4>1 DEF Ord
    <3> QED BY <3>4, <3>5 DEF Newer
  <2>6. ~Answering' /\ StashBehind'
    <3>1. CASE DoTxReply(p, heard)
      BY <3>1 DEF DoTxReply, StartTx, Answering, StashBehind
    <3>2. CASE ChunkReply(p, heard)
      BY <1>1, <3>2 DEF ChunkReply, NoFlags, Answering, StashBehind, OInv
    <3> QED BY <1>6, <3>1, <3>2
  <2> QED BY <1>3, <2>4, <2>5, <2>6
          DEF OInv, LatchedOrder, AnswerOrder, StashOrder
<1>7. \/ UNCHANGED ringVars /\ UNCHANGED next
      \/ \E p \in OnWire, heard \in BOOLEAN :
           DoTxReply(p, heard) \/ ChunkReply(p, heard)
  BY DEF Transmit, DoTxQuiet, DoTxReplyEPR, ChunkQuiet, sourceVars
<1> QED BY <1>5, <1>6, <1>7

LEMMA OrderClear == ASSUME IInv, IInv', FInv, OInv, Clear PROVE OInv'
<1>1. CASE BeginAbort \/ BeginReset
  <2>1. /\ mpc' = "clr" /\ clr'.step = 1 /\ waiting' = FALSE
        /\ UNCHANGED <<rxBuf, rxAct, ring, last, next>>
    BY <1>1 DEF BeginAbort, BeginReset, hwVars, ringVars, sourceVars
  <2>2. ~Answering' /\ ~Settled'
    BY <2>1 DEF Answering, Settled
  <2> QED BY <2>1, <2>2
          DEF OInv, Newer, LatchedOrder, AnswerOrder, StashOrder, StashBehind,
              QueueOrder, Ord
<1>2. CASE ClearDeferred
  <2>1. /\ mpc = "clr" /\ mpc' = "clr" /\ clr.step \in 1..4
        /\ clr'.step = clr.step + 1
        /\ UNCHANGED <<ring, last, next, rxBuf, rxAct, txEnd, bmc>>
        /\ UNCHANGED <<irqBuf, waiting, pendingBuf, pending>>
    BY <1>2 DEF ClearDeferred, Main, IInv, TypeOK, hwVars, crcVars, sourceVars
  <2>2. QueueOrder'
    <3>1. CASE clr.step = 4
      <4>1. count' = 0
        BY <1>2, <3>1 DEF ClearDeferred
      <4> QED BY <4>1, QueueLenAssumption DEF QueueOrder, Slots
    <3>2. CASE clr.step # 4
      BY <2>1, <3>2 DEF QueueOrder, Settled
    <3> QED BY <3>1, <3>2
  <2>3. Answering' = Answering
    BY <2>1 DEF Answering
  <2> QED BY <2>1, <2>2, <2>3
          DEF OInv, Newer, LatchedOrder, AnswerOrder, StashOrder, StashBehind, Ord
<1>3. CASE EndAbort \/ EndReset
  <2>1. /\ mpc = "clr" /\ clr.step = 5 /\ mpc' # "clr"
        /\ UNCHANGED <<ring, head, count, torn, last, next, rxBuf, irqBuf, waiting>>
        /\ pending' = FALSE
        /\ (NoFlags /\ bmc' = "rx") \/ UNCHANGED <<rxAct, txEnd, bmc>>
    BY <1>3 DEF EndAbort, EndReset, Main, ringVars, sourceVars
  <2>2. (Settled' => Settled) /\ (rxAct' => rxAct) /\ (Answering' => Answering)
    BY <2>1 DEF Settled, NoFlags, Answering
  <2>3. QueueOrder'
    BY <2>1, <2>2, KeepQueue
  <2>4. Newer(next)' /\ LatchedOrder' /\ AnswerOrder'
    BY <2>1, <2>2 DEF OInv, Newer, LatchedOrder, AnswerOrder, Ord
  <2> QED BY <2>1, <2>3, <2>4 DEF OInv, StashOrder, StashBehind
<1> QED BY <1>1, <1>2, <1>3 DEF Clear

LEMMA ArmOrderStep ==
  ASSUME IInv, FInv, OInv, ArmOrder, [Next]_vars PROVE ArmOrder'
<1>1. next \in Nat /\ next' \in Nat /\ irqBuf \in Nat /\ rxBuf \in Nat
  BY IInvStep, BoundAssumption DEF IInv, TypeOK, Packet
<1>2. CASE Hardware
  <2>1. UNCHANGED <<isr, irqBuf, ring, last>>
    BY <1>2, HardwareOutside DEF Hardware, HwReceive, HwTxDone, HwReset,
       ringVars, mainVars
  <2> SUFFICES ASSUME isr = "arm" PROVE ArmOrder'
    BY <2>1 DEF ArmOrder
  <2>2. Newer(irqBuf)' /\ irqBuf <= next /\ (rxAct => Ord(irqBuf, rxBuf))
    BY <2>1 DEF ArmOrder, Newer
  <2>3. next' >= next
    BY <1>1, <1>2 DEF Hardware, HwReceive, HwTxDone, HwReset, sourceVars
  <2>4. rxAct' => Ord(irqBuf, rxBuf')
    BY <1>1, <1>2, <2>2
       DEF Hardware, HwReceive, HwTxDone, HwReset, OnWire, Ord
  <2> QED BY <1>1, <2>1, <2>2, <2>3, <2>4 DEF ArmOrder, Ord
<1>3. CASE IsrTx
  <2> SUFFICES ASSUME isr' = "arm" PROVE ArmOrder'
    BY DEF ArmOrder
  <2>1. /\ txEnd /\ waiting /\ Defer(irqBuf, lastSop) /\ rxAct' = FALSE
        /\ UNCHANGED <<irqBuf, last, next>>
    BY <1>3 DEF IsrTx, IsrChain, IsrListen, NoFlags, mainVars, sourceVars
  <2>2. Newer(irqBuf) /\ irqBuf <= next
    BY <2>1 DEF OInv, AnswerOrder, Answering
  <2>3. Ord(irqBuf, irqBuf)
    BY <1>1 DEF Ord
  <2>4. Ord(last', irqBuf) /\ \A s \in Slots : Ord(ring'[s].pkt, irqBuf)
    BY <2>1, <2>2, <2>3, NewerKept DEF IInv, TypeOK
  <2> QED BY <2>1, <2>2, <2>4 DEF ArmOrder, Newer
<1>4. CASE IsrRx \/ IsrArm \/ IsrRst
  <2>1. isr' # "arm"
    BY <1>4 DEF IsrRx, IsrArm, IsrRearmCatch, IsrRearm, IsrRst
  <2> QED BY <2>1 DEF ArmOrder
<1>5. CASE Drain \/ Tick \/ Return \/ Transmit \/ Clear
  BY <1>5, MainIdle DEF ArmOrder
<1>6. CASE UNCHANGED vars
  BY <1>6 DEF vars, hwVars, crcVars, ringVars, mainVars, sourceVars, ArmOrder,
              Newer, Ord
<1> QED BY <1>2, <1>3, <1>4, <1>5, <1>6 DEF Next, Handler

LEMMA OrderStep ==
  ASSUME IInv, FInv, ArmFresh, OInv, ArmOrder, [Next]_vars PROVE OInv'
<1>1. IInv'
  BY IInvStep
<1>2. CASE UNCHANGED vars
  <2>1. /\ UNCHANGED <<ring, head, count, torn, last, next, mpc, clr>>
        /\ UNCHANGED <<rxBuf, rxAct, txEnd, bmc>>
        /\ UNCHANGED <<irqBuf, waiting, pendingBuf, pending>>
    BY <1>2 DEF vars, hwVars, ringVars, crcVars, mainVars, sourceVars
  <2>2. (Settled' => Settled) /\ Answering' = Answering
    BY <2>1 DEF Settled, Answering
  <2>3. QueueOrder'
    BY <2>1, <2>2, KeepQueue
  <2> QED BY <2>1, <2>2, <2>3
          DEF OInv, Newer, LatchedOrder, AnswerOrder, StashOrder, StashBehind, Ord
<1> QED BY <1>1, <1>2, OrderHardware, OrderIsrRx, OrderIsrTx, OrderIsrArm,
           OrderIsrRst, OrderTake, OrderLoop, OrderTransmit, OrderClear
        DEF Next, Handler, Drain

LEMMA OrderInit == ASSUME Init PROVE OInv /\ ArmOrder
<1>1. \A s \in Slots : ring[s].pkt = Cable
  BY DEF Init, NoEntry
<1>2. last = Cable /\ next = 1 /\ ~rxAct /\ ~waiting /\ ~pending /\ count = 0
  BY DEF Init, Cable
<1>3. Newer(next)
  BY <1>1, <1>2 DEF Newer, Ord
<1>4. QueueOrder
  BY <1>2, QueueLenAssumption DEF QueueOrder, Slots
<1> QED BY <1>2, <1>3, <1>4
        DEF OInv, LatchedOrder, AnswerOrder, StashOrder, StashBehind, Answering,
            ArmOrder, Init

LEMMA OrderInvariant == Spec => [](OInv /\ ArmOrder)
<1> QED BY PhyInvariant, FreshInvariant, OrderInit, OrderStep, ArmOrderStep, PTL
        DEF Spec

\* Through the stash, the ring, the inline replies and any clear that was not
\* torn, the main loop is handed the charger's messages in the order they were
\* sent (764-791, 975-983, 1038-1040, 1074).
THEOREM PhyInOrder == Spec => InOrder
<1>1. ASSUME IInv, OInv, [Next]_vars, Settled PROVE last <= last'
  <2>0. last \in Nat
    BY <1>1, BoundAssumption DEF IInv, TypeOK, Packet
  <2>1. CASE last' = last
    BY <2>0, <2>1
  <2>2. CASE PollTake
    <3>1. count > 0 /\ count \in 0..QueueLen /\ head \in Slots
      BY <1>1, <2>2 DEF PollTake, IInv, TypeOK
    <3>2. 0 \in Slots /\ (head + 0) % QueueLen = head
      BY <3>1, WrapSmall, QueueLenAssumption DEF Slots
    <3>3. Ord(last, ring[head].pkt)
      BY <1>1, <3>1, <3>2 DEF OInv, QueueOrder, At
    <3>4. ring[head].pkt \in Nat
      BY <1>1, <3>1, BoundAssumption DEF IInv, TypeOK, Entry, Packet
    <3>5. last' = last \/ (ring[head].pkt # Cable /\ last' = ring[head].pkt)
      BY <2>2 DEF PollTake
    <3> QED BY <2>0, <3>3, <3>4, <3>5 DEF Ord, Cable
  <2>3. PollTake \/ last' = last
    BY <1>1 DEF Next, Hardware, HwReceive, HwTxDone, HwReset, Handler, IsrRx,
       IsrTx, IsrArm, IsrRst, Drain, PollTest, PollEmpty, Tick, Return, Transmit,
       DoTxQuiet, DoTxReply, DoTxReplyEPR, ChunkQuiet, ChunkReply, Polled,
       Clear, BeginAbort, BeginReset, ClearDeferred, EndAbort, EndReset,
       vars, mainVars
  <2> QED BY <2>1, <2>2, <2>3
<1>2. IInv /\ OInv /\ [Next]_vars => [Settled => last <= last']_vars
  BY <1>1
<1> QED BY <1>2, PhyInvariant, OrderInvariant, PTL DEF Spec, InOrder

(***************************************************************************)
(* What was acknowledged.  Without a cable nothing is deferred inside a    *)
(* clear, so none is ever torn.                                            *)
(***************************************************************************)
Uncut ==
  /\ rxAct => rxBuf # Cable
  /\ ~torn
  /\ (mpc = "clr" /\ clr.step = 4) => tail = 0

LEMMA UncutStep ==
  ASSUME MaxCable = 0, IInv, FInv, Uncut, [Next]_vars PROVE Uncut'
<1>0. ~(cables < MaxCable)
  BY DEF IInv, TypeOK
<1>1. CASE Hardware
  <2>1. /\ UNCHANGED <<torn, tail, mpc>> /\ Pace
    BY <1>1 DEF Hardware, HwReceive, HwTxDone, HwReset, ringVars, mainVars
  <2>2. mpc = "clr" => clr'.step = clr.step
    BY <2>1 DEF Pace, Occupy, IInv, TypeOK
  <2>3. rxAct' => rxBuf' # Cable
    BY <1>0, <1>1 DEF Hardware, HwReceive, HwTxDone, HwReset, Uncut
  <2> QED BY <2>1, <2>2, <2>3 DEF Uncut
<1>2. CASE IsrRx
  <2>1. /\ UNCHANGED <<torn, mpc, rxBuf>> /\ Occupy
    BY <1>2 DEF IsrRx, mainVars
  <2>2. mpc = "clr" => clr'.step = clr.step
    BY <2>1 DEF Occupy, IInv, TypeOK
  <2>3. UNCHANGED ringVars /\ (rxAct' => rxAct)
    <3>1. CASE IsrReceive
      BY <3>1 DEF IsrReceive, Uncut, NoFlags
    <3>2. CASE UNCHANGED <<hwVars, ringVars>>
      BY <3>2 DEF hwVars
    <3> QED BY <1>2, <3>1, <3>2 DEF IsrRx
  <2> QED BY <2>1, <2>2, <2>3 DEF Uncut, ringVars
<1>3. CASE IsrTx
  <2>1. UNCHANGED <<torn, mpc, clr, rxBuf>>
    BY <1>3 DEF IsrTx, mainVars
  <2>2. CASE txEnd /\ waiting
    <3>1. mpc # "clr"
      BY <2>2 DEF FInv, ClearQuiet
    <3>2. rxAct' => rxAct
      BY <1>3, <2>2 DEF IsrTx, IsrChain, IsrListen, SendGoodCRC, NoFlags
    <3> QED BY <2>1, <3>1, <3>2 DEF Uncut
  <2>3. CASE ~(txEnd /\ waiting)
    <3>1. UNCHANGED ringVars /\ (UNCHANGED hwVars \/ RxMode)
      BY <1>3, <2>3 DEF IsrTx
    <3>2. rxAct' => rxAct
      BY <3>1 DEF hwVars, RxMode, NoFlags
    <3> QED BY <2>1, <3>1, <3>2 DEF Uncut, ringVars
  <2> QED BY <2>2, <2>3
<1>4. CASE IsrRst
  <2>1. UNCHANGED <<mpc, clr, rxBuf>>
    BY <1>4 DEF IsrRst, mainVars
  <2>2. CASE rxRst
    BY <1>4, <2>1, <2>2 DEF IsrRst, ForgetDeferred, RxMode, NoFlags, Uncut
  <2>3. CASE ~rxRst
    BY <1>4, <2>1, <2>3 DEF IsrRst, hwVars, ringVars, Uncut
  <2> QED BY <2>2, <2>3
<1>9. CASE IsrArm
  BY <1>9 DEF IsrArm, IsrRearmCatch, IsrRearm, SendGoodCRC, NoFlags, ringVars,
              mainVars, Uncut
<1>5. CASE Drain \/ Tick \/ Return
  <2>1. mpc' # "clr" /\ UNCHANGED <<torn, rxBuf>> /\ (rxAct' => rxAct)
    BY <1>5 DEF Drain, PollTest, PollEmpty, PollTake, Tick, Return, Main, hwVars,
                NoFlags
  <2> QED BY <2>1 DEF Uncut
<1>6. CASE Transmit
  <2>1. mpc' # "clr" /\ UNCHANGED torn /\ rxAct' = FALSE
    BY <1>6 DEF Transmit, DoTxQuiet, DoTxReply, DoTxReplyEPR, ChunkQuiet,
                ChunkReply, Polled, Main, RxMode, SendGoodCRC, NoFlags
  <2> QED BY <2>1 DEF Uncut
<1>7. CASE Clear
  <2>1. CASE BeginAbort \/ BeginReset
    BY <2>1 DEF BeginAbort, BeginReset, hwVars, Uncut
  <2>2. CASE ClearDeferred
    <3>1. /\ mpc = "clr" /\ clr.step \in 1..4 /\ clr'.step = clr.step + 1
          /\ UNCHANGED hwVars
      BY <2>2 DEF ClearDeferred, Main, IInv, TypeOK
    <3>2. clr.step = 4 => head = 0 /\ tail = 0
      BY <3>1 DEF IInv, ClearInv, Uncut
    <3>3. ~torn'
      BY <2>2, <3>1, <3>2 DEF ClearDeferred, Uncut
    <3>4. clr'.step = 4 => tail' = 0
      BY <2>2, <3>1 DEF ClearDeferred
    <3> QED BY <3>1, <3>3, <3>4 DEF Uncut, hwVars
  <2>3. CASE EndAbort \/ EndReset
    BY <2>3 DEF EndAbort, EndReset, NoFlags, Uncut
  <2> QED BY <1>7, <2>1, <2>2, <2>3 DEF Clear
<1>8. CASE UNCHANGED vars
  BY <1>8 DEF vars, hwVars, ringVars, mainVars, Uncut
<1> QED BY <1>1, <1>2, <1>3, <1>4, <1>5, <1>6, <1>7, <1>8, <1>9
        DEF Next, Handler

(* What is in the ring stays there when a packet is deferred, and the      *)
(* packet joins it unless the ring is full.                                *)
LEMMA DeferKeeps ==
  ASSUME TypeOK, tail = (head + count) % QueueLen, NEW q, NEW k, Defer(q, k)
  PROVE Queued \subseteq Queued' /\ (count # QueueLen => q \in Queued')
<1> USE QueueLenAssumption
<1>1. CASE count >= QueueLen
  <2>1. Queued' = Queued
    BY <1>1 DEF Defer, ringVars, Queued
  <2>2. count = QueueLen
    BY <1>1 DEF TypeOK
  <2> QED BY <2>1, <2>2
<1>2. CASE ~(count >= QueueLen)
  <2>1. /\ head' = head /\ count' = count + 1
        /\ ring' = [ring EXCEPT ![tail] =
                       [pkt |-> q, sop |-> k, seq |-> rxSeq + 1]]
    BY <1>2 DEF Defer
  <2>2. /\ head \in Slots /\ tail \in Slots /\ count \in Slots
        /\ ring \in [Slots -> Entry]
    BY <1>2 DEF TypeOK, Slots
  <2>3. ring'[tail].pkt = q /\ \A s \in Slots : s # tail => ring'[s] = ring[s]
    BY <2>1, <2>2
  <2>4. \A i \in Slots : i < count => i < count'
    BY <2>1, <2>2 DEF Slots
  <2>5. ASSUME NEW i \in Slots, i < count
        PROVE ring'[(head' + i) % QueueLen] = ring[(head + i) % QueueLen]
    <3>1. (head + i) % QueueLen \in Slots
      BY <2>2 DEF Slots
    <3>2. (head + i) % QueueLen # tail
      BY <2>2, <2>5, WrapInjective
    <3> QED BY <2>1, <2>3, <3>1, <3>2
  <2>6. Queued \subseteq Queued'
    BY <2>4, <2>5 DEF Queued
  <2>7. q \in Queued'
    <3>1. count < count' /\ ring'[(head' + count) % QueueLen].pkt = q
      BY <2>1, <2>2, <2>3 DEF Slots
    <3> QED BY <2>2, <3>1 DEF Queued
  <2> QED BY <2>6, <2>7
<1> QED BY <1>1, <1>2

LEMMA QueuedKept == UNCHANGED ringVars => Queued' = Queued
  BY DEF ringVars, Queued

\* Without cable traffic, for every queue length and under every interleaving,
\* a step of the handler keeps every acknowledged message it finds in the
\* ring, under its GoodCRC or stashed, but for a full ring, a stash written
\* over and a bus reset (962-1116).
THEOREM PhyAckedKept == MaxCable = 0 => (Spec => AckedKept)
<1> SUFFICES ASSUME MaxCable = 0 PROVE Spec => AckedKept
  OBVIOUS
<1> DEFINE Kept == isr # isr' => \A p \in 1..next-1 :
                     (Held(p) /\ ~Dropped(p)) => Held(p)'
<1>1. ASSUME IInv, FInv, ArmFresh, Uncut, [Next]_vars PROVE Kept
  <2> SUFFICES ASSUME isr # isr', NEW p \in 1..next-1, Held(p), ~Dropped(p)
               PROVE Held(p)'
    OBVIOUS
  <2>1. IsrRx \/ IsrTx \/ IsrArm \/ IsrRst
    BY <1>1, MainIdle, HardwareOutside DEF Next, Handler, vars
  <2>2. ASSUME UNCHANGED <<ringVars, crcVars>> PROVE Held(p)'
    BY <2>2, QueuedKept DEF Held, crcVars
  <2>3. CASE IsrRx
    <3>1. CASE IsrReceive
      <4>1. rxAct /\ rxBuf # Cable /\ isr = "off"
        BY <1>1, <2>3, <3>1 DEF IsrRx, IsrReceive, Uncut
      <4>2. UNCHANGED ringVars
        BY <3>1, <4>1 DEF IsrReceive
      <4>3. /\ waiting => UNCHANGED <<waiting, irqBuf>>
            /\ ~waiting => UNCHANGED <<pending, pendingBuf>>
        BY <3>1, <4>1 DEF IsrReceive
      <4>4. waiting => ~(pending /\ pendingBuf = p)
        BY <4>1 DEF Dropped
      <4>5. Queued' = Queued
        BY <4>2, QueuedKept
      <4> QED BY <4>3, <4>4, <4>5 DEF Held
    <3> QED BY <2>2, <2>3, <3>1 DEF IsrRx
  <2>4. CASE IsrTx /\ ~(txEnd /\ waiting)
    BY <2>2, <2>4 DEF IsrTx
  <2>5. CASE IsrTx /\ txEnd /\ waiting
    <3>1. Defer(irqBuf, lastSop) /\ isr = "tx" /\ (IsrChain \/ IsrListen)
      BY <2>5 DEF IsrTx
    <3>2. tail = (head + count) % QueueLen
      BY <1>1, <2>5 DEF FInv, ClearQuiet, Uncut, IInv, RingCoherent, Settled
    <3>3. Queued \subseteq Queued' /\ (count # QueueLen => irqBuf \in Queued')
      BY <1>1, <3>1, <3>2, DeferKeeps DEF IInv
    <3>4. CASE irqBuf = p
      BY <2>5, <3>1, <3>3, <3>4 DEF Held, Dropped
    <3>5. CASE pending /\ pendingBuf = p
      BY <3>1, <3>5 DEF Held, IsrChain, IsrListen
    <3> QED BY <3>3, <3>4, <3>5 DEF Held
  <2>6. CASE IsrArm
    <3>1. ~waiting /\ ~pending /\ UNCHANGED ringVars
      BY <1>1, <2>6 DEF ArmFresh, IsrArm
    <3> QED BY <3>1, QueuedKept DEF Held
  <2>7. CASE IsrRst
    <3>1. ~rxRst
      BY <2>7 DEF Dropped, IsrRst
    <3> QED BY <2>2, <2>7, <3>1 DEF IsrRst
  <2> QED BY <2>1, <2>3, <2>4, <2>5, <2>6, <2>7
<1>2. Init => Uncut
  BY DEF Init, Uncut
<1>3. IInv /\ FInv /\ Uncut /\ [Next]_vars => Uncut'
  BY UncutStep
<1>4. IInv /\ FInv /\ ArmFresh /\ Uncut /\ [Next]_vars => [Kept]_vars
  BY <1>1
<1> QED BY <1>2, <1>3, <1>4, PhyInvariant, FreshInvariant, PTL
        DEF Spec, AckedKept
=============================================================================

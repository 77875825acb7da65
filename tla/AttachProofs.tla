---------------------------- MODULE AttachProofs ----------------------------
(***************************************************************************)
(* The safety of Attach for every setting of its thresholds, rings and     *)
(* bounds: the types, the order of the ladder, that it never touches an    *)
(* armed session, and who owns the CC pins.                                *)
(***************************************************************************)
EXTENDS Attach, TLAPS

-----------------------------------------------------------------------------
(* The inductive invariant *)

\* While a cable is attached the firmware's own flags say what the history
\* says: how far the ladder has gone.
LadderInv ==
  /\ physCc = None => ~wakeBounce
  /\ physCc # None =>
       /\ softs = softCnt
       /\ hards = IF hrstSent THEN 1 ELSE 0
       /\ wakes = IF wakeDone THEN 1 ELSE 0
       /\ wakeBounce => wakeDone /\ wakeCycle = 0
       /\ wakeCycle >= 1 => wakeDone
       /\ softCnt > 0 => wakeCycle >= 1
       /\ hrstSent => softCnt = SoftMax
       /\ hrstRec => hrstSent

\* Nothing is attached before the receiver is started and the boot bounce over
BootInv ==
  /\ ~started \/ bouncePhase => physCc = None
  /\ bouncePhase => started

IInv == /\ TypeOK /\ LadderInv /\ LadderInOrder
        /\ BootInv /\ ArmedOnCable /\ PinsOwned

-----------------------------------------------------------------------------
(* Types *)

\* PD_Analyzer_Reset_Attach_State leaves its five variables typed
LEMMA ResetType ==
  ASSUME ResetAttachState
  PROVE  /\ pendingCc' \in CC \cup {None} /\ debounceMs' \in Nat
         /\ gotSrcCap' \in BOOLEAN /\ getsrcSent' \in BOOLEAN
         /\ waitMs' \in 0..Wrap-1
<1>1. pendingCc' \in CC \cup {None} /\ debounceMs' \in Nat
  BY DEF ResetAttachState
<1>2. gotSrcCap' \in BOOLEAN /\ getsrcSent' \in BOOLEAN
  BY DEF ResetAttachState
<1>3. waitMs' \in 0..Wrap-1
  BY WrapAssumption DEF ResetAttachState
<1> QED BY <1>1, <1>2, <1>3

\* and so do attaching to a line and letting it go
LEMMA AttachType ==
  ASSUME TypeOK, NEW cc \in CC, PhysicalAttach(cc)
  PROVE  /\ LadderType'
         /\ physCc' \in CC \cup {None} /\ pendingCc' \in CC \cup {None}
         /\ detCnt' \in Nat /\ debounceMs' \in Nat
<1> USE DEF PhysicalAttach
<1>1. /\ physCc' \in CC \cup {None} /\ pendingCc' \in CC \cup {None}
      /\ detCnt' \in Nat /\ debounceMs' \in Nat
  BY ResetType
<1>2. /\ wakeBounce' \in BOOLEAN /\ wakeDone' \in BOOLEAN
      /\ hrstSent' \in BOOLEAN /\ hrstRec' \in BOOLEAN /\ hrstReinit' \in BOOLEAN
  BY DEF TypeOK, LadderType
<1>3. /\ wakeMs' \in Nat /\ wakeCycle' \in 0..2 /\ softCnt' \in 0..SoftMax
      /\ hrstMs' \in Nat /\ wakes' \in Nat /\ softs' \in Nat /\ hards' \in Nat
  BY DEF TypeOK, LadderType, SoftMax
<1> QED BY <1>1, <1>2, <1>3, ResetType DEF LadderType

LEMMA DetachType ==
  ASSUME TypeOK, DoDetach
  PROVE  /\ LadderType'
         /\ physCc' \in CC \cup {None} /\ pendingCc' \in CC \cup {None}
         /\ detCnt' \in Nat /\ debounceMs' \in Nat
         /\ inbox' = <<>> /\ handler' = handler /\ connected' \in BOOLEAN
<1> USE DEF DoDetach
<1>1. /\ physCc' \in CC \cup {None} /\ pendingCc' \in CC \cup {None}
      /\ detCnt' \in Nat /\ debounceMs' \in Nat
      /\ inbox' = <<>> /\ handler' = handler
  BY ResetType
<1>2. /\ wakeBounce' \in BOOLEAN /\ wakeDone' \in BOOLEAN
      /\ hrstSent' \in BOOLEAN /\ hrstRec' \in BOOLEAN /\ hrstReinit' \in BOOLEAN
      /\ connected' \in BOOLEAN
  OBVIOUS
<1>3. /\ wakeMs' \in Nat /\ wakeCycle' \in 0..2 /\ softCnt' \in 0..SoftMax
      /\ hrstMs' \in Nat /\ wakes' \in Nat /\ softs' \in Nat /\ hards' \in Nat
  BY DEF TypeOK, LadderType, SoftMax, histVars
<1> QED BY <1>1, <1>2, <1>3, ResetType DEF LadderType

LEMMA ElapsedType ==
  ASSUME TypeOK PROVE Elapsed \in 0..Wrap-1
  BY WrapAssumption DEF TypeOK, LadderType, Elapsed

\* The ring keeps its type when a packet is taken off or all are dropped
LEMMA RingType ==
  ASSUME TypeOK
  PROVE  /\ <<>> \in Seq(Kinds) /\ Len(<<>>) <= QueueLen
         /\ inbox # <<>> =>
              /\ Head(inbox) \in Kinds
              /\ Tail(inbox) \in Seq(Kinds) /\ Len(Tail(inbox)) <= QueueLen
  BY BoundAssumption DEF TypeOK, PacketType

\* The three parts of the type invariant, action by action
LEMMA PacketTypeStep == TypeOK /\ [Next]_vars => PacketType'
<1> SUFFICES ASSUME TypeOK, [Next]_vars PROVE PacketType'
  OBVIOUS
<1> USE WrapAssumption, BoundAssumption DEF TypeOK, PacketType, Kinds,
      Handlers, CC, None
<1>1. CASE PollPacket
  <2>1. drain' \in 0..MaxDrain
    BY <1>1, BoundAssumption DEF PollPacket
  <2>2. handler' \in Handlers /\ connected' \in BOOLEAN
    BY <1>1
       DEF PollPacket, ByHandler, ByDefaultCaps, ByDefaultCtrl,
           ByDefaultDrop, OnValidSrcCap
  <2>3. inbox' \in {Tail(inbox), <<>>}
    BY <1>1
       DEF PollPacket, ByHandler, ByDefaultCaps, ByDefaultCtrl,
           ByDefaultDrop
  <2>4. inbox' \in Seq(Kinds) /\ Len(inbox') <= QueueLen
    BY <1>1, <2>3, RingType DEF PollPacket
  <2> QED BY <1>1, <2>1, <2>2, <2>4 DEF PollPacket
<1>2. CASE PollDone
  BY <1>2 DEF PollDone, packetVars
<1>3. CASE Det /\ DetBoot
  BY <1>3 DEF Det, DetBoot, packetVars
<1>4. CASE Det /\ DetStart
  BY <1>4 DEF Det, DetStart, packetVars
<1>5. CASE Det /\ DetInWake
  BY <1>5 DEF Det, DetInWake, packetVars
<1>6. CASE Det /\ DetAttached
  <2>1. inbox' \in {inbox,
    <<>>} /\ handler' = handler /\ connected' \in BOOLEAN
    BY <1>6, DetachType DEF DetAttached, packetVars
  <2>2. inbox' \in Seq(Kinds) /\ Len(inbox') <= QueueLen
    BY <2>1, RingType
  <2> QED BY <1>6, <2>1, <2>2 DEF Det
<1>7. CASE Det /\ DetDetached
  BY <1>7 DEF Det, DetDetached, packetVars
<1>8. CASE Timers
  <2>1. inbox' \in {inbox, <<>>} /\ handler' \in Handlers
    BY <1>8 DEF Timers
  <2>2. inbox' \in Seq(Kinds) /\ Len(inbox') <= QueueLen
    BY <2>1, RingType
  <2> QED BY <1>8, <2>1, <2>2 DEF Timers
<1>9. CASE AttachTick /\ AttachWaits
  BY <1>9 DEF AttachTick, AttachWaits, packetVars
<1>10. CASE AttachTick /\ AttachBounce
  BY <1>10
     DEF AttachTick, AttachBounce, PhysicalAttach, ResetAttachState,
         packetVars
<1>11. CASE AttachTick /\ AttachDebounce
  BY <1>11
     DEF AttachTick, AttachDebounce, PhysicalAttach, ResetAttachState,
         packetVars
<1>12. CASE SrccapTick /\ SrccapOff
  BY <1>12 DEF SrccapTick, SrccapOff
<1>13. CASE SrccapTick /\ HrstTick
  BY <1>13 DEF SrccapTick, HrstTick, Waiting
<1>14. CASE SrccapTick /\ WakeTick
  BY <1>14 DEF SrccapTick, WakeTick, Waiting, ResetAttachState
<1>15. CASE SrccapTick /\ WaitTick /\ SendSoftReset
  BY <1>15
     DEF SrccapTick, WaitTick, SendSoftReset, SoftResetDue, CanReset,
         Waiting, ResetAttachState
<1>16. CASE SrccapTick /\ WaitTick /\ SendHardReset
  BY <1>16
     DEF SrccapTick, WaitTick, SendHardReset, HardResetDue, CanReset,
         Waiting, ResetAttachState
<1>17. CASE SrccapTick /\ WaitTick /\ KeepWaiting
  BY <1>17 DEF SrccapTick, WaitTick, KeepWaiting, WakeDue, Waiting
<1>18. CASE MoveCable
  BY <1>18 DEF MoveCable, packetVars
<1>19. ASSUME NEW kind \in Kinds, Receive(kind) PROVE PacketType'
  BY <1>19 DEF Receive
<1>20. CASE ReceiveHardReset
  BY <1>20 DEF ReceiveHardReset
<1>21. CASE UNCHANGED vars
  BY <1>21 DEF vars, packetVars
<1> QED
  BY <1>1, <1>2, <1>3, <1>4, <1>5, <1>6, <1>7, <1>8, <1>9, <1>10, <1>11,
     <1>12, <1>13, <1>14, <1>15, <1>16, <1>17, <1>18, <1>19, <1>20, <1>21
     DEF Next, Loop, Det, AttachTick, SrccapTick, WaitTick

LEMMA LineTypeStep == TypeOK /\ [Next]_vars => LineType'
<1> SUFFICES ASSUME TypeOK, [Next]_vars PROVE LineType'
  OBVIOUS
<1> USE WrapAssumption, BoundAssumption DEF TypeOK, PacketType, LineType, CC,
      None
<1>1. CASE PollPacket
  <2>1. pendingCc' \in CC \cup {None} /\ debounceMs' \in Nat
    BY <1>1, ResetType
       DEF PollPacket, ByHandler, ByDefaultCaps, ByDefaultCtrl,
           ByDefaultDrop
  <2> QED BY <1>1, <2>1 DEF PollPacket, bootVars
<1>2. CASE PollDone
  BY <1>2 DEF PollDone, bootVars, senseVars
<1>3. CASE Det /\ DetBoot
  <2>1. BootTime \in Nat
    BY TimeAssumption DEF Times
  <2> QED BY <1>3, <2>1 DEF Det, DetBoot, senseVars
<1>4. CASE Det /\ DetStart
  BY <1>4 DEF Det, DetStart, senseVars
<1>5. CASE Det /\ DetInWake
  BY <1>5 DEF Det, DetInWake, bootVars, senseVars
<1>6. CASE Det /\ DetAttached
  <2>1. CASE DoDetach
    BY <1>6, <2>1, DetachType DEF DetAttached, bootVars
  <2>2. CASE ~DoDetach
    BY <1>6, <2>2 DEF DetAttached, bootVars
  <2> QED BY <2>1, <2>2
<1>7. CASE Det /\ DetDetached
  BY <1>7 DEF Det, DetDetached, bootVars
<1>8. CASE Timers
  BY <1>8 DEF Timers, bootVars, senseVars
<1>9. CASE AttachTick /\ AttachWaits
  BY <1>9 DEF AttachTick, AttachWaits, senseVars
<1>10. CASE AttachTick /\ AttachBounce
  <2>1. hiZ' \in BOOLEAN /\ bouncePhase' \in BOOLEAN
    BY <1>10 DEF AttachBounce
  <2>2. bounceMs' \in Nat
    BY <1>10 DEF AttachBounce
  <2>3. /\ physCc' \in CC \cup {None} /\ pendingCc' \in CC \cup {None}
        /\ detCnt' \in Nat /\ debounceMs' \in Nat
    BY <1>10, AttachType DEF AttachBounce, senseVars
  <2> QED BY <1>10, <2>1, <2>2, <2>3 DEF AttachTick
<1>11. CASE AttachTick /\ AttachDebounce
  <2>1. CASE PhysicalAttach(cable) /\ cable # None
    BY <1>11, <2>1, AttachType DEF AttachTick, AttachDebounce
  <2>2. CASE ~(PhysicalAttach(cable) /\ cable # None)
    BY <1>11, <2>2 DEF AttachTick, AttachDebounce
  <2> QED BY <2>1, <2>2
<1>12. CASE SrccapTick /\ SrccapOff
  BY <1>12 DEF SrccapTick, SrccapOff, bootVars
<1>13. CASE SrccapTick /\ HrstTick
  <2>1. hiZ' \in BOOLEAN
    BY <1>13, Zenon DEF HrstTick
  <2>2. pendingCc' \in CC \cup {None} /\ debounceMs' \in Nat
    BY <1>13 DEF HrstTick
  <2> QED BY <1>13, <2>1, <2>2 DEF SrccapTick, bootVars
<1>14. CASE SrccapTick /\ WakeTick
  <2>1. hiZ' \in BOOLEAN /\ pendingCc' \in CC \cup {None} /\ debounceMs' \in Nat
    BY <1>14, ResetType DEF WakeTick
  <2> QED BY <1>14, <2>1 DEF SrccapTick, bootVars
<1>15. CASE SrccapTick /\ WaitTick /\ SendSoftReset
  BY <1>15
     DEF SrccapTick, WaitTick, SendSoftReset, SoftResetDue, CanReset,
         Waiting, ResetAttachState, bootVars
<1>16. CASE SrccapTick /\ WaitTick /\ SendHardReset
  BY <1>16
     DEF SrccapTick, WaitTick, SendHardReset, HardResetDue, CanReset,
         Waiting, ResetAttachState, bootVars
<1>17. CASE SrccapTick /\ WaitTick /\ KeepWaiting
  BY <1>17 DEF SrccapTick, WaitTick, KeepWaiting, WakeDue, Waiting, bootVars
<1>18. CASE MoveCable
  BY <1>18 DEF MoveCable, bootVars, senseVars
<1>19. ASSUME NEW kind \in Kinds, Receive(kind) PROVE LineType'
  BY <1>19 DEF Receive, bootVars, senseVars
<1>20. CASE ReceiveHardReset
  BY <1>20 DEF ReceiveHardReset, bootVars, senseVars
<1>21. CASE UNCHANGED vars
  BY <1>21 DEF vars, bootVars, senseVars
<1> QED
  BY <1>1, <1>2, <1>3, <1>4, <1>5, <1>6, <1>7, <1>8, <1>9, <1>10, <1>11,
     <1>12, <1>13, <1>14, <1>15, <1>16, <1>17, <1>18, <1>19, <1>20, <1>21
     DEF Next, Loop, Det, AttachTick, SrccapTick, WaitTick

LEMMA LadderTypeStep == TypeOK /\ [Next]_vars => LadderType'
<1> SUFFICES ASSUME TypeOK, [Next]_vars PROVE LadderType'
  OBVIOUS
<1> USE WrapAssumption, BoundAssumption DEF TypeOK, LadderType, SoftMax, CC,
      None
<1>1. CASE PollPacket
  <2>1. \/ gotSrcCap' = TRUE /\ waitMs' = 0 /\ UNCHANGED getsrcSent
        \/ UNCHANGED capsVars
        \/ ResetAttachState
    BY <1>1
       DEF PollPacket, ByHandler, ByDefaultCaps, ByDefaultCtrl,
           ByDefaultDrop, OnValidSrcCap
  <2>2. gotSrcCap' \in BOOLEAN /\ getsrcSent' \in BOOLEAN
    BY <2>1, ResetType DEF capsVars
  <2>3. waitMs' \in 0..Wrap-1
    BY <2>1, ResetType DEF capsVars
  <2> QED BY <1>1, <2>2, <2>3 DEF PollPacket, wakeVars, resetVars, histVars
<1>2. CASE PollDone
  BY <1>2 DEF PollDone, capsVars, wakeVars, resetVars, histVars
<1>3. CASE Det /\ DetBoot
  BY <1>3 DEF Det, DetBoot, capsVars, wakeVars, resetVars, histVars
<1>4. CASE Det /\ DetStart
  BY <1>4 DEF Det, DetStart, capsVars, wakeVars, resetVars, histVars
<1>5. CASE Det /\ DetInWake
  BY <1>5 DEF Det, DetInWake, capsVars, wakeVars, resetVars, histVars
<1>6. CASE Det /\ DetAttached
  <2>1. CASE DoDetach
    BY <2>1, DetachType
  <2>2. CASE ~DoDetach
    BY <1>6, <2>2 DEF DetAttached, capsVars, wakeVars, resetVars, histVars
  <2> QED BY <2>1, <2>2
<1>7. CASE Det /\ DetDetached
  BY <1>7 DEF Det, DetDetached, capsVars, wakeVars, resetVars, histVars
<1>8. CASE Timers
  BY <1>8 DEF Timers, capsVars, wakeVars, resetVars, histVars
<1>9. CASE AttachTick /\ AttachWaits
  BY <1>9 DEF AttachTick, AttachWaits, capsVars, wakeVars, resetVars, histVars
<1>10. CASE AttachTick /\ AttachBounce
  <2>1. CASE PhysicalAttach(cable) /\ cable # None
    BY <2>1, AttachType DEF PacketType
  <2>2. CASE ~(PhysicalAttach(cable) /\ cable # None)
    BY <1>10, <2>2 DEF AttachBounce, capsVars, wakeVars, resetVars, histVars
  <2> QED BY <2>1, <2>2
<1>11. CASE AttachTick /\ AttachDebounce
  <2>1. CASE PhysicalAttach(cable) /\ cable # None
    BY <2>1, AttachType DEF PacketType
  <2>2. CASE ~(PhysicalAttach(cable) /\ cable # None)
    BY <1>11, <2>2 DEF AttachDebounce, capsVars, wakeVars, resetVars, histVars
  <2> QED BY <2>1, <2>2
<1>12. CASE SrccapTick /\ SrccapOff
  BY <1>12 DEF SrccapTick, SrccapOff, capsVars, wakeVars, resetVars, histVars
<1>13. CASE SrccapTick /\ HrstTick
  <2>1. hrstReinit' \in BOOLEAN /\ getsrcSent' \in BOOLEAN /\ hrstRec' \in BOOLEAN
    BY <1>13, Zenon DEF HrstTick
  <2>2. hrstMs' \in Nat /\ waitMs' \in 0..Wrap-1
    BY <1>13 DEF HrstTick
  <2> QED BY <1>13, <2>1, <2>2 DEF HrstTick, wakeVars, histVars
<1>14. CASE SrccapTick /\ WakeTick
  <2>1. UNCHANGED capsVars \/ ResetAttachState
    BY <1>14 DEF WakeTick
  <2>2. gotSrcCap' \in BOOLEAN /\ getsrcSent' \in BOOLEAN
    BY <2>1, ResetType DEF capsVars
  <2>3. waitMs' \in 0..Wrap-1
    BY <2>1, ResetType DEF capsVars
  <2>4. wakeBounce' \in BOOLEAN
    BY <1>14 DEF WakeTick
  <2>5. wakeMs' \in Nat
    BY <1>14 DEF WakeTick
  <2>6. wakeCycle' = wakeCycle \/ wakeCycle' = 1
    BY <1>14 DEF WakeTick
  <2>7. wakeCycle' \in 0..2
    BY <2>6
  <2> QED BY <1>14, <2>2, <2>3, <2>4, <2>5, <2>7
     DEF WakeTick, resetVars, histVars
<1>15. CASE SrccapTick /\ WaitTick /\ SendSoftReset
  <2>1. softCnt' \in 0..SoftMax
    BY <1>15 DEF SendSoftReset, SoftResetDue
  <2>2. wakeCycle' \in 0..2 /\ softs' \in Nat
    BY <1>15 DEF SendSoftReset
  <2>3. /\ gotSrcCap' \in BOOLEAN /\ getsrcSent' \in BOOLEAN
        /\ waitMs' \in 0..Wrap-1
    BY <1>15, ResetType DEF SendSoftReset
  <2> QED BY <1>15, <2>1, <2>2, <2>3 DEF SendSoftReset
<1>16. CASE SrccapTick /\ WaitTick /\ SendHardReset
  <2>1. /\ gotSrcCap' \in BOOLEAN /\ getsrcSent' \in BOOLEAN
        /\ waitMs' \in 0..Wrap-1
    BY <1>16, ResetType DEF SendHardReset
  <2>2. hrstSent' \in BOOLEAN /\ hrstRec' \in BOOLEAN /\ hrstReinit' \in BOOLEAN
    BY <1>16 DEF SendHardReset
  <2>3. hrstMs' \in Nat /\ hards' \in Nat
    BY <1>16 DEF SendHardReset
  <2> QED BY <1>16, <2>1, <2>2, <2>3 DEF SendHardReset, wakeVars
<1>17. CASE SrccapTick /\ WaitTick /\ KeepWaiting
  <2>1. getsrcSent' \in BOOLEAN
    BY <1>17, Zenon DEF KeepWaiting
  <2>2. waitMs' \in 0..Wrap-1
    BY <1>17, ElapsedType DEF KeepWaiting
  <2>3. wakeDone' \in BOOLEAN /\ wakeBounce' \in BOOLEAN
    BY <1>17 DEF KeepWaiting
  <2>4. wakeMs' \in Nat /\ wakes' \in Nat
    BY <1>17 DEF KeepWaiting
  <2> QED BY <1>17, <2>1, <2>2, <2>3, <2>4 DEF KeepWaiting, resetVars
<1>18. CASE MoveCable
  BY <1>18 DEF MoveCable, capsVars, wakeVars, resetVars, histVars
<1>19. ASSUME NEW kind \in Kinds, Receive(kind) PROVE LadderType'
  BY <1>19 DEF Receive, capsVars, wakeVars, resetVars, histVars
<1>20. CASE ReceiveHardReset
  <2>1. hrstMs' \in Nat
    <3>1. Advance \in Nat
      BY TimeAssumption DEF Times
    <3> QED BY <1>20, <3>1 DEF ReceiveHardReset
  <2> QED BY <1>20, <2>1 DEF ReceiveHardReset, capsVars, wakeVars, histVars
<1>21. CASE UNCHANGED vars
  BY <1>21 DEF vars, capsVars, wakeVars, resetVars, histVars
<1> QED
  BY <1>1, <1>2, <1>3, <1>4, <1>5, <1>6, <1>7, <1>8, <1>9, <1>10, <1>11,
     <1>12, <1>13, <1>14, <1>15, <1>16, <1>17, <1>18, <1>19, <1>20, <1>21
     DEF Next, Loop, Det, AttachTick, SrccapTick, WaitTick

-----------------------------------------------------------------------------
(* The ladder *)

LEMMA LadderStep ==
  TypeOK /\ LadderInv /\ LadderInOrder /\ BootInv /\ [Next]_vars
    => (LadderInv /\ LadderInOrder)'
<1> SUFFICES ASSUME TypeOK /\ LadderInv /\ LadderInOrder /\ BootInv,
      [Next]_vars
             PROVE  (LadderInv /\ LadderInOrder)'
  OBVIOUS
<1> USE WrapAssumption, BoundAssumption DEF TypeOK, PacketType, LineType,
      LadderType, LadderInv, LadderInOrder, BootInv, CC, None, SoftMax
<1>1. CASE PollPacket
  BY <1>1
     DEF PollPacket, ByHandler, ByDefaultCaps, ByDefaultCtrl, ByDefaultDrop,
         OnValidSrcCap, ResetAttachState, wakeVars, resetVars, histVars
<1>2. CASE PollDone
  BY <1>2 DEF PollDone, wakeVars, resetVars, histVars
<1>3. CASE Det /\ DetBoot
  BY <1>3 DEF Det, DetBoot, wakeVars, resetVars, histVars
<1>4. CASE Det /\ DetStart
  BY <1>4 DEF Det, DetStart, wakeVars, resetVars, histVars
<1>5. CASE Det /\ DetInWake
  BY <1>5 DEF Det, DetInWake, wakeVars, resetVars, histVars
<1>6. CASE Det /\ DetAttached
  BY <1>6
     DEF Det, DetAttached, DoDetach, ResetAttachState, wakeVars, resetVars,
         histVars
<1>7. CASE Det /\ DetDetached
  BY <1>7 DEF Det, DetDetached, wakeVars, resetVars, histVars
<1>8. CASE Timers
  BY <1>8 DEF Timers, wakeVars, resetVars, histVars
<1>9. CASE AttachTick /\ AttachWaits
  BY <1>9 DEF AttachTick, AttachWaits, wakeVars, resetVars, histVars
<1>10. CASE AttachTick /\ AttachBounce
  <2>1. CASE PhysicalAttach(cable) /\ cable # None
    BY <1>10, <2>1 DEF AttachBounce, PhysicalAttach
  <2>2. CASE ~(PhysicalAttach(cable) /\ cable # None)
    BY <1>10, <2>2 DEF AttachTick, AttachBounce, wakeVars, resetVars, histVars
  <2> QED BY <2>1, <2>2
<1>11. CASE AttachTick /\ AttachDebounce
  BY <1>11
     DEF AttachTick, AttachDebounce, PhysicalAttach, ResetAttachState,
         wakeVars, resetVars, histVars
<1>12. CASE SrccapTick /\ SrccapOff
  BY <1>12 DEF SrccapTick, SrccapOff, wakeVars, resetVars, histVars
<1>13. CASE SrccapTick /\ HrstTick
  BY <1>13 DEF SrccapTick, HrstTick, Waiting, wakeVars, histVars
<1>14. CASE SrccapTick /\ WakeTick
  BY <1>14
     DEF SrccapTick, WakeTick, Waiting, ResetAttachState, resetVars,
         histVars
<1>15. CASE SrccapTick /\ WaitTick /\ SendSoftReset
  BY <1>15
     DEF SrccapTick, WaitTick, SendSoftReset, SoftResetDue, CanReset,
         Waiting, ResetAttachState
<1>16. CASE SrccapTick /\ WaitTick /\ SendHardReset
  BY <1>16
     DEF SrccapTick, WaitTick, SendHardReset, HardResetDue, CanReset,
         Waiting, ResetAttachState, wakeVars
<1>17. CASE SrccapTick /\ WaitTick /\ KeepWaiting
  BY <1>17 DEF SrccapTick, WaitTick, KeepWaiting, WakeDue, Waiting, resetVars
<1>18. CASE MoveCable
  BY <1>18 DEF MoveCable, wakeVars, resetVars, histVars
<1>19. ASSUME NEW kind \in Kinds, Receive(kind)
         PROVE (LadderInv /\ LadderInOrder)'
  BY <1>19 DEF Receive, wakeVars, resetVars, histVars
<1>20. CASE ReceiveHardReset
  BY <1>20 DEF ReceiveHardReset, wakeVars, histVars
<1>21. CASE UNCHANGED vars
  BY <1>21 DEF vars, wakeVars, resetVars, histVars
<1> QED
  BY <1>1, <1>2, <1>3, <1>4, <1>5, <1>6, <1>7, <1>8, <1>9, <1>10, <1>11,
     <1>12, <1>13, <1>14, <1>15, <1>16, <1>17, <1>18, <1>19, <1>20, <1>21
     DEF Next, Loop, Det, AttachTick, SrccapTick, WaitTick

-----------------------------------------------------------------------------
(* The pins and the armed protocol *)

LEMMA PinsStep ==
  TypeOK /\ LadderInv /\ BootInv /\ ArmedOnCable /\ PinsOwned /\ [Next]_vars
    => (BootInv /\ ArmedOnCable /\ PinsOwned)'
<1> SUFFICES ASSUME TypeOK /\ LadderInv /\ BootInv /\ ArmedOnCable /\ PinsOwned, [Next]_vars
             PROVE  (BootInv /\ ArmedOnCable /\ PinsOwned)'
  OBVIOUS
<1> USE WrapAssumption, BoundAssumption DEF TypeOK, PacketType, LineType,
      LadderType, LadderInv, BootInv, ArmedOnCable, PinsOwned, CC, None
<1>1. CASE PollPacket
  BY <1>1
     DEF PollPacket, ByHandler, ByDefaultCaps, ByDefaultCtrl, ByDefaultDrop,
         OnValidSrcCap, ResetAttachState, bootVars, capsVars, wakeVars
<1>2. CASE PollDone
  BY <1>2 DEF PollDone, packetVars, bootVars, capsVars, wakeVars
<1>3. CASE Det /\ DetBoot
  BY <1>3 DEF Det, DetBoot, packetVars, capsVars, wakeVars
<1>4. CASE Det /\ DetStart
  BY <1>4 DEF Det, DetStart, packetVars, capsVars, wakeVars
<1>5. CASE Det /\ DetInWake
  BY <1>5 DEF Det, DetInWake, packetVars, bootVars, capsVars, wakeVars
<1>6. CASE Det /\ DetAttached
  BY <1>6
     DEF Det, DetAttached, DoDetach, ResetAttachState, packetVars, bootVars,
         capsVars, wakeVars
<1>7. CASE Det /\ DetDetached
  BY <1>7 DEF Det, DetDetached, packetVars, bootVars, capsVars, wakeVars
<1>8. CASE Timers
  BY <1>8 DEF Timers, bootVars, capsVars, wakeVars
<1>9. CASE AttachTick /\ AttachWaits
  BY <1>9 DEF AttachTick, AttachWaits, packetVars, capsVars, wakeVars
<1>10. CASE AttachTick /\ AttachBounce
  BY <1>10
     DEF AttachTick, AttachBounce, PhysicalAttach, ResetAttachState,
         packetVars, capsVars, wakeVars
<1>11. CASE AttachTick /\ AttachDebounce
  BY <1>11
     DEF AttachTick, AttachDebounce, PhysicalAttach, ResetAttachState,
         packetVars, capsVars, wakeVars
<1>12. CASE SrccapTick /\ SrccapOff
  BY <1>12 DEF SrccapTick, SrccapOff, bootVars, capsVars, wakeVars
<1>13. CASE SrccapTick /\ HrstTick
  <2>1. ~wakeBounce
    BY <1>13 DEF HrstTick, Waiting, SoftMax
  <2>2. ~hiZ /\ ~connected
    BY <1>13, <2>1 DEF HrstTick, Waiting
  <2>3. ~hiZ'
    BY <1>13, <2>2, Zenon DEF HrstTick
  <2> QED BY <1>13, <2>1, <2>2, <2>3
     DEF SrccapTick, HrstTick, bootVars, wakeVars
<1>14. CASE SrccapTick /\ WakeTick
  BY <1>14
     DEF SrccapTick, WakeTick, Waiting, ResetAttachState, bootVars, capsVars
<1>15. CASE SrccapTick /\ WaitTick /\ SendSoftReset
  BY <1>15
     DEF SrccapTick, WaitTick, SendSoftReset, SoftResetDue, CanReset,
         Waiting, ResetAttachState, bootVars
<1>16. CASE SrccapTick /\ WaitTick /\ SendHardReset
  BY <1>16
     DEF SrccapTick, WaitTick, SendHardReset, HardResetDue, CanReset,
         Waiting, ResetAttachState, bootVars, wakeVars
<1>17. CASE SrccapTick /\ WaitTick /\ KeepWaiting
  BY <1>17 DEF SrccapTick, WaitTick, KeepWaiting, WakeDue, Waiting, bootVars
<1>18. CASE MoveCable
  BY <1>18 DEF MoveCable, packetVars, bootVars, capsVars, wakeVars
<1>19. ASSUME NEW kind \in Kinds, Receive(kind)
         PROVE (BootInv /\ ArmedOnCable /\ PinsOwned)'
  BY <1>19 DEF Receive, bootVars, capsVars, wakeVars
<1>20. CASE ReceiveHardReset
  BY <1>20 DEF ReceiveHardReset, bootVars, capsVars, wakeVars
<1>21. CASE UNCHANGED vars
  BY <1>21 DEF vars, packetVars, bootVars, capsVars, wakeVars
<1> QED
  BY <1>1, <1>2, <1>3, <1>4, <1>5, <1>6, <1>7, <1>8, <1>9, <1>10, <1>11,
     <1>12, <1>13, <1>14, <1>15, <1>16, <1>17, <1>18, <1>19, <1>20, <1>21
     DEF Next, Loop, Det, AttachTick, SrccapTick, WaitTick

-----------------------------------------------------------------------------
(* The theorems *)

LEMMA InitInv == Init => IInv
<1> SUFFICES ASSUME Init PROVE IInv
  OBVIOUS
<1> USE DEF Init
<1>1. TypeOK
  <2>1. PacketType
    <3>1. inbox \in Seq(Kinds) /\ Len(inbox) <= QueueLen
      BY BoundAssumption
    <3>2. drain \in 0..MaxDrain /\ ctrls \in 0..MaxCtrl
      BY BoundAssumption
    <3>3. connected \in BOOLEAN /\ handler \in Handlers
      BY DEF Handlers
    <3> QED BY <3>1, <3>2, <3>3 DEF PacketType
  <2>2. LineType
    <3>1. bootMs \in 0..BootTime
      BY TimeAssumption DEF Times
    <3>2. started \in BOOLEAN /\ bouncePhase \in BOOLEAN /\ hiZ \in BOOLEAN
      OBVIOUS
    <3>3. bounceMs \in Nat /\ detCnt \in Nat /\ debounceMs \in Nat
      OBVIOUS
    <3> QED BY <3>1, <3>2, <3>3 DEF LineType
  <2>3. LadderType
    <3>1. waitMs \in 0..Wrap-1
      BY WrapAssumption
    <3>2. /\ gotSrcCap \in BOOLEAN /\ getsrcSent \in BOOLEAN
          /\ wakeBounce \in BOOLEAN /\ wakeDone \in BOOLEAN
          /\ hrstSent \in BOOLEAN /\ hrstRec \in BOOLEAN /\ hrstReinit \in BOOLEAN
      OBVIOUS
    <3>3. /\ wakeMs \in Nat /\ wakeCycle \in 0..2 /\ softCnt \in 0..SoftMax
          /\ hrstMs \in Nat /\ wakes \in Nat /\ softs \in Nat /\ hards \in Nat
      BY DEF SoftMax
    <3> QED BY <3>1, <3>2, <3>3 DEF LadderType
  <2> QED BY <2>1, <2>2, <2>3 DEF TypeOK
<1>2. LadderInv /\ LadderInOrder
  BY DEF LadderInv, LadderInOrder, SoftMax
<1>3. BootInv /\ ArmedOnCable /\ PinsOwned
  BY DEF BootInv, ArmedOnCable, PinsOwned
<1> QED BY <1>1, <1>2, <1>3 DEF IInv

LEMMA StepInv == IInv /\ [Next]_vars => IInv'
<1> SUFFICES ASSUME IInv, [Next]_vars PROVE IInv'
  OBVIOUS
<1>1. TypeOK'
  BY PacketTypeStep, LineTypeStep, LadderTypeStep DEF IInv, TypeOK
<1>2. (LadderInv /\ LadderInOrder)'
  BY LadderStep DEF IInv
<1>3. (BootInv /\ ArmedOnCable /\ PinsOwned)'
  BY PinsStep DEF IInv
<1> QED BY <1>1, <1>2, <1>3 DEF IInv

LEMMA Invariance == Spec => []IInv
  BY InitInv, StepInv, PTL DEF Spec

\* Every variable keeps its type: the ring its bound, the uint16_t wait its
\* width, the Soft Reset count its maximum.
THEOREM AttachTypeSafe == Spec => []TypeOK
<1>1. IInv => TypeOK
  BY DEF IInv
<1> QED BY <1>1, Invariance, PTL

\* PD_Analyzer_Srccap_Tick: one attach meets at most one Hi-Z pause, then at
\* most two Soft Resets, then at most one Hard Reset, in this order.
THEOREM AttachLadderInOrder == Spec => []LadderInOrder
<1>1. IInv => LadderInOrder
  BY DEF IInv
<1> QED BY <1>1, Invariance, PTL

\* The protocol is armed only on an attached cable that was heard.
THEOREM AttachArmedOnCable == Spec => []ArmedOnCable
<1>1. IInv => ArmedOnCable
  BY DEF IInv
<1> QED BY <1>1, Invariance, PTL

\* The CC pins are analog inputs at power-up, in the boot bounce and in the
\* Hi-Z pause, and in no other state.
THEOREM AttachPinsOwned == Spec => []PinsOwned
<1>1. IInv => PinsOwned
  BY DEF IInv
<1> QED BY <1>1, Invariance, PTL

\* No step of the ladder is taken against an armed protocol.
LEMMA LadderSpares ==
  ASSUME IInv, [Next]_vars, histVars' # histVars
  PROVE  ~connected \/ physCc = None
<1>1. CASE AttachTick
  BY <1>1
     DEF AttachTick, AttachWaits, AttachBounce, AttachDebounce, IInv,
         BootInv
<1>2. CASE SrccapTick
  BY <1>2
     DEF SrccapTick, SrccapOff, HrstTick, WakeTick, WaitTick, Waiting, IInv,
         ArmedOnCable
<1>3. CASE Det
  BY <1>3
     DEF Det, DetBoot, DetStart, DetInWake, DetAttached, DetDetached,
         DoDetach
<1>4. CASE PollPacket \/ PollDone \/ Timers
  BY <1>4 DEF PollPacket, PollDone, Timers
<1>5. CASE MoveCable \/ (\E kind \in Kinds : Receive(kind)) \/ ReceiveHardReset
  BY <1>5 DEF MoveCable, Receive, ReceiveHardReset
<1>6. CASE UNCHANGED vars
  BY <1>6 DEF vars
<1> QED BY <1>1, <1>2, <1>3, <1>4, <1>5, <1>6 DEF Next, Loop

\* A session that has begun is never reset or let go by the ladder.
THEOREM AttachNeverDisturbed == Spec => NeverDisturbed
<1>1. IInv /\ [Next]_vars => [histVars' # histVars
        => ~connected \/ physCc = None]_vars
  BY LadderSpares
<1>2. [histVars' # histVars => ~connected \/ physCc = None]_vars
        => [<<wakes, softs, hards>>' # histVars
          => ~connected \/ physCc = None]_vars
  BY DEF histVars
<1> QED BY <1>1, <1>2, Invariance, PTL DEF Spec, NeverDisturbed
=============================================================================

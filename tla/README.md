# A TLA+ model of the CH32H417 PD interrogator

The repository is a USB Power Delivery analyzer: firmware for the CH32H417
(`src/firmware/USBPD_SNK`) that attaches to a charger as a sink, negotiates a
contract, asks the charger about itself, observes the cable, and reports
records over UART; and Python tools (`src/tools`) that capture and store these
records. This directory holds TLA+ modules of it, TLC configurations, and
proofs for TLAPS. Paths below are relative to
`src/firmware/USBPD_SNK/Common/` unless they begin with `src/`.

## 1. The system

Everything runs in one endless loop on one core (`hardware.c:142-187`):

    delta = ms since the last turn (8 bits)
    PD_PHY_Poll          drain the ring of received packets into handlers
    PD_Analyzer_Det_Proc boot delay, cable removal
    PD_PHY_TickMs        delayed TX, answer timeout, attach, wake ladder,
                         delayed VDM probe, delayed Request
    PD_User_Timer        cable observation timer, PD_Result_Poll (UART)

and the USBPD interrupt preempts it wherever it is enabled. Only these two
share state; there is no lock but `NVIC_DisableIRQ`.

### Inventory

| Component | State | Operations | What makes it correct |
|---|---|---|---|
| Receive path (`pd_phy_h417.c` 507-955, 957-1118, 1166-1286; `PD_Process.c` 191-201, 761-824) | ring of 4 packets with SOP, sequence and time; stash of one packet behind a GoodCRC; `s_waiting_gcrc_tx`; PD_TX_EN, latched flags, NVIC | interrupt (RX_ACT, TX_END, RX_RESET), drain, polled transmissions, chunk request, abort, reset | what was acknowledged reaches the main loop or is lost in a named way, nothing overtakes, old packets never pass for an answer, a wait for TX_END has one to come, the interrupt comes back |
| Attach and wake ladder (`pd_phy_h417.c` 93-446, 1325-1424) | `physical_cc`, debounce and miss counters, boot bounce, Hi-Z pause, Soft and Hard Reset counts, recovery timer, `got_srccap` | detect, attach tick, capability tick, detach | follows the cable, wakes a silent charger by bounded and ordered means, never disturbs a live one |
| Policy engine (`PD_Prot.c` 1694-1850, 3009-3072, 3257-3862) | four callbacks (`pTxFinish`, `pRxFinish`, `pTxTimeout`, `pRxTimeout`), contract flag, saved request, async count, guard delay | source capabilities, request, Accept, PS_RDY, Soft Reset both ways, arbiter | one transaction at a time, answers matched to the latest TX, every wait ends |
| Information probe (`PD_Prot.c` 1466-1537, 2541-2801) | step, active, done, no-response count, fingerprints | next, answer, chunk, timeout, TX failure, finish | each step recorded once, no probing after a Soft Reset, ends in the EPR path |
| EPR mode (`PD_Prot.c` 1550-2181, 2446-2539) | entry status, reassembly mask and bytes, protocol-critical flag, attempted fingerprint | enter, answer, capability chunks, exit, re-contract | one attempt per PDO set, reassembly exact, results not withheld for ever |
| PPS probe (`PD_Prot.c` 2189-2444) | probe step, done flag | request, PS_RDY, status, back to 5 V | the contract ends at fixed 5 V |
| Results (`PD_Prot.c` 231-600, `PD_User.c`) | session, dirty bits, statuses | set, poll, emit, attach, detach | each session opened and closed once, no record mixed between sessions |
| VDM (`PD_VDM.c`) | discovery step, SVID list, delayed probe, cable identity | discover, ACK/NAK/BUSY, timeouts, passive decode | every discovery concludes, at most 8 SVIDs, nothing sent to the cable |
| Host capture (`src/tools/pd_capture.py` 225-300, 600-850) | sessions, pending lines, current session, force flag | feed, route, apply, save, close | every record in the session it belongs to, nothing lost before the first record |
| Host store and reports (`src/tools/pd_store.py`, `pd_report.py`) | files | index, render | deterministic rendering |
| Not analyzer code: `PD_Process.c` 255-426, 606-752, 871-1324; `ch211_stub.c`; startup; `src/vendor` | | | compiled out, I/O or third party |

Interactions: the interrupt hands packets to the drain by the ring; the drain
calls the handler in `pRxFinish` or, without one, arms the protocol
(`pDevice_Attached`); handlers transmit synchronously (`PD_PHY_DoTxNow`, which
polls for the reply with the interrupt off) and leave the next callbacks; the
attach component aborts the receiver and disarms the protocol on removal; the
policy engine reports `got_srccap` back to the attach component, sets result
fields, and arms delayed work that `PD_PHY_TickMs` starts later.

Hard behaviours: a packet at any instant of the drain or of an abort; a second
packet during the GoodCRC for the first; answers that come before the GoodCRC
of the request, during the polling, or after the wait; Hard Resets in the
interrupt; packets of the cable (SOP') among those of the charger; a cable
moved at any stage of the wake ladder; timers that stop because another flag
is set. `PROJECT.json` lists each hazard with its line and its properties.

## 2. The modules

| Module | Models | Lines it is about |
|---|---|---|
| `PhyRx` | the receive path: interrupt, ring, drain, transmissions | `pd_phy_h417.c` 466-955, 957-1118, 1166-1286 |
| `MCPhyRx` | instances for TLC | |
| `PhyRxProofs` | type, ring and sequence theorems | |
| `PhyRxOrderProofs` | freshness, order and no-loss theorems | |
| `Attach` | cable detection, wake ladder, Hard Reset recovery, detach | `pd_phy_h417.c` 93-446, 850-931 in part, 1325-1424 |
| `MCAttach` | instances for TLC | |
| `AttachProofs` | type, ladder, arming, pin and non-disturbance theorems | |
| `Session` | what the policy engine stands on: callbacks, answer wait, queued message, ring, charger | `pd_phy_h417.h` types, `pd_phy_h417.c` 672-762 |
| `Epr` | PPS probe, Sink_Capabilities, EPR entry, reassembly, EPR_Request, exit | `PD_Prot.c` 1540-2539 |
| `Probe` | the GET_* sequence | `PD_Prot.c` 1042-1145, 1466-1537, 2541-2801 |
| `Vdm` | source discovery and the responder to the charger's | `PD_VDM.c` 28-131, 554-669, 694-1012 |
| `Request` | Source_Capabilities, Request, Accept, PS_RDY, guard, Soft_Reset, `pProt_IDLE` | `PD_Prot.c` 635-689, 2803-3072, 3257-3862 |
| `Policy` | all of it: drain, transmissions, timeouts, ticks, interrupt, charger, detach | `pd_phy_h417.c` 507-652, 734-762, 817-931, 1102-1117; `hardware.c` 142-165 |
| `Contract` | abstract specification of the negotiation, which `Policy` implements | |
| `MCPolicy` | instances for TLC | |
| `PolicyProofs` | type, refinement, probe and Soft_Reset theorems | |
| `PolicyEndsProofs` | theorems on the ends of exchanges, the SVIDs and the EPR attempt | |
| `PolicyListProofs` | theorem on the reassembled list of EPR capabilities | |
| `Records` | result records on the device, their lines, sessions on the host | `PD_Prot.c` 131-600, `src/tools/pd_capture.py` 207-274, 600-751 |
| `MCRecords` | instance for TLC | |
| `RecordsProofs` | type, reporting, splitting, mixing and final-report theorems | |

`Session`, `Epr`, `Probe`, `Vdm`, `Request`, `Policy` extend one another in this
order: each adds the state and the handlers of one part, and `Policy` composes
them. `Policy` and `Records` meet in `critical` (s_pd_result_protocol_critical),
which `Policy` sets where the code does and `Records` lets change at any time.

### PhyRx

Three actors: the peripheral with the charger behind it (`Hw...`), the
interrupt handler (`Isr...`), the main loop. The handler runs in its four
stages RX_ACT, TX_END, the re-arm after a GoodCRC, RX_RESET (`isr`), with
hardware steps between them; the main loop steps only while the handler is off. Code with the interrupt
disabled is one action; code with it enabled is split where the interrupt
matters: the test of PD_TX_EN and the taking of a packet (`PollTest`,
`PollTake`), and each assignment of `pd_clear_deferred_rx` (`ClearDeferred`).

| Code | Model |
|---|---|
| `PD_Rx_Buf`, IF_RX_ACT, IF_TX_END, IF_RX_RESET, PD_TX_EN | `rxBuf`, `rxAct`, `txEnd`, `rxRst`, `bmc` |
| `s_irq_rx_buf`, `s_waiting_gcrc_tx`, `s_pending_rx(_buf)` | `irqBuf`, `waiting`, `pending`, `pendingBuf` |
| `s_deferred_rx_*`, `s_defer_rx_finish`, `RxSequence` | `ring`, `head`, `tail`, `count`, `finish`, `rxSeq` |
| `TxStartRxSequence`, `LastRxSop`, `LastRxSequence` | `txStart`, `lastSop`, `cur` |
| `PD_PHY_DoTxNow`: no reply, reply, reply after EPR enter | `DoTxQuiet`, `DoTxReply`, `DoTxReplyEPR` |
| `PD_TX_ChunkRequest`: no chunk, chunk | `ChunkQuiet`, `ChunkReply` |
| `PD_PHY_Abort`, `PD_PHY_Reset_Value` in `pDevice_Attached` | `BeginAbort`, `BeginReset`, `ClearDeferred`, `EndAbort`, `EndReset` |

A packet is the number of the charger's message, or `Cable`; the charger
repeats message `next` until it hears a GoodCRC for it. Which messages the
receiver answers before the protocol is armed depends on their kind (`Caps`,
`Pre`). `DoTx...` and `Chunk...` are allowed in any handler, so any order of
transmissions the policy engine could ask for is covered.

The status register is write-1-to-clear: the code wipes it with `0xFF` (552,
949) and clears TX_END by writing it (1001, 1049, 1082). So `STATUS |= flag`
(962, 1036, 1072, 1103) writes back every flag that reads as 1 and clears all
that are latched (`NoFlags`), not the one it names: a TX_END latched beside
RX_ACT is lost (`Stranded`), and so is a packet or a Hard Reset latched beside
TX_END.

Abstractions to know of. `Pace` says that at most one event of the wire falls
inside the four assignments of a clear (well below a microsecond against
packets of hundreds) and none while the handler preempting it runs. A clear
that the handler tears between `tail = 0` and `count = 0` leaves the indices
apart until the next clear; this is reachable with cable traffic, is kept in
`torn`, and the properties about the ring hold outside it (`Settled`). Not in
the module: the Hard Reset transmission of `PD_TX_HRST`, the abort inside
`pProt_RX_SoftRst`, the limit of nine packets per drain, and SOP'' (which the
code handles as SOP').

### Attach

The five phases of the loop are five steps in a fixed order; the cable moves,
packets arrive and Hard Resets arrive between any two. Time is one unit per
turn. The policy engine is what it may leave behind: `handler` abstracts
`pRxFinish` to none, one that passes Source_Capabilities on for certain
(`pProt_IDLE`, `pProt_RX_SrcCap`), or another, and the timers and handlers may
change it or empty the ring. The VBUS ADC is disabled in this build
(`PD_VBUS_USE_ADC` 0), so Get_Source_Cap is sent on time alone.

Two parts of the code have no action because nothing reaches them:
`PD_Analyzer_Silent_CC_Swap` (173-196), since `PD_Detect_Analyzer(1, cc)`
returns 0 or `cc` and line 1410 is never true, and lines 263-266, since
`PD_Analyzer_Srccap_Tick` returns at 322 first. The second is a finding.

### Policy and the modules it extends

A handler of the ring, a timeout, a tick, or the callback of a failed
transmission runs to its end in one action, with the calls it makes; the
transmission it asks for is a step of its own (`Transmit`), since the drain is
polling for GoodCRC meanwhile and anything may arrive. The interrupt puts
packets in the ring between any two steps.

| Code | Model |
|---|---|
| `PD_DEVICE.ConnectStat` | `conn` |
| deferred ring, `TxStartRxSequence` | `inbox`, and `aged`: how many of its packets came before the transmission |
| `pTxFinish`, `pRxFinish`, `pTxTimeout`, `pRxTimeout` | `cb.ok`, `cb.rx`, `cb.fail`, `cb.late`: names of handlers |
| `WaitMsgRx`; `WaitMsgTx` with `PD_TX_BUF` | `waitRx`; `tx` |
| `PD_PHY_FlushTxNow`; the flush at 923 | `now`; `drain` |
| `PD_PHY_RunDeferredRx` | `Deliver`, one disjunct of `Handle` per handler |
| `PD_PHY_DoTxNow`, GoodCRC or an answer in its place, or none | `TransmitOk`, `TransmitFailed` |
| the answer wait in `PD_PHY_TickMs` | `Timeout`: `EprLate`, `ProbeLate`, `VdmLate`, `RequestLate`, `HardResetLate` |
| `PD_Source_VDM_Probe_Tick`, `PD_Request_Arbiter_Tick` | `VdmTick`, `GuardTick`, `SettleTick` |
| IF_RX_RESET in the handler | `ChargerHardReset` |
| `pDevice_Attached`, `pDevice_Unattached` | `AttachAndOffer`, `Detach` |
| fingerprints of Source_Capabilities | `offer`, `req.asked`, `req.failed`, `probe.probed`, `epr.attempted` |
| `PD_EPR_Probe_Done`, `s_epr_pdo_buf`, `s_epr_chunk_request_retry`, ... | fields of `epr` (listed in the module) |
| `PD_InfoProbe_*`, `info_probe_status` | `probe`, `info` |

The charger is outside `src/`: it answers what it heard (`Answers`), at any
time or never; and within `Budget` a transmission of the device goes
unacknowledged (heard or not), it sends a message of its own (`Traffic`), it
resets the bus, or it is exchanged for another. `round`, `power`, `told`, `enters` are what
it knows of the exchange; the properties compare them with what the device
believes. A new offer or a Soft_Reset of its own ends the answer to a Request
it was about to give (`GivesUp`). An answer may be late, so that it meets a later question: this is how
stale answers come about.

A set of Source_Capabilities is a model value that is or is not EPR capable
and has or has not a PPS APDO. Messages are kinds, with a number where the code
compares one (probe step, Message ID zero, number of SVIDs). A message of
several chunks has two. `LooksLikeOffer` keeps a particularity: the drain and
`pProt_RX_SrcCap` test the Message Type without the Extended bit, so that
Source_Capabilities_Extended is taken for an offer there. SOP' packets are left
to `PhyRx`. Durations are left out: a wait that is open may end at any time.

### Records

One step is one setter, one poll, an attach, a detach or a restart; the lines
it tells reach the host in the same step, less those told while the port was
away (`Survivors`: any run of places within the batch). A field of the result
is a version number, so a property can say whether the host has the newest.
The host is `CaptureRun` with its current session; earlier sessions enter only
as the lives they hold lines of (`closed`). `life` numbers the device's
sessions over restarts, which the 16-bit number does not.

`PD_Result_SetCC` follows `PD_Result_OnAttach` at once and is part of
`OnAttach`. What postpones a poll besides `critical` (waits, the guard) is
left to the choice of when `Poll` happens.

## 3. What is checked

| Run | Question | Answer |
|---|---|---|
| `phy_safety` | under every interleaving with cable packets, a Hard Reset, two transmissions, repeated messages: type, ring coherence, exact sequence numbers, no stale answer, order | holds |
| `phy_drain` | without cable packets: are acknowledged messages kept by the handler but for three named losses, is the ring drained but for one named state | holds |
| `phy_sopp` | SOP' capture is passive | violated: GoodCRC to an SOP' packet |
| `phy_deaf` | "Stay RX-only" after a failed probe | violated: interrupt left off |
| `attach` | ladder bounded, ordered and ended; live sessions spared; pins and arming consistent; the cable followed outside the two stuck states | holds |
| `attach_removal` | detach without resetting the MCU, after a Hard Reset | violated: removal never seen |
| `attach_rearm` | re-attach without resetting the MCU | violated: the protocol is not armed |
| `policy` | a plain or an EPR capable charger with PPS, one fault of any kind: is a contract believed in only when granted, is every exchange brought to an end, an EPR_Request made from a whole list, a Soft_Reset answered | holds |
| `policy_probe` | one EPR capable set, two probe steps, two SVIDs, a charger that resets or asks for a mode itself: are only answered steps passed, is Discover Modes in range, is EPR mode asked for once per connection, does the device come to rest | holds |
| `policy_downgrade` | "avoids forcing repeated EPR entry attempts" when a source steps down to SPR | violated: a second EPR_Mode Enter, from a stale EPR bit |
| `policy_unsent` | "GoodCRC received; source ignores silently" | violated: the message was never sent |
| `records` | three sessions, a restart, wrapping numbers, a port that goes away: does the host show what the device knows, session by session | holds |

The properties, in short:

* `RingCoherent`, `SeqExact`: what handler and main loop agree on. `SeqExact`
  is what `pProt_Request_Rx_Is_PostTx` (`PD_Prot.c:3481`) assumes.
* `PostTxFresh`: a packet numbered after `TxStartRxSequence` did arrive after
  the transmission began, in a torn ring too. It fails if `PD_PHY_DoTxNow` forgets to drop the
  stash (line 550).
* `InOrder`: stash, ring and inline replies never let a message overtake.
* `AckedKept`: a message whose GoodCRC was heard, wherever the device has it
  (`Held`: the ring, under its GoodCRC, the stash), is there after every step of
  the handler, but for the three losses of `Dropped`: a full ring, another packet
  stashed over it (the re-arm answers a packet and keeps it in the stash, which
  981 may write over), a bus reset. Each exception is needed: TLC refutes the
  formula without any one of them.
* `DrainsOrStranded`: `finish ~> (~finish \/ Stranded)`; it fails if the re-arm
  leaves PD_TX_EN up. `Stranded` is the wait for a TX_END that was cleared with
  another flag (see below); without this exception TLC refutes the property.
* `LadderInOrder`, `LadderEnds`: at most one pause, two Soft Resets, one Hard
  Reset, in this order, and an end, whatever the charger says in between.
* `NeverDisturbed`: no rung is taken against an armed protocol.
* `ArmedOnCable`, `PinsOwned`: the protocol is armed only on an attached cable
  that was heard; the CC pins are analog inputs at power-up, in the boot bounce
  and in the Hi-Z pause only. `PinsOwned` does not say that the pause ends: in
  `Stuck` nothing ends it.
* `FollowsCableOrStuck`: attach and detach follow the cable, except in
  `Stuck`: `got_srccap` set while the Hard Reset recovery or the Hi-Z pause is
  still open. `attach_removal` shows that the first is reached on the way of
  a successful recovery.

* `ContractGranted`: `Policy` implements `Contract`, with `dev` mapped to what
  `pRxFinish` waits for. A contract begins only after the charger has granted
  the Request it heard last. It fails if `pProt_Request_Rx_Is_PostTx` is
  dropped: an Accept of an earlier Request then passes for one of the later.
* `NeverStuck`: while a handler waits for an answer on a cable there is
  something that will run it or give it up: a packet in the ring, or an open
  wait with a handler of its timeout, before the question has left as well as
  after. The waits for Source_Capabilities, and after PS_RDY's or a Soft
  Reset's deadline (which send a Hard Reset and keep their handler), are
  excepted: the code leaves them to the charger.
* `OneSetOnce`: a charger that keeps to one set of capabilities hears one
  EPR_Mode Enter per connection, over all resets and renewed offers. It fails if
  a Soft_Reset forgets the attempt. Two EPR capable sets are two attempts.
* `EnteredOnce`: the same of a charger with one EPR capable set and others
  without EPR. This does not hold: `policy_downgrade` has a charger whose
  Request for a plain set fails, which goes on to the EPR capable one (a first
  Enter) and offers the plain set again. The muted offer (`Muted`,
  `PD_Prot.c` 3390-3404) makes the plain set the current fingerprint and keeps
  the EPR bit of the other, so after the next contract `PD_EPR_Attempted_FP`
  differs and the stored bit says EPR: a second Enter goes to a charger that
  advertises none.
* `WholeList`: no EPR_Request from a half reassembled list.
* `PassMeansAnswered`: no late answer is credited to another step.
* `ModesInRange`: Discover Modes only of SVIDs that were received.
* `SoftResetAccepted`: the next message after a Soft_Reset is its Accept, in
  the fourteen handlers that take it so.
* `LeftAlone`: `<>[](inbox = <<>>) => <>[](~waitRx /\ ~Flushing)`.
* `Reported`: each line that is not dirty was told as the result is now, and
  the host shows it if nothing was lost. It fails if a setter forgets a bit.
* `FinalReport`: the detach repairs whatever was lost or withheld.
* `NeverMixed`, `NeverSplit`: sessions of host and device correspond, unless a
  boot line was lost.

The violated statements are quoted in `PROJECT.json` under findings.

### Bounds

`PhyRx`: a ring of 2 instead of 4 slots (full, half full and empty, and both
wrap-arounds, happen), 3 messages of which two are Source_Capabilities, 4
packets on the wire, of which 1 of the cable, 1 Hard Reset, 2 transmissions
in `phy_safety`. Four packets fill the ring, the stash and the buffer under
GoodCRC at once. `phy_drain` has one Source_Capabilities message only, so that
a packet which is not answered before the attach comes after one that is, and
no cable packet: with one, a run of the handler that
finds an SOP' packet and TX_END with a packet stashed leaves the interrupt off
and a GoodCRC under way, and the drain never starts again; that is listed as a
hazard. These runs switch deadlock off because the bounds, not the code, stop them.

`Attach`: thresholds are the code's milliseconds in units of 200 ms, rounded
so that their order is kept; the shortest (debounce, ten misses) become 2
turns, so that a counter is seen between its start and its end. `Wrap` makes
the 16-bit wait counter wrap a little above the largest threshold, sooner than
in the code. Two packets in the ring, one control packet per run, any number
of Source_Capabilities, Hard Resets and cable moves. The two violation runs
use a smaller ring to give short traces.

`Policy`: two packets in the ring, one fault per behaviour (`Budget`), two
offers of which one is EPR capable, has PPS and is known by its fingerprint
(Dell), one probe step; retries and unrelated messages limited to 1 instead of 2, 3 and 8,
so that each limit is below, at and above. One fault combined with an
answer that may be late or absent at every one of some twenty exchanges gives
9.4 million states, and is enough for two Requests under way, and a Soft Reset in any
handler. `policy_probe` has one set of capabilities, EPR capable and without
PPS, and one packet in the ring; this makes room for two probe steps
(Battery_Cap, after which the failure path differs, and
Source_Capabilities_Extended), for two SVIDs with a limit of two, reached and
exceeded by the charger's list, and for the liveness property: 4.7 million
states. The one fault may be a Soft_Reset after the entry of EPR mode, which is
what `OneSetOnce` is about. `policy_downgrade` needs three faults, and has no
retries. `policy_unsent` has no fault at all: a silent
charger suffices.

`Records`: numbers wrap at 2 instead of 65535, so that three sessions reuse
one; two versions of each field, which nothing tells apart (symmetry); one
probe step; three changes; one restart and one loss. All of `Policy` and
`Records` stop at their bounds, so deadlock is not checked there.

### Fairness

`Policy`: weak fairness of `Deliver`, `Transmit`, `Timeout`, `Ticks`: the loop
comes round to each (`hardware.c:142-187`), and a wait that stays open ends
(`pd_phy_h417.c` 830-846 counts down every millisecond). None of the charger. Used in `policy_probe` only.


`Attach`: weak fairness of the loop alone, since every call in it returns
(transmissions poll with bounded counters, `PD_Process.c:800`). Nothing is
assumed of the user or the charger. `PhyRx`: weak fairness of the handler (a
pending enabled interrupt is taken), of the end of a transmission, and of the
main loop's drain, clears and returns. No fairness for arrivals, Hard Resets
or the loop's own transmissions.

### What the models also show

Met while modelling, described here and not the subject of a run of their own:

* "Stash Cap and GoodCRC it right after current TX_END" (`pd_phy_h417.c:979`)
  cannot work on a write-1-to-clear register. A packet complete after the
  GoodCRC has left and before its TX_END is serviced is stashed, but 962 has
  just cleared that TX_END: `s_waiting_gcrc_tx` and PD_TX_EN stay up, the stash
  is not answered, later packets are stashed over it, and the drain returns at
  864, until a transmission, an abort or a Hard Reset. This is the state
  `Stranded`. The handler must be late by the length of a packet, and the model
  sets no limit to that; but it is the case the stash is there for, since on a
  half-duplex line no packet is complete with `s_waiting_gcrc_tx` up before the
  GoodCRC has left.
* The host credits a cable's VDO read while a session is open to the attach of
  the next one (`pd_capture.py` 641-643, 685-691), and the firmware keeps cable
  fields set outside a session for the next attach (`PD_Prot.c` 378-416,
  `PD_Result_OnDetach` returning at 427). `Agrees` excepts this.
* `pDevice_Unattached` clears `s_epr_print_pending` (2990) before it calls
  `PD_Result_OnDetach`, whose lines 428-433 therefore never print.
* The Soft_Reset answer of the information probe clears the step before its
  status is recorded (2651-2653), which is then recorded for no step.
* The PPS probe goes on with EPR after an unexpected answer, a timeout or a lost
  Request without returning to fixed 5 V (`PD_PPS_Probe_Failed`).
* `PD_EPR_Exit_RX` and `PD_EPR_Mode_Enter_RX` do not answer a Soft_Reset.
* Under a contract a failed Request is repeated for the same capabilities
  (3337-3387); only the first-contract branch looks at
  `PD_Request_Stop_After_Fail`.
* Some ends of the EPR path leave `s_pd_result_protocol_critical` set
  (2138-2180 for a message that is no EPR_Mode, 2098-2108): nothing is told until the detach.
* Source_Capabilities during the guard are answered at once and again when the
  guard ends.
* "Never abort an in-flight software GoodCRC to run a callback"
  (`pd_phy_h417.c:863`) has a gap: PD_TX_EN is tested at 864 with the interrupt
  enabled, which 868 disables. A packet in between starts its GoodCRC, and 802
  clears PD_TX_EN under it. `PollTest` and `PollTake` are separate for this.
* The message queued by a timeout handler (`policy_unsent`) also keeps
  `PD_Source_VDM_Probe_Tick` and the guard from starting, as they wait for a
  free wire; it leaves with the next packet that comes.

## 4. What is proved

`PhyRxProofs`, `PhyRxOrderProofs`, `AttachProofs`, `PolicyProofs`,
`PolicyEndsProofs`, `PolicyListProofs` and `RecordsProofs` prove for every value of the constants,
from the named assumptions in the modules (sizes and thresholds are naturals; the ring has at least one slot and the probe at
least one step; the message kinds are sets of messages; what the charger sends
unasked is no PS_RDY and no answer to a GET_*, see below):

| Theorem | States |
|---|---|
| `PhyTypeSafe` | `[]TypeOK` of `PhyRx`, the index ranges included |
| `PhyRingCoherent` | `[]RingCoherent` |
| `PhySeqExact` | `[]SeqExact` |
| `PhyPostTxFresh` | `[]PostTxFresh` |
| `PhyInOrder` | `InOrder`, an action property |
| `PhyAckedKept` | `AckedKept`, an action property, in all three places a packet may be held and with the losses of `Dropped` excepted, if no packets of a cable come (`MaxCable = 0`) |
| `AttachTypeSafe` | `[]TypeOK` of `Attach` |
| `AttachLadderInOrder` | `[]LadderInOrder` |
| `AttachArmedOnCable` | `[]ArmedOnCable` |
| `AttachPinsOwned` | `[]PinsOwned` |
| `AttachNeverDisturbed` | `NeverDisturbed`, an action property |
| `PolicyTypeSafe` | `[]TypeOK` of `Policy` |
| `PolicyImplementsContract` | `ContractGranted`: `Policy` implements `Contract` |
| `PolicyPassMeansAnswered` | `[]PassMeansAnswered` |
| `PolicySoftResetAccepted` | `SoftResetAccepted`, an action property |
| `PolicyNeverStuck` | `[]NeverStuck` |
| `PolicyModesInRange` | `[]ModesInRange` |
| `PolicyOneSetOnce` | `[]OneSetOnce` |
| `PolicyWholeList` | `[]WholeList`, if the sets are EPR capable all or none and no answer to EPR_Mode Enter and no chunk comes unasked |
| `RecordsTypeSafe` | `[]TypeOK` of `Records` |
| `RecordsReported` | `[]Reported` |
| `RecordsNeverSplit` | `[]NeverSplit` |
| `RecordsNeverMixed` | `[]NeverMixed` |
| `RecordsFinalReport` | `FinalReport`, an action property |

Arguments. For the ring: `TypeOK /\ ClearInv /\ RingCoherent /\ SeqExact` is
inductive. `ClearInv` says what the clear has done at each of its stages,
without which the step that leaves the clear cannot re-establish the two
others: they are not claimed in its middle. The arithmetic of the indices is
in lemmas on `%`.

What the main loop is handed needs more. `PostTxFresh` rests on `FInv`: the
packets latched, under GoodCRC and stashed arrived since the latest
transmission began (`InFlightFresh`), and every slot the ring may still hand
over is dated right (`RingDated`). A clear the handler tears leaves `tail` one
slot past the count, so `RingDated` takes one slot more there (`Skew`), and
`ClearDated` says what that slot got. `InOrder` rests on `OInv`: what is latched is no
older than what is stashed, that than what is under GoodCRC, and that than
everything in any slot of the ring, freed slots included, so that no clear
brings an old packet back behind a new one. The flag `s_waiting_gcrc_tx` alone
says nothing, since a chunk request leaves it set: `Answering` asks for a
GoodCRC on the wire or one that has ended. `AckedKept` speaks
of three places. A packet in the ring stays as the handler only appends
(`DeferKeeps`) and, by `Uncut`, no clear is torn without packets of the cable. The
one under GoodCRC goes to the ring if there is room; the stash goes to the buffer
(`IsrChain`) or is written over, which is excepted. At the re-arm neither holds
anything (`ArmFresh`), so the packet it finds costs no other.

The re-arm makes order harder too: it raises `s_waiting_gcrc_tx` again with the
older packet still in `s_irq_rx_buf`, which is then deferred a second time.
`ArmOrder` says that a packet found there is no older than that one, so the
repetition overtakes nothing.

For the attach machine the invariant is `TypeOK /\ LadderInv
/\ LadderInOrder /\ BootInv /\ ArmedOnCable /\ PinsOwned`: `LadderInv` ties
the history of rungs to `wake_done`, `wake_cycle`, `softreset_cnt` and
`hrst_sent`; `BootInv` says that nothing is attached before the PHY starts or
while it bounces. `NeverDisturbed` follows from it: a rung needs
`~gotSrcCap`, an armed protocol implies `gotSrcCap`.

For the policy engine: `TypeInv /\ AskFits /\ Granted /\ Told`. `TypeInv` types
every message (`Packet`), the ring, and what the handlers read with EXCEPT; it
says besides that no `pTxFinish` is set while a Request is negotiated, without
which an acknowledged Request could leave its handler. `AskFits` ties what
the charger still has to say to the round. `Granted` is the heart: while the
device waits for an Accept or a PS_RDY, and its Request has left (`~now`), every
PS_RDY in the ring that came after it is one of a granted round; those before it are
in the first `aged` packets, which `pProt_Request_Rx_Is_PostTx` refuses. `Told` says
of the answers to GET_* still in the ring what `PassMeansAnswered` says of those
recorded. The proof first says of each handler what it does to the negotiation
(`Outcome`: it leaves it, keeps it, takes a fresh Accept or a fresh PS_RDY) and to
the charger (`Silent`), then derives invariant and refinement from these two alone,
one lemma per action of `Next`. The assumption on `Traffic` is needed: a
PS_RDY or an answer to a GET_* that nobody asked for would be believed, since the
messages carry nothing that ties them to the question. `SoftResetAccepted` needs no
invariant.

`PolicyEndsProofs` adds an invariant for each of three properties, and for each
a predicate on one step that is shown handler by handler. For `NeverStuck`:
every handler that leaves an exchange behind leaves the wait open with a
handler of the timeout that goes on from there (`Minded`), and only a packet that
enters the ring closes it (`Attended`). For `ModesInRange`: each handler keeps
the list and its index, or forgets it and the queued message with it, or, under
a contract, replaces it (`Lists`); a Soft_Reset that forgets the list overwrites
the message. `Detached` is needed beside it: the attach forgets the list but
not the queue, and finds it empty as there is no contract without a cable, and
in the ring only what an unattached receiver answers. For
`OneSetOnce`: every handler remembers what was attempted and queues no
EPR_Mode Enter, or queues it for a set not attempted before and remembers that one
(`Tries`); with a single set, what is queued or was heard is what is remembered
(`Entered`). It is the fact that the fingerprint outlives what clears
`PD_EPR_Probe_Done`; `policy_downgrade` shows that two sets are too many for it.

`WholeList` (`PolicyListProofs`) looks like a property of the reassembly alone,
and is one of the whole connection. `SendEnter` empties the list, and a second
chunk of an earlier list that is heard after that is taken for the end of the
new one. So none may be in the ring, nor still be due from the charger, behind
the answer to the Enter. The chunks carry no number that tells it; what tells
it is the contract that comes before: its PS_RDY is newer than the Request
(`aged`, the same fact the refinement rests on), and the charger
answers in the order it is asked, so by then all of the earlier exchange has been
heard or given up (`Fresh`). From the PS_RDY to the Enter nothing is
asked that a chunk answers (`Tidy`, `Clear`). After the Enter chunks come only behind its
answer (`Acked`), after the answer a second only behind a first
(`Clean`). `Queued` says that an EPR_Request on its way, and the handlers that wait for
its answer, go with a whole list, and `Unoffered` that nothing has begun before
the first offer. Of each handler it is first shown what it may come to
(`Turn`; `Lapse` and `Failure` for the timeouts and failed transmissions), then
each action of `Next` takes the three conjuncts on.

For the records: `TypeOK /\ Shape /\ Owned /\ Counted /\ Reported /\
NeverSplit`. `Shape` types the host's `detached`; `Counted` types the counters;
`Owned` says where an open session of the device is kept: in no closed session of
the host, and once a line of it was heard, in the current one, which is not
detached and has its number, so that the next line is routed there too. The number alone would not do, since it wraps and begins again after a
restart. The lemma
`HearsEffect` says once what a batch of lines does to the host, `TellsEffect`
adds what may be lost, and each action cites one of them. `NeverMixed` needs
the history: as long as no boot line was lost, the host's open session holds
lines of one session of the device, whose number is behind the present one by
no more than the sessions that went unheard since, each of which cost a loss
(`Behind`). As fewer are lost than there are numbers (`Losses < Wrap`, an
assumption of the module: the port may go away any number of times short of
65535), the number of the present session is told apart from it. `FinalReport` follows from the
invariant: the lines of a detach are all kinds, so `HearsEffect` gives the view.

These invariants are also checked by TLC on the instances before proving.

`PolicyWholeList` has two hypotheses. That no chunk comes unasked is needed: with a
second chunk in `Traffic` an EPR_Request is made without the first.
That the sets are EPR capable all or none is what the proof uses: a
plain contract that is upgraded under way (`Upgrade`) enters EPR mode without a new
Request, and the argument above begins at a Request. Whether the
property survives that is open: the `policy` run, with both kinds of sets and
one fault, finds no violation, nor does the instance of `policy_downgrade`, with
three, when `WholeList` is put in place of `EnteredOnce`.

Only model-checked: `WholeList` for a charger that mixes sets, and everything
about liveness (`DrainsOrStranded`, `LadderEnds`, `FollowsCableOrStuck`,
`LeftAlone`): TLAPS does not reach fairness and ENABLED.

## 5. Plan

Done: `PhyRx`, `Attach`, `Policy` with the five modules it extends, `Contract`,
`Records`, and the proofs above. Left, in this order:

1. A refinement that shows `PhyRx` to give the messages of `Policy` their order
   and age (`inbox`, `aged`): `InOrder`, `SeqExact` and `PostTxFresh` are its
   parts, and are proved.
2. The timeout that fires with the answer already in the ring
   (`pd_phy_h417.c` 830-834 against 986), which needs the count itself.
3. The millisecond arithmetic with its widths.
4. `WholeList` for a charger that offers EPR capable and plain sets in turn.

Not modelled, and why: decoding and formatting of log text, the HTML and CSV
reports (no control depends on them); the legacy state machine of the vendor
example (compiled out); the source-port branches of the policy engine (the
analyzer is a sink); the passive observation of SOP' beyond its result (it sends
nothing); startup and vendor code (register access).

Run everything from this directory: `tlc -config Attach.cfg MCAttach`,
`tlc -config Policy.cfg MCPolicy`, `tlc -config Records.cfg MCRecords`,
`tlc -config PhyRx_safety.cfg MCPhyRx`, `tlapm PolicyProofs.tla`, and likewise
for each module named `...Proofs`.

------------------------------- MODULE Records -------------------------------
(***************************************************************************)
(* The result of a session: kept by PD_Prot.c in s_pd_result, told to the  *)
(* host as @PD1 lines when the wire leaves the time for them, and put      *)
(* together again by pd_capture.py from the lines that arrive.             *)
(*                                                                         *)
(* The UART is synchronous and keeps its order, and the host never answers:*)
(* a batch of lines is heard in the step that tells it, less the lines     *)
(* told while the port was away.  A field of the result is a version of    *)
(* its contents, 0 as memset leaves it.  The free text between the lines   *)
(* is left out but for the cable's VDO, which the host reads from it, and  *)
(* so are the lines of single PDOs.                                        *)
(***************************************************************************)
EXTENDS Integers, FiniteSets

CONSTANTS
  Wrap,      \* the last session number before 1 again (65535)
  Values,    \* versions of a field
  Steps,     \* GET_* steps
  Losses,    \* bound: times the port is away
  Updates,   \* bound: changes of the result
  MaxLives,  \* bound: sessions begun
  MaxBoots   \* bound: restarts of the MCU

ASSUME WrapAssumption == Wrap \in Nat /\ Losses \in Nat /\ Losses < Wrap
ASSUME ValueAssumption == 0 \notin Values
ASSUME RecordsBounds == {Updates, MaxLives, MaxBoots} \subseteq Nat

VARIABLES
  active, session, \* s_pd_result.active and .session
  seq,             \* s_pd_result_session_seq
  res,             \* the other fields of s_pd_result
  dirty,           \* s_pd_result_dirty
  critical,        \* s_pd_result_protocol_critical
  cur,             \* the host: the current session, or NoSession
  force,           \* the host: force_new_session
  passive,         \* the host: pending_passive_cable, 0 if None
  life,            \* which of the device's sessions this is, over restarts
  told,            \* kinds of line told in it
  whole,           \* all its lines were heard
  closed,          \* lives with a line in an earlier session of the host
  bootLost,        \* a boot line was not heard
  losses, updates, boots

fwVars   == <<active, session, seq, res, dirty, critical>>
hostVars == <<cur, force, passive, closed>>
tellVars == <<told, whole>>
vars == <<fwVars, hostVars, tellVars, life, bootLost, losses, updates, boots>>

Kinds == {"attach", "spr", "epr", "identity", "cable", "result"}

\* The order of the lines of one PD_Result_Emit, and after it
Place == [attach |-> 1, spr |-> 2, epr |-> 3, identity |-> 4, cable |-> 5,
          result |-> 6, probes |-> 7, detach |-> 8]

Cleared ==
  [caps |-> 0, epr |-> 0, ident |-> 0, source |-> 0, cable |-> 0,
   status |-> 0, complete |-> 0, probe |-> [s \in Steps |-> 0]]

\* What a line of PD_Result_Emit says
Content(r, k) ==
  CASE k = "spr"      -> <<r.caps>>
    [] k = "epr"      -> <<r.epr>>
    [] k = "identity" -> <<r.ident, r.source>>
    [] k = "cable"    -> <<r.cable>>
    [] k = "result"   -> <<r.status, r.source, r.complete>>
    [] OTHER          -> <<0>>

Untold == <<>>

\* A session of the host, and no session: current_session is None
HostSession(n, over) ==
  [fw |-> n, lives |-> {}, view |-> [k \in Kinds |-> Untold],
   probe |-> [s \in Steps |-> 0], detached |-> over]
NewSession(n) == HostSession(n, FALSE)
NoSession     == HostSession(0, TRUE)

Init ==
  /\ active = FALSE /\ session = 0 /\ seq = 0 /\ res = Cleared
  /\ dirty = {} /\ critical = FALSE
  /\ cur = NoSession /\ force = FALSE /\ passive = 0 /\ closed = {}
  /\ life = 0 /\ told = {} /\ whole = TRUE /\ bootLost = FALSE
  /\ losses = 0 /\ updates = 0 /\ boots = 0

-----------------------------------------------------------------------------
(* The host: CaptureRun.process_line *)

\* _route_session: the lines heard belong to another session than the last
NeedsNew(heard, n) ==
  cur.detached \/ cur.fw # n \/ ("attach" \in heard /\ force)

\* Mutant: a boot of the past starts a session at every attach line
StartSessionForcing == closed' = closed \cup cur.lives /\ UNCHANGED force

\* _start_session: the session before gets no more lines
StartSession == closed' = closed \cup cur.lives /\ force' = FALSE

\* SessionState.apply of the cable: a cable heard is not forgotten, and one
\* the host read before the first attach line is taken over
CableView(old, heard, r, recovered) ==
  LET before == IF recovered THEN <<passive>> ELSE old
  IN IF "cable" \in heard /\ (r.cable # 0 \/ before \in {Untold, <<0>>})
     THEN <<r.cable>> ELSE before

ViewAfter(old, heard, r, recovered) ==
  [k \in Kinds |-> CASE k = "cable" -> CableView(old[k], heard, r, recovered)
                     [] k # "cable" /\ k \in heard -> Content(r, k)
                     [] OTHER -> old[k]]

ProbesAfter(old, heard, r) ==
  [s \in Steps |-> IF "probes" \in heard /\ r.probe[s] # 0 THEN r.probe[s]
                                                         ELSE old[s]]

Applied(s, heard, r, recovered) ==
  [fw |-> s.fw, lives |-> s.lives \cup {life},
   view |-> ViewAfter(s.view, heard, r, recovered),
   probe |-> ProbesAfter(s.probe, heard, r),
   detached |-> "detach" \in heard]

\* process_line of lines of session n, which say r
Hears(heard, r, n) ==
  IF heard = {}
  THEN UNCHANGED hostVars
  ELSE LET new == NeedsNew(heard, n)
           s   == IF new THEN NewSession(n) ELSE cur
           recovered == new /\ "attach" \in heard /\ passive # 0
       IN /\ IF new THEN StartSession ELSE UNCHANGED <<closed, force>>
          /\ passive' = (IF recovered THEN 0 ELSE passive)
          /\ cur' = Applied(s, heard, r, recovered)

\* The lines the port lets through: all, or all but those told while it was
\* away
Survivors(said) ==
  {said} \cup
    IF losses < Losses
    THEN {{k \in said : Place[k] \notin i..j} : i \in 1..8, j \in 1..8}
    ELSE {}

Tells(said, r, n) ==
  \E heard \in Survivors(said) :
    /\ Hears(heard, r, n)
    /\ losses' = (IF heard = said THEN losses ELSE losses + 1)
    /\ whole' = (whole /\ heard = said)
    /\ told' = told \cup said

-----------------------------------------------------------------------------
(* The device *)

Quiet == UNCHANGED <<hostVars, tellVars, losses>>

\* PD_Result_Emit
Emit(said) == Tells(said, res, session)

\* A change of the result and the lines that have to tell it
Change(r, kinds) ==
  /\ updates < Updates /\ updates' = updates + 1
  /\ res' = r /\ dirty' = dirty \cup kinds
  /\ UNCHANGED <<active, session, seq, life, bootLost, boots>>

\* PD_Result_UpdateSPR
UpdateSPR ==
  /\ \E v \in Values, w \in Values \cup {res.status} :
       Change([res EXCEPT !.caps = v, !.status = w], {"spr", "result"})
  /\ UNCHANGED critical /\ Quiet

\* PD_Result_UpdateEPR
UpdateEPR ==
  /\ \E v, w \in Values :
       Change([res EXCEPT !.epr = v, !.status = w], {"epr", "result"})
  /\ UNCHANGED critical /\ Quiet

\* The other steps of the protocol that set a status of it, those that open
\* and close a response window among them
SetStatus ==
  /\ \E v \in Values : Change([res EXCEPT !.status = v], {"result"})
  /\ critical' \in BOOLEAN /\ Quiet

SetSourceIdentity ==
  /\ \E v \in Values : Change([res EXCEPT !.ident = v], {"identity"})
  /\ UNCHANGED critical /\ Quiet

\* Mutant: the result line, which shows the discovery as well, is forgotten
SetSourceDiscoveryOnce ==
  /\ \E v \in Values :
       Change([res EXCEPT !.source = v, !.ident = IF @ = 0 THEN v ELSE @,
                          !.complete = 1], {"identity"})
  /\ UNCHANGED critical /\ Quiet

SetSourceDiscovery ==
  /\ \E v \in Values :
       Change([res EXCEPT !.source = v, !.ident = IF @ = 0 THEN v ELSE @,
                          !.complete = 1], {"identity", "result"})
  /\ UNCHANGED critical /\ Quiet

\* A cable that answers the charger, before a session as well; its VDO is also
\* printed, and read by the host whatever session it is in
SetCableIdentity ==
  \E v \in Values :
    /\ Change([res EXCEPT !.cable = v], {"cable"})
    /\ passive' \in {passive, v}
    /\ losses' = (IF passive' = v THEN losses ELSE losses + 1)
    /\ losses' <= Losses
    /\ UNCHANGED <<critical, cur, force, closed, tellVars>>

\* PD_Result_RecordProbeStatus: told at once, and only in a session
RecordProbeStatus ==
  \E s \in Steps, v \in Values :
    LET r == [res EXCEPT !.probe[s] = v]
    IN /\ Change(r, {})
       /\ \/ ~active /\ Quiet
          \/ active /\ Tells({"probes"}, [Cleared EXCEPT !.probe[s] = v], session)
       /\ UNCHANGED critical

\* PD_Result_Poll, once the wire is at rest
Poll ==
  /\ active /\ dirty # {} /\ ~critical
  /\ Emit(dirty) /\ dirty' = {}
  /\ UNCHANGED <<active, session, seq, res, critical, life, bootLost, updates,
                 boots>>

\* Mutant: the number of no session is used
NextSessionAny == (seq + 1) % (Wrap + 1)

NextSession == IF seq = Wrap THEN 1 ELSE seq + 1

\* PD_Result_OnAttach: nothing, if a session is open; the cable was heard
\* before it
OnAttach ==
  /\ ~active /\ life < MaxLives
  /\ active' = TRUE /\ seq' = NextSession /\ session' = NextSession
  /\ res' = [Cleared EXCEPT !.cable = res.cable]
  /\ dirty' = {"attach", "result"} \cup
                (IF res.cable # 0 THEN {"cable"} ELSE {})
  /\ critical' = FALSE
  /\ life' = life + 1 /\ told' = {} /\ whole' = TRUE
  /\ UNCHANGED <<hostVars, bootLost, losses, updates, boots>>

\* Mutant: only what has changed is told at the end
FinalChanges == dirty \cup {"probes", "detach"}

\* Everything is told once more at the end, with the probe steps
FinalLines == Kinds \cup {"probes", "detach"}

\* pDevice_Unattached and PD_Result_OnDetach: before a session, nothing
OnDetach ==
  \/ /\ active /\ Emit(FinalLines)
     /\ active' = FALSE /\ session' = 0 /\ res' = Cleared /\ dirty' = {}
     /\ critical' = FALSE
     /\ UNCHANGED <<seq, life, bootLost, updates, boots>>
  \/ /\ ~active /\ critical /\ critical' = FALSE
     /\ UNCHANGED <<active, session, seq, res, dirty, life, bootLost, updates,
                    boots>>
     /\ Quiet

\* Mutant: the boot line is only remembered
HearsBootLater == force' = TRUE /\ UNCHANGED <<cur, closed>>

\* process_line of a boot line
HearsBoot == force' = TRUE /\ cur' = NoSession /\ closed' = closed \cup cur.lives

\* The MCU restarts: everything but the host begins anew
Boot ==
  /\ boots < MaxBoots /\ boots' = boots + 1
  /\ active' = FALSE /\ session' = 0 /\ seq' = 0 /\ res' = Cleared
  /\ dirty' = {} /\ critical' = FALSE
  /\ \/ HearsBoot /\ UNCHANGED <<bootLost, losses>>
     \/ /\ losses < Losses /\ losses' = losses + 1 /\ bootLost' = TRUE
        /\ UNCHANGED <<cur, force, closed>>
  /\ UNCHANGED <<passive, tellVars, life, updates>>

Changes == UpdateSPR \/ UpdateEPR \/ SetStatus \/ SetSourceIdentity
             \/ SetSourceDiscovery \/ SetCableIdentity \/ RecordProbeStatus
Next == Changes \/ Poll \/ OnAttach \/ OnDetach \/ Boot

Spec == Init /\ [][Next]_vars

-----------------------------------------------------------------------------
(* Properties *)

Fields == [caps : Values \cup {0}, epr : Values \cup {0},
           ident : Values \cup {0}, source : Values \cup {0},
           cable : Values \cup {0}, status : Values \cup {0},
           complete : {0, 1}, probe : [Steps -> Values \cup {0}]]

\* The device's part has its types; a session has a number the host takes for
\* one (PD_Result_OnAttach)
TypeOK ==
  /\ active \in BOOLEAN /\ critical \in BOOLEAN /\ force \in BOOLEAN
  /\ seq \in 0..Wrap /\ session = (IF active THEN seq ELSE 0)
  /\ active => seq # 0
  /\ res \in Fields /\ dirty \subseteq Kinds
  /\ life \in 0..MaxLives /\ cur.lives \subseteq 1..life
  /\ cur.fw \in 0..Wrap

\* A cable heard from before the session outlives one the device does not know
Agrees(view, r, k) == view[k] = Content(r, k) \/ (k = "cable" /\ r.cable = 0)

\* Nothing was said, and there was nothing to say
Blank(view, r, k) == view[k] = Untold /\ Content(r, k) = Content(Cleared, k)

\* What the host shows of a session is what the device knows, but for what is
\* still to be told: no setter forgets a line its field is shown in
\* (PD_Result_*, PD_Result_Poll)
Reported ==
  active => \A k \in Kinds \ dirty :
              IF k \in told THEN whole => Agrees(cur.view, res, k)
                            ELSE Content(res, k) = Content(Cleared, k)

\* A session that ends in the host's hearing is saved as the device knew it,
\* whatever was lost or withheld before (PD_Result_OnDetach)
FinalReport ==
  [][active /\ ~active' /\ boots' = boots /\ losses' = losses
       => /\ \A k \in Kinds : Agrees(cur'.view, res, k) \/ Blank(cur'.view, res, k)
          /\ \A s \in Steps : res.probe[s] # 0 => cur'.probe[s] = res.probe[s]]_vars

\* A session of the host holds lines of one session of the device, unless a
\* boot line was lost and the numbers begin again (_route_session)
NeverMixed == bootLost \/ Cardinality(cur.lives) <= 1

\* A session of the device is not split between two of the host
NeverSplit == cur.lives \cap closed = {}
=============================================================================

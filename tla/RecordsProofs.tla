---------------------------- MODULE RecordsProofs ----------------------------
(***************************************************************************)
(* Proofs about Records for every number of sessions, versions, losses and *)
(* restarts: what the host shows of a session is what the device knows,    *)
(* the lines of the end repair every loss before, no session of the device *)
(* is split between two of the host, and no two of them end up in one.     *)
(***************************************************************************)
EXTENDS Records, FiniteSetTheorems, TLAPS

LineKinds == Kinds \cup {"probes", "detach"}

(* What the host keeps of the detach line.                                *)
Shape == cur.detached \in BOOLEAN

(* Which session of the host an open session of the device belongs to.     *)
Owned ==
  /\ closed \subseteq 1..life
  /\ active => life >= 1 /\ life \notin closed
  /\ active /\ life \in cur.lives => ~cur.detached /\ cur.fw = session
  /\ active /\ whole /\ told # {} => life \in cur.lives
  /\ force => cur.detached

Counted == losses \in Nat /\ boots \in Nat

IInv == TypeOK /\ Shape /\ Owned /\ Counted /\ Reported /\ NeverSplit

(* The lines the port lets through are lines that were told, and all of    *)
(* them if no loss was counted.                                            *)
LEMMA SurvivorsHeard ==
  ASSUME NEW said, NEW heard \in Survivors(said)
  PROVE heard \subseteq said
  BY DEF Survivors

(* Lines of the open session end in a session of the host of its own,      *)
(* which shows them.                                                       *)
Shown(heard, r) ==
  /\ Shape'
  /\ cur'.fw = session /\ life \in cur'.lives /\ cur'.lives \subseteq 1..life
  /\ cur'.detached = ("detach" \in heard)
  /\ force' = FALSE
  /\ closed' \subseteq 1..life /\ life \notin closed'
  /\ cur'.lives \cap closed' = {}
  /\ \A k \in Kinds \cap heard : Agrees(cur'.view, r, k)
  /\ life \in cur.lives => \A k \in Kinds \ heard : cur'.view[k] = cur.view[k]
  /\ "probes" \in heard =>
       \A s \in Steps : r.probe[s] # 0 => cur'.probe[s] = r.probe[s]

LEMMA HearsEffect ==
  ASSUME IInv, active, NEW heard \in SUBSET LineKinds, heard # {},
         NEW r, Hears(heard, r, session)
  PROVE Shown(heard, r)
<1> DEFINE new == NeedsNew(heard, session)
           s0  == IF new THEN NewSession(session) ELSE cur
           recovered == new /\ "attach" \in heard /\ passive # 0
           view == ViewAfter(s0.view, heard, r, recovered)
           seen == ProbesAfter(s0.probe, heard, r)
<1>1. /\ IF new THEN StartSession ELSE UNCHANGED <<closed, force>>
      /\ cur' = [fw |-> s0.fw, lives |-> s0.lives \cup {life}, view |-> view,
                 probe |-> seen, detached |-> "detach" \in heard]
  BY DEF Hears, Applied
<1>2. s0.fw = session /\ s0.lives \subseteq 1..life
  <2>1. CASE new
    BY <2>1 DEF NewSession, HostSession
  <2>2. CASE ~new
    BY <2>2 DEF NeedsNew, IInv, Shape, TypeOK
  <2> QED BY <2>1, <2>2
<1>3. life \in 1..life /\ life \notin closed /\ closed \subseteq 1..life
  BY DEF IInv, Owned, TypeOK
<1>4. cur.lives \subseteq 1..life /\ cur.lives \cap closed = {}
  BY DEF IInv, TypeOK, NeverSplit
<1>5. life \in cur.lives => ~new
  BY DEF IInv, Owned, NeedsNew
<1>6. force' = FALSE /\ closed' \subseteq 1..life /\ life \notin closed'
      /\ (s0.lives \cup {life}) \cap closed' = {}
  <2>1. CASE new
    <3>1. force' = FALSE /\ closed' = closed \cup cur.lives
      BY <1>1, <2>1 DEF StartSession
    <3>2. s0.lives = {}
      BY <2>1 DEF NewSession, HostSession
    <3> QED BY <3>1, <3>2, <1>3, <1>4, <1>5, <2>1
  <2>2. CASE ~new
    <3>1. force = FALSE /\ force' = force /\ closed' = closed
      BY <1>1, <2>2 DEF NeedsNew, IInv, Owned, TypeOK
    <3> QED BY <3>1, <1>3, <1>4, <2>2
  <2> QED BY <2>1, <2>2
<1>7. cur'.view = view /\ cur'.probe = seen
  <2> HIDE DEF view, seen, s0
  <2> QED BY <1>1
<1>8. \A k \in Kinds \cap heard : Agrees(cur'.view, r, k)
  <2> SUFFICES ASSUME NEW k \in Kinds \cap heard PROVE Agrees(view, r, k)
    BY <1>7
  <2>1. CASE k = "cable"
    <3>1. r.cable # 0 => view[k] = <<r.cable>>
      BY <2>1 DEF CableView, ViewAfter
    <3>2. Content(r, k) = <<r.cable>>
      BY <2>1 DEF Content
    <3> QED BY <2>1, <3>1, <3>2 DEF Agrees
  <2>2. CASE k # "cable"
    BY <2>2 DEF Agrees, ViewAfter
  <2> QED BY <2>1, <2>2
<1>9. ASSUME life \in cur.lives, NEW k \in Kinds \ heard
       PROVE cur'.view[k] = cur.view[k]
  <2>1. ~new /\ s0 = cur
    BY <1>5, <1>9
  <2>2. view[k] = cur.view[k]
    <3>1. CASE k = "cable"
      BY <2>1, <3>1, <1>9 DEF CableView, ViewAfter
    <3>2. CASE k # "cable"
      BY <2>1, <3>2, <1>9 DEF ViewAfter
    <3> QED BY <3>1, <3>2
  <2> QED BY <2>2, <1>7
<1>10. "probes" \in heard =>
          \A s \in Steps : r.probe[s] # 0 => cur'.probe[s] = r.probe[s]
  BY <1>7 DEF ProbesAfter
<1>11. /\ cur'.fw = s0.fw /\ cur'.lives = s0.lives \cup {life}
       /\ cur'.detached = ("detach" \in heard)
  <2> HIDE DEF s0, view, seen
  <2> QED BY <1>1
<1> HIDE DEF s0, view, seen
<1> QED BY <1>2, <1>3, <1>6, <1>8, <1>9, <1>10, <1>11 DEF Shape, Shown

(* A batch of lines of the open session.                                   *)
LEMMA TellsEffect ==
  ASSUME IInv, active, NEW said \in SUBSET LineKinds, NEW r,
         Tells(said, r, session)
  PROVE /\ Shape' /\ losses' \in Nat /\ force' \in BOOLEAN
        /\ cur'.fw \in 0..Wrap /\ cur'.lives \subseteq 1..life
        /\ closed' \subseteq 1..life /\ life \notin closed'
        /\ cur'.lives \cap closed' = {}
        /\ force' => cur'.detached
        /\ life \in cur'.lives =>
             cur'.fw = session /\ (cur'.detached => "detach" \in said)
        /\ whole' /\ told' # {} => life \in cur'.lives
        /\ told' = told \cup said
        /\ whole' => /\ whole
                     /\ \A k \in Kinds \cap said : Agrees(cur'.view, r, k)
                     /\ \A k \in Kinds \ said :
                          k \in told => cur'.view[k] = cur.view[k]
        /\ said # {} /\ losses' = losses =>
             /\ \A k \in Kinds \cap said : Agrees(cur'.view, r, k)
             /\ "probes" \in said =>
                  \A s \in Steps : r.probe[s] # 0 => cur'.probe[s] = r.probe[s]
<1>1. PICK heard \in Survivors(said) :
        /\ Hears(heard, r, session)
        /\ losses' = (IF heard = said THEN losses ELSE losses + 1)
        /\ whole' = (whole /\ heard = said)
        /\ told' = told \cup said
  BY DEF Tells
<1>2. heard \subseteq said /\ heard \in SUBSET LineKinds
  BY SurvivorsHeard
<1>3. losses' \in Nat
  BY <1>1 DEF IInv, Counted
<1>4. losses' = losses => heard = said
  BY <1>1 DEF IInv, Counted
<1>5. session \in 0..Wrap
  BY WrapAssumption DEF IInv, TypeOK
<1>6. CASE heard = {}
  <2>1. UNCHANGED hostVars
    BY <1>1, <1>6 DEF Hears
  <2>2. cur' = cur /\ force' = force /\ closed' = closed
    BY <2>1 DEF hostVars
  <2>3. /\ Shape' /\ force' \in BOOLEAN
        /\ cur'.fw \in 0..Wrap /\ cur'.lives \subseteq 1..life
        /\ closed' \subseteq 1..life /\ life \notin closed'
        /\ cur'.lives \cap closed' = {}
        /\ force' => cur'.detached
        /\ life \in cur'.lives => cur'.fw = session /\ ~cur'.detached
    BY <2>2 DEF IInv, Shape, TypeOK, Owned, NeverSplit
  <2>4. whole' => said = {} /\ whole
    BY <1>1, <1>6
  <2>5. whole' /\ told' # {} => life \in cur'.lives
    BY <1>1, <2>2, <2>4 DEF IInv, Owned
  <2> QED BY <1>1, <1>3, <1>4, <1>6, <2>2, <2>3, <2>4, <2>5
<1>7. CASE heard # {}
  <2>1. Shown(heard, r)
    BY <1>1, <1>2, <1>7, HearsEffect
  <2>2. whole' => heard = said /\ whole
    BY <1>1
  <2>3. ASSUME whole', NEW k \in Kinds \ said, k \in told
        PROVE cur'.view[k] = cur.view[k]
    <3>1. life \in cur.lives
      BY <2>2, <2>3 DEF IInv, Owned
    <3> QED BY <3>1, <2>1, <2>2, <2>3 DEF Shown
  <2> QED BY <1>1, <1>2, <1>3, <1>4, <1>5, <2>1, <2>2, <2>3 DEF Shown
<1> QED BY <1>6, <1>7

(* A setter whose field is shown in the lines it marks.                    *)
LEMMA ChangeKeeps ==
  ASSUME IInv, NEW r \in Fields, NEW kinds \in SUBSET Kinds,
         Change(r, kinds), critical' \in BOOLEAN,
         UNCHANGED <<cur, force, closed, tellVars>>, losses' \in Nat,
         \A k \in Kinds \ kinds :
            Content(r, k) = Content(res, k) /\ (k = "cable" => r.cable = res.cable)
  PROVE IInv'
<1>1. /\ res' = r /\ dirty' = dirty \cup kinds
      /\ active' = active /\ session' = session /\ seq' = seq /\ life' = life
      /\ boots' = boots /\ cur' = cur /\ force' = force /\ closed' = closed
      /\ told' = told /\ whole' = whole
  BY DEF Change, tellVars
<1>2. TypeOK'
  BY <1>1 DEF IInv, TypeOK
<1>3. Shape' /\ Owned' /\ Counted' /\ NeverSplit'
  BY <1>1 DEF IInv, Shape, Owned, Counted, NeverSplit
<1>4. Reported'
  <2> SUFFICES ASSUME active', NEW k \in Kinds \ dirty'
               PROVE IF k \in told' THEN whole' => Agrees(cur'.view, res', k)
                     ELSE Content(res', k) = Content(Cleared, k)
    BY DEF Reported
  <2>1. /\ active /\ k \in Kinds \ dirty
        /\ Content(res', k) = Content(res, k)
        /\ k = "cable" => res'.cable = res.cable
    BY <1>1
  <2>2. IF k \in told THEN whole => Agrees(cur.view, res, k)
        ELSE Content(res, k) = Content(Cleared, k)
    BY <2>1 DEF IInv, Reported
  <2>3. Agrees(cur.view, res, k) => Agrees(cur'.view, res', k)
    BY <1>1, <2>1 DEF Agrees
  <2> QED BY <1>1, <2>1, <2>2, <2>3
<1> QED BY <1>2, <1>3, <1>4 DEF IInv

LEMMA SettersKeep ==
  ASSUME IInv,
         UpdateSPR \/ UpdateEPR \/ SetStatus \/ SetSourceIdentity
           \/ SetSourceDiscovery \/ SetCableIdentity
  PROVE IInv'
<1> USE DEF Quiet, hostVars, tellVars
<1>0. res \in Fields /\ critical \in BOOLEAN /\ losses \in Nat
  BY DEF IInv, TypeOK, Counted
<1>1. CASE UpdateSPR
  <2>1. PICK v \in Values, w \in Values \cup {res.status} :
          Change([res EXCEPT !.caps = v, !.status = w], {"spr", "result"})
    BY <1>1 DEF UpdateSPR
  <2> DEFINE r == [res EXCEPT !.caps = v, !.status = w]
  <2>2. r \in Fields
    BY <1>0 DEF Fields
  <2>3. \A k \in Kinds \ {"spr", "result"} :
          Content(r, k) = Content(res, k) /\ (k = "cable" => r.cable = res.cable)
    BY <1>0 DEF Content, Fields, Kinds
  <2> HIDE DEF r
  <2> QED BY <1>0, <1>1, <2>1, <2>2, <2>3, ChangeKeeps DEF UpdateSPR, Kinds, r
<1>2. CASE UpdateEPR
  <2>1. PICK v \in Values, w \in Values :
          Change([res EXCEPT !.epr = v, !.status = w], {"epr", "result"})
    BY <1>2 DEF UpdateEPR
  <2> DEFINE r == [res EXCEPT !.epr = v, !.status = w]
  <2>2. r \in Fields
    BY <1>0 DEF Fields
  <2>3. \A k \in Kinds \ {"epr", "result"} :
          Content(r, k) = Content(res, k) /\ (k = "cable" => r.cable = res.cable)
    BY <1>0 DEF Content, Fields, Kinds
  <2> HIDE DEF r
  <2> QED BY <1>0, <1>2, <2>1, <2>2, <2>3, ChangeKeeps DEF UpdateEPR, Kinds, r
<1>3. CASE SetStatus
  <2>1. PICK v \in Values : Change([res EXCEPT !.status = v], {"result"})
    BY <1>3 DEF SetStatus
  <2> DEFINE r == [res EXCEPT !.status = v]
  <2>2. r \in Fields
    BY <1>0 DEF Fields
  <2>3. \A k \in Kinds \ {"result"} :
          Content(r, k) = Content(res, k) /\ (k = "cable" => r.cable = res.cable)
    BY <1>0 DEF Content, Fields, Kinds
  <2> HIDE DEF r
  <2> QED BY <1>0, <1>3, <2>1, <2>2, <2>3, ChangeKeeps DEF SetStatus, Kinds, r
<1>4. CASE SetSourceIdentity
  <2>1. PICK v \in Values : Change([res EXCEPT !.ident = v], {"identity"})
    BY <1>4 DEF SetSourceIdentity
  <2> DEFINE r == [res EXCEPT !.ident = v]
  <2>2. r \in Fields
    BY <1>0 DEF Fields
  <2>3. \A k \in Kinds \ {"identity"} :
          Content(r, k) = Content(res, k) /\ (k = "cable" => r.cable = res.cable)
    BY <1>0 DEF Content, Fields, Kinds
  <2> HIDE DEF r
  <2> QED BY <1>0, <1>4, <2>1, <2>2, <2>3, ChangeKeeps DEF SetSourceIdentity, Kinds, r
<1>5. CASE SetSourceDiscovery
  <2>1. PICK v \in Values :
          Change([res EXCEPT !.source = v, !.ident = IF @ = 0 THEN v ELSE @,
                             !.complete = 1], {"identity", "result"})
    BY <1>5 DEF SetSourceDiscovery
  <2> DEFINE r == [res EXCEPT !.source = v, !.ident = IF @ = 0 THEN v ELSE @,
                              !.complete = 1]
  <2>2. r \in Fields
    BY <1>0 DEF Fields
  <2>3. \A k \in Kinds \ {"identity", "result"} :
          Content(r, k) = Content(res, k) /\ (k = "cable" => r.cable = res.cable)
    BY <1>0 DEF Content, Fields, Kinds
  <2> HIDE DEF r
  <2> QED BY <1>0, <1>5, <2>1, <2>2, <2>3, ChangeKeeps DEF SetSourceDiscovery, Kinds, r
<1>6. CASE SetCableIdentity
  <2>1. PICK v \in Values :
          /\ Change([res EXCEPT !.cable = v], {"cable"})
          /\ losses' = (IF passive' = v THEN losses ELSE losses + 1)
          /\ UNCHANGED <<critical, cur, force, closed, tellVars>>
    BY <1>6 DEF SetCableIdentity
  <2> DEFINE r == [res EXCEPT !.cable = v]
  <2>2. r \in Fields
    BY <1>0 DEF Fields
  <2>3. \A k \in Kinds \ {"cable"} :
          Content(r, k) = Content(res, k) /\ (k = "cable" => r.cable = res.cable)
    BY <1>0 DEF Content, Fields, Kinds
  <2>4. losses' \in Nat
    BY <1>0, <2>1
  <2> HIDE DEF r
  <2> QED BY <1>0, <2>1, <2>2, <2>3, <2>4, ChangeKeeps DEF Kinds, r
<1> QED BY <1>1, <1>2, <1>3, <1>4, <1>5, <1>6

(* The lines of an open session keep the invariant, if what they say is    *)
(* what the result will say, and what they do not say does not change.     *)
LEMMA LinesKeep ==
  ASSUME IInv, active, NEW said \in SUBSET (Kinds \cup {"probes"}), NEW r,
         Tells(said, r, session),
         active' = active, session' = session, seq' = seq, life' = life,
         boots' = boots, critical' \in BOOLEAN,
         res' \in Fields, dirty' = dirty \ said,
         \A k \in Kinds : /\ Content(res', k) = Content(res, k)
                          /\ res'.cable = res.cable
                          /\ k \in said => Content(r, k) = Content(res, k)
                          /\ r.cable = res.cable \/ k \notin said
  PROVE IInv'
<1>1. said \in SUBSET LineKinds
  BY DEF LineKinds
<1> DEFINE Effect ==
        /\ Shape' /\ losses' \in Nat /\ force' \in BOOLEAN
        /\ cur'.fw \in 0..Wrap /\ cur'.lives \subseteq 1..life
        /\ closed' \subseteq 1..life /\ life \notin closed'
        /\ cur'.lives \cap closed' = {}
        /\ force' => cur'.detached
        /\ life \in cur'.lives =>
             cur'.fw = session /\ (cur'.detached => "detach" \in said)
        /\ whole' /\ told' # {} => life \in cur'.lives
        /\ told' = told \cup said
        /\ whole' => /\ whole
                     /\ \A k \in Kinds \cap said : Agrees(cur'.view, r, k)
                     /\ \A k \in Kinds \ said :
                          k \in told => cur'.view[k] = cur.view[k]
<1>2. Effect
  BY <1>1, TellsEffect
<1>3. "detach" \notin said
  BY DEF Kinds
<1>4. TypeOK'
  BY <1>2 DEF IInv, TypeOK
<1>5. Shape' /\ Owned' /\ Counted' /\ NeverSplit'
  BY <1>2, <1>3 DEF IInv, Shape, Owned, Counted, NeverSplit
<1>6. Reported'
  <2> SUFFICES ASSUME NEW k \in Kinds \ dirty'
               PROVE IF k \in told' THEN whole' => Agrees(cur'.view, res', k)
                     ELSE Content(res', k) = Content(Cleared, k)
    BY DEF Reported
  <2>1. CASE k \in said
    <3>1. whole' => Agrees(cur'.view, r, k)
      BY <1>2, <2>1
    <3>2. Agrees(cur'.view, r, k) => Agrees(cur'.view, res', k)
      BY <2>1 DEF Agrees
    <3> QED BY <1>2, <2>1, <3>1, <3>2
  <2>2. CASE k \notin said
    <3>1. IF k \in told THEN whole => Agrees(cur.view, res, k)
          ELSE Content(res, k) = Content(Cleared, k)
      BY <2>2 DEF IInv, Reported
    <3>2. whole' /\ k \in told => cur'.view[k] = cur.view[k] /\ whole
      BY <1>2, <2>2
    <3>3. cur'.view[k] = cur.view[k] /\ Agrees(cur.view, res, k)
            => Agrees(cur'.view, res', k)
      BY DEF Agrees
    <3> QED BY <1>2, <2>2, <3>1, <3>2, <3>3
  <2> QED BY <2>1, <2>2
<1> QED BY <1>4, <1>5, <1>6 DEF IInv

LEMMA PollKeeps == ASSUME IInv, Poll PROVE IInv'
<1>1. /\ active /\ Tells(dirty, res, session) /\ dirty' = dirty \ dirty
      /\ active' = active /\ session' = session /\ seq' = seq /\ life' = life
      /\ boots' = boots /\ critical' = critical /\ res' = res
  BY DEF Poll, Emit
<1>2. /\ dirty \in SUBSET (Kinds \cup {"probes"}) /\ res' \in Fields
      /\ critical' \in BOOLEAN
  BY <1>1 DEF IInv, TypeOK
<1> QED BY <1>1, <1>2, LinesKeep

LEMMA ProbeKeeps == ASSUME IInv, RecordProbeStatus PROVE IInv'
<1>1. PICK s \in Steps, v \in Values :
        LET r == [res EXCEPT !.probe[s] = v]
        IN /\ Change(r, {})
           /\ \/ ~active /\ Quiet
              \/ active /\ Tells({"probes"}, [Cleared EXCEPT !.probe[s] = v], session)
           /\ UNCHANGED critical
  BY DEF RecordProbeStatus
<1> DEFINE r == [res EXCEPT !.probe[s] = v]
           l == [Cleared EXCEPT !.probe[s] = v]
<1>2. r \in Fields /\ \A k \in Kinds : Content(r, k) = Content(res, k)
      /\ r.cable = res.cable
  BY DEF IInv, TypeOK, Fields, Content
<1>3. critical' \in BOOLEAN /\ losses \in Nat
  BY <1>1 DEF IInv, TypeOK, Counted
<1> HIDE DEF r, l
<1>4. CASE ~active
  <2>1. Change(r, {}) /\ Quiet
    BY <1>1, <1>4 DEF r
  <2> QED BY <1>2, <1>3, <2>1, ChangeKeeps DEF Quiet, hostVars, tellVars
<1>5. CASE active
  <2>1. Change(r, {}) /\ Tells({"probes"}, l, session)
    BY <1>1, <1>5 DEF r, l
  <2>2. /\ res' = r /\ dirty' = dirty \ {"probes"} /\ active' = active
        /\ session' = session /\ seq' = seq /\ life' = life /\ boots' = boots
    BY <2>1 DEF Change, IInv, TypeOK, Kinds
  <2>3. \A k \in Kinds : k \notin {"probes"}
    BY DEF Kinds
  <2> QED BY <1>2, <1>3, <1>5, <2>1, <2>2, <2>3, LinesKeep
<1> QED BY <1>4, <1>5

LEMMA OnAttachKeeps == ASSUME IInv, OnAttach PROVE IInv'
<1> DEFINE new == [Cleared EXCEPT !.cable = res.cable]
<1>1. /\ ~active /\ active' = TRUE /\ seq' = NextSession /\ session' = seq'
      /\ res' = new /\ critical' = FALSE
      /\ dirty' = {"attach", "result"} \cup
                    (IF res.cable # 0 THEN {"cable"} ELSE {})
      /\ life' = life + 1 /\ life < MaxLives /\ told' = {} /\ whole' = TRUE
      /\ cur' = cur /\ force' = force /\ closed' = closed
      /\ losses' = losses /\ boots' = boots
  BY DEF OnAttach, hostVars
<1>2. NextSession \in 1..Wrap
  BY WrapAssumption DEF NextSession, IInv, TypeOK
<1>3. new \in Fields /\ new.cable = res.cable
  BY DEF IInv, TypeOK, Fields, Cleared
<1>4. life \in 0..MaxLives /\ MaxLives \in Nat /\ life' \in 1..MaxLives
  BY <1>1, RecordsBounds DEF IInv, TypeOK
<1>5. TypeOK'
  <2>1. cur.lives \subseteq 1..life'
    BY <1>1, <1>4 DEF IInv, TypeOK
  <2>2. seq' \in 0..Wrap /\ seq' # 0 /\ session' = (IF active' THEN seq' ELSE 0)
    BY <1>1, <1>2, WrapAssumption
  <2>3. dirty' \subseteq Kinds
    BY <1>1 DEF Kinds
  <2>4. force' \in BOOLEAN /\ cur'.fw \in 0..Wrap /\ cur'.lives \subseteq 1..life'
    BY <1>1, <2>1 DEF IInv, TypeOK
  <2>5. res' \in Fields /\ life' \in 0..MaxLives
    BY <1>1, <1>3, <1>4
  <2> QED BY <1>1, <2>2, <2>3, <2>4, <2>5 DEF TypeOK
<1>6. life' \notin cur.lives /\ life' \notin closed /\ closed \subseteq 1..life'
  BY <1>1, <1>4 DEF IInv, TypeOK, Owned
<1>7. Shape' /\ Owned' /\ Counted' /\ NeverSplit'
  BY <1>1, <1>4, <1>6 DEF IInv, Shape, Owned, Counted, NeverSplit
<1>8. Reported'
  <2> SUFFICES ASSUME NEW k \in Kinds \ dirty'
               PROVE Content(res', k) = Content(Cleared, k)
    BY <1>1 DEF Reported
  <2> QED BY <1>1 DEF Content, Cleared, Kinds
<1> QED BY <1>5, <1>7, <1>8 DEF IInv

LEMMA OnDetachKeeps == ASSUME IInv, OnDetach PROVE IInv'
<1>0. Cleared \in Fields
  BY DEF Cleared, Fields
<1>1. CASE active
  <2>1. /\ Tells(FinalLines, res, session) /\ ~active' /\ active' = FALSE
        /\ session' = 0 /\ res' = Cleared /\ dirty' = {} /\ critical' = FALSE
        /\ seq' = seq /\ life' = life /\ boots' = boots
    BY <1>1 DEF OnDetach, Emit
  <2>2. FinalLines \in SUBSET LineKinds
    BY DEF FinalLines, LineKinds
  <2>3. /\ Shape' /\ losses' \in Nat /\ force' \in BOOLEAN
        /\ cur'.fw \in 0..Wrap /\ cur'.lives \subseteq 1..life
        /\ closed' \subseteq 1..life /\ cur'.lives \cap closed' = {}
        /\ force' => cur'.detached
    BY <1>1, <2>1, <2>2, TellsEffect
  <2>4. TypeOK'
    BY <1>0, <2>1, <2>3 DEF IInv, TypeOK
  <2>5. Shape' /\ Owned' /\ Counted' /\ NeverSplit' /\ Reported'
    BY <2>1, <2>3 DEF IInv, Shape, Owned, Counted, NeverSplit, Reported
  <2> QED BY <2>4, <2>5 DEF IInv
<1>2. CASE ~active
  <2>1. /\ critical' = FALSE
        /\ UNCHANGED <<active, session, seq, res, dirty, life, boots>>
        /\ UNCHANGED <<cur, force, closed, told, whole, losses>>
    BY <1>2 DEF OnDetach, Quiet, hostVars, tellVars
  <2>2. TypeOK'
    BY <2>1 DEF IInv, TypeOK
  <2>3. Shape' /\ Owned' /\ Counted' /\ NeverSplit' /\ Reported'
    BY <1>2, <2>1 DEF IInv, Shape, Owned, Counted, NeverSplit, Reported
  <2> QED BY <2>2, <2>3 DEF IInv
<1> QED BY <1>1, <1>2

LEMMA BootKeeps == ASSUME IInv, Boot PROVE IInv'
<1>0. Cleared \in Fields
  BY DEF Cleared, Fields
<1>1. /\ active' = FALSE /\ session' = 0 /\ seq' = 0 /\ res' = Cleared
      /\ dirty' = {} /\ critical' = FALSE /\ boots' = boots + 1 /\ life' = life
  BY DEF Boot
<1>2. CASE HearsBoot /\ losses' = losses
  <2>1. force' = TRUE /\ cur' = NoSession /\ closed' = closed \cup cur.lives
    BY <1>2 DEF HearsBoot
  <2>2. NoSession.lives = {} /\ NoSession.fw = 0 /\ NoSession.detached = TRUE
    BY DEF NoSession, HostSession
  <2>3. cur'.lives = {} /\ cur'.fw = 0 /\ cur'.detached = TRUE
    BY <2>1, <2>2
  <2>4. life' \in 0..MaxLives /\ 0 \in 0..Wrap
    BY <1>1, WrapAssumption DEF IInv, TypeOK
  <2>5. TypeOK'
    BY <1>0, <1>1, <2>1, <2>3, <2>4 DEF TypeOK
  <2>6. closed' \subseteq 1..life'
    BY <1>1, <2>1 DEF IInv, TypeOK, Owned
  <2>7. losses' \in Nat /\ boots' \in Nat
    BY <1>1, <1>2 DEF IInv, Counted
  <2>8. Shape' /\ Owned' /\ Counted' /\ NeverSplit' /\ Reported'
    BY <1>1, <2>3, <2>6, <2>7 DEF Shape, Owned, Counted, NeverSplit, Reported
  <2> QED BY <2>5, <2>8 DEF IInv
<1>3. CASE losses' = losses + 1 /\ UNCHANGED <<cur, force, closed>>
  <2>0. /\ life' \in 0..MaxLives /\ 0 \in 0..Wrap /\ force' \in BOOLEAN
        /\ cur'.lives \subseteq 1..life' /\ cur'.fw \in 0..Wrap
    BY <1>1, <1>3, WrapAssumption DEF IInv, TypeOK
  <2>1. TypeOK'
    BY <1>0, <1>1, <2>0 DEF TypeOK
  <2>2. Shape' /\ Owned' /\ Counted' /\ NeverSplit' /\ Reported'
    BY <1>1, <1>3 DEF IInv, Shape, Owned, Counted, NeverSplit, Reported
  <2> QED BY <2>1, <2>2 DEF IInv
<1> QED BY <1>2, <1>3 DEF Boot

LEMMA RecordsInit == ASSUME Init PROVE IInv
<1>1. Cleared \in Fields
  BY DEF Cleared, Fields
<1>2. NoSession.lives = {} /\ NoSession.fw = 0 /\ NoSession.detached = TRUE
  BY DEF NoSession, HostSession
<1>3. 0 \in 0..Wrap /\ 0 \in 0..MaxLives
  BY WrapAssumption, RecordsBounds
<1>4. cur.lives = {} /\ cur.fw = 0 /\ cur.detached = TRUE
  BY <1>2 DEF Init
<1>5. TypeOK
  BY <1>1, <1>3, <1>4 DEF Init, TypeOK
<1> QED BY <1>4, <1>5
        DEF Init, IInv, Shape, Owned, Counted, NeverSplit, Reported

LEMMA RecordsStep == ASSUME IInv, [Next]_vars PROVE IInv'
<1>1. CASE Changes
  BY <1>1, SettersKeep, ProbeKeeps DEF Changes
<1>2. CASE UNCHANGED vars
  BY <1>2 DEF vars, fwVars, hostVars, tellVars, IInv, TypeOK, Shape, Owned,
              Counted, Reported, NeverSplit
<1> QED BY <1>1, <1>2, PollKeeps, OnAttachKeeps, OnDetachKeeps, BootKeeps
        DEF Next

LEMMA RecordsInvariant == Spec => []IInv
<1> QED BY RecordsInit, RecordsStep, PTL DEF Spec

(* Every variable keeps its type, and an open session always has a number  *)
(* the host takes for one (PD_Result_OnAttach).                            *)
THEOREM RecordsTypeSafe == Spec => []TypeOK
<1>1. IInv => TypeOK
  BY DEF IInv
<1> QED BY <1>1, RecordsInvariant, PTL

(* What the host shows of the open session is what the device knows, but   *)
(* for the lines still to be told (PD_Result_Poll, process_line).          *)
THEOREM RecordsReported == Spec => []Reported
<1>1. IInv => Reported
  BY DEF IInv
<1> QED BY <1>1, RecordsInvariant, PTL

(* No session of the device is split between two of the host               *)
(* (_route_session).                                                       *)
THEOREM RecordsNeverSplit == Spec => []NeverSplit
<1>1. IInv => NeverSplit
  BY DEF IInv
<1> QED BY <1>1, RecordsInvariant, PTL

(* A session that ends in the host's hearing is saved as the device knew   *)
(* it, whatever was lost before (PD_Result_OnDetach).                      *)
THEOREM RecordsFinalReport == Spec => FinalReport
<1> DEFINE Ends == active /\ ~active' /\ boots' = boots /\ losses' = losses
           Saved ==
             /\ \A k \in Kinds : Agrees(cur'.view, res, k) \/ Blank(cur'.view, res, k)
             /\ \A s \in Steps : res.probe[s] # 0 => cur'.probe[s] = res.probe[s]
<1>1. ASSUME IInv, [Next]_vars, Ends PROVE Saved
  <2>1. Tells(FinalLines, res, session)
    <3>0. boots \in Nat /\ boots' = boots /\ active /\ ~active'
      BY <1>1 DEF IInv, Counted
    <3>1. ~Boot
      <4>1. Boot => boots' = boots + 1
        BY DEF Boot
      <4> QED BY <3>0, <4>1
    <3>4. ~UNCHANGED vars
      BY <3>0 DEF vars, fwVars
    <3>2. ~Changes /\ ~Poll /\ ~OnAttach
      <4>1. Changes => active' = active
        BY DEF Changes, Change, UpdateSPR, UpdateEPR, SetStatus,
               SetSourceIdentity, SetSourceDiscovery, SetCableIdentity,
               RecordProbeStatus
      <4>2. (Poll => active' = active) /\ (OnAttach => ~active)
        BY DEF Poll, OnAttach
      <4> QED BY <3>0, <4>1, <4>2
    <3> QED BY <1>1, <3>0, <3>1, <3>2, <3>4 DEF Next, OnDetach, Emit
  <2>2. FinalLines \in SUBSET LineKinds /\ FinalLines # {}
        /\ Kinds \subseteq FinalLines /\ "probes" \in FinalLines
    BY DEF FinalLines, LineKinds
  <2>3. /\ \A k \in Kinds \cap FinalLines : Agrees(cur'.view, res, k)
        /\ \A s \in Steps : res.probe[s] # 0 => cur'.probe[s] = res.probe[s]
    BY <1>1, <2>1, <2>2, TellsEffect
  <2> QED BY <2>2, <2>3
<1>2. IInv /\ [Next]_vars => [Ends => Saved]_vars
  BY <1>1
<1> QED BY <1>2, RecordsInvariant, PTL DEF Spec, FinalReport

-----------------------------------------------------------------------------
(* A host's session and the device's sessions begun since: how many they   *)
(* are, the number they have brought the device to, and the losses it took *)
(* for the host to hear the end of none of them.                           *)
Behind(c, ended) ==
  /\ cur.lives = {c} /\ cur.fw \in 1..Wrap
  /\ seq = cur.fw + (life - c) \/ seq = cur.fw + (life - c) - Wrap
  /\ (life - c) + ended <= losses

Alone ==
  ~bootLost => /\ cur.lives = {} \/ \E c \in 1..life : cur.lives = {c}
               /\ ~cur.detached =>
                    \E c \in 1..life : Behind(c, IF active THEN 0 ELSE 1)

MixInv == losses <= Losses /\ Alone

(* A line of the open session is never taken for one of the session before *)
(* it: fewer sessions went unheard than there are numbers.                 *)
LEMMA NumbersTellApart ==
  ASSUME IInv, MixInv, ~bootLost, active, ~NeedsNew({}, session)
  PROVE cur.lives = {life}
<1>1. ~cur.detached /\ cur.fw = session /\ session = seq
  BY DEF NeedsNew, IInv, TypeOK
<1>2. PICK c \in 1..life : Behind(c, 0)
  BY <1>1 DEF MixInv, Alone
<1>3. life \in Nat /\ losses \in Nat /\ seq \in Nat /\ Wrap \in Nat /\ Losses \in Nat
  BY WrapAssumption DEF IInv, TypeOK, Counted
<1>4. life - c < Wrap /\ life - c >= 0
  BY <1>2, <1>3, WrapAssumption DEF Behind, MixInv
<1>5. life = c
  BY <1>1, <1>2, <1>3, <1>4 DEF Behind
<1> QED BY <1>2, <1>5 DEF Behind

LEMMA TellsAlone ==
  ASSUME IInv, MixInv, active, ~bootLost, NEW said \in SUBSET LineKinds, NEW r,
         Tells(said, r, session), UNCHANGED <<seq, life>>
  PROVE /\ losses' <= Losses
        /\ cur'.lives = {} \/ \E c \in 1..life : cur'.lives = {c}
        /\ ~cur'.detached =>
             \E c \in 1..life :
               /\ cur'.lives = {c} /\ cur'.fw \in 1..Wrap
               /\ seq' = cur'.fw + (life - c) \/ seq' = cur'.fw + (life - c) - Wrap
               /\ (life - c) + (IF "detach" \in said THEN 1 ELSE 0) <= losses'
<1>1. PICK heard \in Survivors(said) :
        /\ Hears(heard, r, session)
        /\ losses' = (IF heard = said THEN losses ELSE losses + 1)
  BY DEF Tells
<1>2. heard \in SUBSET LineKinds
  BY SurvivorsHeard
<1>3. losses \in Nat /\ Losses \in Nat /\ life \in Nat /\ seq \in 1..Wrap
      /\ session = seq /\ life \in 1..life
  BY WrapAssumption DEF IInv, TypeOK, Counted, Owned
<1>4. losses' <= Losses
  BY <1>1, <1>3 DEF MixInv, Survivors
<1>5. CASE heard = {}
  <2>1. cur' = cur
    BY <1>1, <1>5 DEF Hears, hostVars
  <2>2. cur.lives = {} \/ \E c \in 1..life : cur.lives = {c}
    BY DEF MixInv, Alone
  <2>3. ASSUME ~cur.detached
        PROVE \E c \in 1..life :
               /\ cur'.lives = {c} /\ cur'.fw \in 1..Wrap
               /\ seq' = cur'.fw + (life - c) \/ seq' = cur'.fw + (life - c) - Wrap
               /\ (life - c) + (IF "detach" \in said THEN 1 ELSE 0) <= losses'
    <3>1. PICK c \in 1..life : Behind(c, 0)
      BY <2>3 DEF MixInv, Alone
    <3>2. "detach" \in said => losses' = losses + 1
      BY <1>1, <1>5
    <3>3. losses' \in {losses, losses + 1} /\ life - c <= losses
      BY <1>1, <1>3, <3>1 DEF Behind
    <3>4. (life - c) + (IF "detach" \in said THEN 1 ELSE 0) <= losses'
      BY <1>3, <3>2, <3>3
    <3>5. /\ cur'.lives = {c} /\ cur'.fw \in 1..Wrap
          /\ seq' = cur'.fw + (life - c) \/ seq' = cur'.fw + (life - c) - Wrap
      BY <2>1, <3>1 DEF Behind
    <3> QED BY <3>4, <3>5
  <2> QED BY <1>4, <2>1, <2>2, <2>3
<1>6. CASE heard # {}
  <2>1. Shown(heard, r)
    BY <1>1, <1>2, <1>6, HearsEffect
  <2>2. cur'.fw = seq /\ cur'.detached = ("detach" \in heard)
    BY <1>3, <2>1 DEF Shown
  <2>3. cur'.lives = {life}
    <3>1. CASE NeedsNew(heard, session)
      BY <1>1, <1>6, <3>1 DEF Hears, Applied, NewSession, HostSession
    <3>2. CASE ~NeedsNew(heard, session)
      <4>1. cur.lives = {life}
        BY <3>2, NumbersTellApart DEF NeedsNew
      <4>2. cur'.lives = cur.lives \cup {life}
        BY <1>1, <1>6, <3>2 DEF Hears, Applied
      <4> QED BY <4>1, <4>2
    <3> QED BY <3>1, <3>2
  <2>4. ~cur'.detached /\ "detach" \in said => losses' = losses + 1
    BY <1>1, <2>2
  <2>5. ~cur'.detached =>
          (life - life) + (IF "detach" \in said THEN 1 ELSE 0) <= losses'
    <3>1. losses' >= 0
      BY <1>1, <1>3
    <3> QED BY <1>3, <2>4, <3>1
  <2>6. cur'.fw \in 1..Wrap /\ seq' = cur'.fw + (life - life)
    BY <1>3, <2>2
  <2> QED BY <1>3, <1>4, <2>3, <2>5, <2>6
<1> QED BY <1>5, <1>6

(* One more session: NextSession keeps the distance, round the end.        *)
LEMMA NumbersComeRound ==
  ASSUME Wrap \in Nat \ {0}, seq \in 0..Wrap,
         NEW first \in 1..Wrap, NEW begun \in Nat, begun < Wrap,
         seq = first + begun \/ seq = first + begun - Wrap
  PROVE \/ NextSession = first + (begun + 1)
        \/ NextSession = first + (begun + 1) - Wrap
<1>1. CASE seq = Wrap
  BY <1>1 DEF NextSession
<1>2. CASE seq # Wrap
  BY <1>2 DEF NextSession
<1> QED BY <1>1, <1>2

LEMMA AloneStep == ASSUME IInv, MixInv, [Next]_vars PROVE MixInv'
<1>0. /\ losses \in Nat /\ Losses \in Nat /\ Wrap \in Nat \ {0} /\ life \in Nat
      /\ seq \in 0..Wrap /\ active \in BOOLEAN /\ MaxLives \in Nat
  BY WrapAssumption, RecordsBounds DEF IInv, TypeOK, Counted
<1>1. CASE /\ UNCHANGED <<active, seq, life, cur, bootLost>>
           /\ losses' \in losses..Losses
  BY <1>0, <1>1 DEF MixInv, Alone, Behind
<1>2. ASSUME NEW said \in SUBSET (Kinds \cup {"probes"}), NEW r, active,
             Tells(said, r, session), UNCHANGED <<active, seq, life, bootLost>>
      PROVE MixInv'
  <2>1. said \in SUBSET LineKinds /\ "detach" \notin said
    BY <1>2 DEF LineKinds, Kinds
  <2>2. losses' <= Losses
    BY <1>0, <1>2 DEF Tells, Survivors, MixInv
  <2>3. ASSUME ~bootLost
        PROVE /\ cur'.lives = {} \/ \E c \in 1..life : cur'.lives = {c}
              /\ ~cur'.detached =>
                   \E c \in 1..life :
                     /\ cur'.lives = {c} /\ cur'.fw \in 1..Wrap
                     /\ \/ seq' = cur'.fw + (life - c)
                        \/ seq' = cur'.fw + (life - c) - Wrap
                     /\ (life - c) + 0 <= losses'
    BY <1>2, <2>1, <2>3, TellsAlone
  <2> QED BY <1>2, <2>2, <2>3 DEF MixInv, Alone, Behind
<1>3. CASE UpdateSPR \/ UpdateEPR \/ SetStatus \/ SetSourceIdentity
             \/ SetSourceDiscovery \/ SetCableIdentity
  <2>1. UNCHANGED <<active, seq, life, cur, bootLost>>
    BY <1>3 DEF UpdateSPR, UpdateEPR, SetStatus, SetSourceIdentity,
                SetSourceDiscovery, SetCableIdentity, Change, Quiet, hostVars
  <2>2. losses' \in losses..Losses
    <3>1. CASE SetCableIdentity
      BY <1>0, <3>1 DEF SetCableIdentity, MixInv
    <3>2. CASE ~SetCableIdentity
      <4>1. losses' = losses
        BY <1>3, <3>2 DEF UpdateSPR, UpdateEPR, SetStatus, SetSourceIdentity,
                          SetSourceDiscovery, Quiet
      <4> QED BY <1>0, <4>1 DEF MixInv
    <3> QED BY <3>1, <3>2
  <2> QED BY <1>1, <2>1, <2>2
<1>4. CASE RecordProbeStatus
  <2>1. UNCHANGED <<active, seq, life, bootLost>>
    BY <1>4 DEF RecordProbeStatus, Change
  <2>2. CASE active
    <3>1. PICK s \in Steps, v \in Values :
            Tells({"probes"}, [Cleared EXCEPT !.probe[s] = v], session)
      BY <1>4, <2>2 DEF RecordProbeStatus
    <3> QED BY <1>2, <2>1, <2>2, <3>1
  <2>3. CASE ~active
    <3>1. cur' = cur /\ losses' = losses
      BY <1>4, <2>3 DEF RecordProbeStatus, Quiet, hostVars
    <3> QED BY <1>0, <1>1, <2>1, <3>1 DEF MixInv
  <2> QED BY <2>2, <2>3
<1>5. CASE Poll
  <2>1. active /\ Tells(dirty, res, session) /\ dirty \in SUBSET Kinds
        /\ UNCHANGED <<active, seq, life, bootLost>>
    BY <1>5 DEF Poll, Emit, IInv, TypeOK
  <2> QED BY <1>2, <2>1
<1>6. CASE OnAttach
  <2>1. /\ ~active /\ active' /\ life' = life + 1 /\ seq' = NextSession
        /\ UNCHANGED <<cur, bootLost, losses>>
    BY <1>6 DEF OnAttach, hostVars
  <2>2. ASSUME ~bootLost, ~cur.detached
        PROVE \E c \in 1..life' : Behind(c, 0)'
    <3>1. PICK c \in 1..life : Behind(c, 1)
      BY <2>1, <2>2 DEF MixInv, Alone
    <3>2. life - c < Wrap /\ life' - c = (life - c) + 1 /\ c \in 1..life'
      BY <1>0, <2>1, <3>1, WrapAssumption DEF Behind, MixInv
    <3>3. \/ seq' = cur.fw + (life' - c)
          \/ seq' = cur.fw + (life' - c) - Wrap
      <4>1. life - c \in Nat /\ cur.fw \in 1..Wrap
        BY <1>0, <3>1 DEF Behind
      <4>2. \/ seq' = cur.fw + ((life - c) + 1)
            \/ seq' = cur.fw + ((life - c) + 1) - Wrap
        BY <1>0, <2>1, <3>1, <3>2, <4>1, NumbersComeRound DEF Behind
      <4> QED BY <3>2, <4>2
    <3>4. (life' - c) + 0 <= losses'
      BY <1>0, <2>1, <3>1, <3>2 DEF Behind
    <3> QED BY <2>1, <3>1, <3>2, <3>3, <3>4 DEF Behind
  <2>3. 1..life \subseteq 1..life'
    BY <1>0, <2>1
  <2> QED BY <2>1, <2>2, <2>3 DEF MixInv, Alone
<1>7. CASE OnDetach /\ active
  <2>1. /\ Tells(FinalLines, res, session) /\ active' = FALSE
        /\ UNCHANGED <<seq, life, bootLost>>
    BY <1>7 DEF OnDetach, Emit
  <2>2. FinalLines \in SUBSET LineKinds /\ "detach" \in FinalLines
    BY DEF FinalLines, LineKinds
  <2>3. losses' <= Losses
    BY <1>0, <2>1 DEF Tells, Survivors, MixInv
  <2>4. ASSUME ~bootLost
        PROVE /\ cur'.lives = {} \/ \E c \in 1..life : cur'.lives = {c}
              /\ ~cur'.detached =>
                   \E c \in 1..life :
                     /\ cur'.lives = {c} /\ cur'.fw \in 1..Wrap
                     /\ \/ seq' = cur'.fw + (life - c)
                        \/ seq' = cur'.fw + (life - c) - Wrap
                     /\ (life - c) + 1 <= losses'
    BY <1>7, <2>1, <2>2, <2>4, TellsAlone
  <2> QED BY <2>1, <2>3, <2>4 DEF MixInv, Alone, Behind
<1>8. CASE OnDetach /\ ~active
  <2>1. UNCHANGED <<active, seq, life, cur, bootLost, losses>>
    BY <1>8 DEF OnDetach, Quiet, hostVars
  <2> QED BY <1>0, <1>1, <2>1 DEF MixInv
<1>9. CASE Boot
  <2>1. life' = life
    BY <1>9 DEF Boot
  <2>2. CASE HearsBoot /\ UNCHANGED <<bootLost, losses>>
    <3>1. cur'.lives = {} /\ cur'.detached
      BY <2>2 DEF HearsBoot, NoSession, HostSession
    <3> QED BY <2>2, <3>1 DEF MixInv, Alone
  <2>3. CASE losses < Losses /\ losses' = losses + 1 /\ bootLost' = TRUE
    BY <1>0, <2>3 DEF MixInv, Alone
  <2> QED BY <1>9, <2>2, <2>3 DEF Boot
<1>10. CASE UNCHANGED vars
  <2>1. UNCHANGED <<active, seq, life, cur, bootLost, losses>>
    BY <1>10 DEF vars, fwVars, hostVars
  <2> QED BY <1>0, <1>1, <2>1 DEF MixInv
<1> QED BY <1>3, <1>4, <1>5, <1>6, <1>7, <1>8, <1>9, <1>10 DEF Next, Changes

(* A session of the host holds lines of one session of the device, unless  *)
(* a boot line was lost: the numbers come round only after more sessions   *)
(* than can go unheard (_route_session).                                   *)
THEOREM RecordsNeverMixed == Spec => []NeverMixed
<1>1. Init => MixInv
  BY WrapAssumption DEF Init, MixInv, Alone, NoSession, HostSession
<1>2. MixInv => NeverMixed
  <2> SUFFICES ASSUME MixInv, ~bootLost PROVE Cardinality(cur.lives) <= 1
    BY DEF NeverMixed
  <2>1. CASE cur.lives = {}
    BY <2>1, FS_EmptySet
  <2>2. CASE \E c \in 1..life : cur.lives = {c}
    BY <2>2, FS_Singleton
  <2> QED BY <2>1, <2>2 DEF MixInv, Alone
<1> QED BY <1>1, <1>2, AloneStep, RecordsInvariant, PTL DEF Spec
=============================================================================

------------------------------ MODULE Contract ------------------------------
(***************************************************************************)
(* What the SPR negotiation of PD_Prot.c promises: an explicit contract is *)
(* believed in only after the charger has granted the Request it heard     *)
(* last.  The two sides lose messages and give up at any time.             *)
(***************************************************************************)
VARIABLES
  dev,      \* the device: "idle", "asking" or "agreed"
  round,    \* the charger: how far the Request it heard last has come
  contract  \* the device believes in a contract

Init == dev = "idle" /\ round = "none" /\ contract = FALSE

\* The charger, whose Accept may come in place of the acknowledgement
Hear  == round' \in {"asked", "agreed"} /\ UNCHANGED <<dev, contract>>
Agree == round = "asked" /\ round' = "agreed" /\ UNCHANGED <<dev, contract>>
Grant == round = "agreed" /\ round' = "granted" /\ UNCHANGED <<dev, contract>>
Refuse == round' = "none" /\ UNCHANGED <<dev, contract>>

\* The device
Ask     == dev' = "asking" /\ contract' \in {contract, FALSE} /\ UNCHANGED round
Agreed  == dev = "asking" /\ dev' = "agreed" /\ UNCHANGED <<round, contract>>
Begin   == /\ dev = "agreed" /\ round = "granted"
           /\ dev' = "idle" /\ contract' = TRUE /\ UNCHANGED round
GiveUp  == /\ dev' = "idle" /\ contract' \in {contract, FALSE}
           /\ round' \in {round, "asked"}   \* its acknowledgement may be lost

\* A Hard Reset, or another cable, which leaves the device's handlers armed
Reset   == /\ dev' \in {dev, "idle"} /\ round' = "none"
           /\ contract' \in {contract, FALSE}

Next == Hear \/ Agree \/ Grant \/ Refuse \/ Ask \/ Agreed \/ Begin \/ GiveUp
          \/ Reset

Spec == Init /\ [][Next]_<<dev, round, contract>>
=============================================================================

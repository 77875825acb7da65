------------------------------ MODULE MCPhyRx ------------------------------
(* Instances of PhyRx for TLC: messages 1 and 3 are Source_Capabilities, or *)
(* only message 1, so that 3 is one that is not answered before the attach. *)
EXTENDS PhyRx

MCCaps   == {1, 3}
MCOneCap == {1}
MCPre    == {2}
============================================================================

------------------------------ MODULE MCAttach ------------------------------
(***************************************************************************)
(* Attach with the firmware's thresholds divided by 200 ms and rounded, so *)
(* that they keep their order: a tick is 200 ms, and the shortest waits    *)
(* (debounce, ten misses of detection) are two ticks.                      *)
(***************************************************************************)
EXTENDS Attach

=============================================================================

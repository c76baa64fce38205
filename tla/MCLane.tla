-------------------------------- MODULE MCLane --------------------------------
(* Small instances of LaneLifecycle for TLC. *)
EXTENDS LaneLifecycle
===============================================================================

--------------------------- MODULE MCCatchupLane ---------------------------
(* Two peers; a runtime that is replaced or stopped, or two signals to one. *)
EXTENDS CatchupLane
=============================================================================

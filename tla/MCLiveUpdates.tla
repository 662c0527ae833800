---------------------------- MODULE MCLiveUpdates ----------------------------
(* Small instances of LiveUpdates for TLC. *)
EXTENDS LiveUpdates

Everything == {"unsupported", "severed", "dropped", "switch", "click", "failures"}
Second == {2}
=============================================================================

----------------------------- MODULE MCUiWindow -----------------------------
(* Small instances of UiWindow for TLC. *)
EXTENDS UiWindow

Either == {TRUE, FALSE}
NotKept == {FALSE}

BothReports == {"lock", "switch"}

AllEvents == {"open", "preferences", "away", "quit", "crash", "refusal"}
NoCrash == {"open", "preferences", "away", "quit", "refusal"}
Away == {"away", "refusal"}
=============================================================================

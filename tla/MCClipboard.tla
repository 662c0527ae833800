----------------------------- MODULE MCClipboard -----------------------------
(* Small instances of Clipboard for TLC. *)
EXTENDS Clipboard

CONSTANTS daemon, w1

OneWindow == {w1}
All == {"lock", "change", "quit", "refused", "close", "edit"}
JustClose == {"close"}

(* Clearing off; the defaults; and a longer timer with one trigger.        *)
Three == {[timer |-> 0, on |-> {}], [timer |-> 1, on |-> Triggers],
          [timer |-> 2, on |-> {"quit"}]}
Defaults == {[timer |-> 1, on |-> Triggers]}
=============================================================================

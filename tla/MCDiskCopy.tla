----------------------------- MODULE MCDiskCopy -----------------------------
(* Small instances of DiskCopy for TLC. *)
EXTENDS DiskCopy

CONSTANTS a, b, main0, sync, window

TwoAccounts == {a, b}
OneWorker == {sync}
WorkerOrWindow == {{sync}, {window}, {}}
Alone == {{}}
===========================================================================

------------------------------ MODULE OneOwner ------------------------------
(***************************************************************************)
(* What Deskwarden's name promises (app_mutex.rs, single_instance.rs):     *)
(* one process at a time has it, and it goes from one to the next only by  *)
(* being let go and found free.                                            *)
(***************************************************************************)
CONSTANT Procs   \* the processes that may want it

VARIABLE owners  \* those that have it

Init == owners = {}

(* A process finds it free. *)
Take(p) ==
    /\ owners = {}
    /\ owners' = {p}

(* The one that has it quits, is ended, or stands down. *)
Leave ==
    /\ owners # {}
    /\ owners' = {}

Next == Leave \/ \E p \in Procs : Take(p)

Spec == Init /\ [][Next]_owners
=============================================================================

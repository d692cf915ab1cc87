---------------------------- MODULE MCNotifications ----------------------------
(* Notifications with all entries in one account. *)
EXTENDS Notifications

CONSTANT a1

MCAccountOf == [e \in Entries |-> a1]

===============================================================================

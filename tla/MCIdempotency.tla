----------------------------- MODULE MCIdempotency -----------------------------
(***************************************************************************)
(* Instances of Idempotency for TLC.                                       *)
(***************************************************************************)
EXTENDS Idempotency, TLC

Request(e, k, h) == [endpoint |-> e, key |-> k, hash |-> h]

\* Every endpoint, with every key and payload.
AllRequests == {Request(e, k, h) : e \in Endpoints, k \in Keys, h \in Hashes}

\* One client that sends one transfer again and again.
OneTransfer == {Request("movement", k, h) : k \in Keys, h \in Hashes}

CallSymmetry == Permutations(Calls)

===============================================================================

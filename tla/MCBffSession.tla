---------------------------- MODULE MCBffSession ----------------------------
(***************************************************************************)
(* BffSession for model checking its safety properties with several        *)
(* sessions: neither sessions nor requests are told apart by anything but  *)
(* their names, so states that differ by a renaming of them are one.       *)
(***************************************************************************)
EXTENDS BffSession, TLC

Renamings == Permutations(Sessions) \cup Permutations(Requests)

=============================================================================

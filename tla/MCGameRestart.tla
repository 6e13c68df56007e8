---------------------------- MODULE MCGameRestart ----------------------------
(* Small instances of the system whose database and server may end. *)
EXTENDS GameRestart, TLC

\* Three levels with some experience to gain in each.
MCLevels == <<2, 1, 0>>

MCOneLevel == <<0>>

MCClientSymmetry == Permutations(Clients)
=============================================================================

----------------------------- MODULE MCGameSystem -----------------------------
(* Small instances of the running system.                                   *)
EXTENDS GameInvariants, TLC

\* Two levels, entered at once: the cap is one point away.
MCShortLevels == <<0, 0>>

\* Three levels with some experience to gain in each.
MCLevels == <<2, 1, 0>>

MCOneLevel == <<0>>

\* Clients are told apart by nothing but their name.
MCClientSymmetry == Permutations(Clients)

\* So are character names, and passwords.
MCNameSymmetry == Permutations(Names)
=============================================================================

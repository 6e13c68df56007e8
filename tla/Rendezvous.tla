----------------------------- MODULE Rendezvous -----------------------------
(***************************************************************************)
(* What a listening FIFO promises: the acceptor takes one request at a     *)
(* time, only from processes that ask, and a request is lost only if it    *)
(* overlapped with another process's: with one that asked, or with one that *)
(* had been taken already.                                                 *)
(***************************************************************************)
CONSTANTS Requesters, Nobody

VARIABLES
  state,      \* what each requester is doing
  raced,      \* whether its request has overlapped with another's
  serving     \* whom the acceptor has taken, or Nobody

vars == <<state, raced, serving>>

TypeOK ==
  /\ state \in [Requesters -> {"idle", "asking", "met", "lost"}]
  /\ raced \in [Requesters -> BOOLEAN]
  /\ serving \in Requesters \cup {Nobody}

Init ==
  /\ state = [r \in Requesters |-> "idle"]
  /\ raced = [r \in Requesters |-> FALSE]
  /\ serving = Nobody

Ask(r) ==
  LET rivals == {q \in Requesters \ {r} : state[q] \in {"asking", "met"}} IN
  /\ state[r] = "idle"
  /\ state' = [state EXCEPT ![r] = "asking"]
  /\ raced' = [q \in Requesters |->
                 IF q = r THEN rivals # {} ELSE raced[q] \/ q \in rivals]
  /\ UNCHANGED serving

Take(r) ==
  /\ state[r] = "asking" /\ serving = Nobody
  /\ state' = [state EXCEPT ![r] = "met"]
  /\ serving' = r
  /\ UNCHANGED raced

\* The acceptor is done with its requester, and the requester with it, in
\* either order.
Finish ==
  /\ serving # Nobody
  /\ serving' = Nobody
  /\ UNCHANGED <<state, raced>>

Leave(r) ==
  /\ state[r] = "met"
  /\ state' = [state EXCEPT ![r] = "idle"]
  /\ UNCHANGED <<raced, serving>>

\* The ids left in the FIFO are dropped together.
Lose(R) ==
  /\ \A r \in R : state[r] = "asking" /\ raced[r]
  /\ state' = [r \in Requesters |-> IF r \in R THEN "lost" ELSE state[r]]
  /\ UNCHANGED <<raced, serving>>

Next ==
  \/ \E r \in Requesters : Ask(r) \/ Take(r) \/ Leave(r)
  \/ \E R \in SUBSET Requesters : Lose(R)
  \/ Finish

Spec == Init /\ [][Next]_vars
=============================================================================

----------------------------- MODULE RestartLock -----------------------------
(***************************************************************************)
(* What is left of the account lock when whoever keeps it may end and      *)
(* start again, knowing nothing: a start frees every account, and those    *)
(* who held one are outsiders, who break the lock if they return it.       *)
(***************************************************************************)
EXTENDS AccountLock

VARIABLE broken    \* an outsider has returned an account since the last start

LockInit == Init /\ broken = FALSE

\* Clients are interrupted, or lose the answers to their logouts, at once.
AbandonAll(S) ==
  /\ \A a \in S : holder[a] \in Holders
  /\ holder' = [a \in Accounts |-> IF a \in S THEN Abandoned ELSE holder[a]]

\* The lock, as long as it is whole.
Locked ==
  /\ ~broken /\ ~broken'
  /\ (\E S \in SUBSET Accounts : AbandonAll(S)) \/ Next

Start ==
  /\ holder' = [a \in Accounts |-> Free]
  /\ broken' = FALSE

\* An outsider returns an account that is not free.  From then on anything may happen.
Break ==
  /\ broken \/ \E a \in Accounts : holder[a] # Free
  /\ broken' = TRUE

LockNext == Locked \/ Start \/ Break

LockSpec == LockInit /\ [][LockNext]_<<holder, broken>>
=============================================================================

----------------------------- MODULE AccountLock -----------------------------
(***************************************************************************)
(* What the login protocol promises about an account, whatever happens to  *)
(* clients and sessions: one client at a time holds it; the holder gives   *)
(* it back, or abandons it; nobody ever gets an abandoned account.         *)
(***************************************************************************)
CONSTANTS Holders, Accounts, Free, Abandoned

VARIABLE holder

Init == holder = [a \in Accounts |-> Free]

\* A login is granted: only on a free account, to a client that holds none.
Acquire(c, a) ==
  /\ holder[a] = Free
  /\ \A b \in Accounts : holder[b] # c
  /\ holder' = [holder EXCEPT ![a] = c]

\* A logout is processed.
Release(c, a) ==
  /\ holder[a] = c
  /\ holder' = [holder EXCEPT ![a] = Free]

\* The client is interrupted before its logout reaches the database.
Abandon(c, a) ==
  /\ holder[a] = c
  /\ holder' = [holder EXCEPT ![a] = Abandoned]

\* A login is granted to a client that was interrupted while it waited.
Waste(a) ==
  /\ holder[a] = Free
  /\ holder' = [holder EXCEPT ![a] = Abandoned]

Next == \E a \in Accounts :
          \/ \E c \in Holders : Acquire(c, a) \/ Release(c, a) \/ Abandon(c, a)
          \/ Waste(a)

Spec == Init /\ [][Next]_holder
=============================================================================

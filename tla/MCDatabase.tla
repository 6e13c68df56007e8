------------------------------ MODULE MCDatabase ------------------------------
(* The database process with two accounts and two character names.          *)
EXTENDS DatabaseService, TLC
MCLevels == <<1>>
MCSaved == {[name |-> k, lvl |-> 1, totalExp |-> 1, currentExp |-> e] :
              k \in Names, e \in 0..1}
MCAccountRequests ==
  {[newData(op) EXCEPT !.username = u, !.password = p] :
     op \in {"LOGIN", "CREATE_ACCOUNT"}, u \in Usernames, p \in Passwords}
MCCharacterRequests ==
  {[newData(op) EXCEPT !.username = u, !.character.name = k] :
     op \in {"SELECT_CHARACTER", "CREATE_CHARACTER", "DELETE_CHARACTER"},
     u \in Usernames, k \in Names}
MCSaveRequests ==
  {[newData("EXP_UP") EXCEPT !.username = u, !.character = ch] :
     u \in Usernames, ch \in MCSaved}
MCLogoutRequests ==
  {[newData(op) EXCEPT !.username = u] :
     op \in {"LOGOUT", "EXIT_AND_LOGOUT", "SHOW_CHARACTER"}, u \in Usernames}
MCRequestSet ==
  MCAccountRequests \cup MCCharacterRequests \cup MCSaveRequests
    \cup MCLogoutRequests \cup {newData("OTHER")}
=============================================================================

--------------------------- MODULE DatabaseService ---------------------------
(***************************************************************************)
(* The database process on its own, serving whatever arrives: main()       *)
(* accepts a connection, receives a record, handles it and sends the same  *)
(* record back.  The requests are an arbitrary set, so the properties here *)
(* need no help from a well-behaved client or session: they hold for       *)
(* repeated, stale and reordered requests.                                 *)
(***************************************************************************)
EXTENDS Database

CONSTANT RequestSet      \* the records that may arrive

ASSUME RequestSetAssumption == RequestSet \subseteq Data

VARIABLE data            \* the record being served, then the last reply

serviceVars == <<User, Chars, data>>

ServiceInit ==
  /\ initialize_table
  /\ data = newData("OTHER")

\* One turn of the loop of main().
serve ==
  \E req \in RequestSet :
    /\ process_data(req)
    /\ data' = Reply(req)

ServiceSpec == ServiceInit /\ [][serve]_serviceVars

-----------------------------------------------------------------------------
(* Properties.                                                              *)

\* The tables and the reply keep their types, whatever records arrive with the
\* fields their handler reads.
ServiceTypeOK == DBTypeOK /\ data \in Data

\* A character belongs to one account from its creation to its deletion: a
\* second creation under its name is refused (create_char), also when it comes
\* from the same account.
OwnersNeverChange ==
  [][\A k \in DOMAIN Chars \cap DOMAIN Chars' :
       Chars'[k].Name = Chars[k].Name]_serviceVars

\* A character marked in use is not deleted, and its mark goes only when its
\* account is logged out, together with all marks of that account
\* (delete_callback, select_callback, char_exp_up, logout).
LoggedOut(u) ==
  /\ \A k \in DOMAIN Chars : Chars[k].Name = u => Chars[k].Inuse = 0
  /\ u \in DOMAIN User => User[u].Inuse = 0

BusyCharacterKept ==
  [][\A k \in DOMAIN Chars : Chars[k].Inuse = 1 =>
       /\ k \in DOMAIN Chars'
       /\ Chars'[k].Inuse = 1 \/ LoggedOut(Chars[k].Name)']_serviceVars
=============================================================================

---------------------------- MODULE DatabaseProofs ----------------------------
(***************************************************************************)
(* Theorems about the database on its own, for every set of accounts,      *)
(* passwords and names, and for every set of requests, records that nobody *)
(* wrote included.                                                         *)
(***************************************************************************)
EXTENDS DatabaseService, TLAPS

\* The tables have the rows of the two CREATE TABLE statements.  Unlike DBTypeOK this
\* lets an account or an owner be a name nobody wrote, which a request may carry.
AnyUserRow == [Password : Passwords \cup {NoPassword}, CantChar : Nat, Inuse : {0, 1}]

AnyCharRow == [Level : Nat, TotalExp : Nat, CurrentExp : Nat,
               Inuse : {0, 1}, Name : Usernames \cup {NoUser}]

TablesHaveRows ==
  /\ \A u \in DOMAIN User : User[u] \in AnyUserRow
  /\ \A k \in DOMAIN Chars : Chars[k] \in AnyCharRow

-----------------------------------------------------------------------------
(* The invariant.                                                           *)

\* Every handler leaves rows where it found or made them.
LEMMA HandlersKeepRows ==
  ASSUME TablesHaveRows, NEW req \in Data, process_data(req)
  PROVE  TablesHaveRows'
PROOF
<1>1. CASE login(req)
  BY <1>1 DEF login, LoginOutcome, TablesHaveRows, AnyUserRow
<1>2. CASE create_account(req)
  <2>1. NewUserRow(req.password) \in AnyUserRow
    BY DEF NewUserRow, AnyUserRow, Data
  <2> QED BY <1>2, <2>1 DEF create_account, Insert, TablesHaveRows
<1>3. CASE select_char(req)
  BY <1>3 DEF select_char, CharOutcome, TablesHaveRows, AnyCharRow
<1>4. CASE create_char(req)
  <2>1. NewCharRow(req.username) \in AnyCharRow
    BY GameAssumption DEF NewCharRow, AnyCharRow, Data
  <2>2. CountRc(req.username) + 1 \in Nat
    BY DEF CountRc, ExecRcOfCallback, SQLITE_OK, SQLITE_ABORT
  <2>3. \A u \in DOMAIN User :
          [User[u] EXCEPT !.CantChar = CountRc(req.username) + 1] \in AnyUserRow
    BY <2>2 DEF TablesHaveRows, AnyUserRow
  <2> QED BY <1>4, <2>1, <2>3 DEF create_char, Insert, TablesHaveRows
<1>5. CASE delete_char(req)
  BY <1>5 DEF delete_char, Delete, TablesHaveRows
<1>6. CASE char_exp_up(req)
  <2>1. req.character \in Character
    BY DEF Data
  <2>2. \A k \in DOMAIN Chars :
          [Chars[k] EXCEPT !.Level = req.character.lvl,
                           !.TotalExp = req.character.totalExp,
                           !.CurrentExp = req.character.currentExp] \in AnyCharRow
    BY <2>1 DEF TablesHaveRows, AnyCharRow, Character
  <2> QED BY <1>6, <2>2 DEF char_exp_up, TablesHaveRows
<1>7. CASE logout(req)
  <2>1. \A u \in DOMAIN User : [User[u] EXCEPT !.Inuse = 0] \in AnyUserRow
    BY DEF TablesHaveRows, AnyUserRow
  <2>2. \A k \in DOMAIN Chars : [Chars[k] EXCEPT !.Inuse = 0] \in AnyCharRow
    BY DEF TablesHaveRows, AnyCharRow
  <2> QED BY <1>7, <2>1, <2>2 DEF logout, TablesHaveRows
<1>8. CASE unhandled(req)
  BY <1>8 DEF unhandled, TablesHaveRows
<1> QED BY <1>1, <1>2, <1>3, <1>4, <1>5, <1>6, <1>7, <1>8 DEF process_data

\* The tables always have rows, whatever arrives.
THEOREM TablesAlwaysHaveRows == ServiceSpec => []TablesHaveRows
PROOF
<1>1. ServiceInit => TablesHaveRows
  BY DEF ServiceInit, initialize_table, TablesHaveRows
<1>2. TablesHaveRows /\ [serve]_serviceVars => TablesHaveRows'
  BY HandlersKeepRows, RequestSetAssumption
     DEF serve, serviceVars, TablesHaveRows
<1> QED BY <1>1, <1>2, PTL DEF ServiceSpec

-----------------------------------------------------------------------------
(* What a handler does to a character that exists.                          *)

\* No handler gives a character to another account (create_char, char_exp_up).
LEMMA HandlersKeepOwners ==
  ASSUME TablesHaveRows, NEW req \in Data, process_data(req),
         NEW k \in DOMAIN Chars \cap DOMAIN Chars'
  PROVE  Chars'[k].Name = Chars[k].Name
PROOF
<1>1. Chars[k] \in AnyCharRow
  BY DEF TablesHaveRows
<1>2. CASE login(req) \/ create_account(req) \/ unhandled(req)
  BY <1>2 DEF login, create_account, unhandled
<1>3. CASE select_char(req)
  BY <1>1, <1>3 DEF select_char, CharOutcome, AnyCharRow
<1>4. CASE create_char(req)
  <2>1. CreateCharOutcome(req) = "NO_ERROR" => k # req.character.name
    BY DEF CreateCharOutcome
  <2> QED BY <1>4, <2>1 DEF create_char, Insert
<1>5. CASE delete_char(req)
  BY <1>5 DEF delete_char, Delete
<1>6. CASE char_exp_up(req)
  BY <1>1, <1>6 DEF char_exp_up, AnyCharRow
<1>7. CASE logout(req)
  BY <1>1, <1>7 DEF logout, AnyCharRow
<1> QED BY <1>2, <1>3, <1>4, <1>5, <1>6, <1>7 DEF process_data

\* A busy character stays busy, or its account has been logged out with all its marks.
LEMMA HandlersKeepBusy ==
  ASSUME TablesHaveRows, NEW req \in Data, process_data(req),
         NEW k \in DOMAIN Chars, Chars[k].Inuse = 1
  PROVE  /\ k \in DOMAIN Chars'
         /\ Chars'[k].Inuse = 1 \/ LoggedOut(Chars[k].Name)'
PROOF
<1>1. Chars[k] \in AnyCharRow
  BY DEF TablesHaveRows
<1>2. CASE login(req) \/ create_account(req) \/ unhandled(req)
  BY <1>2 DEF login, create_account, unhandled
<1>3. CASE select_char(req)
  BY <1>1, <1>3 DEF select_char, CharOutcome, AnyCharRow
<1>4. CASE create_char(req)
  <2>1. CreateCharOutcome(req) = "NO_ERROR" => k # req.character.name
    BY DEF CreateCharOutcome
  <2> QED BY <1>4, <2>1 DEF create_char, Insert
<1>5. CASE delete_char(req)
  <2>1. CharOutcome(req) = "NO_ERROR" => k # req.character.name
    BY DEF CharOutcome
  <2> QED BY <1>5, <2>1 DEF delete_char, Delete
<1>6. CASE char_exp_up(req)
  BY <1>1, <1>6 DEF char_exp_up, AnyCharRow
<1>7. CASE logout(req)
  <2>1. /\ DOMAIN Chars' = DOMAIN Chars
        /\ \A j \in DOMAIN Chars : Chars[j].Name # req.username => Chars'[j] = Chars[j]
    BY <1>7 DEF logout
  <2>2. \A j \in DOMAIN Chars : Chars[j].Name = req.username =>
          Chars'[j].Name = req.username /\ Chars'[j].Inuse = 0
    BY <1>7 DEF logout, TablesHaveRows, AnyCharRow
  <2>3. DOMAIN User' = DOMAIN User
    BY <1>7 DEF logout
  <2>4. req.username \in DOMAIN User => User'[req.username].Inuse = 0
    BY <1>7 DEF logout, TablesHaveRows, AnyUserRow
  <2>5. CASE Chars[k].Name = req.username
    <3>1. Chars'[k].Name = req.username
      BY <2>2, <2>5
    <3>2. LoggedOut(Chars[k].Name)'
      BY <2>1, <2>2, <2>3, <2>4, <3>1 DEF LoggedOut
    <3> QED BY <2>1, <3>2
  <2>6. CASE Chars[k].Name # req.username
    BY <2>1, <2>6
  <2> QED BY <2>5, <2>6
<1> QED BY <1>2, <1>3, <1>4, <1>5, <1>6, <1>7 DEF process_data

-----------------------------------------------------------------------------
(* The action properties.                                                   *)

\* A character belongs to one account from its creation to its deletion (create_char
\* of database.c), whatever arrives.
THEOREM OwnersNeverChangeHolds == ServiceSpec => OwnersNeverChange
PROOF
<1>1. TablesHaveRows /\ [serve]_serviceVars =>
        [\A k \in DOMAIN Chars \cap DOMAIN Chars' :
           Chars'[k].Name = Chars[k].Name]_serviceVars
  BY HandlersKeepOwners, RequestSetAssumption DEF serve, serviceVars
<1> QED BY <1>1, TablesAlwaysHaveRows, PTL DEF ServiceSpec, OwnersNeverChange

\* A busy character is not deleted and stays busy until its account is logged out
\* (delete_callback, select_callback, char_exp_up, logout), whatever arrives.
THEOREM BusyCharacterIsKept == ServiceSpec => BusyCharacterKept
PROOF
<1>1. TablesHaveRows /\ [serve]_serviceVars =>
        [\A k \in DOMAIN Chars : Chars[k].Inuse = 1 =>
           /\ k \in DOMAIN Chars'
           /\ Chars'[k].Inuse = 1 \/ LoggedOut(Chars[k].Name)']_serviceVars
  BY HandlersKeepBusy, RequestSetAssumption DEF serve, serviceVars
<1> QED BY <1>1, TablesAlwaysHaveRows, PTL DEF ServiceSpec, BusyCharacterKept
=============================================================================

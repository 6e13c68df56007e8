------------------------------- MODULE Database -------------------------------
(***************************************************************************)
(* The database process: two SQLite tables and one handler per opcode.     *)
(* The process serves one connection at a time (accept, receive, process,  *)
(* send, disconnect), so a request is one step.  The handlers overwrite    *)
(* the request record with the reply: Reply(req) is that record, and       *)
(* process_data(req) the change to the tables.                             *)
(*                                                                         *)
(* A table is a function from its primary key to its rows.  sqlite3_exec   *)
(* is modelled by the result codes the code looks at.                      *)
(***************************************************************************)
EXTENDS GameTypes

VARIABLES
  User,     \* table User:  Name -> [Password, CantChar, Inuse]
  Chars     \* table Chars: Id -> [Level, TotalExp, CurrentExp, Inuse, Name]

dbVars == <<User, Chars>>

UserRow == [Password : Passwords, CantChar : Nat, Inuse : {0, 1}]

CharRow == [Level : Nat, TotalExp : Nat, CurrentExp : Nat,
            Inuse : {0, 1}, Name : Usernames]

DBTypeOK ==
  /\ DOMAIN User \subseteq Usernames
  /\ \A u \in DOMAIN User : User[u] \in UserRow
  /\ DOMAIN Chars \subseteq Names
  /\ \A k \in DOMAIN Chars : Chars[k] \in CharRow

initialize_table ==
  /\ User = [u \in {} |-> 0]
  /\ Chars = [k \in {} |-> 0]

-----------------------------------------------------------------------------
(* SQLite, as the handlers use it.                                          *)

SQLITE_OK == 0
SQLITE_ABORT == 4

\* A callback that returns non-zero makes sqlite3_exec return SQLITE_ABORT,
\* not the callback's value.
ExecRcOfCallback(value) == IF value = 0 THEN SQLITE_OK ELSE SQLITE_ABORT

Insert(table, key, row) ==
  [k \in DOMAIN table \cup {key} |-> IF k = key THEN row ELSE table[k]]

Delete(table, key) == [k \in DOMAIN table \ {key} |-> table[k]]

-----------------------------------------------------------------------------
(* Handlers.  An outcome is the reply opcode the handler settles on.         *)

\* Mutation: login_callback does not look at Inuse.
LoginOutcome_ignoresInuse(req) ==
  IF /\ req.username \in DOMAIN User
     /\ User[req.username].Password = req.password
    THEN "NO_ERROR"
    ELSE "USER_DOESNT_EXIST"

\* SELECT * FROM User WHERE name AND password, then login_callback on the row.
LoginOutcome(req) ==
  IF /\ req.username \in DOMAIN User
     /\ User[req.username].Password = req.password
    THEN IF User[req.username].Inuse = 1 THEN "USER_BUSY" ELSE "NO_ERROR"
    ELSE "USER_DOESNT_EXIST"

\* Mutation: login_callback forgets to mark the account.
login_marksNothing(req) ==
  /\ req.opcode = "LOGIN"
  /\ UNCHANGED <<User, Chars>>

login(req) ==
  /\ req.opcode = "LOGIN"
  /\ User' = IF LoginOutcome(req) = "NO_ERROR"
               THEN [User EXCEPT ![req.username].Inuse = 1]
               ELSE User
  /\ UNCHANGED Chars

CreateAccountOutcome(req) ==
  IF req.username \in DOMAIN User THEN "USER_ALREADY_EXISTS" ELSE "NO_ERROR"

NewUserRow(password) == [Password |-> password, CantChar |-> 0, Inuse |-> 0]

create_account(req) ==
  /\ req.opcode = "CREATE_ACCOUNT"
  /\ User' = IF CreateAccountOutcome(req) = "NO_ERROR"
               THEN Insert(User, req.username, NewUserRow(req.password))
               ELSE User
  /\ UNCHANGED Chars

\* rc of "SELECT * FROM User WHERE Name" whose callback returns CantChar.
CountRc(username) ==
  IF username \in DOMAIN User
    THEN ExecRcOfCallback(User[username].CantChar)
    ELSE SQLITE_OK

\* Mutation: INSERT OR REPLACE.
CreateCharOutcome_replaces(req) ==
  IF CountRc(req.username) = MAX_CHARACTERS THEN "TOO_MANY_CHARS" ELSE "NO_ERROR"

CreateCharOutcome(req) ==
  IF CountRc(req.username) = MAX_CHARACTERS THEN "TOO_MANY_CHARS"
  ELSE IF req.character.name \in DOMAIN Chars THEN "CHAR_ALREADY_EXISTS"
  ELSE "NO_ERROR"

\* The statement writes 10 for TotalExp, which is lvl1, the first level's need.
NewCharRow(username) ==
  [Level |-> 1, TotalExp |-> levelsExp[1], CurrentExp |-> 0,
   Inuse |-> 0, Name |-> username]

create_char(req) ==
  /\ req.opcode = "CREATE_CHARACTER"
  /\ IF CreateCharOutcome(req) = "NO_ERROR"
       THEN /\ Chars' = Insert(Chars, req.character.name,
                               NewCharRow(req.username))
            /\ User' = [u \in DOMAIN User |->
                          IF u = req.username
                            THEN [User[u] EXCEPT
                                   !.CantChar = CountRc(req.username) + 1]
                            ELSE User[u]]
       ELSE UNCHANGED <<User, Chars>>

\* Mutation: the callbacks do not look at Inuse.
CharOutcome_ignoresInuse(req) ==
  IF /\ req.character.name \in DOMAIN Chars
     /\ Chars[req.character.name].Name = req.username
    THEN "NO_ERROR" ELSE "CHAR_DOESNT_EXIST"

\* SELECT * FROM Chars WHERE Id AND Name, then the busy test of the callback.
CharOutcome(req) ==
  LET name == req.character.name IN
  IF name \in DOMAIN Chars /\ Chars[name].Name = req.username
    THEN IF Chars[name].Inuse = 1 THEN "CHAR_BUSY" ELSE "NO_ERROR"
    ELSE "CHAR_DOESNT_EXIST"

\* Mutation: CurrentExp is not read back.
CharacterOf_forgetsExp(name) ==
  [name |-> name, lvl |-> Chars[name].Level,
   totalExp |-> Chars[name].TotalExp, currentExp |-> 0]

CharacterOf(name) ==
  [name |-> name, lvl |-> Chars[name].Level,
   totalExp |-> Chars[name].TotalExp, currentExp |-> Chars[name].CurrentExp]

select_char(req) ==
  /\ req.opcode = "SELECT_CHARACTER"
  /\ Chars' = IF CharOutcome(req) = "NO_ERROR"
                THEN [Chars EXCEPT ![req.character.name].Inuse = 1]
                ELSE Chars
  /\ UNCHANGED User

delete_char(req) ==
  /\ req.opcode = "DELETE_CHARACTER"
  /\ Chars' = IF CharOutcome(req) = "NO_ERROR"
                THEN Delete(Chars, req.character.name)
                ELSE Chars
  /\ UNCHANGED User

logout(req) ==
  /\ req.opcode \in {"LOGOUT", "EXIT_AND_LOGOUT"}
  /\ Chars' = [k \in DOMAIN Chars |->
                 IF Chars[k].Name = req.username
                   THEN [Chars[k] EXCEPT !.Inuse = 0] ELSE Chars[k]]
  /\ User' = [u \in DOMAIN User |->
                IF u = req.username
                  THEN [User[u] EXCEPT !.Inuse = 0] ELSE User[u]]

\* UPDATE Chars ... WHERE Id: whatever row has that name, if any.
char_exp_up(req) ==
  /\ req.opcode = "EXP_UP"
  /\ Chars' = [k \in DOMAIN Chars |->
                 IF k = req.character.name
                   THEN [Chars[k] EXCEPT
                           !.Level = req.character.lvl,
                           !.TotalExp = req.character.totalExp,
                           !.CurrentExp = req.character.currentExp]
                   ELSE Chars[k]]
  /\ UNCHANGED User

-----------------------------------------------------------------------------
(* One request.                                                             *)

HandledOpcodes ==
  {"LOGIN", "CREATE_ACCOUNT", "SELECT_CHARACTER", "CREATE_CHARACTER",
   "DELETE_CHARACTER", "EXP_UP", "EXIT_AND_LOGOUT", "LOGOUT"}

\* SHOW_CHARACTER has its handler commented out; other opcodes have none.
unhandled(req) ==
  /\ req.opcode \notin HandledOpcodes
  /\ UNCHANGED <<User, Chars>>

process_data(req) ==
  \/ login(req)
  \/ create_account(req)
  \/ select_char(req)
  \/ create_char(req)
  \/ delete_char(req)
  \/ char_exp_up(req)
  \/ logout(req)
  \/ unhandled(req)

Outcome(req) ==
  CASE req.opcode = "LOGIN" -> LoginOutcome(req)
    [] req.opcode = "CREATE_ACCOUNT" -> CreateAccountOutcome(req)
    [] req.opcode = "CREATE_CHARACTER" -> CreateCharOutcome(req)
    [] req.opcode \in {"SELECT_CHARACTER", "DELETE_CHARACTER"} ->
         CharOutcome(req)
    [] req.opcode \in {"EXP_UP", "EXIT_AND_LOGOUT", "LOGOUT"} -> "NO_ERROR"
    [] OTHER -> req.opcode

\* A granted selection also brings the row's level and experience.
Reply(req) ==
  IF req.opcode = "SELECT_CHARACTER" /\ Outcome(req) = "NO_ERROR"
    THEN [req EXCEPT !.opcode = "NO_ERROR",
                     !.character = CharacterOf(req.character.name)]
    ELSE [req EXCEPT !.opcode = Outcome(req)]
=============================================================================

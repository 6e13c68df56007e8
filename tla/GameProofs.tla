------------------------------ MODULE GameProofs ------------------------------
(***************************************************************************)
(* Theorems about the running system, for every set of clients, accounts,  *)
(* passwords and names, every level table and every save interval.  They   *)
(* follow the five layers of GameInvariants: records, calls, accounts and  *)
(* the refinement of AccountLock; then characters (a client that plays one *)
(* plays a row that exists, is its account's and is marked), answers and   *)
(* experience (every call gets its own answer, saved progress never goes   *)
(* back).  Each layer has one lemma for the commands, one for the answers, *)
(* one for the start and the end of a client, one for its session and one  *)
(* for the database.                                                       *)
(***************************************************************************)
EXTENDS GameInvariants, SequenceTheorems, WellFoundedInduction, TLAPS

-----------------------------------------------------------------------------
(* The records a client sends and the database answers.                     *)

\* newData's record has the type of the records on the connections.
LEMMA NewDataIsData ==
  ASSUME NEW opcode \in Opcodes
  PROVE  newData(opcode) \in Data
BY DEF newData, Data, NoCharacter, Character

\* A record with nothing but its opcode is a request if no handler of that opcode
\* looks at a field.
LEMMA PlainRequest ==
  ASSUME NEW opcode \in {"LOGIN", "EXIT", "CONNECTION_INTERRUMPED", "OTHER"}
  PROVE  /\ newData(opcode) \in Requests
         /\ newData(opcode).opcode = opcode
BY NewDataIsData
   DEF Requests, newData, Opcodes, RequestOpcodes, AccountOpcodes, LogoutOpcodes

\* What loginC and createAccountC send is a request.
LEMMA AccountRequestIsRequest ==
  ASSUME NEW opcode \in {"LOGIN", "CREATE_ACCOUNT"},
         NEW u \in Usernames, NEW p \in Passwords
  PROVE  /\ AccountRequest(opcode, u, p) \in Requests
         /\ AccountRequest(opcode, u, p).opcode = opcode
BY DEF AccountRequest, newData, Requests, Data, NoCharacter, Character,
       Opcodes, RequestOpcodes, AccountOpcodes, LogoutOpcodes

\* What quitC and logoutC send is a request, given a name.
LEMMA UserRequestIsRequest ==
  ASSUME NEW opcode \in LogoutOpcodes, NEW u \in Usernames
  PROVE  /\ UserRequest(opcode, u) \in Requests
         /\ UserRequest(opcode, u).opcode = opcode
         /\ UserRequest(opcode, u).username = u
BY DEF UserRequest, newData, Requests, Data, NoCharacter, Character,
       Opcodes, RequestOpcodes, AccountOpcodes, LogoutOpcodes

\* What the calls about a character send is a request, given a name.
LEMMA CharacterRequestIsRequest ==
  ASSUME NEW opcode \in {"SELECT_CHARACTER", "CREATE_CHARACTER",
                         "DELETE_CHARACTER"},
         NEW u \in Usernames, NEW k \in Names
  PROVE  /\ CharacterRequest(opcode, u, k) \in Requests
         /\ CharacterRequest(opcode, u, k).opcode = opcode
         /\ CharacterRequest(opcode, u, k).username = u
BY DEF CharacterRequest, newData, Requests, Data, NoCharacter, Character,
       Opcodes, RequestOpcodes, AccountOpcodes, LogoutOpcodes

\* What expUpC sends is a request, given a name.
LEMMA SaveRequestIsRequest ==
  ASSUME NEW u \in Usernames, NEW ch \in Character
  PROVE  /\ SaveRequest(u, ch) \in Requests
         /\ SaveRequest(u, ch).opcode = "EXP_UP"
         /\ SaveRequest(u, ch).username = u
BY DEF SaveRequest, newData, Requests, Data,
       Opcodes, RequestOpcodes, AccountOpcodes, LogoutOpcodes

\* The database answers a request with a reply about an account that exists.
LEMMA ReplyIsReply ==
  ASSUME DBTypeOK, NEW req \in Requests
  PROVE  /\ Reply(req) \in Replies
         /\ Reply(req).username = req.username
         /\ Reply(req).opcode = Outcome(req)
PROOF
<1>1. Outcome(req) \in Opcodes
  BY DEF Outcome, LoginOutcome, CreateAccountOutcome, CreateCharOutcome,
         CharOutcome, Requests, Data, Opcodes, ReplyOpcodes
<1>2. Outcome(req) = "NO_ERROR" => req.username \in Usernames
  <2>1. CASE req.opcode = "LOGIN"
    BY <2>1 DEF Outcome, LoginOutcome, DBTypeOK
  <2>2. CASE req.opcode # "LOGIN"
    BY <2>2 DEF Outcome, Requests, Data, AccountOpcodes, LogoutOpcodes,
                RequestOpcodes
  <2> QED BY <2>1, <2>2
<1>3. CASE req.opcode = "SELECT_CHARACTER" /\ Outcome(req) = "NO_ERROR"
  <2>1. req.character.name \in DOMAIN Chars
    BY <1>3 DEF Outcome, CharOutcome
  <2>2. CharacterOf(req.character.name) \in Character
    BY <2>1 DEF CharacterOf, Character, DBTypeOK, CharRow
  <2> QED BY <1>1, <1>2, <1>3, <2>2 DEF Reply, Replies, Requests, Data
<1>4. CASE ~(req.opcode = "SELECT_CHARACTER" /\ Outcome(req) = "NO_ERROR")
  BY <1>1, <1>2, <1>4 DEF Reply, Replies, Requests, Data
<1> QED BY <1>3, <1>4

\* A point leaves a character well-typed, at the level cap too.
LEMMA AfterPointIsCharacter ==
  ASSUME NEW ch \in Character
  PROVE  AfterPoint(ch) \in Character
PROOF
<1>1. CASE ch.currentExp = ch.totalExp /\ ch.lvl < LEVEL_MAX
  <2>1. ch.lvl \in Nat /\ ch.lvl + 1 \in 1..LEVEL_MAX
    BY <1>1, GameAssumption DEF Character
  <2>2. levelsExp[ch.lvl + 1] \in Nat
    BY <2>1, GameAssumption
  <2> QED BY <1>1, <2>1, <2>2 DEF AfterPoint, LevelUp, Character
<1>2. CASE ~(ch.currentExp = ch.totalExp /\ ch.lvl < LEVEL_MAX)
  BY <1>2 DEF AfterPoint, Character
<1> QED BY <1>1, <1>2

-----------------------------------------------------------------------------
(* A channel for each client: sending to one, and reading from one.         *)

\* Sending to one client keeps every channel typed.
LEMMA ChannelAppend ==
  ASSUME NEW S, NEW C, NEW f \in [C -> Seq(S)], NEW c \in C, NEW e \in S
  PROVE  [f EXCEPT ![c] = Append(@, e)] \in [C -> Seq(S)]
OBVIOUS

\* Reading from one client's channel keeps every channel typed.
LEMMA ChannelTail ==
  ASSUME NEW S, NEW C, NEW f \in [C -> Seq(S)], NEW c \in C, f[c] # << >>
  PROVE  /\ Head(f[c]) \in S
         /\ [f EXCEPT ![c] = Tail(@)] \in [C -> Seq(S)]
OBVIOUS

-----------------------------------------------------------------------------
(* The database's tables stay well-typed.                                   *)

\* Handling a request keeps both tables well-typed.
LEMMA TablesWellTyped ==
  ASSUME DBTypeOK, NEW req \in Requests, process_data(req)
  PROVE  DBTypeOK'
PROOF
<1>1. CASE login(req)
  BY <1>1 DEF login, DBTypeOK, UserRow, LoginOutcome
<1>2. CASE create_account(req)
  <2>1. req.username \in Usernames /\ req.password \in Passwords
    BY <1>2 DEF create_account, Requests
  <2> QED BY <1>2, <2>1
          DEF create_account, DBTypeOK, UserRow, NewUserRow, Insert
<1>3. CASE select_char(req)
  BY <1>3 DEF select_char, DBTypeOK, CharRow, CharOutcome
<1>4. CASE create_char(req)
  <2>1. req.username \in Usernames /\ req.character.name \in Names
    BY <1>4 DEF create_char, Requests, AccountOpcodes
  <2>2. CountRc(req.username) \in Nat
    BY DEF CountRc, ExecRcOfCallback, SQLITE_OK, SQLITE_ABORT
  <2>3. NewCharRow(req.username) \in CharRow
    BY <2>1, GameAssumption DEF NewCharRow, CharRow
  <2>4. DOMAIN Chars' \subseteq Names /\ \A k \in DOMAIN Chars' : Chars'[k] \in CharRow
    BY <1>4, <2>1, <2>3 DEF create_char, DBTypeOK, Insert
  <2>5. DOMAIN User' \subseteq Usernames /\ \A u \in DOMAIN User' : User'[u] \in UserRow
    BY <1>4, <2>2 DEF create_char, DBTypeOK, UserRow
  <2> QED BY <2>4, <2>5 DEF DBTypeOK
<1>5. CASE delete_char(req)
  BY <1>5 DEF delete_char, DBTypeOK, Delete
<1>6. CASE char_exp_up(req)
  <2>1. req.character \in Character
    BY DEF Requests, Data
  <2>2. UNCHANGED User /\ DOMAIN Chars' = DOMAIN Chars
    BY <1>6 DEF char_exp_up
  <2>3. \A k \in DOMAIN Chars : Chars'[k] \in CharRow
    BY <1>6, <2>1 DEF char_exp_up, DBTypeOK, CharRow, Character
  <2> QED BY <2>2, <2>3 DEF DBTypeOK
<1>7. CASE logout(req)
  BY <1>7 DEF logout, DBTypeOK, UserRow, CharRow
<1>8. CASE unhandled(req)
  BY <1>8 DEF unhandled, DBTypeOK
<1> QED BY <1>1, <1>2, <1>3, <1>4, <1>5, <1>6, <1>7, <1>8 DEF process_data

-----------------------------------------------------------------------------
(* Layer 1: TypeInvariant.                                                  *)

\* TypeOK repeats what RecordsWellFormed says of the records.
ControlOK ==
  /\ cpc \in [Clients -> ClientPC]
  /\ session_state \in [Clients -> GameStates]
  /\ username \in [Clients -> Usernames \cup {NoUser}]
  /\ character \in [Clients -> Character]
  /\ counter \in [Clients -> 0..LIMIT_TOSAVE]
  /\ spc \in [Clients -> SessionPC]

\* TypeInvariant follows from the parts that the steps below establish.
LEMMA TypeInvariantParts ==
  (DBTypeOK /\ ControlOK /\ RecordsWellFormed) <=> TypeInvariant
PROOF
<1>1. Requests \subseteq Data /\ Replies \subseteq Data
  BY DEF Requests, Replies
<1>2. ASSUME NEW S, NEW T, S \subseteq T, NEW f \in [Clients -> Seq(S)]
      PROVE  f \in [Clients -> Seq(T)]
  BY <1>2
<1>3. RecordsWellFormed =>
        /\ c2s \in [Clients -> Seq(Data)]
        /\ s2c \in [Clients -> Seq(Data)]
        /\ data_from_client \in [Clients -> Data \cup {NULL}]
        /\ data_to_client \in [Clients -> Data \cup {NULL}]
  BY <1>1, <1>2 DEF RecordsWellFormed
<1> QED BY <1>3 DEF TypeInvariant, TypeOK, ControlOK

\* The initial state is well-typed.
LEMMA TypeInit == Init => TypeInvariant
PROOF
<1> SUFFICES ASSUME Init PROVE TypeInvariant
  OBVIOUS
<1>1. DBTypeOK
  BY DEF Init, initialize_table, DBTypeOK
<1>2. ControlOK
  BY GameAssumption DEF Init, ControlOK, ClientPC, GameStates, SessionPC,
     Character, NoCharacter
<1>3. RecordsWellFormed
  BY DEF Init, RecordsWellFormed, LoggedStates, AccountCalls, Calls
<1> QED BY <1>1, <1>2, <1>3, TypeInvariantParts

\* What a call, a read reply and an end of the client leave well-typed.
LEMMA CallKeepsTypes ==
  ASSUME TypeInvariant, NEW c \in Clients, NEW call \in ClientPC,
         NEW m \in Requests, Call(c, call, m),
         call \in AccountCalls => username[c] \in Usernames,
         session_state' \in [Clients -> GameStates], UNCHANGED username,
         \A d \in Clients :
           session_state'[d] \in LoggedStates => session_state[d] \in LoggedStates,
         character' \in [Clients -> Character],
         counter' \in [Clients -> 0..LIMIT_TOSAVE]
  PROVE  TypeInvariant'
PROOF
<1>1. DBTypeOK /\ ControlOK /\ RecordsWellFormed
  BY TypeInvariantParts
<1>2. DBTypeOK'
  BY <1>1 DEF Call, dbVars, DBTypeOK
<1>3. ControlOK'
  BY <1>1 DEF Call, ControlOK, serverVars
<1>4. RecordsWellFormed'
  BY <1>1 DEF Call, RecordsWellFormed, ControlOK, serverVars
<1> QED BY <1>2, <1>3, <1>4, TypeInvariantParts, PTL

\* Every command of the client keeps the types.
LEMMA CommandTypes ==
  ASSUME TypeInvariant, NEW c \in Clients, Command(c)
  PROVE  TypeInvariant'
PROOF
<1>1. DBTypeOK /\ ControlOK /\ RecordsWellFormed
  BY TypeInvariantParts
<1>2. Calls \cup {"leaving", "prompt"} \subseteq ClientPC
  BY DEF ClientPC
<1>3. session_state[c] \in LoggedStates => username[c] \in Usernames
  BY <1>1 DEF RecordsWellFormed
<1>4. CASE login_command(c)
  <2>1. PICK u \in Usernames, p \in Passwords :
          Call(c, "login", AccountRequest("LOGIN", u, p))
    BY <1>4 DEF login_command
  <2> QED
    BY <1>1, <1>2, <1>4, <2>1, AccountRequestIsRequest, CallKeepsTypes
       DEF login_command, ControlOK, AccountCalls, Calls
<1>5. CASE createAccount_command(c)
  <2>1. PICK u \in Usernames, p \in Passwords :
          Call(c, "createaccount", AccountRequest("CREATE_ACCOUNT", u, p))
    BY <1>5 DEF createAccount_command
  <2> QED
    BY <1>1, <1>2, <1>5, <2>1, AccountRequestIsRequest, CallKeepsTypes
       DEF createAccount_command, ControlOK, AccountCalls, Calls
<1>6. ASSUME NEW call \in {"selectchar", "createchar", "deletechar"},
             NEW opcode \in {"SELECT_CHARACTER", "CREATE_CHARACTER",
                             "DELETE_CHARACTER"},
             CharacterCommand(c, call, opcode)
      PROVE  TypeInvariant'
  <2>1. PICK k \in Names :
          Call(c, call, CharacterRequest(opcode, username[c], k))
    BY <1>6 DEF CharacterCommand
  <2>2. username[c] \in Usernames
    BY <1>3, <1>6 DEF CharacterCommand, CommandAllowed, LoggedStates
  <2>3. CharacterRequest(opcode, username[c], k) \in Requests
    BY <2>2, CharacterRequestIsRequest
  <2>4. call \in ClientPC
    BY <1>2 DEF Calls
  <2> QED
    BY <1>1, <1>6, <2>1, <2>2, <2>3, <2>4, CallKeepsTypes
       DEF CharacterCommand, ControlOK
<1>7. CASE selectCharacter_command(c)
  BY <1>6, <1>7 DEF selectCharacter_command
<1>8. CASE createCharacter_command(c)
  BY <1>6, <1>8 DEF createCharacter_command
<1>9. CASE deleteCharacter_command(c)
  BY <1>6, <1>9 DEF deleteCharacter_command
<1>10. CASE point(c)
  <2>1. username[c] \in Usernames
    BY <1>3, <1>10 DEF point, CommandAllowed, LoggedStates
  <2>2. AfterPoint(character[c]) \in Character
    BY <1>1, AfterPointIsCharacter DEF ControlOK
  <2>3. character' \in [Clients -> Character]
    BY <1>1, <1>10, <2>2 DEF point, ControlOK
  <2>4. CASE /\ UNCHANGED <<cpc, c2s, s2c, serverVars, dbVars>>
             /\ \/ UNCHANGED counter
                \/ /\ counter[c] # LIMIT_TOSAVE
                   /\ counter' = [counter EXCEPT ![c] = @ + 1]
    <3>1. counter' \in [Clients -> 0..LIMIT_TOSAVE]
      <4>1. counter[c] # LIMIT_TOSAVE => counter[c] + 1 \in 0..LIMIT_TOSAVE
        BY <1>1, GameAssumption DEF ControlOK
      <4> QED BY <1>1, <2>4, <4>1 DEF ControlOK
    <3>2. DBTypeOK'
      BY <1>1, <2>4 DEF DBTypeOK, dbVars
    <3>3. ControlOK'
      BY <1>1, <1>10, <2>3, <2>4, <3>1 DEF point, ControlOK, serverVars
    <3>4. RecordsWellFormed'
      BY <1>1, <1>10, <2>4 DEF point, RecordsWellFormed, serverVars
    <3> QED BY <3>2, <3>3, <3>4, TypeInvariantParts, PTL
  <2>5. CASE /\ counter' = [counter EXCEPT ![c] = 0]
             /\ Call(c, "p", SaveRequest(username[c], AfterPoint(character[c])))
    <3>1. counter' \in [Clients -> 0..LIMIT_TOSAVE]
      BY <1>1, <2>5, GameAssumption DEF ControlOK
    <3> QED
      BY <1>1, <1>2, <1>10, <2>1, <2>2, <2>3, <2>5, <3>1,
         SaveRequestIsRequest, CallKeepsTypes
         DEF point, ControlOK, AccountCalls, Calls
  <2> QED BY <1>10, <2>4, <2>5 DEF point
<1>11. CASE quit(c)
  <2>1. CASE /\ Call(c, "leaving", newData("EXIT"))
             /\ session_state' = [session_state EXCEPT ![c] = "EXIT_GAME"]
    <3>1. session_state' \in [Clients -> GameStates]
      BY <1>1, <2>1 DEF ControlOK, GameStates
    <3>2. \A d \in Clients :
            session_state'[d] \in LoggedStates => session_state[d] \in LoggedStates
      BY <1>1, <2>1 DEF ControlOK, LoggedStates
    <3>3. newData("EXIT") \in Requests /\ "leaving" \notin AccountCalls
      BY PlainRequest DEF AccountCalls, Calls
    <3> QED
      BY <1>1, <1>2, <1>11, <2>1, <3>1, <3>2, <3>3, CallKeepsTypes
         DEF quit, ControlOK
  <2>2. CASE /\ CommandAllowed(c, {"CHAR_SELECTION"})
             /\ Call(c, "quit", UserRequest("EXIT_AND_LOGOUT", username[c]))
             /\ UNCHANGED session_state
    <3>1. /\ username[c] \in Usernames
          /\ UserRequest("EXIT_AND_LOGOUT", username[c]) \in Requests
      BY <1>3, <2>2, UserRequestIsRequest
         DEF CommandAllowed, LoggedStates, LogoutOpcodes
    <3> QED
      BY <1>1, <1>2, <1>11, <2>2, <3>1, CallKeepsTypes DEF quit, ControlOK, AccountCalls, Calls
  <2>3. CASE /\ CommandAllowed(c, {"PLAY_GAME"})
             /\ Call(c, "quit_save", SaveRequest(username[c], character[c]))
             /\ UNCHANGED session_state
    <3>1. /\ username[c] \in Usernames
          /\ SaveRequest(username[c], character[c]) \in Requests
      BY <1>1, <1>3, <2>3, SaveRequestIsRequest
         DEF CommandAllowed, LoggedStates, ControlOK
    <3> QED
      BY <1>1, <1>2, <1>11, <2>3, <3>1, CallKeepsTypes DEF quit, ControlOK, AccountCalls, Calls
  <2> QED BY <1>11, <2>1, <2>2, <2>3 DEF quit
<1>12. CASE logOut(c)
  <2>1. CASE /\ CommandAllowed(c, {"CHAR_SELECTION"})
             /\ Call(c, "logout", UserRequest("LOGOUT", username[c]))
    <3>1. /\ username[c] \in Usernames
          /\ UserRequest("LOGOUT", username[c]) \in Requests
      BY <1>3, <2>1, UserRequestIsRequest
         DEF CommandAllowed, LoggedStates, LogoutOpcodes
    <3> QED
      BY <1>1, <1>2, <1>12, <2>1, <3>1, CallKeepsTypes
         DEF logOut, ControlOK, AccountCalls, Calls
  <2>2. CASE /\ CommandAllowed(c, {"PLAY_GAME"})
             /\ Call(c, "logout_save", SaveRequest(username[c], character[c]))
    <3>1. /\ username[c] \in Usernames
          /\ SaveRequest(username[c], character[c]) \in Requests
      BY <1>1, <1>3, <2>2, SaveRequestIsRequest
         DEF CommandAllowed, LoggedStates, ControlOK
    <3> QED
      BY <1>1, <1>2, <1>12, <2>2, <3>1, CallKeepsTypes
         DEF logOut, ControlOK, AccountCalls, Calls
  <2> QED BY <1>12, <2>1, <2>2 DEF logOut
<1> QED
  BY <1>4, <1>5, <1>7, <1>8, <1>9, <1>10, <1>11, <1>12 DEF Command

\* Every answer the client handles keeps the types.
LEMMA HandleReplyTypes ==
  ASSUME TypeInvariant, NEW c \in Clients, HandleReply(c)
  PROVE  TypeInvariant'
PROOF
<1>1. DBTypeOK /\ ControlOK /\ RecordsWellFormed
  BY TypeInvariantParts
<1>2. PICK next \in ClientPC : Receive(c, next)
  BY DEF HandleReply, login_reply, selectCharacter_reply, report_reply,
         save_reply, quit_reply, logout_reply, ClientPC, Calls
<1>3. s2c[c] # << >> /\ Head(s2c[c]) \in Replies
  BY <1>1 DEF HandleReply, login_reply, selectCharacter_reply, report_reply,
     save_reply, quit_reply, logout_reply, Answered, RecordsWellFormed
<1>4. /\ s2c' \in [Clients -> Seq(Replies)]
      /\ cpc' \in [Clients -> ClientPC]
      /\ UNCHANGED <<spc, data_from_client, data_to_client, User, Chars>>
  BY <1>1, <1>2, <1>3
     DEF Receive, RecordsWellFormed, ControlOK, serverVars, dbVars
<1>5. DBTypeOK'
  BY <1>1, <1>4 DEF DBTypeOK
<1>6. c2s' \in [Clients -> Seq(Requests)]
  <2>1. CASE UNCHANGED c2s
    BY <1>1, <2>1 DEF RecordsWellFormed
  <2>2. CASE save_reply(c)
    <3>1. username[c] \in Usernames
      BY <1>1, <2>2 DEF RecordsWellFormed, save_reply, Answered, AccountCalls, Calls
    <3>2. PICK opcode \in LogoutOpcodes :
            c2s' = [c2s EXCEPT ![c] =
                      Append(@, UserRequest(opcode, username[c]))]
      BY <2>2 DEF save_reply, LogoutOpcodes
    <3>3. UserRequest(opcode, username[c]) \in Requests
      BY <3>1, UserRequestIsRequest
    <3> QED BY <1>1, <3>2, <3>3, ChannelAppend DEF RecordsWellFormed
  <2> QED
    BY <2>1, <2>2 DEF HandleReply, login_reply, selectCharacter_reply,
       report_reply, quit_reply, logout_reply
<1>7. ControlOK'
  <2>1. Head(s2c[c]).character \in Character
    BY <1>3 DEF Replies, Data
  <2>2. character' \in [Clients -> Character]
    BY <1>1, <2>1 DEF ControlOK, HandleReply, login_reply,
       selectCharacter_reply, report_reply, save_reply, quit_reply, logout_reply
  <2>3. username' \in [Clients -> Usernames \cup {NoUser}]
    BY <1>1, <1>3 DEF ControlOK, HandleReply, login_reply, Replies, Data,
       selectCharacter_reply, report_reply, save_reply, quit_reply, logout_reply
  <2>4. session_state' \in [Clients -> GameStates]
    BY <1>1 DEF ControlOK, HandleReply, login_reply, GameStates,
       selectCharacter_reply, report_reply, save_reply, quit_reply, logout_reply
  <2>5. UNCHANGED counter
    BY DEF HandleReply, login_reply,
       selectCharacter_reply, report_reply, save_reply, quit_reply, logout_reply
  <2> QED BY <1>1, <1>4, <2>2, <2>3, <2>4, <2>5 DEF ControlOK
<1>8. ASSUME NEW d \in Clients,
             \/ session_state'[d] \in LoggedStates
             \/ cpc'[d] \in AccountCalls
      PROVE  username'[d] \in Usernames
  <2>1. CASE d # c
    BY <1>1, <1>2, <1>8, <2>1 DEF Receive, RecordsWellFormed, ControlOK,
       HandleReply, login_reply,
       selectCharacter_reply, report_reply, save_reply, quit_reply, logout_reply
  <2>2. CASE d = c /\ login_reply(c)
    BY <1>1, <1>3, <1>8, <2>2
       DEF login_reply, Answered, Receive, RecordsWellFormed, ControlOK,
           Replies, AccountCalls, Calls
  <2>3. CASE d = c /\ selectCharacter_reply(c)
    BY <1>1, <2>3
       DEF selectCharacter_reply, Answered, RecordsWellFormed, AccountCalls, Calls
  <2>4. CASE d = c /\ report_reply(c)
    BY <1>1, <1>8, <2>4
       DEF report_reply, Receive, RecordsWellFormed, ControlOK, AccountCalls, Calls
  <2>5. CASE d = c /\ save_reply(c)
    BY <1>1, <2>5 DEF save_reply, Answered, RecordsWellFormed, AccountCalls, Calls
  <2>6. CASE d = c /\ (quit_reply(c) \/ logout_reply(c))
    BY <1>1, <1>8, <2>6
       DEF quit_reply, logout_reply, Receive, RecordsWellFormed, ControlOK,
           AccountCalls, Calls, LoggedStates
  <2> QED BY <2>1, <2>2, <2>3, <2>4, <2>5, <2>6 DEF HandleReply
<1>9. RecordsWellFormed'
  BY <1>1, <1>4, <1>6, <1>8 DEF RecordsWellFormed
<1> QED BY <1>5, <1>7, <1>9, TypeInvariantParts, PTL

\* Starting a client process, and the three ways it ends.
LEMMA ProcessTypes ==
  ASSUME TypeInvariant, NEW c \in Clients,
         \/ comm_connect(c) \/ disconnect(c)
         \/ clt_sigRutine(c) \/ connection_lost(c)
  PROVE  TypeInvariant'
PROOF
<1>1. DBTypeOK /\ ControlOK /\ RecordsWellFormed
  BY TypeInvariantParts
<1>2. CASE comm_connect(c)
  <2>1. DBTypeOK'
    BY <1>1, <1>2 DEF comm_connect, DBTypeOK, dbVars
  <2>2. ControlOK'
    BY <1>1, <1>2 DEF comm_connect, ControlOK, ClientPC, SessionPC
  <2>3. RecordsWellFormed'
    BY <1>1, <1>2 DEF comm_connect, ControlOK, RecordsWellFormed, AccountCalls, Calls
  <2> QED BY <2>1, <2>2, <2>3, TypeInvariantParts, PTL
<1>3. CASE disconnect(c) \/ clt_sigRutine(c) \/ connection_lost(c)
  <2>1. Terminate(c)
    BY <1>3 DEF disconnect, clt_sigRutine, connection_lost
  <2>2. c2s' \in [Clients -> Seq(Requests)]
    <3>1. newData("CONNECTION_INTERRUMPED") \in Requests
      BY PlainRequest
    <3>2. CASE clt_sigRutine(c)
      BY <1>1, <3>1, <3>2, ChannelAppend DEF clt_sigRutine, RecordsWellFormed
    <3>3. CASE UNCHANGED c2s
      BY <1>1, <3>3 DEF RecordsWellFormed
    <3> QED BY <1>3, <3>2, <3>3 DEF disconnect, connection_lost
  <2>3. DBTypeOK'
    BY <1>1, <2>1 DEF Terminate, DBTypeOK, dbVars
  <2>4. ControlOK'
    BY <1>1, <2>1, GameAssumption
       DEF Terminate, ControlOK, ClientPC, GameStates, Character, NoCharacter,
           serverVars
  <2>5. RecordsWellFormed'
    BY <1>1, <2>1, <2>2
       DEF Terminate, RecordsWellFormed, ControlOK, AccountCalls, Calls,
           LoggedStates, serverVars
  <2> QED BY <2>3, <2>4, <2>5, TypeInvariantParts, PTL
<1> QED BY <1>2, <1>3

\* Every step of a session keeps the types.
LEMMA SessionTypes ==
  ASSUME TypeInvariant, NEW s \in Clients, Session(s) \/ connect_collision(s)
  PROVE  TypeInvariant'
PROOF
<1>1. DBTypeOK /\ ControlOK /\ RecordsWellFormed
  BY TypeInvariantParts
<1>2. ASSUME NEW next \in SessionPC, Goto(s, next),
             data_from_client' \in [Clients -> Requests \cup {NULL}],
             \A d \in Clients :
               spc'[d] \in {"process", "db", "send"} => data_from_client'[d] # NULL,
             c2s' \in [Clients -> Seq(Requests)],
             s2c' \in [Clients -> Seq(Replies)]
      PROVE  TypeInvariant'
  <2>1. DBTypeOK'
    BY <1>1, <1>2 DEF Goto, DBTypeOK, dbVars
  <2>2. ControlOK'
    BY <1>1, <1>2 DEF Goto, ControlOK, clientVars
  <2>3. RecordsWellFormed'
    BY <1>1, <1>2 DEF Goto, RecordsWellFormed, clientVars
  <2> QED BY <2>1, <2>2, <2>3, TypeInvariantParts, PTL
<1>3. CASE accept(s)
  <2>1. Goto(s, "recv") /\ UNCHANGED <<data_from_client, c2s, s2c>>
    BY <1>3 DEF accept
  <2>2. \A d \in Clients :
          spc'[d] \in {"process", "db", "send"} => data_from_client'[d] # NULL
    BY <1>1, <2>1 DEF Goto, ControlOK, RecordsWellFormed
  <2> QED BY <1>1, <1>2, <2>1, <2>2 DEF RecordsWellFormed, SessionPC
<1>4. CASE receiveData(s)
  <2>1. PICK next \in {"process", "sigsegv"} : Goto(s, next)
    BY <1>4 DEF receiveData
  <2>2. c2s' \in [Clients -> Seq(Requests)]
    <3>1. CASE c2s[s] # << >> /\ c2s' = [c2s EXCEPT ![s] = Tail(@)]
      BY <1>1, <3>1, ChannelTail DEF RecordsWellFormed
    <3>2. CASE UNCHANGED c2s
      BY <1>1, <3>2 DEF RecordsWellFormed
    <3> QED BY <1>4, <3>1, <3>2 DEF receiveData
  <2>3. Garbage \subseteq Requests
    BY PlainRequest DEF Garbage
  <2>4. /\ data_from_client' \in [Clients -> Requests \cup {NULL}]
        /\ \A d \in Clients \ {s} : data_from_client'[d] = data_from_client[d]
    <3>1. ASSUME NEW d \in Requests,
                 data_from_client' = [data_from_client EXCEPT ![s] = d]
          PROVE  <2>4!1 /\ <2>4!2
      BY <1>1, <3>1 DEF RecordsWellFormed
    <3>2. CASE c2s[s] # << >>
      BY <1>1, <1>4, <3>1, <3>2, ChannelTail DEF receiveData, RecordsWellFormed
    <3>3. CASE UNCHANGED data_from_client
      BY <1>1, <3>3 DEF RecordsWellFormed
    <3> QED BY <1>4, <2>3, <3>1, <3>2, <3>3 DEF receiveData
  <2>5. spc'[s] = "process" => data_from_client'[s] \in Requests
    BY <1>1, <1>4, <2>3 DEF receiveData, RecordsWellFormed, Goto, ControlOK
  <2>6. NULL \notin Requests
    BY NullAssumption DEF Requests
  <2>7. \A d \in Clients :
          spc'[d] \in {"process", "db", "send"} => data_from_client'[d] # NULL
    BY <1>1, <2>1, <2>4, <2>5, <2>6 DEF Goto, ControlOK, RecordsWellFormed
  <2> QED
    BY <1>1, <1>2, <1>4, <2>1, <2>2, <2>4, <2>7
       DEF RecordsWellFormed, SessionPC, receiveData
<1>5. CASE server_process_data(s)
  <2>1. PICK next \in {"db", "sigsegv", "exit", "send"} : Goto(s, next)
    BY <1>5 DEF server_process_data, NextStep
  <2>2. UNCHANGED <<data_from_client, c2s, s2c>> /\ data_from_client[s] # NULL
    BY <1>1, <1>5 DEF server_process_data, RecordsWellFormed
  <2>3. \A d \in Clients :
          spc'[d] \in {"process", "db", "send"} => data_from_client'[d] # NULL
    BY <1>1, <2>1, <2>2 DEF Goto, ControlOK, RecordsWellFormed
  <2> QED BY <1>1, <1>2, <2>1, <2>2, <2>3 DEF RecordsWellFormed, SessionPC
<1>6. CASE communicate_with_database(s)
  <2>1. data_from_client[s] \in Requests
    BY <1>1, <1>6 DEF communicate_with_database, RecordsWellFormed
  <2>2. DBTypeOK'
    BY <1>1, <1>6, <2>1, TablesWellTyped DEF communicate_with_database
  <2>3. Reply(data_from_client[s]) \in Replies
    BY <1>1, <2>1, ReplyIsReply
  <2>4. ControlOK'
    BY <1>1, <1>6 DEF communicate_with_database, ControlOK, SessionPC, clientVars
  <2>5. RecordsWellFormed'
    BY <1>1, <1>6, <2>3
       DEF communicate_with_database, ControlOK, RecordsWellFormed, clientVars
  <2> QED BY <2>2, <2>4, <2>5, TypeInvariantParts, PTL
<1>7. CASE sendData(s)
  <2>1. PICK next \in {AfterSend(s)} :
          /\ Goto(s, next)
          /\ s2c' = IF next \in {"closed", "recv"}
                      THEN [s2c EXCEPT ![s] = Append(@, data_to_client[s])]
                      ELSE s2c
    BY <1>7 DEF sendData
  <2>5. next \in {"sigsegv", "sigpipe", "closed", "recv"}
    BY DEF AfterSend
  <2>2. s2c' \in [Clients -> Seq(Replies)]
    <3>1. CASE UNCHANGED s2c
      BY <1>1, <3>1 DEF RecordsWellFormed
    <3>2. CASE /\ next \in {"closed", "recv"}
               /\ s2c' = [s2c EXCEPT ![s] = Append(@, data_to_client[s])]
      <4>1. data_to_client[s] # NULL
        BY <3>2 DEF AfterSend
      <4>2. data_to_client[s] \in Replies
        BY <1>1, <4>1 DEF RecordsWellFormed
      <4> QED BY <1>1, <3>2, <4>2, ChannelAppend DEF RecordsWellFormed
    <3> QED BY <2>1, <3>1, <3>2
  <2>3. data_from_client' \in [Clients -> Requests \cup {NULL}]
    BY <1>1, <1>7 DEF sendData, RecordsWellFormed
  <2>4. \A d \in Clients :
          spc'[d] \in {"process", "db", "send"} => data_from_client'[d] # NULL
    BY <1>1, <1>7, <2>1, <2>5 DEF sendData, Goto, ControlOK, RecordsWellFormed
  <2> QED
    BY <1>1, <1>2, <1>7, <2>1, <2>2, <2>3, <2>4, <2>5
       DEF RecordsWellFormed, SessionPC, sendData
<1>8. CASE connect_collision(s)
  <2>1. PICK end \in {"blocked", "collided"} : Goto(s, end)
    BY <1>8 DEF connect_collision
  <2>2. UNCHANGED <<data_from_client, c2s, s2c>>
    BY <1>8 DEF connect_collision
  <2>3. \A d \in Clients :
          spc'[d] \in {"process", "db", "send"} => data_from_client'[d] # NULL
    BY <1>1, <2>1, <2>2 DEF Goto, ControlOK, RecordsWellFormed
  <2> QED BY <1>1, <1>2, <2>1, <2>2, <2>3 DEF RecordsWellFormed, SessionPC
<1> QED BY <1>3, <1>4, <1>5, <1>6, <1>7, <1>8 DEF Session

\* Every step keeps the types.
LEMMA TypeStep == TypeInvariant /\ [Next]_vars => TypeInvariant'
PROOF
<1> SUFFICES ASSUME TypeInvariant, [Next]_vars PROVE TypeInvariant'
  OBVIOUS
<1>1. CASE UNCHANGED vars
  BY <1>1 DEF vars, clientVars, serverVars, dbVars, TypeInvariant, TypeOK,
     DBTypeOK, RecordsWellFormed
<1>2. CASE Next
  BY <1>2, CommandTypes, HandleReplyTypes, ProcessTypes, SessionTypes DEF Next
<1> QED BY <1>1, <1>2

\* The strengthened type invariant holds in every reachable state.
THEOREM TypeInvariantHolds == Spec => []TypeInvariant
BY TypeInit, TypeStep, PTL DEF Spec

\* Every variable keeps its type: in particular no request ever carries an
\* account, password or name field nobody wrote into a table, and no session
\* handles a request it has not got.
THEOREM TypeCorrect == Spec => []TypeOK
BY TypeInvariantHolds, PTL DEF TypeInvariant

-----------------------------------------------------------------------------
(* Every action is about one client and its session.                        *)

UnchangedOthers(c) ==
  \A d \in Clients \ {c} :
    /\ cpc'[d] = cpc[d]
    /\ session_state'[d] = session_state[d]
    /\ username'[d] = username[d]
    /\ character'[d] = character[d]
    /\ counter'[d] = counter[d]
    /\ spc'[d] = spc[d]
    /\ data_from_client'[d] = data_from_client[d]
    /\ data_to_client'[d] = data_to_client[d]
    /\ c2s'[d] = c2s[d]
    /\ s2c'[d] = s2c[d]

Step(c) ==
  \/ comm_connect(c) \/ Command(c) \/ HandleReply(c) \/ disconnect(c)
  \/ clt_sigRutine(c) \/ connection_lost(c) \/ Session(c) \/ connect_collision(c)

\* A step of one client or of its session leaves every other client and session, and
\* their channels, as they are.
LEMMA StepIsLocal ==
  ASSUME TypeInvariant, NEW c \in Clients, Step(c)
  PROVE  UnchangedOthers(c)
PROOF
<1>1. ControlOK /\ RecordsWellFormed
  BY TypeInvariantParts
<1>2. CASE comm_connect(c)
  BY <1>1, <1>2 DEF comm_connect, UnchangedOthers, ControlOK
<1>3. CASE login_command(c) \/ createAccount_command(c)
  BY <1>1, <1>3 DEF login_command, createAccount_command, Call, serverVars,
     UnchangedOthers, ControlOK, RecordsWellFormed
<1>4. CASE \/ selectCharacter_command(c) \/ createCharacter_command(c)
           \/ deleteCharacter_command(c)
  BY <1>1, <1>4 DEF selectCharacter_command, createCharacter_command,
     deleteCharacter_command, CharacterCommand, Call, serverVars,
     UnchangedOthers, ControlOK, RecordsWellFormed
<1>5. CASE point(c)
  BY <1>1, <1>5 DEF point, Call, serverVars,
     UnchangedOthers, ControlOK, RecordsWellFormed
<1>6. CASE quit(c) \/ logOut(c)
  BY <1>1, <1>6 DEF quit, logOut, Call, serverVars,
     UnchangedOthers, ControlOK, RecordsWellFormed
<1>7. CASE login_reply(c) \/ selectCharacter_reply(c) \/ report_reply(c)
  BY <1>1, <1>7 DEF login_reply, selectCharacter_reply, report_reply,
     Receive, serverVars, UnchangedOthers, ControlOK, RecordsWellFormed
<1>8. CASE save_reply(c) \/ quit_reply(c) \/ logout_reply(c)
  BY <1>1, <1>8 DEF save_reply, quit_reply, logout_reply,
     Receive, serverVars, UnchangedOthers, ControlOK, RecordsWellFormed
<1>9. CASE disconnect(c) \/ clt_sigRutine(c) \/ connection_lost(c)
  BY <1>1, <1>9 DEF disconnect, clt_sigRutine, connection_lost, Terminate,
     serverVars, UnchangedOthers, ControlOK, RecordsWellFormed
<1>10. CASE accept(c) \/ server_process_data(c) \/ connect_collision(c)
  BY <1>1, <1>10 DEF accept, server_process_data, connect_collision, Goto,
     clientVars, UnchangedOthers, ControlOK, RecordsWellFormed
<1>11. CASE receiveData(c)
  BY <1>1, <1>11 DEF receiveData, Goto,
     clientVars, UnchangedOthers, ControlOK, RecordsWellFormed
<1>12. CASE communicate_with_database(c) \/ sendData(c)
  BY <1>1, <1>12 DEF communicate_with_database, sendData, Goto,
     clientVars, UnchangedOthers, ControlOK, RecordsWellFormed
<1> QED
  BY <1>2, <1>3, <1>4, <1>5, <1>6, <1>7, <1>8, <1>9, <1>10, <1>11, <1>12
     DEF Step, Command, HandleReply, Session

\* The next-state relation is a step of some client or of its session.
LEMMA NextIsStep == Next <=> \E c \in Clients : Step(c)
BY DEF Next, Step

-----------------------------------------------------------------------------
(* Layer 2: CallInvariant.                                                  *)

\* The clients that a step is not about keep their call.
LEMMA OthersKeepCallInvariant ==
  ASSUME NEW c \in Clients, NEW d \in Clients \ {c}, UnchangedOthers(c),
         CallDiscipline(d), StateFollowsCall(d)
  PROVE  CallDiscipline(d)' /\ StateFollowsCall(d)'
PROOF
<1>1. CallDiscipline(d)'
  BY DEF UnchangedOthers, CallDiscipline, Idle, Asked, InService, Replied, Matches
<1>2. StateFollowsCall(d)'
  BY DEF UnchangedOthers, StateFollowsCall
<1> QED BY <1>1, <1>2

\* A call made at the prompt.
LEMMA CallIsAsked ==
  ASSUME TypeInvariant, NEW c \in Clients, CallDiscipline(c), StateFollowsCall(c),
         cpc[c] = "prompt", NEW call \in Calls, NEW m \in Requests,
         Call(c, call, m), <<call, m.opcode>> \in CallOpcodes,
         call \in AccountCalls =>
           m.username = username[c] /\ session_state[c] \in LoggedStates,
         call \notin AccountCalls => session_state[c] = "USER_LOGIN",
         UNCHANGED <<session_state, username>>
  PROVE  CallDiscipline(c)' /\ StateFollowsCall(c)'
PROOF
<1>1. ControlOK /\ RecordsWellFormed
  BY TypeInvariantParts
<1>2. /\ cpc'[c] = call
      /\ c2s[c] = << >> /\ c2s'[c] = Append(c2s[c], m)
      /\ s2c'[c] = << >> /\ spc'[c] \in {"backlog", "recv"}
      /\ UNCHANGED <<s2c, spc, data_to_client, data_from_client>>
  BY <1>1 DEF Call, ControlOK, RecordsWellFormed, CallDiscipline, Idle, serverVars
<1>3. Len(c2s'[c]) = 1 /\ c2s'[c][1] = m
  BY <1>2
<1>4. Asked(c)'
  BY <1>2, <1>3 DEF Asked, Matches
<1>5. CallDiscipline(c)'
  BY <1>2, <1>3, <1>4 DEF CallDiscipline, Calls
<1>6. StateFollowsCall(c)'
  BY <1>2 DEF StateFollowsCall, AccountCalls, Calls
<1> QED BY <1>5, <1>6

\* Every command keeps the call discipline: it starts from the prompt, where nothing
\* of its client is in flight.
LEMMA CommandCalls ==
  ASSUME TypeInvariant, NEW c \in Clients, CallDiscipline(c),
         StateFollowsCall(c), Command(c)
  PROVE  CallDiscipline(c)' /\ StateFollowsCall(c)'
PROOF
<1>1. ControlOK /\ RecordsWellFormed
  BY TypeInvariantParts
<1>2. cpc[c] = "prompt"
  BY DEF Command, login_command, createAccount_command, CommandAllowed, logOut,
     selectCharacter_command, createCharacter_command, deleteCharacter_command,
     CharacterCommand, point, quit
<1>3. session_state[c] \in LoggedStates => username[c] \in Usernames
  BY <1>1 DEF RecordsWellFormed
<1>4. CASE login_command(c) \/ createAccount_command(c)
  <2>1. PICK call \in {"login", "createaccount"},
             opcode \in {"LOGIN", "CREATE_ACCOUNT"},
             u \in Usernames, p \in Passwords :
          /\ Call(c, call, AccountRequest(opcode, u, p))
          /\ <<call, opcode>> \in CallOpcodes
    BY <1>4 DEF login_command, createAccount_command, CallOpcodes
  <2>2. /\ AccountRequest(opcode, u, p) \in Requests
        /\ AccountRequest(opcode, u, p).opcode = opcode
    BY AccountRequestIsRequest
  <2>3. /\ session_state[c] = "USER_LOGIN"
        /\ UNCHANGED <<session_state, username>>
    BY <1>4 DEF login_command, createAccount_command, CommandAllowed
  <2>4. call \in Calls /\ call \notin AccountCalls
    BY DEF Calls, AccountCalls
  <2> QED BY <1>2, <2>1, <2>2, <2>3, <2>4, CallIsAsked
<1>5. CASE \/ selectCharacter_command(c) \/ createCharacter_command(c)
           \/ deleteCharacter_command(c)
  <2>1. PICK call \in {"selectchar", "createchar", "deletechar"},
             opcode \in {"SELECT_CHARACTER", "CREATE_CHARACTER",
                         "DELETE_CHARACTER"} :
          CharacterCommand(c, call, opcode) /\ <<call, opcode>> \in CallOpcodes
    BY <1>5 DEF selectCharacter_command, createCharacter_command,
       deleteCharacter_command, CallOpcodes
  <2>2. /\ session_state[c] \in LoggedStates
        /\ UNCHANGED <<session_state, username>>
    BY <2>1 DEF CharacterCommand, CommandAllowed, LoggedStates
  <2>3. PICK k \in Names :
          Call(c, call, CharacterRequest(opcode, username[c], k))
    BY <2>1 DEF CharacterCommand
  <2>4. /\ CharacterRequest(opcode, username[c], k) \in Requests
        /\ CharacterRequest(opcode, username[c], k).opcode = opcode
        /\ CharacterRequest(opcode, username[c], k).username = username[c]
    BY <1>3, <2>2, CharacterRequestIsRequest
  <2>5. call \in Calls /\ call \in AccountCalls
    BY DEF Calls, AccountCalls
  <2> QED BY <1>2, <2>1, <2>2, <2>3, <2>4, <2>5, CallIsAsked
\* The three calls that save a character.
<1>6. ASSUME NEW call \in {"p", "quit_save", "logout_save"},
             NEW ch \in Character, Call(c, call, SaveRequest(username[c], ch)),
             session_state[c] \in LoggedStates,
             UNCHANGED <<session_state, username>>
      PROVE  CallDiscipline(c)' /\ StateFollowsCall(c)'
  <2>1. /\ SaveRequest(username[c], ch) \in Requests
        /\ SaveRequest(username[c], ch).opcode = "EXP_UP"
        /\ SaveRequest(username[c], ch).username = username[c]
    BY <1>3, <1>6, SaveRequestIsRequest
  <2>2. /\ call \in Calls /\ call \in AccountCalls
        /\ <<call, "EXP_UP">> \in CallOpcodes
    BY DEF Calls, AccountCalls, CallOpcodes
  <2> QED BY <1>2, <1>6, <2>1, <2>2, CallIsAsked
\* The two calls that log out.
<1>7. ASSUME NEW call \in {"quit", "logout"}, NEW opcode \in LogoutOpcodes,
             <<call, opcode>> \in CallOpcodes,
             Call(c, call, UserRequest(opcode, username[c])),
             session_state[c] \in LoggedStates,
             UNCHANGED <<session_state, username>>
      PROVE  CallDiscipline(c)' /\ StateFollowsCall(c)'
  <2>1. /\ UserRequest(opcode, username[c]) \in Requests
        /\ UserRequest(opcode, username[c]).opcode = opcode
        /\ UserRequest(opcode, username[c]).username = username[c]
    BY <1>3, <1>7, UserRequestIsRequest
  <2>2. call \in Calls /\ call \in AccountCalls
    BY DEF Calls, AccountCalls
  <2> QED BY <1>2, <1>7, <2>1, <2>2, CallIsAsked
<1>8. CASE point(c)
  <2>1. /\ session_state[c] \in LoggedStates
        /\ UNCHANGED <<session_state, username>>
    BY <1>8 DEF point, CommandAllowed, LoggedStates
  <2>2. AfterPoint(character[c]) \in Character
    BY <1>1, AfterPointIsCharacter DEF ControlOK
  <2>3. CASE UNCHANGED <<cpc, c2s, s2c, serverVars, dbVars>>
    BY <1>2, <2>1, <2>3 DEF CallDiscipline, Idle, Asked, InService, Replied,
       Matches, StateFollowsCall, serverVars
  <2>4. CASE Call(c, "p", SaveRequest(username[c], AfterPoint(character[c])))
    BY <1>6, <2>1, <2>2, <2>4
  <2> QED BY <1>8, <2>3, <2>4 DEF point
<1>9. CASE quit(c) /\ session_state[c] = "USER_LOGIN"
  <2>1. /\ Call(c, "leaving", newData("EXIT"))
        /\ session_state'[c] = "EXIT_GAME"
        /\ UNCHANGED username
    BY <1>1, <1>9 DEF quit, CommandAllowed, ControlOK
  <2>2. /\ cpc'[c] = "leaving"
        /\ c2s[c] = << >> /\ c2s'[c] = Append(c2s[c], newData("EXIT"))
        /\ s2c'[c] = << >> /\ spc'[c] \in {"backlog", "recv"}
    BY <1>1, <1>2, <2>1 DEF Call, ControlOK, RecordsWellFormed, CallDiscipline,
       Idle, serverVars
  <2>3. Len(c2s'[c]) = 1
    BY <2>2
  <2>4. CallDiscipline(c)'
    BY <2>2, <2>3 DEF CallDiscipline, Calls
  <2>5. StateFollowsCall(c)'
    BY <2>1, <2>2 DEF StateFollowsCall, AccountCalls, Calls, LoggedStates
  <2> QED BY <2>4, <2>5
<1>10. CASE quit(c) /\ session_state[c] # "USER_LOGIN"
  <2>1. /\ session_state[c] \in LoggedStates
        /\ UNCHANGED <<session_state, username>>
    BY <1>10 DEF quit, CommandAllowed, LoggedStates
  <2>2. CASE Call(c, "quit", UserRequest("EXIT_AND_LOGOUT", username[c]))
    BY <1>7, <2>1, <2>2 DEF LogoutOpcodes, CallOpcodes
  <2>3. CASE Call(c, "quit_save", SaveRequest(username[c], character[c]))
    BY <1>1, <1>6, <2>1, <2>3 DEF ControlOK
  <2> QED BY <1>10, <2>2, <2>3 DEF quit, CommandAllowed
<1>11. CASE logOut(c)
  <2>1. /\ session_state[c] \in LoggedStates
        /\ UNCHANGED <<session_state, username>>
    BY <1>11 DEF logOut, CommandAllowed, LoggedStates
  <2>2. CASE Call(c, "logout", UserRequest("LOGOUT", username[c]))
    BY <1>7, <2>1, <2>2 DEF LogoutOpcodes, CallOpcodes
  <2>3. CASE Call(c, "logout_save", SaveRequest(username[c], character[c]))
    BY <1>1, <1>6, <2>1, <2>3 DEF ControlOK
  <2> QED BY <1>11, <2>2, <2>3 DEF logOut
<1> QED BY <1>4, <1>5, <1>8, <1>9, <1>10, <1>11 DEF Command

\* Reading an answer empties the channel.
LEMMA AnswerIsRead ==
  ASSUME TypeInvariant, NEW c \in Clients, CallDiscipline(c), StateFollowsCall(c),
         NEW next, cpc[c] \in Calls, s2c[c] # << >>, Receive(c, next)
  PROVE  /\ Replied(c)
         /\ cpc'[c] = next
         /\ c2s[c] = << >>
         /\ s2c'[c] = << >>
         /\ spc'[c] = spc[c]
         /\ cpc[c] # "quit" => spc[c] = "recv"
         /\ data_to_client'[c] = data_to_client[c]
         /\ spc[c] = "recv" => data_to_client[c] # NULL
PROOF
<1>1. ControlOK /\ RecordsWellFormed
  BY TypeInvariantParts
<1>2. Replied(c)
  BY DEF CallDiscipline, Asked, InService
<1>3. s2c[c] \in Seq(Replies) /\ Len(s2c[c]) = 1
  BY <1>1, <1>2 DEF RecordsWellFormed, Replied
<1>4. Tail(s2c[c]) = << >>
  <2>1. Tail(s2c[c]) \in Seq(Replies) /\ Len(Tail(s2c[c])) = 0
    BY <1>3, HeadTailProperties
  <2> QED BY <2>1, EmptySeq
<1>5. s2c'[c] = << >> /\ cpc'[c] = next
  BY <1>1, <1>4 DEF Receive, RecordsWellFormed, ControlOK
<1> QED
  BY <1>2, <1>5 DEF Receive, Replied, serverVars, StateFollowsCall, Ended

\* Every answer handled keeps the call discipline.
LEMMA HandleReplyCalls ==
  ASSUME TypeInvariant, NEW c \in Clients, CallDiscipline(c),
         StateFollowsCall(c), HandleReply(c)
  PROVE  CallDiscipline(c)' /\ StateFollowsCall(c)'
PROOF
<1>1. ControlOK /\ RecordsWellFormed
  BY TypeInvariantParts
\* The answers after which the client is back at the prompt.
<1>2. CASE \/ login_reply(c) \/ selectCharacter_reply(c)
           \/ report_reply(c) \/ logout_reply(c)
  <2>1. Receive(c, "prompt") /\ cpc[c] \in Calls /\ s2c[c] # << >>
    BY <1>2 DEF login_reply, selectCharacter_reply, report_reply, logout_reply,
       Answered, Calls
  <2>2. UNCHANGED c2s /\ cpc[c] # "quit"
    BY <1>2 DEF login_reply, selectCharacter_reply, report_reply, logout_reply,
       Answered
  <2>3. /\ cpc'[c] = "prompt" /\ c2s'[c] = << >> /\ s2c'[c] = << >>
        /\ spc'[c] = "recv" /\ data_to_client'[c] # NULL
    BY <2>1, <2>2, AnswerIsRead
  <2>4. session_state'[c] # "EXIT_GAME"
    <3>1. session_state[c] # "EXIT_GAME"
      BY <2>1 DEF StateFollowsCall, AccountCalls, LoggedStates
    <3> QED
      BY <1>1, <1>2, <3>1 DEF ControlOK,
         login_reply, selectCharacter_reply, report_reply, logout_reply
  <2>5. CallDiscipline(c)'
    BY <2>3 DEF CallDiscipline, Idle, Calls
  <2>6. StateFollowsCall(c)'
    BY <2>3, <2>4 DEF StateFollowsCall, AccountCalls, Calls
  <2> QED BY <2>5, <2>6
<1>3. CASE save_reply(c)
  <2>1. PICK call \in {"quit", "logout"}, opcode \in LogoutOpcodes :
          /\ <<call, opcode>> \in CallOpcodes
          /\ Receive(c, call)
          /\ c2s' = [c2s EXCEPT ![c] =
                       Append(@, UserRequest(opcode, username[c]))]
    BY <1>3 DEF save_reply, LogoutOpcodes, CallOpcodes
  <2>2. /\ cpc[c] \in AccountCalls /\ cpc[c] \in Calls
        /\ cpc[c] # "quit" /\ s2c[c] # << >>
        /\ UNCHANGED <<session_state, username>>
    BY <1>3 DEF save_reply, Answered, AccountCalls, Calls
  <2>3. /\ username[c] \in Usernames
        /\ session_state[c] \in LoggedStates
    BY <1>1, <2>2 DEF RecordsWellFormed, StateFollowsCall
  <2>4. /\ cpc'[c] = call /\ c2s[c] = << >> /\ s2c'[c] = << >>
        /\ spc'[c] = "recv" /\ data_to_client'[c] # NULL
    BY <2>1, <2>2, AnswerIsRead
  <2>5. /\ UserRequest(opcode, username[c]) \in Requests
        /\ UserRequest(opcode, username[c]).opcode = opcode
        /\ UserRequest(opcode, username[c]).username = username[c]
    BY <2>3, UserRequestIsRequest
  <2>6. Len(c2s'[c]) = 1 /\ c2s'[c][1] = UserRequest(opcode, username[c])
    BY <1>1, <2>1, <2>4, <2>5 DEF RecordsWellFormed
  <2>7. Asked(c)'
    BY <2>1, <2>2, <2>4, <2>5, <2>6 DEF Asked, Matches
  <2>8. CallDiscipline(c)'
    BY <2>4, <2>6, <2>7 DEF CallDiscipline
  <2>9. StateFollowsCall(c)'
    BY <2>2, <2>3, <2>4 DEF StateFollowsCall, LoggedStates
  <2> QED BY <2>8, <2>9
<1>4. CASE quit_reply(c)
  <2>1. Receive(c, "leaving") /\ cpc[c] \in Calls /\ s2c[c] # << >>
    BY <1>4 DEF quit_reply, Answered, Calls
  <2>2. cpc'[c] = "leaving" /\ c2s'[c] = << >> /\ s2c'[c] = << >>
    BY <1>4, <2>1, AnswerIsRead DEF quit_reply
  <2>3. session_state'[c] = "EXIT_GAME"
    BY <1>1, <1>4 DEF quit_reply, ControlOK
  <2>4. CallDiscipline(c)'
    BY <2>2 DEF CallDiscipline, Calls
  <2>5. StateFollowsCall(c)'
    BY <2>2, <2>3 DEF StateFollowsCall, AccountCalls, Calls, LoggedStates
  <2> QED BY <2>4, <2>5
<1> QED BY <1>2, <1>3, <1>4 DEF HandleReply

\* Starting a client, and the three ways it ends, keep the call discipline.
LEMMA ProcessCalls ==
  ASSUME TypeInvariant, NEW c \in Clients, CallDiscipline(c),
         StateFollowsCall(c),
         \/ comm_connect(c) \/ disconnect(c)
         \/ clt_sigRutine(c) \/ connection_lost(c)
  PROVE  CallDiscipline(c)' /\ StateFollowsCall(c)'
PROOF
<1>1. ControlOK /\ RecordsWellFormed
  BY TypeInvariantParts
<1>2. CASE comm_connect(c)
  <2>1. /\ cpc'[c] = "prompt" /\ spc'[c] = "backlog"
        /\ c2s'[c] = << >> /\ s2c'[c] = << >>
        /\ session_state'[c] = "USER_LOGIN"
    BY <1>1, <1>2 DEF comm_connect, ControlOK, CallDiscipline, StateFollowsCall
  <2>2. CallDiscipline(c)'
    BY <2>1 DEF CallDiscipline, Idle, Calls
  <2>3. StateFollowsCall(c)'
    BY <2>1 DEF StateFollowsCall, AccountCalls, Calls, LoggedStates
  <2> QED BY <2>2, <2>3
<1>3. CASE disconnect(c) \/ clt_sigRutine(c) \/ connection_lost(c)
  <2>1. Terminate(c)
    BY <1>3 DEF disconnect, clt_sigRutine, connection_lost
  <2>2. /\ cpc'[c] = "gone" /\ session_state'[c] = "EXIT_GAME"
        /\ spc'[c] = spc[c] /\ s2c'[c] = s2c[c]
        /\ data_to_client'[c] = data_to_client[c]
        /\ cpc[c] # "off"
    BY <1>1, <1>3, <2>1 DEF Terminate, ControlOK, serverVars, Alive,
       disconnect, clt_sigRutine, connection_lost
  <2>3. \A i \in 1..Len(c2s'[c]) :
          \/ c2s'[c][i].opcode = "CONNECTION_INTERRUMPED"
          \/ i \in 1..Len(c2s[c]) /\ c2s'[c][i] = c2s[c][i]
    <3>1. CASE UNCHANGED c2s
      BY <3>1
    <3>2. CASE clt_sigRutine(c)
      <4>1. c2s'[c] = Append(c2s[c], newData("CONNECTION_INTERRUMPED"))
        BY <1>1, <3>2 DEF clt_sigRutine, RecordsWellFormed
      <4>2. c2s[c] \in Seq(Requests)
        BY <1>1 DEF RecordsWellFormed
      <4> QED BY <4>1, <4>2, PlainRequest
    <3> QED BY <1>3, <3>1, <3>2 DEF disconnect, connection_lost
  <2>4. \A i \in 1..Len(c2s'[c]) :
          i > 1 \/ spc'[c] \notin {"backlog", "recv"} =>
            c2s'[c][i].opcode = "CONNECTION_INTERRUMPED"
    BY <2>2, <2>3 DEF CallDiscipline
  <2>5. CallDiscipline(c)'
    BY <2>2, <2>4 DEF CallDiscipline, Calls
  <2>6. StateFollowsCall(c)'
    BY <2>2 DEF StateFollowsCall, AccountCalls, Calls, LoggedStates
  <2> QED BY <2>5, <2>6
<1> QED BY <1>2, <1>3

\* Every step of a session keeps the call discipline; the null pointer of
\* server.c:139 is met only when the client is not logged in.
LEMMA SessionCalls ==
  ASSUME TypeInvariant, NEW s \in Clients, CallDiscipline(s),
         StateFollowsCall(s), Session(s) \/ connect_collision(s)
  PROVE  CallDiscipline(s)' /\ StateFollowsCall(s)'
PROOF
<1>1. ControlOK /\ RecordsWellFormed
  BY TypeInvariantParts
<1>2. cpc[s] \in ClientPC
  BY <1>1 DEF ControlOK
<1>3. ASSUME NEW next, Goto(s, next)
      PROVE  /\ spc'[s] = next
             /\ next \notin Ended => data_to_client'[s] = data_to_client[s]
             /\ next \in Ended => data_to_client'[s] = NULL
             /\ UNCHANGED <<cpc, session_state, username>>
  BY <1>1, <1>3 DEF Goto, ControlOK, RecordsWellFormed, clientVars
<1>4. CASE accept(s)
  <2>1. /\ spc[s] = "backlog" /\ spc'[s] = "recv"
        /\ UNCHANGED <<cpc, session_state, username, c2s, s2c, data_from_client>>
        /\ data_to_client'[s] = data_to_client[s]
    BY <1>3, <1>4 DEF accept, Ended
  <2>2. CallDiscipline(s)'
    BY <2>1 DEF CallDiscipline, Idle, Asked, InService, Replied, Matches
  <2>3. StateFollowsCall(s)'
    BY <2>1 DEF StateFollowsCall, Ended
  <2> QED BY <2>2, <2>3
<1>5. CASE receiveData(s) /\ c2s[s] # << >>
  <2>1. /\ spc[s] = "recv" /\ spc'[s] = "process"
        /\ UNCHANGED <<cpc, session_state, username, s2c>>
        /\ data_to_client'[s] = data_to_client[s]
        /\ data_from_client'[s] = Head(c2s[s]) /\ c2s'[s] = Tail(c2s[s])
    BY <1>1, <1>3, <1>5 DEF receiveData, RecordsWellFormed, Ended
  <2>2. /\ c2s[s] \in Seq(Requests)
        /\ Head(c2s[s]) = c2s[s][1] /\ Head(c2s[s]) \in Requests
        /\ Len(c2s'[s]) = Len(c2s[s]) - 1
        /\ \A i \in 1..Len(c2s'[s]) : c2s'[s][i] = c2s[s][i + 1]
    BY <1>1, <1>5, <2>1, HeadTailProperties DEF RecordsWellFormed
  <2>3. \A i \in 1..Len(c2s'[s]) : c2s'[s][i].opcode = "CONNECTION_INTERRUMPED"
    BY <2>1, <2>2 DEF CallDiscipline
  <2>4. CASE cpc[s] \in Calls
    <3>1. Asked(s)
      BY <1>5, <2>4 DEF CallDiscipline, InService, Replied
    <3>2. c2s'[s] = << >>
      BY <2>1, <2>2, <3>1, EmptySeq, HeadTailProperties, <1>5 DEF Asked
    <3>3. data_from_client'[s] # NULL
      BY <2>1, <2>2, NullAssumption DEF Requests
    <3>4. InService(s)'
      BY <2>1, <2>2, <3>1, <3>2, <3>3 DEF InService, Asked, Matches
    <3> QED
      BY <2>1, <2>3, <2>4, <3>2, <3>4
         DEF CallDiscipline, StateFollowsCall, Ended, Calls
  <2>5. CASE cpc[s] \notin Calls
    <3>1. cpc[s] \notin {"off", "prompt"}
      BY <1>5, <2>1 DEF CallDiscipline, Idle
    <3> QED
      BY <2>1, <2>3, <2>5, <3>1 DEF CallDiscipline, StateFollowsCall, Ended
  <2> QED BY <2>4, <2>5
\* A session that reaches end-of-file has lost its client.
<1>6. CASE receiveData(s) /\ c2s[s] = << >>
  <2>1. /\ cpc[s] = "gone"
        /\ UNCHANGED <<cpc, session_state, c2s>>
    BY <1>3, <1>6 DEF receiveData
  <2>2. CallDiscipline(s)'
    BY <1>6, <2>1 DEF CallDiscipline, Calls
  <2>3. StateFollowsCall(s)'
    <3>1. PICK next \in {"process", "sigsegv"} : Goto(s, next)
      BY <1>6 DEF receiveData
    <3>2. UNCHANGED s2c
      BY <1>6 DEF receiveData
    <3>3. spc[s] = "recv" /\ spc[s] \notin Ended
      BY <1>6 DEF receiveData, Ended
    <3>4. spc'[s] = next /\ (next \notin Ended => data_to_client'[s] = data_to_client[s])
      BY <1>3, <3>1
    <3> QED
      BY <2>1, <3>2, <3>3, <3>4
         DEF StateFollowsCall, AccountCalls, Calls, LoggedStates
  <2> QED BY <2>2, <2>3
<1>7. CASE server_process_data(s)
  <2>1. PICK next : /\ next = NextStep(data_from_client[s], data_to_client[s])
                    /\ Goto(s, next)
    BY <1>7 DEF server_process_data
  <2>2. /\ spc[s] = "process" /\ spc'[s] = next
        /\ UNCHANGED <<cpc, session_state, username, c2s, s2c, data_from_client>>
        /\ next \notin Ended => data_to_client'[s] = data_to_client[s]
        /\ next \in {"db", "sigsegv", "exit", "send"}
    BY <1>3, <1>7, <2>1 DEF server_process_data, NextStep
  <2>3. \A i \in 1..Len(c2s'[s]) : c2s'[s][i].opcode = "CONNECTION_INTERRUMPED"
    BY <2>2 DEF CallDiscipline
  <2>4. CASE cpc[s] \in Calls
    <3>1. InService(s)
      BY <2>2, <2>4 DEF CallDiscipline, Asked, Replied
    <3>2. cpc[s] \in AccountCalls => data_to_client[s] # NULL
      BY <2>2 DEF StateFollowsCall, Ended
    <3>3. next = "db"
      BY <2>1, <2>4, <3>1, <3>2 DEF InService, Matches, CallOpcodes, NextStep,
         LookupOpcodes, AccountCalls, Calls
    <3>4. InService(s)'
      BY <2>2, <3>1, <3>3 DEF InService, Matches, Ended
    <3> QED
      BY <2>2, <2>3, <2>4, <3>3, <3>4
         DEF CallDiscipline, StateFollowsCall, Calls, Ended
  <2>5. CASE cpc[s] \notin Calls
    <3>1. cpc[s] \notin {"off", "prompt"}
      BY <2>2 DEF CallDiscipline, Idle
    <3> QED
      BY <2>2, <2>3, <2>5, <3>1 DEF CallDiscipline, StateFollowsCall, Ended
  <2> QED BY <2>4, <2>5
<1>8. CASE communicate_with_database(s)
  <2>1. /\ spc[s] = "db" /\ spc'[s] = "send"
        /\ UNCHANGED <<cpc, session_state, username, c2s, s2c, data_from_client>>
        /\ data_to_client'[s] = Reply(data_from_client[s])
    BY <1>1, <1>8 DEF communicate_with_database, ControlOK, RecordsWellFormed,
       clientVars
  <2>2. data_from_client[s] \in Requests
    BY <1>1, <2>1 DEF RecordsWellFormed
  <2>3. data_to_client'[s] # NULL
    BY <2>1, <2>2, ReplyIsReply, TypeInvariantParts, NullAssumption DEF Replies
  <2>4. \A i \in 1..Len(c2s'[s]) : c2s'[s][i].opcode = "CONNECTION_INTERRUMPED"
    BY <2>1 DEF CallDiscipline
  <2>5. cpc[s] \in Calls => InService(s)'
    BY <2>1, <2>3 DEF CallDiscipline, Asked, Replied, InService, Matches
  <2>6. cpc[s] \notin {"off", "prompt"}
    BY <2>1 DEF CallDiscipline, Idle
  <2>7. CallDiscipline(s)'
    BY <2>1, <2>4, <2>5, <2>6 DEF CallDiscipline
  <2>8. StateFollowsCall(s)'
    BY <2>1, <2>3 DEF StateFollowsCall
  <2> QED BY <2>7, <2>8
<1>9. CASE connect_collision(s)
  <2>1. PICK end \in {"blocked", "collided"} : Goto(s, end)
    BY <1>9 DEF connect_collision
  <2>2. /\ spc[s] = "db" /\ spc'[s] = end
        /\ UNCHANGED <<cpc, session_state, username, c2s, s2c, data_from_client>>
        /\ end \notin Ended => data_to_client'[s] = data_to_client[s]
    BY <1>3, <1>9, <2>1 DEF connect_collision
  <2>3. \A i \in 1..Len(c2s'[s]) : c2s'[s][i].opcode = "CONNECTION_INTERRUMPED"
    BY <2>2 DEF CallDiscipline
  <2>4. cpc[s] \in Calls => InService(s)'
    BY <2>2 DEF CallDiscipline, Asked, Replied, InService, Matches
  <2>5. cpc[s] \notin {"off", "prompt"}
    BY <2>2 DEF CallDiscipline, Idle
  <2>6. CallDiscipline(s)'
    BY <2>2, <2>3, <2>4, <2>5 DEF CallDiscipline
  <2>7. StateFollowsCall(s)'
    BY <2>2 DEF StateFollowsCall, Ended
  <2> QED BY <2>6, <2>7
<1>10. CASE sendData(s)
  <2>0. PICK next \in {AfterSend(s)} :
          /\ Goto(s, next)
          /\ s2c' = IF next \in {"closed", "recv"}
                      THEN [s2c EXCEPT ![s] = Append(@, data_to_client[s])]
                      ELSE s2c
    BY <1>10 DEF sendData
  <2>1. /\ spc[s] = "send" /\ UNCHANGED c2s
        /\ UNCHANGED <<cpc, session_state, username>>
        /\ spc'[s] = next
        /\ next \notin Ended => data_to_client'[s] = data_to_client[s]
    BY <1>3, <1>10, <2>0 DEF sendData
  <2>2. s2c[s] \in Seq(Replies) /\ s2c \in [Clients -> Seq(Replies)]
    BY <1>1 DEF RecordsWellFormed
  <2>3. \A i \in 1..Len(c2s'[s]) : c2s'[s][i].opcode = "CONNECTION_INTERRUMPED"
    BY <2>1 DEF CallDiscipline
  <2>4. CASE cpc[s] \in Calls
    <3>1. InService(s) /\ cpc[s] # "gone"
      BY <2>1, <2>4 DEF CallDiscipline, Asked, Replied, Calls
    <3>2. data_to_client[s] # NULL
      BY <2>1, <3>1 DEF InService
    <3>3. next = "recv" \/ (next = "closed" /\ cpc[s] = "quit")
      BY <2>0, <3>1, <3>2 DEF AfterSend, session_ended, InService, Matches, CallOpcodes
    <3>4. s2c'[s] = Append(s2c[s], data_to_client[s])
      BY <2>0, <2>2, <3>3
    <3>5. Len(s2c'[s]) = 1
      BY <3>1, <3>4 DEF InService
    <3>6. Replied(s)'
      BY <2>1, <3>1, <3>3, <3>5 DEF Replied, InService
    <3>7. CallDiscipline(s)'
      BY <2>1, <2>3, <2>4, <3>6 DEF CallDiscipline, Calls
    <3>8. StateFollowsCall(s)'
      BY <2>1, <3>2, <3>3 DEF StateFollowsCall, Ended
    <3> QED BY <3>7, <3>8
  <2>5. CASE cpc[s] \notin Calls
    <3>1. cpc[s] \notin {"off", "prompt"}
      BY <2>1 DEF CallDiscipline, Idle
    <3>2. next \notin Ended => data_to_client[s] # NULL
      BY <2>0 DEF AfterSend, Ended
    <3>3. CallDiscipline(s)'
      BY <2>1, <2>3, <2>5, <3>1 DEF CallDiscipline
    <3>4. StateFollowsCall(s)'
      BY <2>1, <3>2 DEF StateFollowsCall
    <3> QED BY <3>3, <3>4
  <2> QED BY <2>4, <2>5
<1> QED
  BY <1>4, <1>5, <1>6, <1>7, <1>8, <1>9, <1>10 DEF Session

\* The call discipline holds initially.
LEMMA CallInit == Init => CallInvariant
PROOF
<1> SUFFICES ASSUME Init, NEW c \in Clients
             PROVE  CallDiscipline(c) /\ StateFollowsCall(c)
  BY DEF CallInvariant
<1>1. CallDiscipline(c)
  BY DEF Init, CallDiscipline, Calls
<1>2. StateFollowsCall(c)
  BY DEF Init, StateFollowsCall, AccountCalls, Calls, LoggedStates
<1> QED BY <1>1, <1>2

\* Every step keeps the call discipline.
LEMMA CallStep ==
  TypeInvariant /\ CallInvariant /\ [Next]_vars => CallInvariant'
PROOF
<1> SUFFICES ASSUME TypeInvariant, CallInvariant, [Next]_vars
             PROVE  CallInvariant'
  OBVIOUS
<1>1. CASE UNCHANGED vars
  BY <1>1 DEF vars, clientVars, serverVars, CallInvariant, CallDiscipline,
     StateFollowsCall, Idle, Asked, InService, Replied, Matches
<1>2. ASSUME NEW c \in Clients, Step(c)
      PROVE  CallInvariant'
  <2>1. CallDiscipline(c) /\ StateFollowsCall(c)
    BY DEF CallInvariant
  <2>2. CallDiscipline(c)' /\ StateFollowsCall(c)'
    BY <1>2, <2>1, CommandCalls, HandleReplyCalls, ProcessCalls, SessionCalls
       DEF Step
  <2>3. ASSUME NEW d \in Clients \ {c}
        PROVE  CallDiscipline(d)' /\ StateFollowsCall(d)'
    <3>1. CallDiscipline(d) /\ StateFollowsCall(d)
      BY DEF CallInvariant
    <3>2. UnchangedOthers(c)
      BY <1>2, StepIsLocal
    <3> QED BY <3>1, <3>2, OthersKeepCallInvariant
  <2> QED BY <2>2, <2>3 DEF CallInvariant
<1> QED BY <1>1, <1>2, NextIsStep

\* Every client is strictly call - return (communicate, newSession): at the prompt
\* nothing of its is in flight, in a call exactly one record is, and the session of
\* a logged-in client has had a reply from the database.
THEOREM CallInvariantHolds == Spec => []CallInvariant
BY TypeInvariantHolds, CallInit, CallStep, PTL DEF Spec

\* No session dies under a client that still waits for it or will call it again:
\* the null pointer of server.c:139 and the exit of server.c:173 are only met
\* when the client has left or is leaving.
THEOREM SessionEndIsHarmless == Spec => []SessionEndStrandsNobody
PROOF
<1>1. TypeInvariant /\ CallInvariant => SessionEndStrandsNobody
  <2> SUFFICES ASSUME TypeInvariant, CallInvariant, NEW s \in Clients,
                      spc[s] \in {"exit", "sigsegv", "sigpipe"}
               PROVE  cpc[s] = "gone" \/ cpc[s] = "leaving"
    BY DEF SessionEndStrandsNobody
  <2>1. cpc[s] \in ClientPC
    BY DEF TypeInvariant, TypeOK
  <2>2. CallDiscipline(s)
    BY DEF CallInvariant
  <2> QED BY <2>1, <2>2 DEF CallDiscipline, Idle, Asked, InService, Replied,
             ClientPC
<1> QED BY <1>1, TypeInvariantHolds, CallInvariantHolds, PTL

-----------------------------------------------------------------------------
(* Layer 3: AccountInvariant.                                               *)

\* The clients that a step is not about hold what they held.
LEMMA OthersHoldTheSame ==
  ASSUME NEW c \in Clients, NEW d \in Clients \ {c}, UnchangedOthers(c), NEW u
  PROVE  Holds(d, u)' <=> Holds(d, u)
BY DEF UnchangedOthers, Holds, LoggedIn, LogoutServed, Granted,
       PendingRequests, PendingReplies

\* A client holds one account at most: it is logged in to it, or one record that
\* is under way says which.
LEMMA OneAccount ==
  ASSUME TypeInvariant, NEW c \in Clients, CallDiscipline(c), StateFollowsCall(c),
         NEW u, NEW v, Holds(c, u), Holds(c, v)
  PROVE  u = v
PROOF
<1>1. ControlOK /\ RecordsWellFormed
  BY TypeInvariantParts
<1>2. CallDiscipline(c) /\ StateFollowsCall(c)
  OBVIOUS
<1>3. c2s[c] \in Seq(Requests)
  BY <1>1 DEF RecordsWellFormed
<1>4. cpc[c] \in ClientPC
  BY <1>1 DEF ControlOK
\* At most one request about an account is under way.
<1>5. \E r : \A m \in PendingRequests(c) : m.opcode \in AccountOpcodes => m = r
  <2>1. CASE spc[c] \in {"backlog", "recv"}
    <3>1. \A m \in PendingRequests(c) : m.opcode \in AccountOpcodes => m = c2s[c][1]
      BY <1>2, <1>3, <2>1 DEF PendingRequests, CallDiscipline, Range,
         AccountOpcodes, LogoutOpcodes
    <3> QED BY <3>1
  <2>2. CASE spc[c] \notin {"backlog", "recv"}
    <3>1. \A m \in PendingRequests(c) :
            m.opcode \in AccountOpcodes => m = data_from_client[c]
      BY <1>2, <1>3, <2>2 DEF PendingRequests, CallDiscipline, Range,
         AccountOpcodes, LogoutOpcodes
    <3> QED BY <3>1
  <2> QED BY <2>1, <2>2
<1>6. CASE cpc[c] \in {"off", "prompt"}
  <2>1. PendingRequests(c) = {}
    BY <1>2, <1>6 DEF CallDiscipline, Idle, PendingRequests, Range
  <2> QED BY <1>6, <2>1 DEF Holds, Granted
<1>7. CASE cpc[c] \in {"leaving", "gone"}
  <2>1. ~LoggedIn(c) /\ ~Granted(c, u) /\ ~Granted(c, v)
    BY <1>2, <1>7 DEF StateFollowsCall, LoggedIn, Granted
  <2> QED BY <1>5, <2>1 DEF Holds
\* Waiting for a login or for a new account, a client is not logged in; its
\* request is about no account that is held, and there is at most one reply.
<1>8. CASE cpc[c] \in {"login", "createaccount"}
  <2>1. ~LoggedIn(c)
    BY <1>2, <1>8 DEF StateFollowsCall, LoggedIn
  <2>2. cpc[c] \in Calls
    BY <1>8 DEF Calls
  <2>3. \A m \in PendingRequests(c) : m.opcode \notin AccountOpcodes
    <3>1. \A m \in PendingRequests(c) : <<cpc[c], m.opcode>> \in CallOpcodes
      BY <1>2, <2>2 DEF CallDiscipline, PendingRequests, Asked, InService, Replied,
         Matches, Range
    <3> QED BY <1>8, <3>1 DEF CallOpcodes, AccountOpcodes, LogoutOpcodes
  <2>4. \E r : \A m \in PendingReplies(c) : m = r
    <3>1. CASE s2c[c] = << >>
      <4>1. \A m \in PendingReplies(c) : m = data_to_client[c]
        BY <3>1 DEF PendingReplies, Range
      <4> QED BY <4>1
    <3>2. CASE s2c[c] # << >>
      <4>1. Replied(c)
        BY <1>2, <2>2, <3>2 DEF CallDiscipline, Asked, InService
      <4>2. \A m \in PendingReplies(c) : m = s2c[c][1]
        BY <4>1 DEF Replied, PendingReplies, Range
      <4> QED BY <4>2
    <3> QED BY <3>1, <3>2
  <2> QED BY <2>1, <2>3, <2>4 DEF Holds, Granted
\* In a call about its account, everything of the client is about that account.
<1>9. CASE cpc[c] \in AccountCalls
  <2>1. cpc[c] \in Calls /\ cpc[c] # "login"
    BY <1>9 DEF AccountCalls, Calls
  <2>2. \A m \in PendingRequests(c) : m.username = username[c]
    BY <1>2, <1>9, <2>1 DEF CallDiscipline, PendingRequests, Asked, InService,
       Replied, Matches, Range
  <2> QED BY <2>1, <2>2 DEF Holds, Granted
<1> QED BY <1>4, <1>6, <1>7, <1>8, <1>9 DEF ClientPC, AccountCalls

\* What a step of c may do to the accounts: c gives up what it likes and no mark
\* changes; or c, which holds nothing, is granted a free account; or c returns
\* the account it holds.
GivesUp(c) ==
  /\ \A u \in Usernames : InUse(u)' <=> InUse(u)
  /\ \A u \in Usernames : Holds(c, u)' => Holds(c, u)

Grants(c, a) ==
  /\ ~InUse(a) /\ InUse(a)'
  /\ \A u \in Usernames \ {a} : InUse(u)' <=> InUse(u)
  /\ \A u \in Usernames : ~Holds(c, u) /\ (Holds(c, u)' => u = a)

Returns(c, a) ==
  /\ Holds(c, a) /\ ~InUse(a)'
  /\ \A u \in Usernames \ {a} : InUse(u)' <=> InUse(u)
  /\ \A u \in Usernames : ~Holds(c, u)'

AccountEffect(c) ==
  GivesUp(c) \/ \E a \in Usernames : Grants(c, a) \/ Returns(c, a)

\* Each of these effects keeps the account invariant.
LEMMA EffectKeepsAccounts ==
  ASSUME AccountInvariant, NEW c \in Clients, UnchangedOthers(c), AccountEffect(c)
  PROVE  AccountInvariant'
PROOF
<1>1. \A d \in Clients \ {c}, u \in Usernames : Holds(d, u)' <=> Holds(d, u)
  BY OthersHoldTheSame
<1>2. CASE GivesUp(c)
  <2>1. \A d \in Clients, u \in Usernames : Holds(d, u)' => Holds(d, u)
    BY <1>1, <1>2 DEF GivesUp
  <2> QED BY <1>2, <2>1 DEF GivesUp, AccountInvariant
<1>3. ASSUME NEW a \in Usernames, Grants(c, a)
      PROVE  AccountInvariant'
  <2>1. \A d \in Clients : ~Holds(d, a)
    BY <1>3 DEF Grants, AccountInvariant
  <2>2. ASSUME NEW d \in Clients, NEW u \in Usernames, Holds(d, u)'
        PROVE  /\ InUse(u)'
               /\ u = a => d = c
    BY <1>1, <1>3, <2>1, <2>2 DEF Grants, AccountInvariant
  <2>3. \A d, e \in Clients, u \in Usernames : Holds(d, u)' /\ Holds(e, u)' => d = e
    BY <1>1, <1>3, <2>2 DEF Grants, AccountInvariant
  <2> QED BY <2>2, <2>3 DEF AccountInvariant
<1>4. ASSUME NEW a \in Usernames, Returns(c, a)
      PROVE  AccountInvariant'
  <2>1. \A d \in Clients \ {c} : ~Holds(d, a)
    BY <1>4 DEF Returns, AccountInvariant
  <2>2. \A d \in Clients, u \in Usernames : Holds(d, u)' => d # c /\ u # a /\ Holds(d, u)
    BY <1>1, <1>4, <2>1 DEF Returns
  <2> QED BY <1>4, <2>2 DEF Returns, AccountInvariant
<1> QED BY <1>2, <1>3, <1>4 DEF AccountEffect

\* At the prompt only a logged-in client holds something.
LEMMA PromptHolds ==
  ASSUME NEW c \in Clients, CallDiscipline(c), cpc[c] = "prompt", NEW u
  PROVE  Holds(c, u) <=> /\ session_state[c] \in LoggedStates
                         /\ username[c] = u
BY DEF CallDiscipline, Idle, Holds, LoggedIn, LogoutServed, Granted, LoggedStates,
       PendingRequests, PendingReplies, Range

\* A command leaves what its client holds, and only quit gives up a state.
LEMMA CommandEffect ==
  ASSUME TypeInvariant, NEW c \in Clients, CallDiscipline(c), Command(c)
  PROVE  /\ cpc[c] = "prompt"
         /\ username'[c] = username[c]
         /\ s2c'[c] = << >>
         /\ spc'[c] \in {"backlog", "recv"}
         /\ UNCHANGED User
         /\ \/ session_state'[c] = session_state[c]
            \/ /\ cpc'[c] = "leaving"
               /\ session_state'[c] = "EXIT_GAME"
               /\ c2s'[c] = Append(<< >>, newData("EXIT"))
         /\ cpc'[c] \in Calls \cup {"prompt", "leaving"}
         /\ cpc'[c] # "leaving" => session_state'[c] = session_state[c]
PROOF
<1>1. ControlOK /\ RecordsWellFormed
  BY TypeInvariantParts
<1>2. cpc[c] = "prompt" /\ s2c[c] = << >> /\ spc[c] \in {"backlog", "recv"}
      /\ c2s[c] = << >>
  BY DEF Command, login_command, createAccount_command, CommandAllowed, logOut,
     selectCharacter_command, createCharacter_command, deleteCharacter_command,
     CharacterCommand, point, quit, CallDiscipline, Idle
<1>3. UNCHANGED <<User, username, s2c, spc>>
  BY DEF Command, login_command, createAccount_command, logOut, point, quit,
     selectCharacter_command, createCharacter_command, deleteCharacter_command,
     CharacterCommand, Call, serverVars, dbVars
<1>4. cpc'[c] \in Calls \cup {"prompt", "leaving"}
  BY <1>1, <1>2 DEF Command, login_command, createAccount_command, logOut, point,
     quit, selectCharacter_command, createCharacter_command,
     deleteCharacter_command, CharacterCommand, Call, Calls, ControlOK
<1>5. CASE UNCHANGED session_state
  BY <1>2, <1>3, <1>4, <1>5
<1>6. CASE /\ session_state' = [session_state EXCEPT ![c] = "EXIT_GAME"]
           /\ Call(c, "leaving", newData("EXIT"))
  <2>1. cpc'[c] = "leaving" /\ session_state'[c] = "EXIT_GAME"
        /\ c2s'[c] = Append(<< >>, newData("EXIT"))
    BY <1>1, <1>2, <1>6 DEF ControlOK, RecordsWellFormed, Call
  <2> QED BY <1>2, <1>3, <2>1
<1> QED
  BY <1>5, <1>6 DEF Command, login_command, createAccount_command, logOut,
     point, quit, selectCharacter_command, createCharacter_command,
     deleteCharacter_command, CharacterCommand

\* A command gives its client nothing and takes nothing from another.
LEMMA CommandHolds ==
  ASSUME TypeInvariant, NEW c \in Clients, CallDiscipline(c),
         StateFollowsCall(c), Command(c), NEW u, Holds(c, u)'
  PROVE  Holds(c, u)
PROOF
<1>1. CallDiscipline(c)' /\ StateFollowsCall(c)'
  BY CommandCalls
<1>2. /\ cpc[c] = "prompt" /\ username'[c] = username[c]
      /\ s2c'[c] = << >> /\ spc'[c] \in {"backlog", "recv"}
  BY CommandEffect
<1>3. PendingReplies(c)' = {} /\ PendingRequests(c)' = Range(c2s'[c])
  BY <1>2 DEF PendingReplies, PendingRequests, Range
<1>4. SUFFICES session_state[c] \in LoggedStates /\ username[c] = u
  BY <1>2, PromptHolds
<1>5. CASE cpc'[c] = "leaving"
  <2>1. /\ session_state'[c] = "EXIT_GAME"
        /\ c2s'[c] = Append(<< >>, newData("EXIT"))
    BY <1>1, <1>2, <1>5, CommandEffect DEF StateFollowsCall
  <2>2. PendingRequests(c)' = {newData("EXIT")}
    BY <1>3, <2>1 DEF Range
  <2>3. newData("EXIT").opcode \notin AccountOpcodes
    BY PlainRequest DEF AccountOpcodes, LogoutOpcodes
  <2> QED BY <1>3, <1>5, <2>1, <2>2, <2>3 DEF Holds, LoggedIn, Granted
<1>6. CASE cpc'[c] # "leaving"
  <2>1. session_state'[c] = session_state[c]
    BY <1>6, CommandEffect
  <2>2. CASE LoggedIn(c)' /\ username'[c] = u
    BY <1>2, <2>1, <2>2 DEF LoggedIn, LoggedStates
  <2>3. CASE Granted(c, u)'
    BY <1>3, <2>3 DEF Granted
  <2>4. CASE \E m \in PendingRequests(c)' :
               m.opcode \in AccountOpcodes /\ m.username = u
    <3>1. PICK i \in DOMAIN c2s'[c] :
            c2s'[c][i].opcode \in AccountOpcodes /\ c2s'[c][i].username = u
      BY <1>3, <2>4 DEF Range
    <3>2. cpc'[c] \in Calls
      BY <1>1, <1>6, <3>1, CommandEffect DEF CallDiscipline, Idle
    <3>3. Asked(c)'
      BY <1>1, <1>2, <3>1, <3>2 DEF CallDiscipline, InService, Replied
    <3>4. i = 1 /\ Matches(c, c2s[c][1])'
      BY <3>1, <3>3 DEF Asked
    <3>5. cpc'[c] \in AccountCalls
      BY <3>1, <3>4 DEF Matches, CallOpcodes, AccountOpcodes, LogoutOpcodes,
         AccountCalls, Calls
    <3> QED
      BY <1>1, <1>2, <2>1, <3>1, <3>4, <3>5 DEF Matches, StateFollowsCall
  <2> QED BY <2>2, <2>3, <2>4 DEF Holds
<1> QED BY <1>5, <1>6

\* Handling an answer makes a granted login the client's own, and gives nothing new.
LEMMA HandleReplyHolds ==
  ASSUME TypeInvariant, NEW c \in Clients, CallDiscipline(c),
         StateFollowsCall(c), HandleReply(c), NEW u, Holds(c, u)'
  PROVE  Holds(c, u)
PROOF
<1>1. ControlOK /\ RecordsWellFormed
  BY TypeInvariantParts
<1>2. PICK next : /\ Receive(c, next)
                  /\ cpc[c] \in Calls /\ s2c[c] # << >>
                  /\ next \in {"prompt", "quit", "logout", "leaving"}
  BY DEF HandleReply, login_reply, selectCharacter_reply, report_reply,
         save_reply, quit_reply, logout_reply, Answered, Calls
<1>3. /\ c2s[c] = << >> /\ s2c'[c] = << >> /\ cpc'[c] = next
      /\ spc'[c] \in {"recv", "closed"}
  BY <1>2, AnswerIsRead DEF Replied
<1>4. /\ PendingReplies(c)' = {} /\ PendingRequests(c)' = Range(c2s'[c])
      /\ ~Granted(c, u)'
  BY <1>2, <1>3 DEF PendingReplies, PendingRequests, Range, Granted
<1>5. CASE login_reply(c)
  <2>1. c2s'[c] = << >> /\ PendingRequests(c)' = {}
    BY <1>3, <1>4, <1>5 DEF login_reply, Range
  <2>2. LoggedIn(c)' /\ username'[c] = u
    BY <1>4, <2>1 DEF Holds
  <2>3. session_state[c] = "USER_LOGIN" /\ cpc[c] = "login"
    BY <1>5 DEF login_reply, Answered, StateFollowsCall
  <2>4. Head(s2c[c]).opcode = "NO_ERROR" /\ Head(s2c[c]).username = u
    BY <1>1, <1>5, <2>2, <2>3 DEF login_reply, LoggedIn, ControlOK
  <2>5. Head(s2c[c]) \in PendingReplies(c)
    <3>1. s2c[c] \in Seq(Replies)
      BY <1>1 DEF RecordsWellFormed
    <3>2. 1 \in DOMAIN s2c[c] /\ Head(s2c[c]) = s2c[c][1]
      BY <1>2, <3>1, EmptySeq
    <3> QED BY <3>2 DEF PendingReplies, Range
  <2> QED BY <2>3, <2>4, <2>5 DEF Holds, Granted
\* The other calls are made by a logged-in client, which holds the account.
<1>6. ASSUME cpc[c] \notin {"quit", "logout"},
             session_state[c] \in LoggedStates, username[c] = u
      PROVE  Holds(c, u)
  BY <1>6 DEF Holds, LoggedIn, LogoutServed, LoggedStates
<1>7. CASE selectCharacter_reply(c) \/ report_reply(c)
  <2>1. c2s'[c] = << >> /\ PendingRequests(c)' = {}
    BY <1>3, <1>4, <1>7 DEF selectCharacter_reply, report_reply, Range
  <2>2. LoggedIn(c)' /\ username'[c] = u
    BY <1>4, <2>1 DEF Holds
  <2>3. UNCHANGED username /\ cpc[c] \notin {"quit", "logout"}
    BY <1>7 DEF selectCharacter_reply, report_reply, Answered
  <2>4. session_state[c] \in LoggedStates
    BY <1>7, <2>2 DEF selectCharacter_reply, report_reply, Answered, LoggedIn,
       LoggedStates, StateFollowsCall, AccountCalls, Calls
  <2> QED BY <1>6, <2>2, <2>3, <2>4
<1>8. CASE save_reply(c)
  <2>1. /\ cpc[c] \in {"quit_save", "logout_save"}
        /\ UNCHANGED <<session_state, username>>
    BY <1>8 DEF save_reply, Answered
  <2>2. session_state[c] \in LoggedStates /\ username[c] \in Usernames
    BY <1>1, <2>1 DEF StateFollowsCall, RecordsWellFormed, AccountCalls, Calls
  <2>3. PICK opcode \in LogoutOpcodes :
          c2s'[c] = Append(<< >>, UserRequest(opcode, username[c]))
    BY <1>1, <1>3, <1>8 DEF save_reply, LogoutOpcodes, RecordsWellFormed
  <2>4. PendingRequests(c)' = {UserRequest(opcode, username[c])}
    BY <1>4, <2>3 DEF Range
  <2>5. username[c] = u
    BY <1>4, <2>1, <2>2, <2>4, UserRequestIsRequest DEF Holds
  <2> QED BY <1>6, <2>1, <2>2, <2>5
<1>9. CASE quit_reply(c) \/ logout_reply(c)
  <2>1. c2s'[c] = << >> /\ PendingRequests(c)' = {}
    BY <1>3, <1>4, <1>9 DEF quit_reply, logout_reply, Range
  <2>2. session_state'[c] \notin LoggedStates
    BY <1>1, <1>9 DEF quit_reply, logout_reply, ControlOK, LoggedStates
  <2> QED BY <1>4, <2>1, <2>2 DEF Holds, LoggedIn, LoggedStates
<1> QED BY <1>5, <1>7, <1>8, <1>9 DEF HandleReply

\* A client that ends leaves the requests it has sent, and adds none about an account.
LEMMA EndPending ==
  ASSUME TypeInvariant, NEW c \in Clients,
         disconnect(c) \/ clt_sigRutine(c) \/ connection_lost(c)
  PROVE  /\ cpc'[c] = "gone" /\ session_state'[c] = "EXIT_GAME"
         /\ UNCHANGED dbVars
         /\ \A m \in PendingRequests(c)' :
              m.opcode \in AccountOpcodes => m \in PendingRequests(c)
PROOF
<1>1. ControlOK /\ RecordsWellFormed
  BY TypeInvariantParts
<1>2. Terminate(c)
  BY DEF disconnect, clt_sigRutine, connection_lost
<1>3. cpc'[c] = "gone" /\ session_state'[c] = "EXIT_GAME" /\ UNCHANGED dbVars
  BY <1>1, <1>2 DEF Terminate, ControlOK
<1>4. CASE UNCHANGED c2s
  BY <1>2, <1>3, <1>4 DEF PendingRequests, Terminate, serverVars
<1>5. CASE clt_sigRutine(c)
  <2>1. c2s'[c] = Append(c2s[c], newData("CONNECTION_INTERRUMPED"))
    BY <1>1, <1>5 DEF clt_sigRutine, RecordsWellFormed
  <2>2. c2s[c] \in Seq(Requests)
    BY <1>1 DEF RecordsWellFormed
  <2>3. newData("CONNECTION_INTERRUMPED").opcode \notin AccountOpcodes
    BY PlainRequest DEF AccountOpcodes, LogoutOpcodes
  <2>4. Range(c2s'[c]) = Range(c2s[c]) \cup {newData("CONNECTION_INTERRUMPED")}
    BY <2>1, <2>2, PlainRequest DEF Range
  <2>5. PendingRequests(c)' \subseteq
          PendingRequests(c) \cup {newData("CONNECTION_INTERRUMPED")}
    BY <1>2, <2>4 DEF PendingRequests, Terminate, serverVars
  <2> QED BY <1>3, <2>3, <2>5
<1> QED BY <1>4, <1>5 DEF disconnect, connection_lost

\* Starting and ending a client gives nothing to anybody.
LEMMA ProcessHolds ==
  ASSUME TypeInvariant, NEW c \in Clients, CallDiscipline(c),
         \/ comm_connect(c) \/ disconnect(c)
         \/ clt_sigRutine(c) \/ connection_lost(c),
         NEW u, Holds(c, u)'
  PROVE  Holds(c, u)
PROOF
<1>1. ControlOK /\ RecordsWellFormed
  BY TypeInvariantParts
<1>2. CASE comm_connect(c)
  <2>1. /\ cpc[c] = "off" /\ cpc'[c] = "prompt" /\ spc'[c] = "backlog"
        /\ c2s[c] = << >> /\ s2c[c] = << >>
        /\ UNCHANGED <<session_state, username, c2s, s2c>>
    BY <1>1, <1>2 DEF comm_connect, CallDiscipline, ControlOK
  <2>2. PendingRequests(c)' = {} /\ ~Granted(c, u)'
    BY <2>1 DEF PendingRequests, Granted, Range
  <2> QED BY <2>1, <2>2 DEF Holds, LoggedIn, LogoutServed
<1>3. CASE disconnect(c) \/ clt_sigRutine(c) \/ connection_lost(c)
  BY <1>3, EndPending DEF Holds, LoggedIn, Granted
<1> QED BY <1>2, <1>3

\* What a session does by itself adds no request about an account, and neither
\* takes a reply from a client that waits for it nor makes one up.
LEMMA SessionPending ==
  ASSUME TypeInvariant, NEW s \in Clients, CallDiscipline(s),
         StateFollowsCall(s),
         \/ accept(s) \/ receiveData(s) \/ server_process_data(s)
         \/ sendData(s) \/ connect_collision(s)
  PROVE  /\ \A m \in PendingRequests(s)' :
              m.opcode \in AccountOpcodes => m \in PendingRequests(s)
         /\ cpc[s] \in Calls => PendingReplies(s)' = PendingReplies(s)
PROOF
<1>1. ControlOK /\ RecordsWellFormed
  BY TypeInvariantParts
<1>2. UNCHANGED <<cpc, session_state, username>>
  BY DEF accept, receiveData, server_process_data, sendData, connect_collision,
     Goto, clientVars
<1>3. CallDiscipline(s)' /\ StateFollowsCall(s)'
  BY SessionCalls DEF Session
<1>5. CASE accept(s)
  <2>1. /\ spc[s] = "backlog" /\ spc'[s] = "recv"
        /\ UNCHANGED <<data_from_client, c2s, s2c>>
    BY <1>1, <1>5 DEF accept, Goto, ControlOK
  <2> QED BY <2>1 DEF PendingRequests, PendingReplies
<1>6. CASE receiveData(s)
  <2>1. /\ spc[s] = "recv" /\ spc'[s] \in {"process", "sigsegv"}
        /\ UNCHANGED s2c
    BY <1>1, <1>6 DEF receiveData, Goto, ControlOK
  <2>2. PendingReplies(s)' = PendingReplies(s)
    BY <2>1 DEF PendingReplies
  <2>3. CASE c2s[s] # << >>
    <3>1. c2s[s] \in Seq(Requests) /\ c2s \in [Clients -> Seq(Requests)]
          /\ data_from_client \in [Clients -> Requests \cup {NULL}]
      BY <1>1 DEF RecordsWellFormed
    <3>2. data_from_client'[s] = Head(c2s[s]) /\ c2s'[s] = Tail(c2s[s])
      BY <1>6, <2>3, <3>1 DEF receiveData
    <3>3. Head(c2s[s]) = c2s[s][1] /\ 1 \in DOMAIN c2s[s]
      BY <2>3, <3>1, EmptySeq
    <3>4. /\ Tail(c2s[s]) \in Seq(Requests)
          /\ Len(Tail(c2s[s])) = Len(c2s[s]) - 1
          /\ \A i \in 1..Len(Tail(c2s[s])) : Tail(c2s[s])[i] = c2s[s][i + 1]
      BY <2>3, <3>1, HeadTailProperties
    <3>5. Range(Tail(c2s[s])) \subseteq Range(c2s[s])
      BY <3>1, <3>4 DEF Range
    <3>6. PendingRequests(s)' \subseteq PendingRequests(s)
      BY <2>1, <3>2, <3>3, <3>5 DEF PendingRequests, Range
    <3> QED BY <2>2, <3>6
  <2>4. CASE c2s[s] = << >>
    <3>1. \A m \in Garbage : m.opcode \notin AccountOpcodes
      BY PlainRequest DEF Garbage, AccountOpcodes, LogoutOpcodes
    <3>2. c2s'[s] = << >>
      BY <1>6, <2>4 DEF receiveData
    <3>3. spc'[s] = "process" => data_from_client'[s] \in Garbage
      BY <1>1, <1>6, <2>4 DEF receiveData, Goto, ControlOK, RecordsWellFormed
    <3>4. \A m \in PendingRequests(s)' : m.opcode \notin AccountOpcodes
      BY <2>1, <3>1, <3>2, <3>3 DEF PendingRequests, Range
    <3> QED BY <2>2, <3>4
  <2> QED BY <2>3, <2>4
<1>7. CASE server_process_data(s)
  <2>1. /\ spc[s] = "process"
        /\ spc'[s] = NextStep(data_from_client[s], data_to_client[s])
        /\ UNCHANGED <<data_from_client, c2s, s2c>>
    BY <1>1, <1>7 DEF server_process_data, Goto, ControlOK
  <2>2. PendingRequests(s)' \subseteq PendingRequests(s)
    BY <2>1 DEF PendingRequests
  <2>4. ASSUME cpc[s] \in Calls PROVE spc'[s] # "send"
    <3>1. InService(s)
      BY <2>1, <2>4 DEF CallDiscipline, Asked, Replied, Calls
    <3> QED BY <2>1, <2>4, <3>1 DEF InService, Matches, CallOpcodes, NextStep,
               LookupOpcodes
  <2>5. cpc[s] \in Calls => PendingReplies(s)' = PendingReplies(s)
    BY <2>1, <2>4 DEF PendingReplies
  <2> QED BY <2>2, <2>5
<1>8. CASE sendData(s)
  <2>0. PICK next \in {AfterSend(s)} :
          /\ Goto(s, next)
          /\ s2c' = IF next \in {"closed", "recv"}
                      THEN [s2c EXCEPT ![s] = Append(@, data_to_client[s])]
                      ELSE s2c
    BY <1>8 DEF sendData
  <2>1. /\ spc[s] = "send" /\ spc'[s] = next /\ UNCHANGED c2s
        /\ next \in {"sigsegv", "sigpipe", "closed", "recv"}
    BY <1>1, <1>8, <2>0 DEF sendData, Goto, ControlOK, AfterSend
  <2>2. PendingRequests(s)' \subseteq PendingRequests(s)
    BY <2>1 DEF PendingRequests
  <2>3. CASE cpc[s] \in Calls
    <3>1. InService(s) /\ Replied(s)'
      <4>1. InService(s)
        BY <2>1, <2>3 DEF CallDiscipline, Asked, Replied
      <4>2. c2s'[s] = << >> /\ spc'[s] \notin {"process", "db", "send", "blocked", "collided"}
        BY <2>1, <4>1 DEF InService
      <4> QED BY <1>2, <1>3, <2>3, <4>1, <4>2 DEF CallDiscipline, Asked, InService
    <3>2. next \in {"closed", "recv"}
      BY <2>1, <3>1 DEF Replied
    <3>3. s2c'[s] = Append(<< >>, data_to_client[s])
      BY <1>1, <2>0, <3>1, <3>2 DEF InService, RecordsWellFormed
    <3>4. PendingReplies(s)' = PendingReplies(s)
      BY <2>1, <3>1, <3>3 DEF PendingReplies, InService, Range
    <3> QED BY <2>2, <3>4
  <2>4. CASE cpc[s] \notin Calls
    BY <2>2, <2>4
  <2> QED BY <2>3, <2>4
<1>9. CASE connect_collision(s)
  <2>1. /\ spc[s] = "db" /\ spc'[s] \in {"blocked", "collided"}
        /\ UNCHANGED <<data_from_client, c2s, s2c>>
    BY <1>1, <1>9 DEF connect_collision, Goto, ControlOK
  <2> QED BY <2>1 DEF PendingRequests, PendingReplies
<1> QED BY <1>5, <1>6, <1>7, <1>8, <1>9

\* What a session does by itself gives its client nothing.
LEMMA SessionHolds ==
  ASSUME TypeInvariant, NEW s \in Clients, CallDiscipline(s),
         StateFollowsCall(s),
         \/ accept(s) \/ receiveData(s) \/ server_process_data(s)
         \/ sendData(s) \/ connect_collision(s),
         NEW u, Holds(s, u)'
  PROVE  Holds(s, u)
PROOF
<1>1. UNCHANGED <<cpc, session_state, username>>
  BY DEF accept, receiveData, server_process_data, sendData, connect_collision,
     Goto, clientVars
<1>2. {"login", "quit", "logout"} \subseteq Calls
  BY DEF Calls
<1>3. /\ \A m \in PendingRequests(s)' :
           m.opcode \in AccountOpcodes => m \in PendingRequests(s)
      /\ cpc[s] \in Calls => PendingReplies(s)' = PendingReplies(s)
  BY SessionPending
<1> QED BY <1>1, <1>2, <1>3 DEF Holds, LoggedIn, LogoutServed, Granted

\* The handlers change an account's Inuse mark only by granting a login and by
\* processing a logout.
LEMMA HandlersKeepMarks ==
  ASSUME DBTypeOK, NEW req \in Requests, process_data(req)
  PROVE  /\ req.opcode = "LOGIN" /\ Outcome(req) = "NO_ERROR" =>
              /\ ~InUse(req.username) /\ InUse(req.username)'
              /\ req.username \in Usernames
              /\ \A u \in Usernames \ {req.username} : InUse(u)' <=> InUse(u)
         /\ req.opcode \in LogoutOpcodes =>
              /\ ~InUse(req.username)'
              /\ \A u \in Usernames \ {req.username} : InUse(u)' <=> InUse(u)
         /\ req.opcode \notin LogoutOpcodes
            /\ ~(req.opcode = "LOGIN" /\ Outcome(req) = "NO_ERROR") =>
              \A u \in Usernames : InUse(u)' <=> InUse(u)
PROOF
<1>1. CASE login(req)
  <2>1. req.opcode = "LOGIN" /\ Outcome(req) = LoginOutcome(req)
    BY <1>1 DEF login, Outcome
  <2>2. CASE LoginOutcome(req) = "NO_ERROR"
    <3>1. /\ req.username \in DOMAIN User /\ ~InUse(req.username)
          /\ User' = [User EXCEPT ![req.username].Inuse = 1]
      BY <1>1, <2>2 DEF login, LoginOutcome, InUse
    <3>2. /\ User'[req.username].Inuse = 1 /\ DOMAIN User' = DOMAIN User
          /\ \A u \in DOMAIN User \ {req.username} : User'[u] = User[u]
      BY <3>1 DEF DBTypeOK, UserRow
    <3> QED BY <2>1, <2>2, <3>1, <3>2 DEF InUse, DBTypeOK, LogoutOpcodes
  <2>3. CASE LoginOutcome(req) # "NO_ERROR"
    BY <1>1, <2>1, <2>3 DEF login, InUse, LogoutOpcodes
  <2> QED BY <2>2, <2>3
<1>2. CASE create_account(req)
  <2>1. req.opcode = "CREATE_ACCOUNT"
    BY <1>2 DEF create_account
  <2>2. \A u : InUse(u)' <=> InUse(u)
    BY <1>2 DEF create_account, InUse, Insert, NewUserRow, CreateAccountOutcome
  <2> QED BY <2>1, <2>2 DEF LogoutOpcodes
<1>3. CASE create_char(req)
  <2>1. req.opcode = "CREATE_CHARACTER"
    BY <1>3 DEF create_char
  <2>2. DOMAIN User' = DOMAIN User
        /\ \A u \in DOMAIN User : User'[u].Inuse = User[u].Inuse
    BY <1>3 DEF create_char, DBTypeOK, UserRow
  <2> QED BY <2>1, <2>2 DEF InUse, LogoutOpcodes
<1>4. CASE logout(req)
  <2>1. req.opcode \in LogoutOpcodes
    BY <1>4 DEF logout, LogoutOpcodes
  <2>2. /\ ~InUse(req.username)'
        /\ \A u \in Usernames \ {req.username} : InUse(u)' <=> InUse(u)
    BY <1>4 DEF logout, InUse, DBTypeOK, UserRow
  <2> QED BY <2>1, <2>2 DEF LogoutOpcodes
<1>5. CASE \/ select_char(req) \/ delete_char(req)
           \/ char_exp_up(req) \/ unhandled(req)
  <2>1. UNCHANGED User /\ req.opcode # "LOGIN" /\ req.opcode \notin LogoutOpcodes
    BY <1>5 DEF select_char, delete_char, char_exp_up, unhandled, LogoutOpcodes,
       HandledOpcodes
  <2> QED BY <2>1 DEF InUse
<1> QED BY <1>1, <1>2, <1>3, <1>4, <1>5 DEF process_data

\* One turn of the database answers the request of one session.  Behind the request
\* there is only the notice of an interruption; and when the client still waits,
\* the request is that of its call and the reply is the only one.
LEMMA DatabaseTurn ==
  ASSUME TypeInvariant, NEW s \in Clients, CallDiscipline(s),
         StateFollowsCall(s),
         NEW req, req = data_from_client[s], communicate_with_database(s)
  PROVE  /\ req \in Requests /\ req \in PendingRequests(s) /\ process_data(req)
         /\ Reply(req).username = req.username
         /\ Reply(req).opcode = Outcome(req)
         /\ UNCHANGED <<cpc, session_state, username, character>>
         /\ \A m \in PendingRequests(s) : m.opcode \in AccountOpcodes => m = req
         /\ \A m \in PendingRequests(s)' : m.opcode \notin AccountOpcodes
         /\ PendingReplies(s) \subseteq PendingReplies(s)'
         /\ cpc[s] \in Calls =>
              /\ Matches(s, req)
              /\ PendingReplies(s) = {}
              /\ PendingReplies(s)' = {Reply(req)}
         /\ cpc[s] \notin Calls => ~LoggedIn(s) /\ ~LoggedIn(s)'
PROOF
<1>1. DBTypeOK /\ ControlOK /\ RecordsWellFormed
  BY TypeInvariantParts
<1>3. /\ spc[s] = "db" /\ spc'[s] = "send"
      /\ UNCHANGED <<cpc, session_state, username, character, c2s, s2c>>
      /\ data_to_client'[s] = Reply(req)
      /\ process_data(req)
  BY <1>1 DEF communicate_with_database, ControlOK, RecordsWellFormed, clientVars
<1>4. req \in Requests /\ req \in PendingRequests(s)
  BY <1>1, <1>3 DEF RecordsWellFormed, PendingRequests
<1>5. Reply(req).username = req.username /\ Reply(req).opcode = Outcome(req)
  BY <1>1, <1>4, ReplyIsReply
<1>6. /\ PendingReplies(s) = Range(s2c[s])
      /\ PendingReplies(s)' = Range(s2c[s]) \cup {Reply(req)}
      /\ PendingRequests(s) = Range(c2s[s]) \cup {req}
      /\ PendingRequests(s)' = Range(c2s[s])
  BY <1>3 DEF PendingReplies, PendingRequests
<1>7. \A m \in Range(c2s[s]) : m.opcode \notin AccountOpcodes
  <2>1. \A i \in 1..Len(c2s[s]) : c2s[s][i].opcode = "CONNECTION_INTERRUMPED"
    BY <1>3 DEF CallDiscipline
  <2>2. c2s[s] \in Seq(Requests)
    BY <1>1 DEF RecordsWellFormed
  <2> QED BY <2>1, <2>2 DEF Range, AccountOpcodes, LogoutOpcodes
<1>8. ASSUME cpc[s] \in Calls
      PROVE  Matches(s, req) /\ Range(s2c[s]) = {}
  BY <1>3, <1>8 DEF CallDiscipline, Asked, Replied, InService, Range
<1>9. ASSUME cpc[s] \notin Calls
      PROVE  ~LoggedIn(s) /\ ~LoggedIn(s)'
  <2>1. cpc[s] \notin {"off", "prompt"}
    BY <1>3 DEF CallDiscipline, Idle
  <2>2. cpc[s] \in ClientPC
    BY <1>1 DEF ControlOK
  <2> QED BY <1>3, <1>9, <2>1, <2>2 DEF StateFollowsCall, LoggedIn, ClientPC
<1> QED BY <1>3, <1>4, <1>5, <1>6, <1>7, <1>8, <1>9

\* The database grants a login only on a free account, to a client that holds none,
\* and frees an account only for the client that holds it.
LEMMA DatabaseEffect ==
  ASSUME TypeInvariant, NEW s \in Clients, CallDiscipline(s),
         StateFollowsCall(s), communicate_with_database(s)
  PROVE  AccountEffect(s)
PROOF
<1>1. DBTypeOK
  BY TypeInvariantParts
<1>3. PICK req : req = data_from_client[s]
  OBVIOUS
<1>4. /\ req \in Requests /\ req \in PendingRequests(s) /\ process_data(req)
      /\ Reply(req).username = req.username
      /\ Reply(req).opcode = Outcome(req)
      /\ UNCHANGED <<cpc, session_state, username>>
      /\ \A m \in PendingRequests(s) : m.opcode \in AccountOpcodes => m = req
      /\ \A m \in PendingRequests(s)' : m.opcode \notin AccountOpcodes
      /\ PendingReplies(s) \subseteq PendingReplies(s)'
      /\ cpc[s] \in Calls =>
           /\ Matches(s, req)
           /\ PendingReplies(s) = {}
           /\ PendingReplies(s)' = {Reply(req)}
      /\ cpc[s] \notin Calls => ~LoggedIn(s) /\ ~LoggedIn(s)'
  BY <1>3, DatabaseTurn
\* A login is granted: s held nothing, and now it holds this account at most.
<1>5. CASE req.opcode = "LOGIN" /\ Outcome(req) = "NO_ERROR"
  <2>1. /\ ~InUse(req.username) /\ InUse(req.username)'
        /\ req.username \in Usernames
        /\ \A u \in Usernames \ {req.username} : InUse(u)' <=> InUse(u)
    BY <1>1, <1>4, <1>5, HandlersKeepMarks
  <2>2. \A m \in PendingRequests(s) : m.opcode \notin AccountOpcodes
    BY <1>4, <1>5 DEF AccountOpcodes, LogoutOpcodes
  <2>3. ASSUME NEW u \in Usernames
        PROVE  ~Holds(s, u) /\ (Holds(s, u)' => u = req.username)
    <3>1. CASE cpc[s] \in Calls
      <4>1. cpc[s] = "login" /\ session_state[s] = "USER_LOGIN"
        BY <1>4, <1>5, <3>1 DEF Matches, CallOpcodes, StateFollowsCall
      <4> QED BY <1>4, <2>2, <3>1, <4>1 DEF Holds, LoggedIn, Granted
    <3>2. CASE cpc[s] \notin Calls
      BY <1>4, <2>2, <3>2 DEF Holds, Granted, Calls
    <3> QED BY <3>1, <3>2
  <2> QED BY <2>1, <2>3 DEF AccountEffect, Grants
\* A logout is processed: s held the account, and now it holds nothing.
<1>6. CASE req.opcode \in LogoutOpcodes
  <2>1. /\ ~InUse(req.username)'
        /\ \A u \in Usernames \ {req.username} : InUse(u)' <=> InUse(u)
    BY <1>1, <1>4, <1>6, HandlersKeepMarks
  <2>2. Holds(s, req.username) /\ req.username \in Usernames
    BY <1>4, <1>6 DEF Holds, AccountOpcodes, Requests
  <2>3. \A u \in Usernames : ~Holds(s, u)'
    <3>1. CASE cpc[s] \in Calls
      <4>1. cpc[s] \in {"quit", "logout"}
        BY <1>4, <1>6, <3>1 DEF Matches, CallOpcodes, LogoutOpcodes
      <4>2. LogoutServed(s)'
        BY <1>4, <3>1, <4>1 DEF LogoutServed
      <4> QED BY <1>4, <4>1, <4>2 DEF Holds, LoggedIn, Granted
    <3>2. CASE cpc[s] \notin Calls
      BY <1>4, <3>2 DEF Holds, Granted, Calls
    <3> QED BY <3>1, <3>2
  <2> QED BY <2>1, <2>2, <2>3 DEF AccountEffect, Returns
\* Any other request leaves every mark alone and gives s nothing.
<1>7. CASE /\ req.opcode \notin LogoutOpcodes
           /\ ~(req.opcode = "LOGIN" /\ Outcome(req) = "NO_ERROR")
  <2>1. \A u \in Usernames : InUse(u)' <=> InUse(u)
    BY <1>1, <1>4, <1>7, HandlersKeepMarks
  <2>2. ASSUME NEW u \in Usernames, Holds(s, u)'
        PROVE  Holds(s, u)
    <3>1. CASE cpc[s] \in Calls
      <4>1. ~Granted(s, u)'
        <5>1. ASSUME cpc[s] = "login" PROVE req.opcode = "LOGIN"
          BY <1>4, <3>1, <5>1 DEF Matches, CallOpcodes
        <5> QED BY <1>4, <1>7, <3>1, <5>1 DEF Granted
      <4>2. LoggedIn(s)' /\ username[s] = u
        BY <1>4, <2>2, <4>1 DEF Holds
      <4> QED BY <1>4, <4>2 DEF Holds, LoggedIn, LogoutServed
    <3>2. CASE cpc[s] \notin Calls
      BY <1>4, <2>2, <3>2 DEF Holds, Granted, Calls
    <3> QED BY <3>1, <3>2
  <2> QED BY <2>1, <2>2 DEF AccountEffect, GivesUp
<1> QED BY <1>5, <1>6, <1>7

\* What a step of c does to the accounts: only the database changes a mark.
LEMMA StepEffect ==
  ASSUME TypeInvariant, NEW c \in Clients, CallDiscipline(c),
         StateFollowsCall(c), Step(c)
  PROVE  AccountEffect(c)
PROOF
<1>2. CASE communicate_with_database(c)
  BY <1>2, DatabaseEffect
<1>3. CASE ~communicate_with_database(c)
  <2>1. UNCHANGED User
    <3>1. CASE Command(c)
      BY <3>1, CommandEffect
    <3>2. CASE HandleReply(c)
      BY <3>2 DEF HandleReply, login_reply, selectCharacter_reply, report_reply,
         save_reply, quit_reply, logout_reply, Receive, dbVars
    <3>3. CASE \/ comm_connect(c) \/ disconnect(c)
               \/ clt_sigRutine(c) \/ connection_lost(c)
      BY <3>3 DEF comm_connect, disconnect, clt_sigRutine, connection_lost,
         Terminate, dbVars
    <3>4. CASE \/ accept(c) \/ receiveData(c) \/ server_process_data(c)
               \/ sendData(c) \/ connect_collision(c)
      BY <3>4 DEF accept, receiveData, server_process_data, sendData,
         connect_collision, Goto, dbVars
    <3> QED BY <1>3, <3>1, <3>2, <3>3, <3>4 DEF Step, Session
  <2>2. \A u \in Usernames : Holds(c, u)' => Holds(c, u)
    BY <1>3, CommandHolds, HandleReplyHolds, ProcessHolds, SessionHolds
       DEF Step, Session
  <2>3. \A u \in Usernames : InUse(u)' <=> InUse(u)
    BY <2>1 DEF InUse
  <2> QED BY <2>2, <2>3 DEF AccountEffect, GivesUp
<1> QED BY <1>2, <1>3

\* Initially nobody holds an account.
LEMMA AccountInit == Init => AccountInvariant
PROOF
<1> SUFFICES ASSUME Init PROVE AccountInvariant
  OBVIOUS
<1>1. \A c \in Clients, u \in Usernames : ~Holds(c, u)
  BY DEF Init, Holds, LoggedIn, Granted, PendingRequests, Range
<1> QED BY <1>1 DEF AccountInvariant

\* Every step keeps the account invariant.
LEMMA AccountStep ==
  TypeInvariant /\ CallInvariant /\ AccountInvariant /\ [Next]_vars
    => AccountInvariant'
PROOF
<1> SUFFICES ASSUME TypeInvariant, CallInvariant, AccountInvariant, [Next]_vars
             PROVE  AccountInvariant'
  OBVIOUS
<1>1. CASE UNCHANGED vars
  BY <1>1 DEF vars, clientVars, serverVars, dbVars, AccountInvariant, Holds,
     LoggedIn, LogoutServed, Granted, PendingRequests, PendingReplies, InUse
<1>2. ASSUME NEW c \in Clients, Step(c)
      PROVE  AccountInvariant'
  BY <1>2, StepIsLocal, StepEffect, EffectKeepsAccounts DEF CallInvariant
<1> QED BY <1>1, <1>2, NextIsStep

\* The Inuse mark (login_callback, logout) covers every account that a client holds,
\* is being granted or has requests under way for, and no two clients hold one.
THEOREM AccountInvariantHolds == Spec => []AccountInvariant
BY TypeInvariantHolds, CallInvariantHolds, AccountInit, AccountStep, PTL DEF Spec

\* Two clients are never logged in to one account, however their requests, their
\* interruptions and the database's work interleave.
THEOREM LoginIsExclusive == Spec => []ExclusiveLogin
PROOF
<1>1. TypeInvariant /\ AccountInvariant => ExclusiveLogin
  <2> SUFFICES ASSUME TypeInvariant, AccountInvariant,
                      NEW c \in Clients, NEW d \in Clients,
                      LoggedIn(c), LoggedIn(d), username[c] = username[d]
               PROVE  c = d
    BY DEF ExclusiveLogin
  <2>1. username[c] \in Usernames
    BY DEF TypeInvariant, RecordsWellFormed, LoggedIn, LoggedStates
  <2>2. Holds(c, username[c]) /\ Holds(d, username[c])
    BY DEF Holds
  <2> QED BY <2>1, <2>2 DEF AccountInvariant
<1> QED BY <1>1, TypeInvariantHolds, AccountInvariantHolds, PTL

-----------------------------------------------------------------------------
(* The running system implements the abstract account lock: every step      *)
(* acquires, releases, abandons or wastes one account, or changes no        *)
(* holder.                                                                  *)

\* HolderOf reads the marks and the holders.
HolderReads ==
  \A u \in Usernames :
    /\ ~InUse(u) => HolderOf(u) = Free
    /\ \A c \in Clients : Holds(c, u) => HolderOf(u) = c
    /\ InUse(u) /\ (\A c \in Clients : ~Holds(c, u)) => HolderOf(u) = Abandoned

\* By the account invariant the CHOOSE in HolderOf has one candidate at most.
LEMMA HolderIsRead == AccountInvariant => HolderReads
PROOF
<1> SUFFICES ASSUME AccountInvariant, NEW u \in Usernames
             PROVE  /\ ~InUse(u) => HolderOf(u) = Free
                    /\ \A c \in Clients : Holds(c, u) => HolderOf(u) = c
                    /\ InUse(u) /\ (\A c \in Clients : ~Holds(c, u))
                         => HolderOf(u) = Abandoned
  BY DEF HolderReads
<1>1. ~InUse(u) => HolderOf(u) = Free
  BY DEF HolderOf
<1>2. ASSUME NEW c \in Clients, Holds(c, u)
      PROVE  HolderOf(u) = c
  <2>1. InUse(u) /\ \A d \in Clients : Holds(d, u) => d = c
    BY <1>2 DEF AccountInvariant
  <2>2. (CHOOSE d \in Clients : Holds(d, u)) = c
    BY <1>2, <2>1
  <2> QED BY <1>2, <2>1, <2>2 DEF HolderOf
<1>3. InUse(u) /\ (\A c \in Clients : ~Holds(c, u)) => HolderOf(u) = Abandoned
  BY DEF HolderOf
<1> QED BY <1>1, <1>2, <1>3

\* An account whose mark and holders stay keeps its holder.
LEMMA HolderStays ==
  ASSUME HolderReads, HolderReads', NEW u \in Usernames,
         InUse(u)' <=> InUse(u),
         \A d \in Clients : Holds(d, u)' <=> Holds(d, u)
  PROVE  HolderOf(u)' = HolderOf(u)
BY DEF HolderReads

\* A step of one client maps to a step of the lock, or to none.
LEMMA EffectRefines ==
  ASSUME TypeInvariant, CallInvariant, AccountInvariant, AccountInvariant',
         NEW c \in Clients, UnchangedOthers(c), AccountEffect(c)
  PROVE  [Lock!Next]_[u \in Usernames |-> HolderOf(u)]
PROOF
<1> DEFINE holder == [u \in Usernames |-> HolderOf(u)]
<1>1. HolderReads /\ HolderReads'
  BY HolderIsRead, PTL
<1>2. \A d \in Clients \ {c}, u \in Usernames : Holds(d, u)' <=> Holds(d, u)
  BY OthersHoldTheSame
\* A step that changes account a alone.
<1>3. ASSUME NEW a \in Usernames,
             \A u \in Usernames \ {a} : /\ InUse(u)' <=> InUse(u)
                                        /\ Holds(c, u)' <=> Holds(c, u)
      PROVE  holder' = [holder EXCEPT ![a] = HolderOf(a)']
  <2>1. \A u \in Usernames \ {a} : HolderOf(u)' = HolderOf(u)
    BY <1>1, <1>2, <1>3, HolderStays
  <2> QED BY <2>1
<1>4. CASE GivesUp(c)
  <2>1. CASE \A u \in Usernames : Holds(c, u)' <=> Holds(c, u)
    <3>1. \A u \in Usernames : HolderOf(u)' = HolderOf(u)
      BY <1>1, <1>2, <1>4, <2>1, HolderStays DEF GivesUp
    <3> QED BY <3>1
  <2>2. ASSUME NEW a \in Usernames, Holds(c, a), ~Holds(c, a)'
        PROVE  Lock!Abandon(c, a)
    <3>1. \A u \in Usernames \ {a} : ~Holds(c, u) /\ ~Holds(c, u)'
      BY <1>4, <2>2, OneAccount DEF GivesUp, CallInvariant
    <3>2. HolderOf(a) = c
      BY <1>1, <2>2 DEF HolderReads
    <3>3. InUse(a)' /\ \A d \in Clients : ~Holds(d, a)'
      BY <1>2, <1>4, <2>2 DEF GivesUp, AccountInvariant
    <3>4. HolderOf(a)' = Abandoned
      BY <1>1, <3>3 DEF HolderReads
    <3>5. holder' = [holder EXCEPT ![a] = Abandoned]
      BY <1>3, <1>4, <3>1, <3>4 DEF GivesUp
    <3> QED BY <3>2, <3>5 DEF Lock!Abandon
  <2> QED BY <1>4, <2>1, <2>2 DEF GivesUp, Lock!Next
<1>5. ASSUME NEW a \in Usernames, Grants(c, a)
      PROVE  Lock!Acquire(c, a) \/ Lock!Waste(a)
  <2>1. HolderOf(a) = Free
    BY <1>1, <1>5 DEF HolderReads, Grants
  <2>2. holder' = [holder EXCEPT ![a] = HolderOf(a)']
    BY <1>3, <1>5 DEF Grants
  <2>3. CASE Holds(c, a)'
    <3>1. HolderOf(a)' = c
      BY <1>1, <2>3 DEF HolderReads
    <3>2. \A b \in Usernames : HolderOf(b) # c
      <4> SUFFICES ASSUME NEW b \in Usernames PROVE HolderOf(b) # c
        OBVIOUS
      <4>1. ~Holds(c, b)
        BY <1>5 DEF Grants
      <4> QED BY <1>1, <4>1, LockAssumption DEF HolderReads
    <3> QED BY <2>1, <2>2, <3>1, <3>2 DEF Lock!Acquire
  <2>4. CASE ~Holds(c, a)'
    <3>1. \A d \in Clients : ~Holds(d, a)'
      BY <1>2, <1>5, <2>4 DEF Grants, AccountInvariant
    <3>2. HolderOf(a)' = Abandoned
      BY <1>1, <1>5, <3>1 DEF HolderReads, Grants
    <3> QED BY <2>1, <2>2, <3>2 DEF Lock!Waste
  <2> QED BY <2>3, <2>4
<1>6. ASSUME NEW a \in Usernames, Returns(c, a)
      PROVE  Lock!Release(c, a)
  <2>1. HolderOf(a) = c /\ HolderOf(a)' = Free
    BY <1>1, <1>6 DEF HolderReads, Returns
  <2>2. \A u \in Usernames \ {a} : ~Holds(c, u)
    BY <1>6, OneAccount DEF Returns, CallInvariant
  <2>3. holder' = [holder EXCEPT ![a] = Free]
    BY <1>3, <1>6, <2>1, <2>2 DEF Returns
  <2> QED BY <2>1, <2>3 DEF Lock!Release
<1> QED BY <1>4, <1>5, <1>6 DEF AccountEffect, Lock!Next

\* A step that changes no variable changes no holder.
LEMMA StutterRefines ==
  ASSUME UNCHANGED vars
  PROVE  UNCHANGED [u \in Usernames |-> HolderOf(u)]
BY DEF vars, clientVars, serverVars, dbVars, HolderOf, Holds, LoggedIn,
   LogoutServed, Granted, PendingRequests, PendingReplies, InUse

\* Initially every account is free.
LEMMA InitRefines == Init => Lock!Init
BY DEF Init, initialize_table, InUse, HolderOf, Lock!Init

\* The system implements the account lock, whatever happens to clients, sessions
\* and connections: login_callback grants free accounts alone, logout frees the
\* account of the client that sent it, and what is abandoned stays abandoned.
THEOREM SystemImplementsLock == Spec => ImplementsAccountLock
PROOF
<1>1. /\ TypeInvariant /\ CallInvariant /\ AccountInvariant /\ AccountInvariant'
      /\ [Next]_vars
      => [Lock!Next]_[u \in Usernames |-> HolderOf(u)]
  <2> SUFFICES ASSUME TypeInvariant, CallInvariant, AccountInvariant,
                      AccountInvariant', [Next]_vars
               PROVE  [Lock!Next]_[u \in Usernames |-> HolderOf(u)]
    OBVIOUS
  <2>1. CASE UNCHANGED vars
    BY <2>1, StutterRefines
  <2>2. ASSUME NEW c \in Clients, Step(c)
        PROVE  [Lock!Next]_[u \in Usernames |-> HolderOf(u)]
    BY <2>2, StepIsLocal, StepEffect, EffectRefines DEF CallInvariant
  <2> QED BY <2>1, <2>2, NextIsStep
<1> QED
  BY <1>1, InitRefines, TypeInvariantHolds, CallInvariantHolds,
     AccountInvariantHolds, PTL DEF Spec, ImplementsAccountLock, Lock!Spec

-----------------------------------------------------------------------------
(* The copies of a character that a client has.                             *)

\* At the prompt a client has the character it plays and nothing else.
LEMMA PromptCopies ==
  ASSUME NEW c \in Clients, CallDiscipline(c), cpc[c] = "prompt"
  PROVE  /\ Copies(c) = {ch \in {character[c]} : session_state[c] = "PLAY_GAME"}
         /\ LoggedIn(c) <=> session_state[c] \in LoggedStates
PROOF
<1>1. PendingRequests(c) = {} /\ PendingReplies(c) = {}
  BY DEF CallDiscipline, Idle, PendingRequests, PendingReplies, Range
<1>2. Saves(c) = {} /\ GrantedSelections(c) = {}
  BY <1>1 DEF Saves, GrantedSelections
<1>3. LoggedIn(c) <=> session_state[c] \in LoggedStates
  BY DEF LoggedIn, LogoutServed, LoggedStates
<1>4. Playing(c) <=> session_state[c] = "PLAY_GAME"
  BY <1>3 DEF Playing, LoggedStates
<1> QED BY <1>2, <1>3, <1>4 DEF Copies

\* A client that runs has a save under way only while it waits for one.
LEMMA SaveIsCalled ==
  ASSUME NEW c \in Clients, CallDiscipline(c), cpc[c] \in Calls \cup {"prompt"},
         NEW m \in Saves(c)
  PROVE  cpc[c] \in SaveCalls
PROOF
<1>1. m \in PendingRequests(c) /\ m.opcode = "EXP_UP"
  BY DEF Saves
<1>2. cpc[c] \in Calls
  BY <1>1 DEF CallDiscipline, Idle, PendingRequests, Range
<1>3. Matches(c, m)
  BY <1>1, <1>2 DEF CallDiscipline, Asked, InService, Replied, PendingRequests, Range
<1> QED BY <1>1, <1>3 DEF Matches, CallOpcodes, SaveCalls

StatesFollowCalls == \A c \in Clients : StateFollowsCall(c)

CopiesHaveHolders ==
  \A c \in Clients : \A ch \in Copies(c) : \E u \in Usernames : Holds(c, u)

\* Whoever has a copy of a character, the client, its session or a request on its
\* way to the database, has an account.
LEMMA CopyHasHolder == TypeInvariant /\ StatesFollowCalls => CopiesHaveHolders
PROOF
<1> SUFFICES ASSUME TypeInvariant, StatesFollowCalls,
                    NEW c \in Clients, NEW ch \in Copies(c)
             PROVE  \E u \in Usernames : Holds(c, u)
  BY DEF CopiesHaveHolders
<1>1. ControlOK /\ RecordsWellFormed
  BY TypeInvariantParts
<1>2. StateFollowsCall(c)
  BY DEF StatesFollowCalls
<1>3. CASE Playing(c)
  <2>1. username[c] \in Usernames
    BY <1>1, <1>3 DEF Playing, RecordsWellFormed, LoggedStates
  <2> QED BY <1>3, <2>1 DEF Playing, Holds
<1>4. CASE cpc[c] = "selectchar"
  <2>1. session_state[c] \in LoggedStates
    BY <1>2, <1>4 DEF StateFollowsCall, AccountCalls, Calls
  <2>2. username[c] \in Usernames
    BY <1>1, <2>1 DEF RecordsWellFormed
  <2> QED BY <1>4, <2>1, <2>2 DEF Holds, LoggedIn, LogoutServed, LoggedStates
<1>5. ASSUME NEW m \in Saves(c)
      PROVE  \E u \in Usernames : Holds(c, u)
  <2>1. m \in PendingRequests(c) /\ m.opcode \in AccountOpcodes
    BY DEF Saves, AccountOpcodes
  <2>2. m \in Requests
    BY <1>1, <2>1 DEF PendingRequests, RecordsWellFormed, Range
  <2> QED BY <2>1, <2>2 DEF Requests, Holds
<1> QED BY <1>3, <1>4, <1>5 DEF Copies, GrantedSelections

-----------------------------------------------------------------------------
(* What a step that is not the database's does to them.                     *)

\* The copies do not grow, or a point is added to one by that command; nobody has to
\* select again; and the tables do not change.
KeepsCopies(c) ==
  /\ UNCHANGED dbVars
  /\ \/ Copies(c)' \subseteq Copies(c)
     \/ point(c) /\ \E ch \in Copies(c) : Copies(c)' = {AfterPoint(ch)}
  /\ Selecting(c)' => Selecting(c)
  /\ CallInState(c)'

\* A command moves a client's copy into a request, adds a point to it, or both.
LEMMA CommandCopies ==
  ASSUME TypeInvariant, NEW c \in Clients, CallDiscipline(c),
         StateFollowsCall(c), Command(c)
  PROVE  KeepsCopies(c)
PROOF
<1>1. ControlOK /\ RecordsWellFormed
  BY TypeInvariantParts
<1>2. /\ cpc[c] = "prompt" /\ username'[c] = username[c]
      /\ s2c'[c] = << >> /\ spc'[c] \in {"backlog", "recv"}
      /\ cpc'[c] \in Calls \cup {"prompt", "leaving"}
      /\ cpc'[c] = "leaving" \/ session_state'[c] = session_state[c]
  BY CommandEffect
<1>3. /\ c2s[c] = << >>
      /\ Copies(c) = {ch \in {character[c]} : session_state[c] = "PLAY_GAME"}
      /\ LoggedIn(c) <=> session_state[c] \in LoggedStates
  BY <1>2, PromptCopies DEF CallDiscipline, Idle
<1>4. /\ PendingReplies(c)' = {} /\ PendingRequests(c)' = Range(c2s'[c])
      /\ GrantedSelections(c)' = {} /\ ~LogoutServed(c)'
      /\ \A u : ~Granted(c, u)'
  BY <1>2 DEF PendingReplies, PendingRequests, Range, GrantedSelections,
     LogoutServed, Granted
<1>5. UNCHANGED dbVars
  BY DEF Command, login_command, createAccount_command, logOut, point, quit,
     selectCharacter_command, createCharacter_command, deleteCharacter_command,
     CharacterCommand, Call
<1>6. CallDiscipline(c)' /\ StateFollowsCall(c)'
  BY CommandCalls
<1>7. Selecting(c)' => Selecting(c)
  <2> SUFFICES ASSUME Selecting(c)' PROVE Selecting(c)
    OBVIOUS
  <2>1. LoggedIn(c)' /\ session_state'[c] = "CHAR_SELECTION"
    BY <1>4 DEF Selecting
  <2>2. session_state[c] = "CHAR_SELECTION"
    BY <1>2, <1>6, <2>1 DEF StateFollowsCall
  <2> QED BY <1>3, <2>2 DEF Selecting, LoggedStates
\* A save: the copy is in the request, and in the client's memory.
<1>8. ASSUME NEW call \in SaveCalls, NEW ch \in Character,
             Call(c, call, SaveRequest(username[c], ch)),
             session_state[c] = "PLAY_GAME", UNCHANGED session_state,
             character'[c] = ch
      PROVE  Copies(c)' = {ch} /\ CallInState(c)'
  <2>1. c2s'[c] = Append(<< >>, SaveRequest(username[c], ch)) /\ cpc'[c] = call
    BY <1>1, <1>3, <1>8 DEF Call, RecordsWellFormed, ControlOK
  <2>2. PendingRequests(c)' = {SaveRequest(username[c], ch)}
    BY <1>4, <2>1 DEF Range
  <2>3. SaveRequest(username[c], ch).opcode = "EXP_UP"
        /\ SaveRequest(username[c], ch).character = ch
    BY DEF SaveRequest, newData
  <2>4. Saves(c)' = {SaveRequest(username[c], ch)}
    BY <2>2, <2>3 DEF Saves
  <2>5. Copies(c)' = {ch}
    BY <1>4, <1>8, <2>3, <2>4 DEF Copies
  <2>6. CallInState(c)'
    BY <1>8, <2>1 DEF CallInState, SaveCalls
  <2> QED BY <2>5, <2>6
\* Any other request, or none: nothing is copied.
<1>9. ASSUME NEW call \in Calls \cup {"leaving"}, NEW m, Call(c, call, m),
             call \notin SaveCalls, m.opcode # "EXP_UP",
             UNCHANGED character,
             call \in {"selectchar", "createchar", "deletechar"}
               => session_state[c] = "CHAR_SELECTION"
      PROVE  KeepsCopies(c)
  <2>1. c2s'[c] = Append(<< >>, m) /\ cpc'[c] = call
    BY <1>1, <1>3, <1>9 DEF Call, RecordsWellFormed, ControlOK
  <2>2. Saves(c)' = {}
    BY <1>4, <1>9, <2>1 DEF Saves, Range
  <2>3. Playing(c)' => session_state[c] = "PLAY_GAME"
    BY <1>2, <1>6 DEF Playing, LoggedIn, StateFollowsCall
  <2>4. Copies(c)' \subseteq Copies(c)
    BY <1>3, <1>4, <1>9, <2>2, <2>3 DEF Copies
  <2>5. CallInState(c)'
    BY <1>2, <1>9, <2>1 DEF CallInState
  <2> QED BY <1>5, <1>7, <2>4, <2>5 DEF KeepsCopies
<1>10. CASE login_command(c) \/ createAccount_command(c)
  <2>1. PICK call \in {"login", "createaccount"},
             opcode \in {"LOGIN", "CREATE_ACCOUNT"},
             u \in Usernames, p \in Passwords :
          Call(c, call, AccountRequest(opcode, u, p)) /\ UNCHANGED character
    BY <1>10 DEF login_command, createAccount_command
  <2> QED BY <1>9, <2>1, AccountRequestIsRequest DEF Calls, SaveCalls
<1>11. CASE \/ selectCharacter_command(c) \/ createCharacter_command(c)
            \/ deleteCharacter_command(c)
  <2>1. PICK call \in {"selectchar", "createchar", "deletechar"},
             opcode \in {"SELECT_CHARACTER", "CREATE_CHARACTER",
                         "DELETE_CHARACTER"} :
          CharacterCommand(c, call, opcode)
    BY <1>11 DEF selectCharacter_command, createCharacter_command,
       deleteCharacter_command
  <2>2. session_state[c] = "CHAR_SELECTION" /\ UNCHANGED character
    BY <2>1 DEF CharacterCommand, CommandAllowed
  <2>3. PICK k \in Names :
          Call(c, call, CharacterRequest(opcode, username[c], k))
    BY <2>1 DEF CharacterCommand
  <2>4. CharacterRequest(opcode, username[c], k).opcode # "EXP_UP"
    BY DEF CharacterRequest, newData
  <2> QED BY <1>9, <2>2, <2>3, <2>4 DEF Calls, SaveCalls
<1>12. CASE point(c)
  <2>1. /\ session_state[c] = "PLAY_GAME" /\ UNCHANGED session_state
        /\ character'[c] = AfterPoint(character[c])
        /\ AfterPoint(character[c]) \in Character
    BY <1>1, <1>12, AfterPointIsCharacter DEF point, CommandAllowed, ControlOK
  <2>2. CASE UNCHANGED <<cpc, c2s>>
    <3>1. Saves(c)' = {}
      BY <1>3, <1>4, <2>2 DEF Saves, Range
    <3>2. Copies(c)' = {AfterPoint(character[c])}
      BY <1>3, <1>4, <2>1, <3>1 DEF Copies, Playing, LoggedIn
    <3>3. CallInState(c)'
      BY <1>2, <2>2 DEF CallInState, SaveCalls
    <3> QED BY <1>3, <1>5, <1>7, <1>12, <2>1, <3>2, <3>3 DEF KeepsCopies
  <2>3. CASE Call(c, "p", SaveRequest(username[c], AfterPoint(character[c])))
    <3>1. Copies(c)' = {AfterPoint(character[c])} /\ CallInState(c)'
      BY <1>8, <2>1, <2>3 DEF SaveCalls
    <3> QED BY <1>3, <1>5, <1>7, <1>12, <2>1, <3>1 DEF KeepsCopies
  <2> QED BY <1>12, <2>2, <2>3 DEF point
<1>13. CASE quit(c) \/ logOut(c)
  <2>1. UNCHANGED character
    BY <1>13 DEF quit, logOut
  <2>2. CASE Call(c, "leaving", newData("EXIT"))
    BY <1>9, <2>1, <2>2, PlainRequest DEF SaveCalls
  <2>3. ASSUME NEW call \in {"quit", "logout"}, NEW opcode \in LogoutOpcodes,
               Call(c, call, UserRequest(opcode, username[c]))
        PROVE  KeepsCopies(c)
    <3>1. UserRequest(opcode, username[c]).opcode # "EXP_UP"
      BY DEF UserRequest, newData, LogoutOpcodes
    <3> QED BY <1>9, <2>1, <2>3, <3>1 DEF Calls, SaveCalls
  <2>4. ASSUME NEW call \in {"quit_save", "logout_save"},
               Call(c, call, SaveRequest(username[c], character[c])),
               session_state[c] = "PLAY_GAME", UNCHANGED session_state
        PROVE  KeepsCopies(c)
    <3>1. Copies(c)' = {character[c]} /\ CallInState(c)'
      BY <1>1, <1>8, <2>1, <2>4 DEF SaveCalls, ControlOK
    <3> QED BY <1>3, <1>5, <1>7, <2>4, <3>1 DEF KeepsCopies
  <2> QED BY <1>13, <2>2, <2>3, <2>4
          DEF quit, logOut, CommandAllowed, LogoutOpcodes
<1> QED BY <1>10, <1>11, <1>12, <1>13 DEF Command

\* An answer makes a granted selection the client's own character, and otherwise
\* leaves it the copy it has, until it is logged out.
LEMMA HandleReplyCopies ==
  ASSUME TypeInvariant, NEW c \in Clients, CallDiscipline(c),
         StateFollowsCall(c), CallInState(c), HandleReply(c)
  PROVE  KeepsCopies(c)
PROOF
<1>1. ControlOK /\ RecordsWellFormed
  BY TypeInvariantParts
<1>2. PICK next : /\ Receive(c, next)
                  /\ cpc[c] \in Calls /\ s2c[c] # << >>
                  /\ next \in {"prompt", "quit", "logout", "leaving"}
  BY DEF HandleReply, login_reply, selectCharacter_reply, report_reply,
         save_reply, quit_reply, logout_reply, Answered, Calls
<1>3. /\ Replied(c) /\ cpc'[c] = next /\ c2s[c] = << >> /\ s2c'[c] = << >>
      /\ spc[c] \in {"recv", "closed"} /\ spc'[c] = spc[c]
  BY <1>2, AnswerIsRead DEF Replied
<1>4. /\ PendingReplies(c)' = {} /\ PendingRequests(c)' = Range(c2s'[c])
      /\ GrantedSelections(c)' = {} /\ ~LogoutServed(c)'
      /\ \A u : ~Granted(c, u)'
  BY <1>2, <1>3 DEF PendingReplies, PendingRequests, Range, GrantedSelections,
     LogoutServed, Granted
<1>5. UNCHANGED dbVars
  BY <1>2 DEF Receive
<1>6. CallInState(c)'
  BY <1>2, <1>3 DEF CallInState, SaveCalls
<1>7. /\ PendingRequests(c) = {} /\ Saves(c) = {}
      /\ PendingReplies(c) = {Head(s2c[c])} /\ Head(s2c[c]) \in Replies
  <2>1. s2c[c] \in Seq(Replies) /\ Len(s2c[c]) = 1
    BY <1>1, <1>3 DEF RecordsWellFormed, Replied
  <2> QED BY <1>3, <2>1 DEF PendingRequests, PendingReplies, Range, Saves
<1>8. Saves(c)' = {}
  <2>1. CASE c2s'[c] = << >>
    BY <1>4, <2>1 DEF Saves, Range
  <2>2. CASE save_reply(c)
    <3>1. PICK opcode \in LogoutOpcodes :
            c2s'[c] = Append(<< >>, UserRequest(opcode, username[c]))
      BY <1>1, <1>3, <2>2 DEF save_reply, LogoutOpcodes, RecordsWellFormed
    <3>2. UserRequest(opcode, username[c]).opcode # "EXP_UP"
      BY DEF UserRequest, newData, LogoutOpcodes
    <3> QED BY <1>4, <3>1, <3>2 DEF Saves, Range
  <2> QED BY <1>3, <2>1, <2>2 DEF HandleReply, login_reply, selectCharacter_reply,
             report_reply, quit_reply, logout_reply
<1>9. /\ Copies(c)' = {ch \in {character'[c]} : session_state'[c] = "PLAY_GAME"}
      /\ Selecting(c)' <=> session_state'[c] = "CHAR_SELECTION"
  BY <1>4, <1>8 DEF Copies, Playing, LoggedIn, Selecting
<1>10. CASE login_reply(c)
  <2>1. cpc[c] = "login" /\ session_state[c] = "USER_LOGIN"
    BY <1>10 DEF login_reply, Answered, StateFollowsCall
  <2>2. session_state'[c] # "PLAY_GAME"
    BY <1>1, <1>10, <2>1 DEF login_reply, ControlOK
  <2>3. ASSUME session_state'[c] = "CHAR_SELECTION" PROVE Selecting(c)
    <3>1. Head(s2c[c]).opcode = "NO_ERROR"
      BY <1>10, <2>1, <2>3 DEF login_reply
    <3> QED BY <1>7, <2>1, <3>1 DEF Replies, Selecting, Granted
  <2> QED BY <1>5, <1>6, <1>9, <2>2, <2>3 DEF KeepsCopies
<1>11. CASE selectCharacter_reply(c)
  <2>1. /\ cpc[c] = "selectchar" /\ session_state[c] = "CHAR_SELECTION"
        /\ LoggedIn(c) /\ ~Playing(c)
    BY <1>11 DEF selectCharacter_reply, Answered, CallInState, LoggedIn, Playing,
       LogoutServed
  <2>2. CASE Head(s2c[c]).opcode = "NO_ERROR"
    <3>1. /\ session_state'[c] = "PLAY_GAME"
          /\ character'[c] = Head(s2c[c]).character
      BY <1>1, <1>11, <2>2 DEF selectCharacter_reply, ControlOK
    <3>2. Head(s2c[c]) \in GrantedSelections(c)
      BY <1>7, <2>1, <2>2 DEF GrantedSelections
    <3> QED BY <1>5, <1>6, <1>9, <3>1, <3>2 DEF KeepsCopies, Copies
  <2>3. CASE Head(s2c[c]).opcode # "NO_ERROR"
    <3>1. UNCHANGED session_state
      BY <1>11, <2>3 DEF selectCharacter_reply
    <3>2. Copies(c) = {}
      BY <1>7, <2>1, <2>3 DEF Copies, GrantedSelections
    <3> QED BY <1>5, <1>6, <1>9, <2>1, <3>1, <3>2 DEF KeepsCopies, Selecting
  <2> QED BY <2>2, <2>3
<1>12. CASE report_reply(c) \/ save_reply(c)
  <2>1. /\ cpc[c] \notin {"quit", "logout", "selectchar"}
        /\ UNCHANGED <<session_state, character>>
    BY <1>12 DEF report_reply, save_reply, Answered
  <2>2. /\ LoggedIn(c) <=> session_state[c] \in LoggedStates
        /\ Copies(c) = {ch \in {character[c]} : session_state[c] = "PLAY_GAME"}
    BY <1>7, <2>1 DEF LoggedIn, LoggedStates, LogoutServed, Copies, Playing,
       GrantedSelections
  <2> QED BY <1>5, <1>6, <1>9, <2>1, <2>2 DEF KeepsCopies, Selecting, LoggedStates
<1>13. CASE quit_reply(c) \/ logout_reply(c)
  <2>1. session_state'[c] \in {"EXIT_GAME", "USER_LOGIN"}
    BY <1>1, <1>13 DEF quit_reply, logout_reply, ControlOK
  <2> QED BY <1>5, <1>6, <1>9, <2>1 DEF KeepsCopies
<1> QED BY <1>10, <1>11, <1>12, <1>13 DEF HandleReply
\* A client that starts has no copy; one that ends leaves the saves it has sent.
LEMMA ProcessCopies ==
  ASSUME TypeInvariant, NEW c \in Clients, CallDiscipline(c),
         StateFollowsCall(c),
         \/ comm_connect(c) \/ disconnect(c)
         \/ clt_sigRutine(c) \/ connection_lost(c)
  PROVE  KeepsCopies(c)
PROOF
<1>1. ControlOK /\ RecordsWellFormed
  BY TypeInvariantParts
<1>2. CASE comm_connect(c)
  <2>1. /\ cpc'[c] = "prompt" /\ spc'[c] = "backlog"
        /\ c2s'[c] = << >> /\ s2c'[c] = << >>
        /\ session_state'[c] = "USER_LOGIN" /\ UNCHANGED dbVars
    BY <1>1, <1>2 DEF comm_connect, ControlOK, CallDiscipline, StateFollowsCall
  <2>2. PendingRequests(c)' = {} /\ PendingReplies(c)' = {}
    BY <2>1 DEF PendingRequests, PendingReplies, Range
  <2>3. Copies(c)' = {}
    BY <2>1, <2>2 DEF Copies, GrantedSelections, Saves, Playing
  <2>4. ~Selecting(c)' /\ CallInState(c)'
    BY <2>1, <2>2 DEF Selecting, Granted, LoggedIn, CallInState, SaveCalls
  <2> QED BY <2>1, <2>3, <2>4 DEF KeepsCopies
<1>3. CASE disconnect(c) \/ clt_sigRutine(c) \/ connection_lost(c)
  <2>1. /\ cpc'[c] = "gone" /\ session_state'[c] = "EXIT_GAME"
        /\ UNCHANGED dbVars
        /\ \A m \in PendingRequests(c)' :
             m.opcode \in AccountOpcodes => m \in PendingRequests(c)
    BY <1>3, EndPending
  <2>2. Saves(c)' \subseteq Saves(c)
    BY <2>1 DEF Saves, AccountOpcodes
  <2>3. Copies(c)' \subseteq Copies(c)
    BY <2>1, <2>2 DEF Copies, GrantedSelections, Playing, LoggedIn
  <2>4. ~Selecting(c)' /\ CallInState(c)'
    BY <2>1 DEF Selecting, Granted, LoggedIn, CallInState, SaveCalls
  <2> QED BY <2>1, <2>3, <2>4 DEF KeepsCopies
<1> QED BY <1>2, <1>3

\* A session by itself neither copies nor loses a character of a client that runs.
LEMMA SessionCopies ==
  ASSUME TypeInvariant, NEW s \in Clients, CallDiscipline(s),
         StateFollowsCall(s), CallInState(s),
         \/ accept(s) \/ receiveData(s) \/ server_process_data(s)
         \/ sendData(s) \/ connect_collision(s)
  PROVE  KeepsCopies(s)
PROOF
<1>1. ControlOK /\ RecordsWellFormed
  BY TypeInvariantParts
<1>2. UNCHANGED <<cpc, session_state, username, character>> /\ UNCHANGED dbVars
  BY DEF accept, receiveData, server_process_data, sendData, connect_collision,
     Goto, clientVars
<1>3. /\ \A m \in PendingRequests(s)' :
           m.opcode \in AccountOpcodes => m \in PendingRequests(s)
      /\ cpc[s] \in Calls => PendingReplies(s)' = PendingReplies(s)
  BY SessionPending
<1>4. {"login", "selectchar", "quit", "logout"} \subseteq Calls
  BY DEF Calls
<1>5. /\ LoggedIn(s)' <=> LoggedIn(s)
      /\ Playing(s)' <=> Playing(s)
      /\ GrantedSelections(s)' = GrantedSelections(s)
      /\ \A u : Granted(s, u)' <=> Granted(s, u)
  BY <1>2, <1>3, <1>4
     DEF LoggedIn, LogoutServed, Playing, GrantedSelections, Granted
<1>6. Saves(s)' \subseteq Saves(s)
  BY <1>3 DEF Saves, AccountOpcodes
<1>7. Copies(s)' \subseteq Copies(s)
  BY <1>2, <1>5, <1>6 DEF Copies
<1>8. Selecting(s)' => Selecting(s)
  <2> SUFFICES ASSUME LoggedIn(s), session_state[s] = "CHAR_SELECTION",
                      Copies(s)' = {}
               PROVE  Copies(s) = {}
    BY <1>2, <1>5 DEF Selecting
  <2>1. cpc[s] \in Calls \cup {"prompt"}
    BY <1>1 DEF ControlOK, ClientPC, StateFollowsCall, LoggedIn
  <2>2. Saves(s) = {}
    BY <2>1, SaveIsCalled DEF CallInState
  <2> QED BY <1>2, <1>5, <2>2 DEF Copies, Playing
<1>9. CallInState(s)'
  BY <1>2 DEF CallInState
<1> QED BY <1>2, <1>7, <1>8, <1>9 DEF KeepsCopies

\* So does every step but the database's.
LEMMA StepCopies ==
  ASSUME TypeInvariant, NEW c \in Clients, CallDiscipline(c), StateFollowsCall(c),
         CallInState(c), Step(c), ~communicate_with_database(c)
  PROVE  KeepsCopies(c)
BY CommandCopies, HandleReplyCopies, ProcessCopies, SessionCopies DEF Step, Session

\* The clients that a step is not about keep their copies.
LEMMA OthersCopyTheSame ==
  ASSUME NEW c \in Clients, NEW d \in Clients \ {c}, UnchangedOthers(c)
  PROVE  /\ Copies(d)' = Copies(d)
         /\ Selecting(d)' <=> Selecting(d)
         /\ CallInState(d)' <=> CallInState(d)
PROOF
<1>1. Copies(d)' = Copies(d)
  BY DEF UnchangedOthers, Copies, GrantedSelections, Saves, Playing, LoggedIn,
     LogoutServed, PendingRequests, PendingReplies
<1>2. Selecting(d)' <=> Selecting(d)
  BY <1>1 DEF UnchangedOthers, Selecting, Granted, LoggedIn, LogoutServed,
     PendingReplies
<1> QED BY <1>1, <1>2 DEF UnchangedOthers, CallInState

-----------------------------------------------------------------------------
(* Layer 4: CharacterInvariant, for those steps.                            *)

\* A copy is a character.
LEMMA CopyIsCharacter ==
  ASSUME TypeInvariant, CallInvariant, NEW c \in Clients
  PROVE  Copies(c) \subseteq Character
PROOF
<1>1. ControlOK /\ RecordsWellFormed
  BY TypeInvariantParts
<1>2. character[c] \in Character
  BY <1>1 DEF ControlOK
<1>3. PendingRequests(c) \subseteq Requests
  BY <1>1 DEF PendingRequests, RecordsWellFormed, Range
<1>4. cpc[c] = "selectchar" => PendingReplies(c) \subseteq Replies
  <2>1. cpc[c] = "selectchar" /\ spc[c] = "send" => data_to_client[c] # NULL
    BY DEF CallInvariant, CallDiscipline, Asked, InService, Replied, Calls
  <2> QED BY <1>1, <2>1 DEF PendingReplies, RecordsWellFormed, Range
<1> QED
  BY <1>2, <1>3, <1>4
     DEF Copies, GrantedSelections, Saves, Requests, Replies, Data

\* A point changes no name.
LEMMA PointKeepsName ==
  ASSUME NEW ch \in Character
  PROVE  AfterPoint(ch).name = ch.name
BY DEF AfterPoint, LevelUp, Character

\* A step that leaves the tables and at most moves a copy keeps every character held.
LEMMA KeptCopiesAreHeld ==
  ASSUME TypeInvariant, CallInvariant, AccountInvariant, CharacterInvariant,
         TypeInvariant', CallInvariant', NEW c \in Clients,
         UnchangedOthers(c), AccountEffect(c), KeepsCopies(c)
  PROVE  CharacterInvariant'
PROOF
<1>1. UNCHANGED <<User, Chars>>
  BY DEF KeepsCopies, dbVars
<1>2. \A u : InUse(u)' <=> InUse(u)
  BY <1>1 DEF InUse
<1>3. GivesUp(c)
  BY <1>2 DEF AccountEffect, GivesUp, Grants, Returns, AccountInvariant
<1>4. \A d \in Clients, u \in Usernames : Holds(d, u)' => Holds(d, u)
  BY <1>3, OthersHoldTheSame DEF GivesUp
<1>5. \A k \in DOMAIN Chars : Chars[k].Name \in Usernames
  BY DEF TypeInvariant, TypeOK, DBTypeOK, CharRow
<1>6. CopiesHeld /\ CopiesAgree /\ MarkedWithin /\ CallsInState
  BY DEF CharacterInvariant
<1>7. CopiesHeld'
  <2> SUFFICES ASSUME NEW d \in Clients, NEW ch \in Copies(d)'
               PROVE  /\ ch.name \in DOMAIN Chars'
                      /\ Chars'[ch.name].Inuse = 1
                      /\ Holds(d, Chars[ch.name].Name)'
    BY DEF CopiesHeld
  <2>1. CASE d # c
    BY <1>1, <1>5, <1>6, <2>1, OthersHoldTheSame, OthersCopyTheSame DEF CopiesHeld
  <2>2. CASE d = c
    <3>1. PICK dh \in Copies(c) : dh.name = ch.name
      BY <2>2, CopyIsCharacter, PointKeepsName DEF KeepsCopies
    <3>2. /\ ch.name \in DOMAIN Chars /\ Chars[ch.name].Inuse = 1
          /\ Holds(c, Chars[ch.name].Name)
      BY <1>6, <3>1 DEF CopiesHeld
    <3>3. StatesFollowCalls'
      BY DEF CallInvariant, StatesFollowCalls
    <3>4. CopiesHaveHolders'
      BY <3>3, CopyHasHolder, PTL
    <3>5. PICK u \in Usernames : Holds(c, u)'
      BY <2>2, <3>4 DEF CopiesHaveHolders
    <3>6. u = Chars[ch.name].Name
      BY <1>4, <3>2, <3>5, OneAccount DEF CallInvariant
    <3> QED BY <1>1, <2>2, <3>2, <3>5, <3>6
  <2> QED BY <2>1, <2>2
<1>8. CopiesAgree'
  <2>1. \A d \in Clients \ {c} : Copies(d)' = Copies(d)
    BY OthersCopyTheSame
  <2> QED BY <1>6, <2>1 DEF CopiesAgree, KeepsCopies
<1>9. MarkedWithin'
  <2>1. \A d \in Clients : Selecting(d)' => Selecting(d)
    BY OthersCopyTheSame DEF KeepsCopies
  <2> QED BY <1>1, <1>2, <1>4, <1>5, <1>6, <2>1 DEF MarkedWithin
<1>10. CallsInState'
  BY <1>6, OthersCopyTheSame DEF CallsInState, KeepsCopies
<1> QED BY <1>7, <1>8, <1>9, <1>10 DEF CharacterInvariant

-----------------------------------------------------------------------------
(* Layer 4: the database's turn.                                            *)

LogsOut(req, u) == req.opcode \in LogoutOpcodes /\ req.username = u

SelectionGranted(req) ==
  req.opcode = "SELECT_CHARACTER" /\ Outcome(req) = "NO_ERROR"

\* A marked row stays, marked and with its owner, unless its owner is logged out.
MarkedRowsStay(req) ==
  \A k \in DOMAIN Chars :
    Chars[k].Inuse = 1 /\ ~LogsOut(req, Chars[k].Name) =>
      /\ k \in DOMAIN Chars'
      /\ Chars'[k].Inuse = 1
      /\ Chars'[k].Name = Chars[k].Name

\* A row is marked because it was and its owner is not logged out, or because it
\* has just been selected.
RowsAreMarkedBySelection(req) ==
  \A k \in DOMAIN Chars' : Chars'[k].Inuse = 1 =>
    \/ /\ k \in DOMAIN Chars /\ Chars[k].Inuse = 1
       /\ Chars'[k].Name = Chars[k].Name
       /\ ~LogsOut(req, Chars[k].Name)
    \/ /\ SelectionGranted(req)
       /\ Chars'[k].Name = req.username

\* The selected row is there, belongs to the account that asked for it and is marked.
SelectedRowIsMarked(req) ==
  SelectionGranted(req) =>
    /\ req.character.name \in DOMAIN Chars'
    /\ Chars'[req.character.name].Name = req.username
    /\ Chars'[req.character.name].Inuse = 1
    /\ Reply(req).character = CharacterOf(req.character.name)
    /\ Reply(req).character.name = req.character.name

\* The handlers treat marks like that (select_callback, delete_callback, logout).
LEMMA HandlersKeepCharacters ==
  ASSUME DBTypeOK, NEW req \in Requests, process_data(req)
  PROVE  /\ MarkedRowsStay(req)
         /\ RowsAreMarkedBySelection(req)
         /\ SelectedRowIsMarked(req)
PROOF
<1>1. \A k \in DOMAIN Chars : Chars[k] \in CharRow
  BY DEF DBTypeOK
<1>2. ASSUME req.opcode \notin LogoutOpcodes, ~SelectionGranted(req),
             \A k \in DOMAIN Chars : Chars[k].Inuse = 1 =>
               /\ k \in DOMAIN Chars'
               /\ Chars'[k].Inuse = 1 /\ Chars'[k].Name = Chars[k].Name,
             \A k \in DOMAIN Chars' : Chars'[k].Inuse = 1 =>
               /\ k \in DOMAIN Chars
               /\ Chars[k].Inuse = 1 /\ Chars'[k].Name = Chars[k].Name
      PROVE  /\ MarkedRowsStay(req)
             /\ RowsAreMarkedBySelection(req)
             /\ SelectedRowIsMarked(req)
  BY <1>2 DEF MarkedRowsStay, RowsAreMarkedBySelection, SelectedRowIsMarked, LogsOut
<1>3. CASE login(req) \/ create_account(req) \/ unhandled(req)
  BY <1>2, <1>3 DEF login, create_account, unhandled, LogoutOpcodes,
     SelectionGranted, HandledOpcodes
<1>4. CASE select_char(req)
  <2>1. req.opcode = "SELECT_CHARACTER" /\ Outcome(req) = CharOutcome(req)
    BY <1>4 DEF select_char, Outcome
  <2>2. CASE CharOutcome(req) = "NO_ERROR"
    <3>1. /\ req.character.name \in DOMAIN Chars
          /\ Chars[req.character.name].Name = req.username
          /\ Chars' = [Chars EXCEPT ![req.character.name].Inuse = 1]
      BY <1>4, <2>2 DEF select_char, CharOutcome
    <3>2. /\ DOMAIN Chars' = DOMAIN Chars
          /\ \A k \in DOMAIN Chars : Chars'[k].Name = Chars[k].Name
          /\ \A k \in DOMAIN Chars \ {req.character.name} : Chars'[k] = Chars[k]
          /\ Chars'[req.character.name].Inuse = 1
      BY <1>1, <3>1 DEF CharRow
    <3>3. /\ Reply(req).character = CharacterOf(req.character.name)
          /\ Reply(req).character.name = req.character.name
      BY <2>1, <2>2 DEF Reply, CharacterOf, Requests, Data
    <3>4. SelectionGranted(req) /\ \A u : ~LogsOut(req, u)
      BY <2>1, <2>2 DEF SelectionGranted, LogsOut, LogoutOpcodes
    <3>5. MarkedRowsStay(req)
      BY <3>2 DEF MarkedRowsStay
    <3>6. RowsAreMarkedBySelection(req)
      BY <3>1, <3>2, <3>4 DEF RowsAreMarkedBySelection
    <3>7. SelectedRowIsMarked(req)
      BY <3>1, <3>2, <3>3 DEF SelectedRowIsMarked
    <3> QED BY <3>5, <3>6, <3>7
  <2>3. CASE CharOutcome(req) # "NO_ERROR"
    BY <1>2, <1>4, <2>1, <2>3 DEF select_char, SelectionGranted, LogoutOpcodes
  <2> QED BY <2>2, <2>3
<1>5. CASE create_char(req)
  <2>1. req.opcode = "CREATE_CHARACTER" /\ Outcome(req) = CreateCharOutcome(req)
    BY <1>5 DEF create_char, Outcome
  <2>2. CASE CreateCharOutcome(req) = "NO_ERROR"
    <3>1. /\ req.character.name \notin DOMAIN Chars
          /\ Chars' = Insert(Chars, req.character.name, NewCharRow(req.username))
      BY <1>5, <2>2 DEF create_char, CreateCharOutcome
    <3>2. /\ DOMAIN Chars \subseteq DOMAIN Chars'
          /\ \A k \in DOMAIN Chars : Chars'[k] = Chars[k]
          /\ \A k \in DOMAIN Chars' \ DOMAIN Chars : Chars'[k].Inuse = 0
      BY <3>1 DEF Insert, NewCharRow
    <3> QED BY <1>2, <2>1, <3>2 DEF SelectionGranted, LogoutOpcodes
  <2>3. CASE CreateCharOutcome(req) # "NO_ERROR"
    BY <1>2, <1>5, <2>1, <2>3 DEF create_char, SelectionGranted, LogoutOpcodes
  <2> QED BY <2>2, <2>3
<1>6. CASE delete_char(req)
  <2>1. req.opcode = "DELETE_CHARACTER"
    BY <1>6 DEF delete_char
  <2>2. CASE CharOutcome(req) = "NO_ERROR"
    <3>1. /\ Chars[req.character.name].Inuse # 1
          /\ Chars' = Delete(Chars, req.character.name)
      BY <1>6, <2>2 DEF delete_char, CharOutcome
    <3>2. /\ DOMAIN Chars' = DOMAIN Chars \ {req.character.name}
          /\ \A k \in DOMAIN Chars' : Chars'[k] = Chars[k]
      BY <3>1 DEF Delete
    <3> QED BY <1>2, <2>1, <3>1, <3>2 DEF SelectionGranted, LogoutOpcodes
  <2>3. CASE CharOutcome(req) # "NO_ERROR"
    BY <1>2, <1>6, <2>1, <2>3 DEF delete_char, SelectionGranted, LogoutOpcodes
  <2> QED BY <2>2, <2>3
<1>7. CASE char_exp_up(req)
  <2>1. /\ req.opcode = "EXP_UP" /\ DOMAIN Chars' = DOMAIN Chars
        /\ \A k \in DOMAIN Chars :
             Chars'[k].Inuse = Chars[k].Inuse /\ Chars'[k].Name = Chars[k].Name
    BY <1>1, <1>7 DEF char_exp_up, CharRow
  <2> QED BY <1>2, <2>1 DEF SelectionGranted, LogoutOpcodes
<1>8. CASE logout(req)
  <2>1. /\ req.opcode \in LogoutOpcodes /\ DOMAIN Chars' = DOMAIN Chars
        /\ \A k \in DOMAIN Chars :
             /\ Chars'[k].Name = Chars[k].Name
             /\ Chars[k].Name = req.username => Chars'[k].Inuse = 0
             /\ Chars[k].Name # req.username => Chars'[k].Inuse = Chars[k].Inuse
    BY <1>1, <1>8 DEF logout, CharRow, LogoutOpcodes
  <2> QED BY <2>1 DEF MarkedRowsStay, RowsAreMarkedBySelection,
             SelectedRowIsMarked, LogsOut, LogoutOpcodes, SelectionGranted
<1> QED BY <1>3, <1>4, <1>5, <1>6, <1>7, <1>8 DEF process_data

\* After a turn a client has the copy it had, if it plays and is not logging out, or
\* the one it has just been granted.
LEMMA TurnCopies ==
  ASSUME TypeInvariant, NEW s \in Clients, CallDiscipline(s), StateFollowsCall(s),
         CallInState(s), NEW req, req = data_from_client[s], communicate_with_database(s)
  PROVE  /\ LoggedIn(s)' => LoggedIn(s) /\ \A u : ~LogsOut(req, u)
         /\ \A ch, dh \in Copies(s)' : ch = dh
         /\ \A ch \in Copies(s)' :
              /\ LoggedIn(s)'
              /\ \/ ch \in Copies(s)
                 \/ /\ SelectionGranted(req)
                    /\ ch = Reply(req).character
                    /\ req.username = username[s]
         /\ Selecting(s)' =>
              \/ req.opcode = "LOGIN" /\ Outcome(req) = "NO_ERROR"
              \/ Selecting(s) /\ ~SelectionGranted(req)
PROOF
<1>1. /\ Reply(req).opcode = Outcome(req)
      /\ UNCHANGED <<cpc, session_state, username, character>>
      /\ \A m \in PendingRequests(s) : m.opcode \in AccountOpcodes => m = req
      /\ \A m \in PendingRequests(s)' : m.opcode \notin AccountOpcodes
      /\ PendingReplies(s) \subseteq PendingReplies(s)'
      /\ cpc[s] \in Calls =>
           /\ Matches(s, req)
           /\ PendingReplies(s) = {}
           /\ PendingReplies(s)' = {Reply(req)}
      /\ cpc[s] \notin Calls => ~LoggedIn(s) /\ ~LoggedIn(s)'
  BY DatabaseTurn
<1>2. CallInState(s) /\ StateFollowsCall(s)
  OBVIOUS
<1>3. Saves(s)' = {}
  BY <1>1 DEF Saves, AccountOpcodes
<1>4. ASSUME LoggedIn(s)'
      PROVE  LoggedIn(s) /\ cpc[s] \in Calls /\ \A u : ~LogsOut(req, u)
  <2>1. LoggedIn(s) /\ cpc[s] \in Calls
    BY <1>1, <1>4 DEF LoggedIn, LogoutServed
  <2>2. cpc[s] \notin {"quit", "logout"}
    BY <1>1, <1>4, <2>1 DEF LoggedIn, LogoutServed
  <2>3. req.opcode \notin LogoutOpcodes
    BY <1>1, <2>1, <2>2 DEF Matches, CallOpcodes, LogoutOpcodes
  <2> QED BY <2>1, <2>3 DEF LogsOut
<1>5. CASE cpc[s] = "selectchar"
  <2>1. /\ session_state[s] = "CHAR_SELECTION" /\ cpc[s] \in Calls
        /\ req.opcode = "SELECT_CHARACTER" /\ req.username = username[s]
    BY <1>1, <1>2, <1>5 DEF CallInState, Calls, Matches, CallOpcodes, AccountCalls
  <2>2. LoggedIn(s)' /\ ~Playing(s)'
    BY <1>1, <1>5, <2>1 DEF LoggedIn, LogoutServed, Playing
  <2>3. Copies(s)' = {ch \in {Reply(req).character} : SelectionGranted(req)}
    <3>1. GrantedSelections(s)' = {r \in {Reply(req)} : SelectionGranted(req)}
      BY <1>1, <1>5, <2>1 DEF GrantedSelections, SelectionGranted
    <3> QED BY <1>3, <2>2, <3>1 DEF Copies
  <2>4. Selecting(s)' => Selecting(s) /\ ~SelectionGranted(req)
    <3>1. Saves(s) = {}
      BY <1>1, <2>1 DEF Saves, AccountOpcodes
    <3>2. Copies(s) = {}
      BY <1>1, <2>1, <3>1 DEF Copies, GrantedSelections, Playing
    <3>3. Selecting(s)
      BY <1>4, <2>1, <2>2, <3>2 DEF Selecting
    <3>4. ASSUME Selecting(s)' PROVE ~SelectionGranted(req)
      BY <1>1, <1>5, <2>3, <3>4 DEF Selecting, Granted
    <3> QED BY <3>3, <3>4
  <2> QED BY <1>4, <2>1, <2>2, <2>3, <2>4
<1>6. CASE cpc[s] # "selectchar"
  <2>1. Copies(s)' = {ch \in {character[s]} : Playing(s)'}
    BY <1>1, <1>3, <1>6 DEF Copies, GrantedSelections
  <2>2. Playing(s)' => Playing(s) /\ LoggedIn(s)'
    BY <1>1, <1>4 DEF Playing
  <2>3. Copies(s)' \subseteq Copies(s)
    BY <2>1, <2>2 DEF Copies
  <2>4. ASSUME Selecting(s)'
        PROVE  \/ req.opcode = "LOGIN" /\ Outcome(req) = "NO_ERROR"
               \/ Selecting(s) /\ ~SelectionGranted(req)
    <3>1. CASE \E u \in Usernames : Granted(s, u)'
      BY <1>1, <3>1 DEF Granted, Calls, Matches, CallOpcodes
    <3>2. CASE LoggedIn(s)' /\ session_state[s] = "CHAR_SELECTION"
      <4>1. LoggedIn(s) /\ cpc[s] \in Calls /\ ~Playing(s)
        BY <1>4, <3>2 DEF Playing
      <4>2. cpc[s] \notin SaveCalls /\ Matches(s, req)
        BY <1>1, <1>2, <3>2, <4>1 DEF CallInState
      <4>3. req.opcode # "EXP_UP" /\ req.opcode # "SELECT_CHARACTER"
        BY <1>6, <4>2 DEF Matches, CallOpcodes, SaveCalls
      <4>4. Saves(s) = {}
        BY <1>1, <4>3 DEF Saves, AccountOpcodes
      <4>5. Copies(s) = {}
        BY <1>6, <4>1, <4>4 DEF Copies, GrantedSelections
      <4> QED BY <3>2, <4>1, <4>3, <4>5 DEF Selecting, SelectionGranted
    <3> QED BY <1>1, <2>4, <3>1, <3>2 DEF Selecting
  <2> QED BY <1>4, <2>1, <2>2, <2>3, <2>4
<1> QED BY <1>5, <1>6

\* The database keeps every character held: it marks a character for the client that
\* holds its account alone, and unmarks, deletes or gives away none that is played.
LEMMA TurnKeepsCharacters ==
  ASSUME TypeInvariant, CallInvariant, AccountInvariant, CharacterInvariant,
         NEW s \in Clients, UnchangedOthers(s), AccountEffect(s),
         communicate_with_database(s)
  PROVE  CharacterInvariant'
PROOF
<1>1. DBTypeOK /\ CallsInState /\ CopiesHeld /\ CopiesAgree /\ MarkedWithin
  BY TypeInvariantParts DEF CharacterInvariant
<1>2. PICK req : req = data_from_client[s]
  OBVIOUS
<1>3. /\ req \in Requests /\ req \in PendingRequests(s) /\ process_data(req)
      /\ UNCHANGED <<cpc, session_state, username>>
  BY <1>2, DatabaseTurn DEF CallInvariant
<1>4. /\ MarkedRowsStay(req)
      /\ RowsAreMarkedBySelection(req)
      /\ SelectedRowIsMarked(req)
  BY <1>1, <1>3, HandlersKeepCharacters
<1>5. /\ LoggedIn(s)' => LoggedIn(s) /\ \A u : ~LogsOut(req, u)
      /\ \A ch, dh \in Copies(s)' : ch = dh
      /\ \A ch \in Copies(s)' :
           /\ LoggedIn(s)'
           /\ \/ ch \in Copies(s)
              \/ /\ SelectionGranted(req)
                 /\ ch = Reply(req).character
                 /\ req.username = username[s]
      /\ Selecting(s)' =>
           \/ req.opcode = "LOGIN" /\ Outcome(req) = "NO_ERROR"
           \/ Selecting(s) /\ ~SelectionGranted(req)
  BY <1>1, <1>2, TurnCopies DEF CallInvariant, CallsInState
<1>6. \A d \in Clients \ {s} : /\ Copies(d)' = Copies(d)
                               /\ Selecting(d)' <=> Selecting(d)
                               /\ CallInState(d)' <=> CallInState(d)
                               /\ \A u : Holds(d, u)' <=> Holds(d, u)
  BY OthersCopyTheSame, OthersHoldTheSame
<1>7. \A k \in DOMAIN Chars : Chars[k].Name \in Usernames
  BY <1>1 DEF DBTypeOK, CharRow
<1>8. ASSUME NEW u \in Usernames, LogsOut(req, u) \/ SelectionGranted(req),
             u = req.username
      PROVE  Holds(s, u) /\ \A d \in Clients \ {s} : ~Holds(d, u)
  <2>1. Holds(s, u)
    BY <1>3, <1>8 DEF LogsOut, SelectionGranted, AccountOpcodes, Holds
  <2> QED BY <1>8, <2>1 DEF AccountInvariant
<1>9. CallsInState'
  BY <1>1, <1>3, <1>6 DEF CallsInState, CallInState
<1>10. CopiesAgree'
  BY <1>1, <1>5, <1>6 DEF CopiesAgree
<1>11. CopiesHeld'
  <2> SUFFICES ASSUME NEW d \in Clients, NEW ch \in Copies(d)'
               PROVE  /\ ch.name \in DOMAIN Chars'
                      /\ Chars'[ch.name].Inuse = 1
                      /\ Holds(d, Chars[ch.name].Name)'
    BY DEF CopiesHeld
  <2>1. CASE d # s
    <3>1. /\ ch.name \in DOMAIN Chars /\ Chars[ch.name].Inuse = 1
          /\ Holds(d, Chars[ch.name].Name)
      BY <1>1, <1>6, <2>1 DEF CopiesHeld
    <3>2. ~LogsOut(req, Chars[ch.name].Name)
      BY <1>7, <1>8, <2>1, <3>1 DEF LogsOut
    <3> QED BY <1>4, <1>6, <2>1, <3>1, <3>2 DEF MarkedRowsStay
  <2>2. CASE d = s
    <3>1. /\ LoggedIn(s)' /\ LoggedIn(s) /\ \A u : ~LogsOut(req, u)
          /\ Holds(s, username[s]) /\ \A u : u = username[s] => Holds(s, u)'
      BY <1>3, <1>5, <2>2 DEF Holds
    <3>2. CASE ch \in Copies(s)
      <4>1. /\ ch.name \in DOMAIN Chars /\ Chars[ch.name].Inuse = 1
            /\ Holds(s, Chars[ch.name].Name)
        BY <1>1, <3>2 DEF CopiesHeld
      <4>2. Chars[ch.name].Name = username[s]
        BY <3>1, <4>1, OneAccount DEF CallInvariant
      <4> QED BY <1>4, <2>2, <3>1, <4>1, <4>2 DEF MarkedRowsStay
    <3>3. CASE ch \notin Copies(s)
      BY <1>4, <1>5, <2>2, <3>1, <3>3 DEF SelectedRowIsMarked
    <3> QED BY <3>2, <3>3
  <2> QED BY <2>1, <2>2
<1>12. MarkedWithin'
  <2> SUFFICES ASSUME NEW k \in DOMAIN Chars', Chars'[k].Inuse = 1,
                      NEW o, o = Chars'[k].Name
               PROVE  /\ InUse(o)'
                      /\ \A d \in Clients : Holds(d, o)' => ~Selecting(d)'
    BY DEF MarkedWithin
  <2>1. CASE /\ k \in DOMAIN Chars /\ Chars[k].Inuse = 1
             /\ o = Chars[k].Name /\ ~LogsOut(req, o)
    <3>1. o \in Usernames /\ InUse(o)
          /\ \A d \in Clients : Holds(d, o) => ~Selecting(d)
      BY <1>1, <1>7, <2>1 DEF MarkedWithin
    <3>2. InUse(o)'
      BY <1>1, <1>3, <2>1, <3>1, HandlersKeepMarks DEF LogsOut
    <3>3. ASSUME Holds(s, o)', Selecting(s)' PROVE FALSE
      <4>1. GivesUp(s)
        BY <3>1, <3>3 DEF AccountEffect, Grants, Returns
      <4>2. ~(req.opcode = "LOGIN" /\ Outcome(req) = "NO_ERROR")
        BY <1>1, <1>3, <4>1, HandlersKeepMarks DEF GivesUp
      <4> QED BY <1>5, <3>1, <3>3, <4>1, <4>2 DEF GivesUp
    <3> QED BY <1>6, <3>1, <3>2, <3>3
  <2>2. CASE SelectionGranted(req) /\ o = req.username
    <3>1. o \in Usernames
      BY <1>3, <2>2 DEF SelectionGranted, Requests, AccountOpcodes
    <3>2. InUse(o)
      BY <1>8, <2>2, <3>1 DEF AccountInvariant
    <3>3. InUse(o)'
      BY <1>1, <1>3, <2>2, <3>1, <3>2, HandlersKeepMarks
         DEF SelectionGranted, LogoutOpcodes
    <3>4. ~Selecting(s)'
      BY <1>5, <2>2 DEF SelectionGranted
    <3> QED BY <1>6, <1>8, <2>2, <3>1, <3>3, <3>4
  <2> QED BY <1>4, <2>1, <2>2 DEF RowsAreMarkedBySelection
<1> QED BY <1>9, <1>10, <1>11, <1>12 DEF CharacterInvariant

-----------------------------------------------------------------------------
(* Layer 4: the theorems.                                                   *)

\* Initially there is no copy and no row.
LEMMA CharacterInit == Init => CharacterInvariant
PROOF
<1> SUFFICES ASSUME Init PROVE CharacterInvariant
  OBVIOUS
<1>1. ASSUME NEW c \in Clients
      PROVE  Copies(c) = {} /\ CallInState(c)
  <2>1. PendingRequests(c) = {} /\ PendingReplies(c) = {}
    BY DEF Init, PendingRequests, PendingReplies, Range
  <2> QED BY <2>1 DEF Init, Copies, GrantedSelections, Saves, Playing, LoggedIn,
             CallInState, SaveCalls
<1>2. DOMAIN Chars = {}
  BY DEF Init, initialize_table
<1> QED BY <1>1, <1>2
        DEF CharacterInvariant, CallsInState, CopiesHeld, CopiesAgree, MarkedWithin

\* Every step keeps every character held.
LEMMA CharacterStep ==
  /\ TypeInvariant /\ CallInvariant /\ AccountInvariant /\ CharacterInvariant
  /\ TypeInvariant' /\ CallInvariant' /\ [Next]_vars
  => CharacterInvariant'
PROOF
<1> SUFFICES ASSUME TypeInvariant, CallInvariant, AccountInvariant,
                    CharacterInvariant, TypeInvariant', CallInvariant',
                    [Next]_vars
             PROVE  CharacterInvariant'
  OBVIOUS
<1>1. CASE UNCHANGED vars
  <2>1. \A c \in Clients : /\ Copies(c)' = Copies(c)
                           /\ Selecting(c)' <=> Selecting(c)
                           /\ CallInState(c)' <=> CallInState(c)
                           /\ \A u : Holds(c, u)' <=> Holds(c, u)
    BY <1>1 DEF vars, clientVars, serverVars, Copies, GrantedSelections, Saves,
       Playing, Selecting, CallInState, Holds, LoggedIn, LogoutServed, Granted,
       PendingRequests, PendingReplies
  <2>2. UNCHANGED Chars /\ \A u : InUse(u)' <=> InUse(u)
    BY <1>1 DEF vars, dbVars, InUse
  <2> QED BY <2>1, <2>2 DEF CharacterInvariant, CallsInState, CopiesHeld,
             CopiesAgree, MarkedWithin
<1>2. ASSUME NEW c \in Clients, Step(c)
      PROVE  CharacterInvariant'
  <2>1. UnchangedOthers(c) /\ AccountEffect(c)
    BY <1>2, StepIsLocal, StepEffect DEF CallInvariant
  <2>2. CASE communicate_with_database(c)
    BY <2>1, <2>2, TurnKeepsCharacters
  <2>3. CASE ~communicate_with_database(c)
    <3>1. KeepsCopies(c)
      BY <1>2, <2>3, StepCopies DEF CharacterInvariant, CallInvariant, CallsInState
    <3> QED BY <2>1, <3>1, KeptCopiesAreHeld
  <2> QED BY <2>2, <2>3
<1> QED BY <1>1, <1>2, NextIsStep

\* Every copy of a character that a client has is of a marked row of the account it
\* holds, no client has two, and a marked row is out of reach of every client that
\* may still select (select_callback, delete_callback, logout).
THEOREM CharacterInvariantHolds == Spec => []CharacterInvariant
BY TypeInvariantHolds, CallInvariantHolds, AccountInvariantHolds, CharacterInit,
   CharacterStep, PTL DEF Spec

\* Nobody deletes, unmarks or takes over a character while a client plays it, however
\* clients come and go.
THEOREM CharacterHeldWhilePlayed == Spec => []PlayedCharacterHeld
PROOF
<1>1. TypeInvariant /\ CallInvariant /\ CharacterInvariant => PlayedCharacterHeld
  <2> SUFFICES ASSUME TypeInvariant, CallInvariant, CharacterInvariant,
                      NEW c \in Clients, Playing(c)
               PROVE  /\ character[c].name \in DOMAIN Chars
                      /\ Chars[character[c].name].Name = username[c]
                      /\ Chars[character[c].name].Inuse = 1
    BY DEF PlayedCharacterHeld
  <2>1. character[c] \in Copies(c)
    BY DEF Copies
  <2>2. /\ character[c].name \in DOMAIN Chars
        /\ Chars[character[c].name].Inuse = 1
        /\ Holds(c, Chars[character[c].name].Name)
    BY <2>1 DEF CharacterInvariant, CopiesHeld
  <2>3. Holds(c, username[c])
    BY DEF Playing, Holds
  <2>4. Chars[character[c].name].Name = username[c]
    BY <2>2, <2>3, OneAccount DEF CallInvariant
  <2> QED BY <2>2, <2>4
<1> QED BY <1>1, TypeInvariantHolds, CallInvariantHolds, CharacterInvariantHolds, PTL

-----------------------------------------------------------------------------
(* Layer 5: what is answered.                                               *)

\* The database answers a call with an outcome of its handler.  A client that selects
\* or deletes a character plays none, so it never meets one that is busy; and the
\* result code that create_char compares with the limit is never equal to it.
LEMMA TurnAnswers ==
  ASSUME TypeInvariant, CallInvariant, CharacterInvariant, NEW s \in Clients,
         NEW req, req = data_from_client[s], communicate_with_database(s),
         cpc[s] \in Calls
  PROVE  Outcome(req) \in Answers[cpc[s]]
PROOF
<1>1. /\ req \in PendingRequests(s) /\ Matches(s, req)
      /\ PendingReplies(s) = {}
      /\ \A m \in PendingRequests(s) : m.opcode \in AccountOpcodes => m = req
  BY DatabaseTurn DEF CallInvariant
<1>2. CallInState(s) /\ MarkedWithin
  BY DEF CharacterInvariant, CallsInState
<1>3. CASE cpc[s] = "login"
  <2>1. req.opcode = "LOGIN"
    BY <1>1, <1>3 DEF Matches, CallOpcodes
  <2> QED BY <1>3, <2>1 DEF Outcome, LoginOutcome, Answers
<1>4. CASE cpc[s] = "createaccount"
  <2>1. req.opcode = "CREATE_ACCOUNT"
    BY <1>1, <1>4 DEF Matches, CallOpcodes
  <2> QED BY <1>4, <2>1 DEF Outcome, CreateAccountOutcome, Answers
<1>5. CASE cpc[s] = "createchar"
  <2>1. req.opcode = "CREATE_CHARACTER"
    BY <1>1, <1>5 DEF Matches, CallOpcodes
  <2>2. CountRc(req.username) # MAX_CHARACTERS
    BY DEF CountRc, ExecRcOfCallback, SQLITE_OK, SQLITE_ABORT, MAX_CHARACTERS
  <2> QED BY <1>5, <2>1, <2>2 DEF Outcome, CreateCharOutcome, Answers
<1>6. CASE cpc[s] \in {"selectchar", "deletechar"}
  <2>1. req.opcode \in {"SELECT_CHARACTER", "DELETE_CHARACTER"}
    BY <1>1, <1>6 DEF Matches, CallOpcodes
  <2>2. session_state[s] = "CHAR_SELECTION"
    BY <1>2, <1>6 DEF CallInState
  <2>3. LoggedIn(s) /\ ~Playing(s)
    BY <1>6, <2>2 DEF LoggedIn, LogoutServed, Playing
  <2>4. Copies(s) = {}
    <3>1. Saves(s) = {}
      BY <1>1, <2>1 DEF Saves, AccountOpcodes
    <3> QED BY <1>1, <2>3, <3>1 DEF Copies, GrantedSelections
  <2>5. Selecting(s) /\ Holds(s, req.username)
    BY <1>1, <2>1, <2>2, <2>3, <2>4 DEF Selecting, Holds, AccountOpcodes
  <2>6. CharOutcome(req) # "CHAR_BUSY"
    <3>1. ASSUME req.character.name \in DOMAIN Chars,
                 Chars[req.character.name].Name = req.username
          PROVE  Chars[req.character.name].Inuse # 1
      BY <1>2, <2>5, <3>1 DEF MarkedWithin
    <3> QED BY <3>1 DEF CharOutcome
  <2>7. Outcome(req) = CharOutcome(req)
    BY <2>1 DEF Outcome
  <2> QED BY <1>6, <2>6, <2>7 DEF CharOutcome, Answers
<1>7. CASE cpc[s] \in SaveCalls \cup {"quit", "logout"}
  <2>1. req.opcode \in {"EXP_UP", "EXIT_AND_LOGOUT", "LOGOUT"}
    BY <1>1, <1>7 DEF Matches, CallOpcodes, SaveCalls
  <2>2. Outcome(req) = "NO_ERROR"
    BY <2>1 DEF Outcome
  <2> QED BY <1>7, <2>2 DEF Answers, SaveCalls
<1> QED BY <1>3, <1>4, <1>5, <1>6, <1>7 DEF Calls, SaveCalls

\* Every step keeps the answers with their calls.
LEMMA AnswerStep ==
  TypeInvariant /\ CallInvariant /\ CharacterInvariant /\ AnswerInvariant
    /\ [Next]_vars => AnswerInvariant'
PROOF
<1> SUFFICES ASSUME TypeInvariant, CallInvariant, CharacterInvariant,
                    AnswerInvariant, [Next]_vars
             PROVE  AnswerInvariant'
  OBVIOUS
<1>1. CASE UNCHANGED vars
  BY <1>1 DEF vars, clientVars, serverVars, AnswerInvariant, PendingReplies
<1>2. ASSUME NEW c \in Clients, Step(c)
      PROVE  AnswerInvariant'
  <2>1. UnchangedOthers(c)
    BY <1>2, StepIsLocal
  <2>2. CallDiscipline(c) /\ StateFollowsCall(c)
    BY DEF CallInvariant
  <2> DEFINE AnswersOf(d) ==
        cpc[d] \in Calls =>
          \A r \in PendingReplies(d) :
            /\ r.opcode \in Answers[cpc[d]]
            /\ session_state[d] # "USER_LOGIN" => r.username = username[d]
  <2>3. SUFFICES AnswersOf(c)'
    BY <2>1 DEF UnchangedOthers, AnswerInvariant, PendingReplies
  <2>4. CASE Command(c)
    <3>1. PendingReplies(c)' = {}
      BY <2>2, <2>4, CommandEffect DEF PendingReplies, Range
    <3> QED BY <3>1
  <2>5. CASE HandleReply(c)
    <3>1. PICK next : Receive(c, next) /\ cpc[c] \in Calls /\ s2c[c] # << >>
      BY <2>5 DEF HandleReply, login_reply, selectCharacter_reply, report_reply,
         save_reply, quit_reply, logout_reply, Answered, Calls
    <3>2. PendingReplies(c)' = {}
      BY <2>2, <3>1, AnswerIsRead DEF Replied, PendingReplies, Range
    <3> QED BY <3>2
  <2>6. CASE \/ comm_connect(c) \/ disconnect(c)
             \/ clt_sigRutine(c) \/ connection_lost(c)
    <3>1. cpc'[c] \in {"prompt", "gone"}
      BY <2>6, EndPending DEF comm_connect, TypeInvariant, TypeOK
    <3> QED BY <3>1 DEF Calls
  <2>7. CASE communicate_with_database(c)
    <3>1. PICK req : req = data_from_client[c]
      OBVIOUS
    <3>2. /\ UNCHANGED <<cpc, session_state, username>>
          /\ Reply(req).username = req.username
          /\ Reply(req).opcode = Outcome(req)
          /\ cpc[c] \in Calls =>
               Matches(c, req) /\ PendingReplies(c)' = {Reply(req)}
      BY <2>7, <3>1, DatabaseTurn DEF CallInvariant
    <3>3. cpc[c] \in Calls => Outcome(req) \in Answers[cpc[c]]
      BY <2>7, <3>1, TurnAnswers
    <3>4. cpc[c] \in Calls /\ session_state[c] # "USER_LOGIN"
            => req.username = username[c]
      BY <2>2, <3>2 DEF Matches, StateFollowsCall, AccountCalls
    <3> QED BY <3>2, <3>3, <3>4
  <2>8. CASE \/ accept(c) \/ receiveData(c) \/ server_process_data(c)
             \/ sendData(c) \/ connect_collision(c)
    <3>1. UNCHANGED <<cpc, session_state, username>>
      BY <2>8 DEF accept, receiveData, server_process_data, sendData,
         connect_collision, Goto, clientVars
    <3>2. cpc[c] \in Calls => PendingReplies(c)' = PendingReplies(c)
      BY <2>2, <2>8, SessionPending
    <3> QED BY <3>1, <3>2 DEF AnswerInvariant
  <2> QED BY <1>2, <2>4, <2>5, <2>6, <2>7, <2>8 DEF Step, Session
<1> QED BY <1>1, <1>2, NextIsStep

\* Before the first call there is no answer.
LEMMA AnswerInit == Init => AnswerInvariant
BY DEF Init, AnswerInvariant, Calls

\* A client reads the answer to the call it made and no other, with an outcome of that
\* handler; in particular it never reads CHAR_BUSY or TOO_MANY_CHARS (client.c:389).
THEOREM AnswersAreToCalls == Spec => []AnswersMatchCalls
PROOF
<1>1. CallInvariant /\ AnswerInvariant => AnswersMatchCalls
  <2> SUFFICES ASSUME CallInvariant, AnswerInvariant, NEW c \in Clients
               PROVE  /\ cpc[c] = "prompt" => s2c[c] = << >>
                      /\ cpc[c] \in Calls =>
                           /\ Len(s2c[c]) <= 1
                           /\ \A r \in Range(s2c[c]) :
                                /\ r.opcode \in Answers[cpc[c]]
                                /\ session_state[c] # "USER_LOGIN" =>
                                     r.username = username[c]
    BY DEF AnswersMatchCalls
  <2>1. CallDiscipline(c)
    BY DEF CallInvariant
  <2>2. cpc[c] = "prompt" => s2c[c] = << >>
    BY <2>1 DEF CallDiscipline, Idle
  <2>3. cpc[c] \in Calls => Len(s2c[c]) <= 1
    <3>1. cpc[c] \in Calls => s2c[c] = << >> \/ Len(s2c[c]) = 1
      BY <2>1 DEF CallDiscipline, Asked, InService, Replied
    <3>2. ASSUME s2c[c] = << >> PROVE Len(s2c[c]) <= 1
      BY <3>2
    <3>3. ASSUME Len(s2c[c]) = 1 PROVE Len(s2c[c]) <= 1
      BY <3>3
    <3> QED BY <3>1, <3>2, <3>3
  <2> QED BY <2>2, <2>3 DEF AnswerInvariant, PendingReplies
<1> QED BY <1>1, AnswerInit, AnswerStep, TypeInvariantHolds, CallInvariantHolds,
           CharacterInvariantHolds, PTL DEF Spec

-----------------------------------------------------------------------------
(* Layer 5: the points below a level.                                       *)

\* A non-empty set of numbers has a least one: what holds of every number is proved
\* below by its least counterexample.
LEMMA LeastElement ==
  ASSUME NEW T \in SUBSET Nat, T # {}
  PROVE  \E m \in T : \A k \in T : m <= k
PROOF
<1> DEFINE R == OpToRel(<, Nat)
<1>1. IsWellFoundedOn(R, Nat)
  BY NatLessThanWellFounded
<1>2. \E m \in T : \A k \in T : <<k, m>> \notin R
  <2> HIDE DEF R
  <2> QED BY <1>1, WFMin
<1>3. \A k, m \in T : <<k, m>> \notin R => m <= k
  BY DEF OpToRel
<1> QED BY <1>2, <1>3

\* PointsBelow satisfies its recursive definition: the functions that satisfy it up to
\* some level exist and agree, and together they satisfy it everywhere.
LEMMA PointsBelowUnfolds ==
  PointsBelow = [l \in Nat |->
    IF l <= 1 THEN 0 ELSE PointsBelow[l - 1] + levelsExp[l - 1] + 1]
PROOF
<1> DEFINE Body(g, l) == IF l <= 1 THEN 0 ELSE g[l - 1] + levelsExp[l - 1] + 1
           Upto(n, g) == g = [l \in 0..n |-> Body(g, l)]
<1>1. \A n \in Nat : \E g : Upto(n, g)
  <2> DEFINE T == {n \in Nat : ~ \E g : Upto(n, g)}
  <2> SUFFICES ASSUME T # {} PROVE FALSE
    OBVIOUS
  <2>1. PICK m \in T : \A k \in T : m <= k
    <3> HIDE DEF T
    <3>1. T \in SUBSET Nat
      BY DEF T
    <3> QED BY <3>1, LeastElement
  <2>2. CASE m = 0
    <3>1. Upto(0, [l \in 0..0 |-> 0])
      OBVIOUS
    <3> QED BY <2>2, <3>1
  <2>3. CASE m # 0
    <3>1. m - 1 \in Nat /\ m - 1 \notin T
      <4>1. m \in Nat
        OBVIOUS
      <4> HIDE DEF T
      <4> QED BY <2>1, <2>3, <4>1
    <3>2. PICK g : Upto(m - 1, g)
      BY <3>1
    <3> DEFINE h == [l \in 0..m |-> IF l = m THEN Body(g, m) ELSE g[l]]
    <3>3. \A l \in 0..m : h[l] = Body(h, l)
      <4>1. CASE m <= 1
        BY <3>2, <4>1
      <4>2. ASSUME m > 1, NEW l \in 0..m PROVE h[l] = Body(h, l)
        <5>1. CASE l = m
          <6>1. h[l - 1] = g[l - 1]
            BY <4>2, <5>1
          <6> QED BY <4>2, <5>1, <6>1
        <5>2. CASE l # m
          <6>1. l \in 0..(m - 1) /\ h[l] = g[l] /\ g[l] = Body(g, l)
            BY <3>2, <5>2
          <6>2. l > 1 => h[l - 1] = g[l - 1]
            BY <5>2
          <6> QED BY <6>1, <6>2
        <5> QED BY <5>1, <5>2
      <4> QED BY <4>1, <4>2
    <3>4. Upto(m, h)
      <4>1. h = [l \in 0..m |-> h[l]]
        OBVIOUS
      <4> HIDE DEF h
      <4> QED BY <3>3, <4>1
    <3> QED BY <3>4
  <2> QED BY <2>2, <2>3
<1>2. ASSUME NEW n \in Nat, NEW k \in Nat, n <= k,
             NEW g, Upto(n, g), NEW h, Upto(k, h)
      PROVE  \A l \in 0..n : g[l] = h[l]
  <2> DEFINE T == {l \in 0..n : g[l] # h[l]}
  <2> SUFFICES ASSUME T # {} PROVE FALSE
    OBVIOUS
  <2>1. PICK m \in T : \A l \in T : m <= l
    <3> HIDE DEF T
    <3>1. T \in SUBSET Nat
      BY DEF T
    <3> QED BY <3>1, LeastElement
  <2>2. m \in 0..n /\ m \in 0..k /\ g[m] = Body(g, m) /\ h[m] = Body(h, m)
    BY <1>2
  <2>3. m > 1 => m - 1 \notin T /\ m - 1 \in 0..n
    BY <2>1, <2>2
  <2> QED BY <2>1, <2>2, <2>3
<1> DEFINE G(n) == CHOOSE g : Upto(n, g)
           F == [n \in Nat |-> G(n)[n]]
<1>3. \A n \in Nat : Upto(n, G(n))
  BY <1>1
<1>4. F = [l \in Nat |-> Body(F, l)]
  <2>1. ASSUME NEW l \in Nat PROVE F[l] = Body(F, l)
    <3>1. F[l] = Body(G(l), l)
      <4>1. Upto(l, G(l)) /\ l \in 0..l
        BY <1>3
      <4> HIDE DEF G
      <4> QED BY <4>1
    <3>2. ASSUME l > 1 PROVE F[l - 1] = G(l)[l - 1]
      <4>1. l - 1 \in Nat /\ l - 1 <= l /\ l - 1 \in 0..(l - 1)
        BY <3>2
      <4>2. Upto(l - 1, G(l - 1)) /\ Upto(l, G(l))
        BY <1>3, <4>1
      <4> HIDE DEF G, Upto
      <4> QED BY <1>2, <4>1, <4>2
    <3> HIDE DEF F, G
    <3> QED BY <3>1, <3>2
  <2>2. F = [l \in Nat |-> F[l]]
    OBVIOUS
  <2> HIDE DEF F
  <2> QED BY <2>1, <2>2
<1>5. \E g : g = [l \in Nat |->
                    IF l <= 1 THEN 0 ELSE g[l - 1] + levelsExp[l - 1] + 1]
  <2> HIDE DEF F
  <2> QED BY <1>4
<1> QED BY <1>5 DEF PointsBelow

\* The points of a level are those of the level below it, that level's need and one.
LEMMA PointsBelowNext ==
  /\ \A l \in 1..LEVEL_MAX : PointsBelow[l] \in Nat
  /\ \A l \in 1..LEVEL_MAX :
       l < LEVEL_MAX => PointsBelow[l + 1] = PointsBelow[l] + levelsExp[l] + 1
PROOF
<1>1. \A l \in Nat : PointsBelow[l] =
        IF l <= 1 THEN 0 ELSE PointsBelow[l - 1] + levelsExp[l - 1] + 1
  BY PointsBelowUnfolds
<1>2. \A l \in 1..LEVEL_MAX :
        l < LEVEL_MAX => PointsBelow[l + 1] = PointsBelow[l] + levelsExp[l] + 1
  <2> SUFFICES ASSUME NEW l \in 1..LEVEL_MAX
               PROVE  PointsBelow[l + 1] = PointsBelow[l] + levelsExp[l] + 1
    OBVIOUS
  <2>1. l + 1 \in Nat /\ ~(l + 1 <= 1) /\ (l + 1) - 1 = l
    OBVIOUS
  <2> QED BY <1>1, <2>1
<1>3. \A l \in 1..LEVEL_MAX : PointsBelow[l] \in Nat
  <2> DEFINE T == {l \in 1..LEVEL_MAX : PointsBelow[l] \notin Nat}
  <2> SUFFICES ASSUME T # {} PROVE FALSE
    OBVIOUS
  <2>1. PICK m \in T : \A k \in T : m <= k
    <3> HIDE DEF T
    <3>1. T \in SUBSET Nat
      BY DEF T
    <3> QED BY <3>1, LeastElement
  <2>2. m > 1
    BY <1>1
  <2>3. m - 1 \in 1..LEVEL_MAX /\ m - 1 \notin T
    BY <2>1, <2>2, GameAssumption
  <2>4. PointsBelow[m - 1] \in Nat /\ levelsExp[m - 1] \in Nat
    BY <2>3, GameAssumption
  <2>5. PointsBelow[m] = PointsBelow[m - 1] + levelsExp[m - 1] + 1
    BY <1>1, <2>2
  <2> QED BY <2>4, <2>5
<1> QED BY <1>2, <1>3

-----------------------------------------------------------------------------
(* Layer 5: how far progress has come.                                      *)

ConsistentCopy(ch) == Consistent(ch.lvl, ch.totalExp, ch.currentExp)

\* A consistent character has gained some number of points.
LEMMA GainedIsNat ==
  ASSUME NEW ch \in Character, ConsistentCopy(ch)
  PROVE  Gained(ch) \in Nat
BY PointsBelowNext DEF ConsistentCopy, Consistent, Gained, Character

\* A point is a point: one more is gained, also where it enters the next level, whose
\* need is then the one in the table (point, level_up).
LEMMA PointGainsOne ==
  ASSUME NEW ch \in Character, ConsistentCopy(ch)
  PROVE  /\ ConsistentCopy(AfterPoint(ch))
         /\ Gained(AfterPoint(ch)) = Gained(ch) + 1
PROOF
<1>1. /\ ch.lvl \in 1..LEVEL_MAX /\ ch.totalExp = levelsExp[ch.lvl]
      /\ ch.lvl < LEVEL_MAX => ch.currentExp <= ch.totalExp
      /\ ch.currentExp \in Nat /\ ch.totalExp \in Nat
  BY DEF ConsistentCopy, Consistent, Character
<1>2. CASE ch.currentExp = ch.totalExp /\ ch.lvl < LEVEL_MAX
  <2>1. AfterPoint(ch) = LevelUp(ch)
    BY <1>2 DEF AfterPoint
  <2>2. ch.lvl + 1 \in 1..LEVEL_MAX
    BY <1>1, <1>2, GameAssumption
  <2>3. ConsistentCopy(AfterPoint(ch))
    <3>1. levelsExp[ch.lvl + 1] \in Nat
      BY <2>2, GameAssumption
    <3> QED BY <2>1, <2>2, <3>1 DEF LevelUp, ConsistentCopy, Consistent
  <2>4. /\ PointsBelow[ch.lvl + 1] = PointsBelow[ch.lvl] + levelsExp[ch.lvl] + 1
        /\ PointsBelow[ch.lvl] \in Nat
    BY <1>1, <1>2, PointsBelowNext
  <2>5. Gained(AfterPoint(ch)) = PointsBelow[ch.lvl + 1] + 0
    BY <2>1 DEF Gained, LevelUp
  <2> QED BY <1>1, <1>2, <2>3, <2>4, <2>5 DEF Gained
<1>3. CASE ~(ch.currentExp = ch.totalExp /\ ch.lvl < LEVEL_MAX)
  <2>1. /\ AfterPoint(ch).lvl = ch.lvl /\ AfterPoint(ch).totalExp = ch.totalExp
        /\ AfterPoint(ch).currentExp = ch.currentExp + 1
    BY <1>3 DEF AfterPoint, Character
  <2>2. PointsBelow[ch.lvl] \in Nat
    BY <1>1, PointsBelowNext
  <2> QED BY <1>1, <1>3, <2>1, <2>2 DEF ConsistentCopy, Consistent, Gained
<1> QED BY <1>2, <1>3

\* Whatever a handler leaves in a row was there, is the first level's, or is what a
\* save carries (create_char, char_exp_up).
LEMMA HandlersWriteProgress ==
  ASSUME DBTypeOK, NEW req \in Requests, process_data(req), NEW k \in DOMAIN Chars'
  PROVE  \/ /\ k \in DOMAIN Chars
            /\ Chars'[k].Level = Chars[k].Level
            /\ Chars'[k].TotalExp = Chars[k].TotalExp
            /\ Chars'[k].CurrentExp = Chars[k].CurrentExp
         \/ /\ k \notin DOMAIN Chars
            /\ Chars'[k] = NewCharRow(req.username)
         \/ /\ req.opcode = "EXP_UP" /\ req.character.name = k
            /\ Chars'[k].Level = req.character.lvl
            /\ Chars'[k].TotalExp = req.character.totalExp
            /\ Chars'[k].CurrentExp = req.character.currentExp
PROOF
<1>1. \A n \in DOMAIN Chars : Chars[n] \in CharRow
  BY DEF DBTypeOK
<1>2. CASE login(req) \/ create_account(req) \/ unhandled(req)
  BY <1>2 DEF login, create_account, unhandled
<1>3. CASE select_char(req)
  BY <1>1, <1>3 DEF select_char, CharRow
<1>4. CASE create_char(req)
  <2>1. CASE CreateCharOutcome(req) = "NO_ERROR"
    <3>1. /\ req.character.name \notin DOMAIN Chars
          /\ Chars' = Insert(Chars, req.character.name, NewCharRow(req.username))
      BY <1>4, <2>1 DEF create_char, CreateCharOutcome
    <3> QED BY <3>1 DEF Insert
  <2>2. CASE CreateCharOutcome(req) # "NO_ERROR"
    BY <1>4, <2>2 DEF create_char
  <2> QED BY <2>1, <2>2
<1>5. CASE delete_char(req)
  BY <1>5 DEF delete_char, Delete
<1>6. CASE char_exp_up(req)
  BY <1>1, <1>6 DEF char_exp_up, CharRow
<1>7. CASE logout(req)
  BY <1>1, <1>7 DEF logout, CharRow
<1> QED BY <1>2, <1>3, <1>4, <1>5, <1>6, <1>7 DEF process_data

ExperienceRow(k) ==
  Consistent(Chars[k].Level, Chars[k].TotalExp, Chars[k].CurrentExp)

NotBehind(ch) == ConsistentCopy(ch) /\ Saved(ch.name) <= Gained(ch)

\* A row that a turn overwrites is overwritten by a copy of the one client that has one.
LEMMA TurnSaves ==
  ASSUME TypeInvariant, CallInvariant, AccountInvariant, CharacterInvariant,
         ExperienceInvariant, NEW s \in Clients,
         NEW req, req = data_from_client[s], communicate_with_database(s),
         NEW k \in DOMAIN Chars'
  PROVE  /\ ExperienceRow(k)'
         /\ k \in DOMAIN Chars => Saved(k) <= Saved(k)'
         /\ k \in DOMAIN Chars /\ Saved(k) # Saved(k)' =>
              /\ req.opcode = "EXP_UP" /\ req.character \in Copies(s)
              /\ req.character.name = k /\ Saved(k)' = Gained(req.character)
PROOF
<1>1. DBTypeOK
  BY TypeInvariantParts
<1>2. req \in Requests /\ req \in PendingRequests(s) /\ process_data(req)
  BY DatabaseTurn DEF CallInvariant
<1>3. CASE /\ k \in DOMAIN Chars
           /\ Chars'[k].Level = Chars[k].Level
           /\ Chars'[k].TotalExp = Chars[k].TotalExp
           /\ Chars'[k].CurrentExp = Chars[k].CurrentExp
  <2>1. ExperienceRow(k)' /\ Saved(k)' = Saved(k)
    BY <1>3 DEF ExperienceInvariant, ExperienceRow, Saved
  <2>2. Saved(k) \in Nat
    BY <1>1, <1>3, PointsBelowNext
       DEF Saved, ExperienceInvariant, Consistent, DBTypeOK, CharRow
  <2> QED BY <2>1, <2>2
<1>4. CASE k \notin DOMAIN Chars /\ Chars'[k] = NewCharRow(req.username)
  BY <1>4, GameAssumption DEF NewCharRow, ExperienceRow, Consistent
<1>5. CASE /\ req.opcode = "EXP_UP" /\ req.character.name = k
           /\ Chars'[k].Level = req.character.lvl
           /\ Chars'[k].TotalExp = req.character.totalExp
           /\ Chars'[k].CurrentExp = req.character.currentExp
  <2>1. req.character \in Copies(s)
    BY <1>2, <1>5 DEF Copies, Saves
  <2>2. ConsistentCopy(req.character) /\ Saved(k) <= Gained(req.character)
    BY <1>5, <2>1 DEF ExperienceInvariant, ConsistentCopy
  <2>3. Saved(k)' = Gained(req.character)
    BY <1>5 DEF Saved, Gained
  <2> QED BY <1>5, <2>1, <2>2, <2>3 DEF ExperienceRow, ConsistentCopy
<1> QED BY <1>1, <1>2, <1>3, <1>4, <1>5, HandlersWriteProgress

\* The database keeps rows and copies consistent, and no copy behind its row.
LEMMA TurnKeepsProgress ==
  ASSUME TypeInvariant, CallInvariant, AccountInvariant, CharacterInvariant,
         CharacterInvariant', ExperienceInvariant, NEW s \in Clients,
         UnchangedOthers(s), communicate_with_database(s)
  PROVE  ExperienceInvariant'
PROOF
<1>1. PICK req : req = data_from_client[s]
  OBVIOUS
<1>2. \A k \in DOMAIN Chars' :
        /\ ExperienceRow(k)'
        /\ k \in DOMAIN Chars => Saved(k) <= Saved(k)'
        /\ k \in DOMAIN Chars /\ Saved(k) # Saved(k)' =>
             /\ req.opcode = "EXP_UP" /\ req.character \in Copies(s)
             /\ req.character.name = k /\ Saved(k)' = Gained(req.character)
  BY <1>1, TurnSaves
<1>3. \A k \in DOMAIN Chars : Chars[k].Name \in Usernames
  BY DEF TypeInvariant, TypeOK, DBTypeOK, CharRow
\* A copy that a client had before the turn and has after it.
<1>4. ASSUME NEW d \in Clients, NEW ch \in Copies(d), ch \in Copies(d)'
      PROVE  ConsistentCopy(ch) /\ Saved(ch.name)' <= Gained(ch)
  <2>1. /\ ch.name \in DOMAIN Chars /\ ch.name \in DOMAIN Chars'
        /\ Holds(d, Chars[ch.name].Name)
        /\ ConsistentCopy(ch) /\ Saved(ch.name) <= Gained(ch)
    BY <1>4 DEF CharacterInvariant, CopiesHeld, ExperienceInvariant, ConsistentCopy
  <2>2. CASE Saved(ch.name) = Saved(ch.name)'
    BY <2>1, <2>2
  <2>3. CASE Saved(ch.name) # Saved(ch.name)'
    <3>1. /\ req.character \in Copies(s) /\ req.character.name = ch.name
          /\ Saved(ch.name)' = Gained(req.character)
      BY <1>2, <2>1, <2>3
    <3>2. d = s
      BY <1>3, <2>1, <3>1 DEF CharacterInvariant, CopiesHeld, AccountInvariant
    <3>3. req.character = ch
      BY <3>1, <3>2 DEF CharacterInvariant, CopiesAgree
    <3>4. Gained(ch) \in Nat
      BY <2>1, CopyIsCharacter, GainedIsNat
    <3> QED BY <2>1, <3>1, <3>3, <3>4
  <2> QED BY <2>2, <2>3
\* The copy that the turn makes.
<1>5. ASSUME NEW ch \in Copies(s)', ch \notin Copies(s)
      PROVE  ConsistentCopy(ch) /\ Saved(ch.name)' <= Gained(ch)
  <2>1. SelectionGranted(req) /\ ch = Reply(req).character
    BY <1>1, <1>5, TurnCopies DEF CharacterInvariant, CallInvariant, CallsInState
  <2>2. /\ req.opcode = "SELECT_CHARACTER"
        /\ req.character.name \in DOMAIN Chars
        /\ req.character.name \in DOMAIN Chars'
        /\ ch = CharacterOf(req.character.name)
        /\ ch.name = req.character.name
    <3>1. DBTypeOK /\ req \in Requests /\ process_data(req)
      BY <1>1, DatabaseTurn, TypeInvariantParts DEF CallInvariant
    <3>2. SelectedRowIsMarked(req)
      BY <3>1, HandlersKeepCharacters
    <3>3. Outcome(req) = CharOutcome(req)
      BY <2>1 DEF SelectionGranted, Outcome
    <3>4. req.character.name \in DOMAIN Chars
      BY <2>1, <3>3 DEF SelectionGranted, CharOutcome
    <3> QED BY <2>1, <3>2, <3>4 DEF SelectionGranted, SelectedRowIsMarked
  <2>3. Saved(ch.name)' = Saved(ch.name)
    BY <1>2, <2>2
  <2>4. ConsistentCopy(ch) /\ Saved(ch.name) = Gained(ch)
    BY <2>2 DEF CharacterOf, ConsistentCopy, Gained, Saved, ExperienceInvariant
  <2>5. Gained(ch) \in Nat
    <3>1. ch \in Character
      <4>1. ch.name \in Names
        BY <2>2 DEF TypeInvariant, TypeOK, DBTypeOK
      <4> QED BY <2>2, <4>1 DEF CharacterOf, Character, TypeInvariant, TypeOK,
                 DBTypeOK, CharRow
    <3> QED BY <2>4, <3>1, GainedIsNat
  <2> QED BY <2>3, <2>4, <2>5
<1>6. \A d \in Clients \ {s} : Copies(d)' = Copies(d)
  BY OthersCopyTheSame
<1>7. \A d \in Clients : \A ch \in Copies(d)' : 
        ConsistentCopy(ch) /\ Saved(ch.name)' <= Gained(ch)
  BY <1>4, <1>5, <1>6
<1> QED BY <1>2, <1>7 DEF ExperienceInvariant, ExperienceRow, ConsistentCopy, Gained

\* So do all other steps: a point is added to a consistent copy.
LEMMA KeptCopiesProgress ==
  ASSUME TypeInvariant, CallInvariant, ExperienceInvariant, NEW c \in Clients,
         UnchangedOthers(c), KeepsCopies(c), CopiesHeld
  PROVE  ExperienceInvariant'
PROOF
<1>1. UNCHANGED Chars
  BY DEF KeepsCopies, dbVars
<1>2. ASSUME NEW d \in Clients, NEW ch \in Copies(d)
      PROVE  /\ ch \in Character /\ ConsistentCopy(ch)
             /\ Saved(ch.name) <= Gained(ch) /\ Saved(ch.name) \in Nat
  <2>1. ch \in Character /\ ConsistentCopy(ch) /\ Saved(ch.name) <= Gained(ch)
    BY CopyIsCharacter DEF ExperienceInvariant, ConsistentCopy
  <2>2. ch.name \in DOMAIN Chars
    BY DEF CopiesHeld
  <2>3. Saved(ch.name) \in Nat
    BY <2>2, PointsBelowNext
       DEF Saved, ExperienceInvariant, Consistent, TypeInvariant, TypeOK, DBTypeOK,
           CharRow
  <2> QED BY <2>1, <2>3
<1>3. ASSUME NEW d \in Clients, NEW ch \in Copies(d)'
      PROVE  ConsistentCopy(ch) /\ Saved(ch.name) <= Gained(ch)
  <2>1. CASE ch \in Copies(d)
    BY <1>2, <2>1
  <2>2. CASE ch \notin Copies(d)
    <3>1. PICK dh \in Copies(d) : ch = AfterPoint(dh)
      BY <2>2, OthersCopyTheSame DEF KeepsCopies
    <3>2. /\ dh \in Character /\ ConsistentCopy(dh)
          /\ Saved(dh.name) <= Gained(dh) /\ Saved(dh.name) \in Nat
      BY <1>2
    <3>3. /\ ConsistentCopy(ch) /\ Gained(ch) = Gained(dh) + 1
          /\ ch.name = dh.name /\ Gained(dh) \in Nat
      BY <3>1, <3>2, PointGainsOne, PointKeepsName, GainedIsNat
    <3> QED BY <3>2, <3>3
  <2> QED BY <2>1, <2>2
<1> QED BY <1>1, <1>3 DEF ExperienceInvariant, ConsistentCopy, Saved

-----------------------------------------------------------------------------
(* Layer 5: the theorems about progress.                                    *)

\* The database starts empty, and no client has a character.
LEMMA ExperienceInit == Init => ExperienceInvariant
PROOF
<1> SUFFICES ASSUME Init PROVE ExperienceInvariant
  OBVIOUS
<1>1. ASSUME NEW c \in Clients PROVE Copies(c) = {}
  <2>1. PendingRequests(c) = {} /\ PendingReplies(c) = {}
    BY DEF Init, PendingRequests, PendingReplies, Range
  <2> QED BY <2>1 DEF Init, Copies, GrantedSelections, Saves, Playing, LoggedIn
<1>2. DOMAIN Chars = {}
  BY DEF Init, initialize_table
<1> QED BY <1>1, <1>2 DEF ExperienceInvariant

\* Every step keeps rows and copies consistent, and takes no progress from a row.
LEMMA ExperienceStep ==
  /\ TypeInvariant /\ CallInvariant /\ AccountInvariant /\ CharacterInvariant
  /\ CharacterInvariant' /\ ExperienceInvariant /\ [Next]_vars
  => /\ ExperienceInvariant'
     /\ \A k \in DOMAIN Chars \cap DOMAIN Chars' :
          PointsBelow[Chars[k].Level] + Chars[k].CurrentExp
            <= PointsBelow[Chars'[k].Level] + Chars'[k].CurrentExp
PROOF
<1> SUFFICES ASSUME TypeInvariant, CallInvariant, AccountInvariant,
                    CharacterInvariant, CharacterInvariant',
                    ExperienceInvariant, [Next]_vars
             PROVE  /\ ExperienceInvariant'
                    /\ \A k \in DOMAIN Chars \cap DOMAIN Chars' :
                         Saved(k) <= Saved(k)'
  BY DEF Saved
<1>1. ASSUME NEW k \in DOMAIN Chars PROVE Saved(k) \in Nat
  BY PointsBelowNext
     DEF Saved, ExperienceInvariant, Consistent, TypeInvariant, TypeOK, DBTypeOK,
         CharRow
<1>2. ASSUME UNCHANGED Chars, NEW k \in DOMAIN Chars
      PROVE  Saved(k) <= Saved(k)'
  BY <1>1, <1>2 DEF Saved
<1>3. CASE UNCHANGED vars
  <2>1. UNCHANGED Chars /\ \A c \in Clients : Copies(c)' = Copies(c)
    BY <1>3 DEF vars, clientVars, serverVars, dbVars, Copies, GrantedSelections,
       Saves, Playing, LoggedIn, LogoutServed, PendingRequests, PendingReplies
  <2> QED BY <1>2, <2>1 DEF ExperienceInvariant, Saved
<1>4. ASSUME NEW c \in Clients, Step(c)
      PROVE  /\ ExperienceInvariant'
             /\ \A k \in DOMAIN Chars \cap DOMAIN Chars' : Saved(k) <= Saved(k)'
  <2>1. UnchangedOthers(c)
    BY <1>4, StepIsLocal
  <2>2. CASE communicate_with_database(c)
    <3>1. ExperienceInvariant'
      BY <2>1, <2>2, TurnKeepsProgress
    <3>2. PICK req : req = data_from_client[c]
      OBVIOUS
    <3>3. \A k \in DOMAIN Chars \cap DOMAIN Chars' : Saved(k) <= Saved(k)'
      BY <2>2, <3>2, TurnSaves
    <3> QED BY <3>1, <3>3
  <2>3. CASE ~communicate_with_database(c)
    <3>1. KeepsCopies(c)
      BY <1>4, <2>3, StepCopies DEF CharacterInvariant, CallInvariant, CallsInState
    <3>2. UNCHANGED Chars
      BY <3>1 DEF KeepsCopies, dbVars
    <3>3. ExperienceInvariant'
      BY <2>1, <3>1, KeptCopiesProgress DEF CharacterInvariant
    <3> QED BY <1>2, <3>2, <3>3
  <2> QED BY <2>2, <2>3
<1> QED BY <1>3, <1>4, NextIsStep

\* Rows and copies are consistent, and no copy is behind the row it will be saved to,
\* however points, saves, logouts and deletions interleave.
THEOREM ExperienceInvariantHolds == Spec => []ExperienceInvariant
BY TypeInvariantHolds, CallInvariantHolds, AccountInvariantHolds,
   CharacterInvariantHolds, ExperienceInit, ExperienceStep, PTL DEF Spec

\* The level decides how much experience the next one needs, in the table and in the
\* client's copy; only at the level cap there is more (point, char_exp_up).
THEOREM ExperienceIsConsistent == Spec => []ExperienceConsistent
PROOF
<1>1. ExperienceInvariant => ExperienceConsistent
  BY DEF ExperienceInvariant, ExperienceConsistent, Copies
<1> QED BY <1>1, ExperienceInvariantHolds, PTL

\* Saved progress never goes back: no client writes an older copy over a row, whatever
\* is lost or interrupted on the way.
THEOREM SavedProgressStays == Spec => ProgressNeverLost
PROOF
<1>1. /\ TypeInvariant /\ CallInvariant /\ AccountInvariant /\ CharacterInvariant
      /\ CharacterInvariant' /\ ExperienceInvariant /\ [Next]_vars
      => [\A k \in DOMAIN Chars \cap DOMAIN Chars' :
            PointsBelow[Chars[k].Level] + Chars[k].CurrentExp
              <= PointsBelow[Chars'[k].Level] + Chars'[k].CurrentExp]_vars
  BY ExperienceStep
<1> QED BY <1>1, TypeInvariantHolds, CallInvariantHolds, AccountInvariantHolds,
           CharacterInvariantHolds, ExperienceInvariantHolds, PTL
        DEF Spec, ProgressNeverLost
=============================================================================

------------------------------ MODULE GameSystem ------------------------------
(***************************************************************************)
(* The running system: client processes, the server's forked session       *)
(* processes (server.c) and the database process, joined by stream         *)
(* connections.  A client process connects once, so a session is named by  *)
(* its client.                                                             *)
(*                                                                         *)
(* A client is a command loop.  Most commands are a remote call: they send *)
(* one Data record and block in communicate() until the reply arrives.     *)
(* cpc[c] names the call a client is blocked in, or says "prompt".  A      *)
(* session is a receive - process - send loop; spc[s] is its next step.    *)
(*                                                                         *)
(* The server's main process keeps its own copy of every accepted          *)
(* descriptor, so a client neither sees end-of-file nor SIGPIPE when its   *)
(* session dies: it waits.                                                 *)
(***************************************************************************)
EXTENDS Database

CONSTANTS
  Clients,      \* client processes
  MaxExp        \* bound: at the level cap a client stops typing "p" here

VARIABLES
  cpc,                \* what each client process is doing
  session_state,      \* the client's game state
  username,           \* the client's global username
  character,          \* the client's copy of the character it plays
  counter,            \* points since the client last saved
  spc,                \* what each session process is doing
  data_from_client,   \* the session's last request
  data_to_client,     \* the session's last reply from the database, or NULL
  c2s,                \* bytes in flight from client to session
  s2c                 \* bytes in flight from session to client

clientVars == <<cpc, session_state, username, character, counter>>
serverVars == <<spc, data_from_client, data_to_client>>
vars == <<clientVars, serverVars, c2s, s2c, dbVars>>

\* The calls a client can be blocked in.  A save made by quit or logout is
\* told apart from the save made by "p": what follows it differs.
Calls == {"login", "createaccount", "selectchar", "createchar", "deletechar",
          "p", "quit_save", "quit", "logout_save", "logout"}

ClientPC == Calls \cup {"off", "prompt", "leaving", "gone"}

\* A session that lost the race to connect to the database is "blocked" for ever
\* in open() or was killed there ("collided"); the other ways a process ends are
\* a return, exit(1), and the signals of a bad pointer and of a closed peer.
SessionPC == {"none", "backlog", "recv", "process", "db", "send",
              "closed", "exit", "sigsegv", "sigpipe", "blocked", "collided"}

TypeOK ==
  /\ DBTypeOK
  /\ cpc \in [Clients -> ClientPC]
  /\ session_state \in [Clients -> GameStates]
  /\ username \in [Clients -> Usernames \cup {NoUser}]
  /\ character \in [Clients -> Character]
  /\ counter \in [Clients -> 0..LIMIT_TOSAVE]
  /\ spc \in [Clients -> SessionPC]
  /\ data_from_client \in [Clients -> Data \cup {NULL}]
  /\ data_to_client \in [Clients -> Data \cup {NULL}]
  /\ c2s \in [Clients -> Seq(Data)]
  /\ s2c \in [Clients -> Seq(Data)]

Init ==
  /\ initialize_table
  /\ cpc = [c \in Clients |-> "off"]
  /\ session_state = [c \in Clients |-> "USER_LOGIN"]
  /\ username = [c \in Clients |-> NoUser]
  /\ character = [c \in Clients |-> NoCharacter]
  /\ counter = [c \in Clients |-> 0]
  /\ spc = [c \in Clients |-> "none"]
  /\ data_from_client = [c \in Clients |-> NULL]
  /\ data_to_client = [c \in Clients |-> NULL]
  /\ c2s = [c \in Clients |-> << >>]
  /\ s2c = [c \in Clients |-> << >>]

-----------------------------------------------------------------------------
(* Client: starting, and the commands the parser lets through.              *)

Alive(c) == cpc[c] \notin {"off", "gone"}

\* main() up to run_session(): the connection waits in the server's backlog.
comm_connect(c) ==
  /\ cpc[c] = "off"
  /\ cpc' = [cpc EXCEPT ![c] = "prompt"]
  /\ spc' = [spc EXCEPT ![c] = "backlog"]
  /\ UNCHANGED <<session_state, username, character, counter,
                 data_from_client, data_to_client, c2s, s2c, dbVars>>

\* The parser runs a command only in the states of its actionOnState table.
CommandAllowed(c, states) == cpc[c] = "prompt" /\ session_state[c] \in states

\* Mutation: the client does not wait for the answer.
Call_doesNotWait(c, call, request) ==
  /\ c2s' = [c2s EXCEPT ![c] = Append(@, request)]
  /\ UNCHANGED <<cpc, serverVars, s2c, dbVars>>

\* sendData, and the first half of communicate: block in the named call.
Call(c, call, request) ==
  /\ cpc' = [cpc EXCEPT ![c] = call]
  /\ c2s' = [c2s EXCEPT ![c] = Append(@, request)]
  /\ UNCHANGED <<serverVars, s2c, dbVars>>

AccountRequest(opcode, user, password) ==
  [newData(opcode) EXCEPT !.username = user, !.password = password]

UserRequest(opcode, user) == [newData(opcode) EXCEPT !.username = user]

CharacterRequest(opcode, user, name) ==
  [newData(opcode) EXCEPT !.username = user, !.character.name = name]

SaveRequest(user, ch) ==
  [newData("EXP_UP") EXCEPT !.username = user, !.character = ch]

login_command(c) ==
  /\ CommandAllowed(c, {"USER_LOGIN"})
  /\ \E u \in Usernames, p \in Passwords :
       Call(c, "login", AccountRequest("LOGIN", u, p))
  /\ UNCHANGED <<session_state, username, character, counter>>

createAccount_command(c) ==
  /\ CommandAllowed(c, {"USER_LOGIN"})
  /\ \E u \in Usernames, p \in Passwords :
       Call(c, "createaccount", AccountRequest("CREATE_ACCOUNT", u, p))
  /\ UNCHANGED <<session_state, username, character, counter>>

CharacterCommand(c, call, opcode) ==
  /\ CommandAllowed(c, {"CHAR_SELECTION"})
  /\ \E k \in Names : Call(c, call, CharacterRequest(opcode, username[c], k))
  /\ UNCHANGED <<session_state, username, character, counter>>

selectCharacter_command(c) ==
  CharacterCommand(c, "selectchar", "SELECT_CHARACTER")

createCharacter_command(c) ==
  CharacterCommand(c, "createchar", "CREATE_CHARACTER")

deleteCharacter_command(c) ==
  CharacterCommand(c, "deletechar", "DELETE_CHARACTER")

\* "p": gain a point, and save when LIMIT_TOSAVE points went unsaved.
point(c) ==
  LET ch == AfterPoint(character[c]) IN
  /\ CommandAllowed(c, {"PLAY_GAME"})
  /\ character[c].lvl = LEVEL_MAX => character[c].currentExp < MaxExp
  /\ character' = [character EXCEPT ![c] = ch]
  /\ \/ /\ AtCap(character[c])
        /\ UNCHANGED <<cpc, counter, c2s, s2c, serverVars, dbVars>>
     \/ /\ ~AtCap(character[c])
        /\ counter[c] = LIMIT_TOSAVE
        /\ counter' = [counter EXCEPT ![c] = 0]
        /\ Call(c, "p", SaveRequest(username[c], ch))
     \/ /\ ~AtCap(character[c])
        /\ counter[c] # LIMIT_TOSAVE
        /\ counter' = [counter EXCEPT ![c] = @ + 1]
        /\ UNCHANGED <<cpc, c2s, s2c, serverVars, dbVars>>
  /\ UNCHANGED <<session_state, username>>

\* quit: EXIT needs no answer; a logged-in client saves and logs out first.
quit(c) ==
  /\ \/ /\ CommandAllowed(c, {"USER_LOGIN"})
        /\ Call(c, "leaving", newData("EXIT"))
        /\ session_state' = [session_state EXCEPT ![c] = "EXIT_GAME"]
     \/ /\ CommandAllowed(c, {"CHAR_SELECTION"})
        /\ Call(c, "quit", UserRequest("EXIT_AND_LOGOUT", username[c]))
        /\ UNCHANGED session_state
     \/ /\ CommandAllowed(c, {"PLAY_GAME"})
        /\ Call(c, "quit_save", SaveRequest(username[c], character[c]))
        /\ UNCHANGED session_state
  /\ UNCHANGED <<username, character, counter>>

\* Mutation: logging out of a game does not save it.
logOut_skipsSave(c) ==
  /\ CommandAllowed(c, {"CHAR_SELECTION", "PLAY_GAME"})
  /\ Call(c, "logout", UserRequest("LOGOUT", username[c]))
  /\ UNCHANGED <<session_state, username, character, counter>>

logOut(c) ==
  /\ \/ /\ CommandAllowed(c, {"CHAR_SELECTION"})
        /\ Call(c, "logout", UserRequest("LOGOUT", username[c]))
     \/ /\ CommandAllowed(c, {"PLAY_GAME"})
        /\ Call(c, "logout_save", SaveRequest(username[c], character[c]))
  /\ UNCHANGED <<session_state, username, character, counter>>

-----------------------------------------------------------------------------
(* Client: what it does with an answer, and how it ends.                    *)

Answered(c, call) == cpc[c] = call /\ s2c[c] # << >>

\* receiveData on the client, then what the command does next.
Receive(c, next) ==
  /\ s2c' = [s2c EXCEPT ![c] = Tail(@)]
  /\ cpc' = [cpc EXCEPT ![c] = next]
  /\ UNCHANGED <<serverVars, dbVars>>

\* Mutation: the name in the answer is not copied.
login_reply_forgetsName(c) ==
  /\ Answered(c, "login")
  /\ Receive(c, "prompt")
  /\ IF Head(s2c[c]).opcode = "NO_ERROR"
       THEN session_state' = [session_state EXCEPT ![c] = "CHAR_SELECTION"]
       ELSE UNCHANGED session_state
  /\ UNCHANGED <<username, character, counter, c2s>>

login_reply(c) ==
  LET reply == Head(s2c[c]) IN
  /\ Answered(c, "login")
  /\ Receive(c, "prompt")
  /\ IF reply.opcode = "NO_ERROR"
       THEN /\ session_state' = [session_state EXCEPT ![c] = "CHAR_SELECTION"]
            /\ username' = [username EXCEPT ![c] = reply.username]
       ELSE UNCHANGED <<session_state, username>>
  /\ UNCHANGED <<character, counter, c2s>>

selectCharacter_reply(c) ==
  LET reply == Head(s2c[c]) IN
  /\ Answered(c, "selectchar")
  /\ Receive(c, "prompt")
  /\ IF reply.opcode = "NO_ERROR"
       THEN /\ session_state' = [session_state EXCEPT ![c] = "PLAY_GAME"]
            /\ character' = [character EXCEPT ![c] = reply.character]
       ELSE UNCHANGED <<session_state, character>>
  /\ UNCHANGED <<username, counter, c2s>>

\* Commands that only tell the user how the call went.
report_reply(c) ==
  /\ \E call \in {"createaccount", "createchar", "deletechar", "p"} :
       Answered(c, call)
  /\ Receive(c, "prompt")
  /\ UNCHANGED <<session_state, username, character, counter, c2s>>

\* quit and logOut in PLAY_GAME: the save is answered, now the second call.
save_reply(c) ==
  /\ \/ /\ Answered(c, "quit_save")
        /\ Receive(c, "quit")
        /\ c2s' = [c2s EXCEPT ![c] =
                     Append(@, UserRequest("EXIT_AND_LOGOUT", username[c]))]
     \/ /\ Answered(c, "logout_save")
        /\ Receive(c, "logout")
        /\ c2s' = [c2s EXCEPT ![c] =
                     Append(@, UserRequest("LOGOUT", username[c]))]
  /\ UNCHANGED <<session_state, username, character, counter>>

quit_reply(c) ==
  /\ Answered(c, "quit")
  /\ Receive(c, "leaving")
  /\ session_state' = [session_state EXCEPT ![c] = "EXIT_GAME"]
  /\ UNCHANGED <<username, character, counter, c2s>>

logout_reply(c) ==
  /\ Answered(c, "logout")
  /\ Receive(c, "prompt")
  /\ session_state' = [session_state EXCEPT ![c] = "USER_LOGIN"]
  /\ UNCHANGED <<username, character, counter, c2s>>

\* The process ends and its memory goes with it.
Terminate(c) ==
  /\ cpc' = [cpc EXCEPT ![c] = "gone"]
  /\ session_state' = [session_state EXCEPT ![c] = "EXIT_GAME"]
  /\ username' = [username EXCEPT ![c] = NoUser]
  /\ character' = [character EXCEPT ![c] = NoCharacter]
  /\ counter' = [counter EXCEPT ![c] = 0]
  /\ UNCHANGED <<serverVars, s2c, dbVars>>

\* run_session saw EXIT_GAME: disconnect, and main returns.
disconnect(c) ==
  /\ cpc[c] = "leaving"
  /\ Terminate(c)
  /\ UNCHANGED c2s

\* Ctrl-C at any moment, also inside communicate: tell the server and exit.
clt_sigRutine(c) ==
  /\ Alive(c)
  /\ Terminate(c)
  /\ c2s' = [c2s EXCEPT ![c] = Append(@, newData("CONNECTION_INTERRUMPED"))]

\* The connection is lost: the process dies of a signal it does not handle.
connection_lost(c) ==
  /\ Alive(c)
  /\ Terminate(c)
  /\ UNCHANGED c2s

-----------------------------------------------------------------------------
(* Server: one forked process per connection.                               *)

Ended == {"closed", "exit", "sigsegv", "sigpipe", "collided"}

\* Move session s to its next step; when the process ends its memory goes.
Goto(s, next) ==
  /\ spc' = [spc EXCEPT ![s] = next]
  /\ data_to_client' = [data_to_client EXCEPT ![s] =
                          IF next \in Ended THEN NULL ELSE @]
  /\ UNCHANGED <<clientVars, dbVars>>

\* comm_accept, fork, and newSession up to its loop.
accept(s) ==
  /\ spc[s] = "backlog"
  /\ Goto(s, "recv")
  /\ UNCHANGED <<data_from_client, c2s, s2c>>

\* What receiveData makes of end-of-file: it tests for a negative count only,
\* so it copies a fresh, uninitialized buffer.  The session frees no buffer,
\* so the heap page is untouched (all zero: LOGIN with empty names) or holds
\* bytes that are neither an opcode nor an account.
Garbage == {newData("LOGIN"), newData("OTHER")}

\* Mutation: the session ignores end-of-file.
receiveData_ignoresEOF(s) ==
  /\ spc[s] = "recv"
  /\ c2s[s] # << >>
  /\ data_from_client' = [data_from_client EXCEPT ![s] = Head(c2s[s])]
  /\ c2s' = [c2s EXCEPT ![s] = Tail(@)]
  /\ Goto(s, "process")
  /\ UNCHANGED s2c

\* The third case: a socket closed with a reply unread is a read error, so
\* receiveData returns NULL and server_process_data dereferences it.
receiveData(s) ==
  /\ spc[s] = "recv"
  /\ \/ /\ c2s[s] # << >>
        /\ data_from_client' = [data_from_client EXCEPT ![s] = Head(c2s[s])]
        /\ c2s' = [c2s EXCEPT ![s] = Tail(@)]
        /\ Goto(s, "process")
     \/ /\ c2s[s] = << >>
        /\ cpc[s] = "gone"
        /\ \E d \in Garbage :
             data_from_client' = [data_from_client EXCEPT ![s] = d]
        /\ Goto(s, "process")
        /\ UNCHANGED c2s
     \/ /\ c2s[s] = << >>
        /\ cpc[s] = "gone"
        /\ s2c[s] # << >>
        /\ Goto(s, "sigsegv")
        /\ UNCHANGED <<data_from_client, c2s>>
  /\ UNCHANGED s2c

\* The first five tests of server_process_data look at the request; the sixth
\* one, for SHOW_CHARACTER, looks at the previous reply.
LookupOpcodes == {"LOGIN", "CREATE_ACCOUNT", "SELECT_CHARACTER",
                  "CREATE_CHARACTER", "DELETE_CHARACTER"}

\* Mutation: every test looks at the previous reply first.
NextStep_readsReplyFirst(request, reply) ==
  IF reply = NULL THEN "sigsegv"
  ELSE IF \/ request.opcode \in LookupOpcodes
          \/ request.opcode \in {"EXP_UP", "LOGOUT", "EXIT_AND_LOGOUT"} THEN "db"
  ELSE IF request.opcode = "CONNECTION_INTERRUMPED" THEN "exit"
  ELSE "send"

\* Mutation: LOGOUT is missing from the tests, so the previous reply is sent.
NextStep_forgetsLogout(request, reply) ==
  IF request.opcode \in LookupOpcodes THEN "db"
  ELSE IF reply = NULL THEN "sigsegv"
  ELSE IF request.opcode \in {"EXP_UP", "EXIT_AND_LOGOUT"} THEN "db"
  ELSE IF request.opcode = "CONNECTION_INTERRUMPED" THEN "exit"
  ELSE "send"

NextStep(request, reply) ==
  IF request.opcode \in LookupOpcodes THEN "db"
  ELSE IF reply = NULL THEN "sigsegv"
  ELSE IF \/ reply.opcode = "SHOW_CHARACTER"
          \/ request.opcode \in {"EXP_UP", "LOGOUT", "EXIT_AND_LOGOUT"} THEN "db"
  ELSE IF request.opcode = "CONNECTION_INTERRUMPED" THEN "exit"
  ELSE "send"

server_process_data(s) ==
  /\ spc[s] = "process"
  /\ Goto(s, NextStep(data_from_client[s], data_to_client[s]))
  /\ UNCHANGED <<data_from_client, c2s, s2c>>

\* communicate_with_database, and one turn of the database's loop.  The
\* session only waits meanwhile, and no other session is served.
communicate_with_database(s) ==
  /\ spc[s] = "db"
  /\ spc' = [spc EXCEPT ![s] = "send"]
  /\ process_data(data_from_client[s])
  /\ data_to_client' = [data_to_client EXCEPT ![s] =
                          Reply(data_from_client[s])]
  /\ UNCHANGED <<data_from_client, clientVars, c2s, s2c>>

\* Two sessions connect to the database at once: the one whose request the
\* database does not read loses it and waits for ever, or is killed by
\* SIGPIPE when it writes after the database closed the listening FIFO.
connect_collision(s) ==
  /\ spc[s] = "db"
  /\ \E r \in Clients \ {s} : spc[r] = "db"
  /\ \E end \in {"blocked", "collided"} : Goto(s, end)
  /\ UNCHANGED <<data_from_client, c2s, s2c>>

\* Mutation: LOGOUT ends the session as well.
session_ended_onLogout(s) ==
  data_from_client[s].opcode \in {"EXIT", "EXIT_AND_LOGOUT", "LOGOUT"}

\* The opcodes that set session_ended in the turn that handles them.
session_ended(s) == data_from_client[s].opcode \in {"EXIT", "EXIT_AND_LOGOUT"}

\* Where sendData leads.  It dereferences its argument.  Writing to a client that
\* closed its end raises SIGPIPE, with FIFOs and with sockets of one machine.
AfterSend(s) ==
  IF data_to_client[s] = NULL THEN "sigsegv"
  ELSE IF cpc[s] = "gone" THEN "sigpipe"
  ELSE IF session_ended(s) THEN "closed" ELSE "recv"

\* The request pointer is dead once the turn is over: it is assigned before it
\* is read again.
sendData(s) ==
  /\ spc[s] = "send"
  /\ Goto(s, AfterSend(s))
  /\ s2c' = IF AfterSend(s) \in {"closed", "recv"}
              THEN [s2c EXCEPT ![s] = Append(@, data_to_client[s])]
              ELSE s2c
  /\ data_from_client' = [data_from_client EXCEPT ![s] = NULL]
  /\ UNCHANGED c2s

-----------------------------------------------------------------------------
(* The specification.                                                       *)

Command(c) ==
  \/ login_command(c)
  \/ createAccount_command(c)
  \/ selectCharacter_command(c)
  \/ createCharacter_command(c)
  \/ deleteCharacter_command(c)
  \/ point(c)
  \/ quit(c)
  \/ logOut(c)

HandleReply(c) ==
  \/ login_reply(c)
  \/ selectCharacter_reply(c)
  \/ report_reply(c)
  \/ save_reply(c)
  \/ quit_reply(c)
  \/ logout_reply(c)

Session(s) ==
  \/ accept(s)
  \/ receiveData(s)
  \/ server_process_data(s)
  \/ communicate_with_database(s)
  \/ sendData(s)

Next ==
  \E c \in Clients :
    \/ comm_connect(c)
    \/ Command(c)
    \/ HandleReply(c)
    \/ disconnect(c)
    \/ clt_sigRutine(c)
    \/ connection_lost(c)
    \/ Session(c)
    \/ connect_collision(c)

Spec == Init /\ [][Next]_vars

\* The operating system runs every process that can take a step.  Nobody
\* has to type a command, press Ctrl-C or lose a connection.
Fairness ==
  \A c \in Clients : WF_vars(HandleReply(c)) /\ WF_vars(disconnect(c))
                    /\ WF_vars(Session(c))

FairSpec == Spec /\ Fairness
=============================================================================

---------------------------- MODULE GameInvariants ----------------------------
(***************************************************************************)
(* The inductive invariants behind the theorems of GameProofs, in five     *)
(* layers, each inductive with the ones before it: what the records in     *)
(* flight contain, how far a call has come, who holds an account, who      *)
(* holds a character, and what is answered and saved.                      *)
(***************************************************************************)
EXTENDS GameProperties

LoggedStates == {"CHAR_SELECTION", "PLAY_GAME"}

\* The calls that a logged-in client makes.
AccountCalls == Calls \ {"login", "createaccount"}

-----------------------------------------------------------------------------
(* Layer 1: records in flight.                                              *)

\* A request carries what its handler reads: no sentinel reaches a table.
Requests ==
  {m \in Data :
     /\ m.opcode \in RequestOpcodes \cup {"OTHER"}
     /\ m.opcode \in AccountOpcodes \cup {"CREATE_ACCOUNT"} =>
          m.username \in Usernames
     /\ m.opcode = "CREATE_ACCOUNT" => m.password \in Passwords
     /\ m.opcode = "CREATE_CHARACTER" => m.character.name \in Names}

Replies == {r \in Data : r.opcode = "NO_ERROR" => r.username \in Usernames}

RecordsWellFormed ==
  /\ c2s \in [Clients -> Seq(Requests)]
  /\ s2c \in [Clients -> Seq(Replies)]
  /\ data_from_client \in [Clients -> Requests \cup {NULL}]
  /\ data_to_client \in [Clients -> Replies \cup {NULL}]
  /\ \A c \in Clients :
       /\ session_state[c] \in LoggedStates => username[c] \in Usernames
       /\ cpc[c] \in AccountCalls => username[c] \in Usernames
       /\ spc[c] \in {"process", "db", "send"} => data_from_client[c] # NULL

\* TypeOK is inductive together with the contents of the records: the tables
\* only hold what requests carried, and a client's name is a granted login's.
TypeInvariant == TypeOK /\ RecordsWellFormed

-----------------------------------------------------------------------------
(* Layer 2: how far a call has come.                                        *)

CallOpcodes ==
  {<<"login", "LOGIN">>, <<"createaccount", "CREATE_ACCOUNT">>,
   <<"selectchar", "SELECT_CHARACTER">>, <<"createchar", "CREATE_CHARACTER">>,
   <<"deletechar", "DELETE_CHARACTER">>, <<"p", "EXP_UP">>,
   <<"quit_save", "EXP_UP">>, <<"logout_save", "EXP_UP">>,
   <<"quit", "EXIT_AND_LOGOUT">>, <<"logout", "LOGOUT">>}

\* m is the request of the call that c waits in.
Matches(c, m) ==
  /\ <<cpc[c], m.opcode>> \in CallOpcodes
  /\ cpc[c] \in AccountCalls => m.username = username[c]

Idle(c) ==
  c2s[c] = << >> /\ s2c[c] = << >> /\ spc[c] \in {"backlog", "recv"}

Asked(c) ==
  /\ Len(c2s[c]) = 1
  /\ Matches(c, c2s[c][1])
  /\ s2c[c] = << >>
  /\ spc[c] \in {"backlog", "recv"}

InService(c) ==
  /\ c2s[c] = << >>
  /\ s2c[c] = << >>
  /\ spc[c] \in {"process", "db", "send", "blocked", "collided"}
  /\ data_from_client[c] # NULL
  /\ Matches(c, data_from_client[c])
  /\ spc[c] = "send" => data_to_client[c] # NULL

Replied(c) ==
  /\ c2s[c] = << >>
  /\ Len(s2c[c]) = 1
  /\ spc[c] = "recv" \/ (spc[c] = "closed" /\ cpc[c] = "quit")

\* A client is strictly call - return: at the prompt nothing of it is in
\* flight, and in a call exactly one record is, on its way there or back.  Behind
\* it there is at most the notice that the client was interrupted.
CallDiscipline(c) ==
  /\ cpc[c] = "off" =>
       c2s[c] = << >> /\ s2c[c] = << >> /\ spc[c] = "none"
  /\ cpc[c] = "prompt" => Idle(c)
  /\ cpc[c] \in Calls => Asked(c) \/ InService(c) \/ Replied(c)
  /\ \A i \in 1..Len(c2s[c]) :
       i > 1 \/ spc[c] \notin {"backlog", "recv"} =>
         c2s[c][i].opcode = "CONNECTION_INTERRUMPED"

\* The game state follows the call, and a session whose client is logged in has
\* had a reply from the database: server.c:139 never meets a null pointer there.
StateFollowsCall(c) ==
  /\ cpc[c] \in {"off", "login", "createaccount"} =>
       session_state[c] = "USER_LOGIN"
  /\ cpc[c] = "prompt" => session_state[c] # "EXIT_GAME"
  /\ cpc[c] \in AccountCalls => session_state[c] \in LoggedStates
  /\ cpc[c] \in {"leaving", "gone"} => session_state[c] = "EXIT_GAME"
  /\ session_state[c] \in LoggedStates /\ spc[c] \notin Ended =>
       data_to_client[c] # NULL
  /\ s2c[c] # << >> /\ spc[c] \notin Ended => data_to_client[c] # NULL

CallInvariant == \A c \in Clients : CallDiscipline(c) /\ StateFollowsCall(c)

-----------------------------------------------------------------------------
(* Layer 3: who holds an account.                                           *)

\* The Inuse mark protects every account that a client holds, is being granted,
\* or still has requests under way for; and no two clients hold one.
AccountInvariant ==
  /\ \A c \in Clients, u \in Usernames : Holds(c, u) => InUse(u)
  /\ \A c, d \in Clients, u \in Usernames :
       Holds(c, u) /\ Holds(d, u) => c = d

-----------------------------------------------------------------------------
(* Layer 4: who holds a character.                                          *)

SaveCalls == {"p", "quit_save", "logout_save"}

\* Replies that grant the selection c waits for, and requests that save.
GrantedSelections(c) ==
  {r \in PendingReplies(c) : cpc[c] = "selectchar" /\ r.opcode = "NO_ERROR"}

Saves(c) == {m \in PendingRequests(c) : m.opcode = "EXP_UP"}

\* The copies of a row that exist outside the table because of c: the character it
\* plays, the one it is being given, the one it has sent to be saved.
Copies(c) ==
  {ch \in {character[c]} : Playing(c)}
  \cup {r.character : r \in GrantedSelections(c)}
  \cup {m.character : m \in Saves(c)}

\* c is logged in, or about to be, and has selected no character yet.
Selecting(c) ==
  \/ \E u \in Usernames : Granted(c, u)
  \/ LoggedIn(c) /\ session_state[c] = "CHAR_SELECTION" /\ Copies(c) = {}

\* Characters are saved in a game, and chosen, made and deleted outside one.
CallInState(c) ==
  /\ cpc[c] \in SaveCalls => session_state[c] = "PLAY_GAME"
  /\ cpc[c] \in {"selectchar", "createchar", "deletechar"} =>
       session_state[c] = "CHAR_SELECTION"

CallsInState == \A c \in Clients : CallInState(c)

\* The row of a copy is there and is marked, and c holds its account.
CopiesHeld ==
  \A c \in Clients : \A ch \in Copies(c) :
    /\ ch.name \in DOMAIN Chars
    /\ Chars[ch.name].Inuse = 1
    /\ Holds(c, Chars[ch.name].Name)

\* A client has one copy, wherever that is at the moment.
CopiesAgree == \A c \in Clients : \A ch, dh \in Copies(c) : ch = dh

\* A character is marked only within an account that is, and not while the client
\* that holds the account has yet to select one: it meets no busy character.
MarkedWithin ==
  \A k \in DOMAIN Chars : Chars[k].Inuse = 1 =>
    /\ InUse(Chars[k].Name)
    /\ \A c \in Clients : Holds(c, Chars[k].Name) => ~Selecting(c)

CharacterInvariant == CallsInState /\ CopiesHeld /\ CopiesAgree /\ MarkedWithin

-----------------------------------------------------------------------------
(* Layer 5: what is answered, and how far progress has come.                *)

\* What is on its way back to a call is the answer to it.
AnswerInvariant ==
  \A c \in Clients : cpc[c] \in Calls =>
    \A r \in PendingReplies(c) :
      /\ r.opcode \in Answers[cpc[c]]
      /\ session_state[c] # "USER_LOGIN" => r.username = username[c]

\* Rows and copies are consistent, and no copy is behind its row.
ExperienceInvariant ==
  /\ \A k \in DOMAIN Chars :
       Consistent(Chars[k].Level, Chars[k].TotalExp, Chars[k].CurrentExp)
  /\ \A c \in Clients : \A ch \in Copies(c) :
       /\ Consistent(ch.lvl, ch.totalExp, ch.currentExp)
       /\ Saved(ch.name) <= Gained(ch)
=============================================================================

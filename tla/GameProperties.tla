---------------------------- MODULE GameProperties ----------------------------
(***************************************************************************)
(* What the running system guarantees: invariants, action properties,      *)
(* liveness, and the abstract account lock it implements.                  *)
(***************************************************************************)
EXTENDS GameSystem, Functions

CONSTANTS Free, Abandoned     \* values of AccountLock's holder

ASSUME LockAssumption ==
  /\ Free \notin Clients /\ Abandoned \notin Clients
  /\ Free # Abandoned

-----------------------------------------------------------------------------
(* Who holds an account.                                                    *)

LogoutOpcodes == {"LOGOUT", "EXIT_AND_LOGOUT"}

\* Requests that only a logged-in client sends, about its own account.
AccountOpcodes == LogoutOpcodes \cup
  {"SELECT_CHARACTER", "CREATE_CHARACTER", "DELETE_CHARACTER", "EXP_UP"}

\* Requests of c the database has not processed yet.
PendingRequests(c) ==
  Range(c2s[c]) \cup
  (IF spc[c] \in {"process", "db"} THEN {data_from_client[c]} ELSE {})

\* Replies to c the client has not read yet.
PendingReplies(c) ==
  Range(s2c[c]) \cup (IF spc[c] = "send" THEN {data_to_client[c]} ELSE {})

\* The database has processed the logout c is waiting for.
LogoutServed(c) == cpc[c] \in {"quit", "logout"} /\ PendingReplies(c) # {}

\* c believes it is logged in, and no logout of its has taken effect.
LoggedIn(c) ==
  /\ session_state[c] \in {"CHAR_SELECTION", "PLAY_GAME"}
  /\ ~LogoutServed(c)

Playing(c) == LoggedIn(c) /\ session_state[c] = "PLAY_GAME"

\* The database granted the login c is waiting for.
Granted(c, u) ==
  /\ cpc[c] = "login"
  /\ \E r \in PendingReplies(c) : r.opcode = "NO_ERROR" /\ r.username = u

Holds(c, u) ==
  \/ LoggedIn(c) /\ username[c] = u
  \/ Granted(c, u)
  \/ \E m \in PendingRequests(c) :
       m.opcode \in AccountOpcodes /\ m.username = u

InUse(u) == u \in DOMAIN User /\ User[u].Inuse = 1

\* AccountLock's holder, read off the state.
HolderOf(u) ==
  CASE ~InUse(u) -> Free
    [] InUse(u) /\ (\E c \in Clients : Holds(c, u)) ->
         CHOOSE c \in Clients : Holds(c, u)
    [] OTHER -> Abandoned

Lock == INSTANCE AccountLock
          WITH Holders <- Clients, Accounts <- Usernames,
               holder <- [u \in Usernames |-> HolderOf(u)]

\* The system implements the account lock: a login is granted on a free account
\* alone, a logout frees the account of the client that sent it, and an account
\* whose holder was interrupted is never granted again (login_callback, logout).
ImplementsAccountLock == Lock!Spec

\* Two clients are never logged in to one account (client.c:299 tells the second
\* one that the user is already logged in).
ExclusiveLogin ==
  \A c, d \in Clients :
    LoggedIn(c) /\ LoggedIn(d) /\ username[c] = username[d] => c = d

-----------------------------------------------------------------------------
(* Characters.                                                              *)

\* A client that plays a character plays a row that exists, belongs to its
\* account and is marked in use: nobody deleted or renamed it meanwhile.
PlayedCharacterHeld ==
  \A c \in Clients : Playing(c) =>
    /\ character[c].name \in DOMAIN Chars
    /\ Chars[character[c].name].Name = username[c]
    /\ Chars[character[c].name].Inuse = 1

\* Points gained to enter a level.
PointsBelow[l \in Nat] ==
  IF l <= 1 THEN 0 ELSE PointsBelow[l - 1] + levelsExp[l - 1] + 1

Gained(ch) == PointsBelow[ch.lvl] + ch.currentExp

Saved(k) == PointsBelow[Chars[k].Level] + Chars[k].CurrentExp

Unsaved(c) == Gained(character[c]) - Saved(character[c].name)

\* The level decides how much experience the next one needs, in the table and in
\* the client's copy, and only at the level cap there is more (point, char_exp_up).
Consistent(lvl, totalExp, currentExp) ==
  /\ lvl \in 1..LEVEL_MAX
  /\ totalExp = levelsExp[lvl]
  /\ lvl < LEVEL_MAX => currentExp <= totalExp

ExperienceConsistent ==
  /\ \A k \in DOMAIN Chars :
       Consistent(Chars[k].Level, Chars[k].TotalExp, Chars[k].CurrentExp)
  /\ \A c \in Clients : Playing(c) =>
       Consistent(character[c].lvl, character[c].totalExp, character[c].currentExp)

\* Saved progress never goes back: no client writes an older copy over a row.
ProgressNeverLost ==
  [][\A k \in DOMAIN Chars \cap DOMAIN Chars' :
       PointsBelow[Chars[k].Level] + Chars[k].CurrentExp
         <= PointsBelow[Chars'[k].Level] + Chars'[k].CurrentExp]_vars

-----------------------------------------------------------------------------
(* Calls and sessions.                                                      *)

Answers ==
  [login |-> {"NO_ERROR", "USER_BUSY", "USER_DOESNT_EXIST"},
   createaccount |-> {"NO_ERROR", "USER_ALREADY_EXISTS"},
   selectchar |-> {"NO_ERROR", "CHAR_DOESNT_EXIST"},
   createchar |-> {"NO_ERROR", "CHAR_ALREADY_EXISTS"},
   deletechar |-> {"NO_ERROR", "CHAR_DOESNT_EXIST"},
   p |-> {"NO_ERROR"}, quit_save |-> {"NO_ERROR"}, quit |-> {"NO_ERROR"},
   logout_save |-> {"NO_ERROR"}, logout |-> {"NO_ERROR"}]

\* What a client reads is the answer to the call it made: one reply at most, about its
\* account, with an outcome that this handler can come to.  None is CHAR_BUSY, for a
\* client reaches no character that somebody else plays, or TOO_MANY_CHARS, for the
\* quota is never applied (server.c:103, database.c:262 and 340).
AnswersMatchCalls ==
  \A c \in Clients :
    /\ cpc[c] = "prompt" => s2c[c] = << >>
    /\ cpc[c] \in Calls =>
         /\ Len(s2c[c]) <= 1
         /\ \A r \in Range(s2c[c]) :
              /\ r.opcode \in Answers[cpc[c]]
              /\ session_state[c] # "USER_LOGIN" => r.username = username[c]

\* A session that ends other than by losing a race to the database leaves no
\* client behind: its client has left or is leaving (server.c:139 and 151).
SessionEndStrandsNobody ==
  \A s \in Clients :
    spc[s] \in {"exit", "sigsegv", "sigpipe"} => cpc[s] = "gone" \/ cpc[s] = "leaving"

Stranded(c) == spc[c] \in {"blocked", "collided"}

\* Every call is answered, unless the client is interrupted or its session lost
\* the race to connect to the database.
CallsReturn ==
  \A c \in Clients :
    cpc[c] \in Calls ~> cpc[c] \in {"prompt", "leaving", "gone"} \/ Stranded(c)

\* No session process outlives its client, except one blocked on the database.
SessionsEnd ==
  \A c \in Clients : cpc[c] = "gone" ~> spc[c] \in Ended \cup {"blocked"}

-----------------------------------------------------------------------------
(* What the program tells its users, and does not keep.                     *)

\* "You can not have more characters than five." (client.c:389)
AtMostMaxCharacters ==
  \A u \in DOMAIN User :
    Cardinality({k \in DOMAIN Chars : Chars[k].Name = u}) <= MAX_CHARACTERS

\* "This user is already logged." (client.c:299): a login refused with USER_BUSY
\* finds a running client that holds the account or is giving it back.
BusyMeansLogged ==
  [][\A s \in Clients :
       /\ spc[s] = "db" /\ spc'[s] = "send"
       /\ data_to_client'[s].opcode = "USER_BUSY"
       => \E c \in Clients : Holds(c, data_to_client'[s].username)]_vars
=============================================================================

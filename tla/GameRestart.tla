----------------------------- MODULE GameRestart -----------------------------
(***************************************************************************)
(* The running system of GameSystem, whose database and server may end and *)
(* be started again.  The database starts with empty tables                *)
(* (initialize_table of database.c).  Ctrl-C at the server's terminal      *)
(* reaches main and every session (srv_sigRutine of server.c): then nobody *)
(* has the other ends of the clients' connections.                         *)
(*                                                                         *)
(* DBRendezvous has the steps of a connection to the database that ends    *)
(* while it is made; here they are the ways a session may go on.           *)
(***************************************************************************)
EXTENDS GameProperties

CONSTANT MaxFaults    \* bound: times the database or the server ends

ASSUME FaultAssumption == MaxFaults \in Nat

VARIABLES
  running,    \* whether the server's main process and the database run
  faults,     \* how often one of them has ended
  cut,        \* clients whose connection has no other end any more
  stale,      \* history: clients that hold an account of tables that are gone
  freed,      \* history: one of them has freed an account of the new tables
  overwritten \* history: characters of the new tables that one of them has saved over

processVars == <<running, faults, cut>>
historyVars == <<stale, freed, overwritten>>
allVars == <<vars, processVars, historyVars>>

RestartTypeOK ==
  /\ TypeOK
  /\ running \in SUBSET {"server", "database"}
  /\ faults \in 0..MaxFaults
  /\ cut \in SUBSET Clients
  /\ stale \in SUBSET Clients
  /\ freed \in BOOLEAN
  /\ overwritten \in SUBSET Names

RestartInit ==
  /\ Init
  /\ running = {"server", "database"}
  /\ faults = 0
  /\ cut = {} /\ stale = {} /\ freed = FALSE /\ overwritten = {}

HoldsSome(c) == \E u \in Usernames : Holds(c, u)

\* The database answers a client of earlier tables.
ServesStale == \E c \in stale : spc[c] = "db" /\ spc'[c] = "send"

\* The history variables in a step that empties no tables.
Observe ==
  /\ stale' = {c \in stale : HoldsSome(c)'}
  /\ freed' = (freed \/ \E c \in stale, u \in Usernames :
                 Holds(c, u) /\ ~Holds(c, u)' /\ InUse(u) /\ ~InUse(u)')
  /\ overwritten' = overwritten \cup
       {k \in DOMAIN Chars \cap DOMAIN Chars' : ServesStale /\ Saved(k)' # Saved(k)}

-----------------------------------------------------------------------------
(* What GameSystem's processes still do.                                    *)

\* A client without a server cannot send.
MaySend(c) == c \in cut => UNCHANGED c2s

Client(c) ==
  /\ \/ comm_connect(c) /\ "server" \in running
     \/ Command(c)
     \/ clt_sigRutine(c)
     \/ connection_lost(c)
  /\ MaySend(c)
  /\ UNCHANGED processVars /\ Observe

Reply_or_leave(c) ==
  /\ HandleReply(c) \/ disconnect(c)
  /\ MaySend(c)
  /\ UNCHANGED processVars /\ Observe

\* A session's call waits for the database.
SessionStep(s) ==
  /\ (spc[s] = "db" => "database" \in running)
  /\ Session(s)
  /\ UNCHANGED processVars /\ Observe

Collision(s) ==
  /\ "database" \in running
  /\ connect_collision(s)
  /\ UNCHANGED processVars /\ Observe

-----------------------------------------------------------------------------
(* The database ends and starts.                                            *)

Connecting == {s \in Clients : spc[s] = "db"}

\* The sessions of `outcome` go on as it says; one that reads end-of-file takes the
\* bytes of a fresh buffer for the database's answer, as receiveData does.
GoOn(outcome) ==
  /\ spc' = [s \in Clients |-> IF s \in Connecting THEN outcome[s] ELSE spc[s]]
  /\ \E d \in Garbage :
       data_to_client' = [s \in Clients |->
         CASE s \in Connecting /\ outcome[s] = "send" -> d
           [] s \in Connecting /\ outcome[s] \in Ended -> NULL
           [] OTHER -> data_to_client[s]]
  /\ UNCHANGED <<clientVars, data_from_client, c2s, s2c>>

\* A session that has not asked yet goes on waiting.  The one the database serves reads
\* end-of-file or waits in an open for ever, and one that asks dies of SIGPIPE.
kill_database ==
  /\ "database" \in running /\ faults < MaxFaults
  /\ running' = running \ {"database"}
  /\ faults' = faults + 1
  /\ \E outcome \in [Connecting -> {"db", "send", "blocked", "collided"}] :
       /\ \A s, t \in Connecting : outcome[s] = "send" /\ outcome[t] = "send" => s = t
       /\ GoOn(outcome)
  /\ UNCHANGED <<dbVars, cut>> /\ Observe

\* The database file is unlinked and its tables are created.
initialize_tables ==
  /\ User' = [u \in {} |-> 0]
  /\ Chars' = [k \in {} |-> 0]

\* The listening FIFO is replaced: who waits in the open of the old one waits for
\* ever, and who comes before there is a new one exits.
start_database ==
  /\ "database" \notin running
  /\ running' = running \cup {"database"}
  /\ initialize_tables
  /\ \E outcome \in [Connecting -> {"db", "blocked", "exit"}] : GoOn(outcome)
  /\ stale' = {c \in Clients : HoldsSome(c)'}
  /\ freed' = FALSE
  /\ overwritten' = {}
  /\ UNCHANGED <<faults, cut>>

-----------------------------------------------------------------------------
(* The server ends and starts.                                              *)

\* Mutation: a session that waits for the database does not leave.
srv_sigRutine_whenReceiving ==
  /\ "server" \in running /\ faults < MaxFaults
  /\ faults' = faults + 1
  /\ running' = running \ {"server"}
  /\ LET leaving == {s \in Clients : spc[s] \notin Ended \cup {"none", "db", "blocked"}} IN
       /\ spc' = [s \in Clients |-> IF s \in leaving THEN "exit" ELSE spc[s]]
       /\ cut' = cut \cup {c \in leaving : Alive(c)}
       /\ data_from_client' = [s \in Clients |-> IF s \in leaving THEN NULL
                                                 ELSE data_from_client[s]]
       /\ data_to_client' = [s \in Clients |-> IF s \in leaving THEN NULL
                                               ELSE data_to_client[s]]
       /\ c2s' = [c \in Clients |-> IF c \in leaving THEN << >> ELSE c2s[c]]
  /\ UNCHANGED <<clientVars, s2c, dbVars>> /\ Observe

\* Ctrl-C: main and all sessions run the handler and exit.  A session that leaves in
\* the middle of its connection to the database may end it, or leave it waiting.
srv_sigRutine ==
  /\ "server" \in running /\ faults < MaxFaults
  /\ faults' = faults + 1
  /\ running' \in {running \ {"server"}} \cup
                  (IF Connecting = {} THEN {} ELSE {running \ {"server", "database"}})
  /\ spc' = [s \in Clients |-> IF spc[s] \in Ended \cup {"none"} THEN spc[s] ELSE "exit"]
  /\ data_from_client' = [s \in Clients |-> NULL]
  /\ data_to_client' = [s \in Clients |-> NULL]
  /\ c2s' = [c \in Clients |-> << >>]
  /\ cut' = {c \in Clients : Alive(c)}
  /\ UNCHANGED <<clientVars, s2c, dbVars>> /\ Observe

start_server ==
  /\ "server" \notin running
  /\ running' = running \cup {"server"}
  /\ UNCHANGED <<vars, faults, cut, historyVars>>

\* communicate at end-of-file: with a FIFO, and with a socket that was read empty,
\* receiveData returns the bytes of a fresh buffer; with a socket that was closed
\* over unread bytes it returns NULL and the client exits.
receive_eof(c) ==
  /\ c \in cut /\ cpc[c] \in Calls /\ s2c[c] = << >>
  /\ \/ /\ \E d \in Garbage : s2c' = [s2c EXCEPT ![c] = <<d>>]
        /\ UNCHANGED <<clientVars, serverVars, dbVars>>
     \/ Terminate(c)
  /\ UNCHANGED <<c2s, processVars>> /\ Observe

\* Sending without a reader: SIGPIPE, at a command or at the second call of quit and
\* logOut.
SecondCall(c) == cpc[c] \in {"quit_save", "logout_save"} /\ s2c[c] # << >>

send_sigpipe(c) ==
  /\ c \in cut
  /\ cpc[c] = "prompt" \/ SecondCall(c)
  /\ Terminate(c)
  /\ UNCHANGED <<c2s, processVars>> /\ Observe

-----------------------------------------------------------------------------
RestartNext ==
  \/ \E c \in Clients :
       \/ Client(c) \/ Reply_or_leave(c)
       \/ SessionStep(c) \/ Collision(c)
       \/ receive_eof(c) \/ send_sigpipe(c)
  \/ kill_database \/ start_database
  \/ srv_sigRutine \/ start_server

RestartSpec == RestartInit /\ [][RestartNext]_allVars

\* As in GameSystem.  Nobody has to start what has ended.
FairRestartSpec ==
  /\ RestartSpec
  /\ \A c \in Clients :
       /\ WF_allVars(Reply_or_leave(c)) /\ WF_allVars(SessionStep(c))
       /\ WF_allVars(receive_eof(c)) /\ WF_allVars(SecondCall(c) /\ send_sigpipe(c))

-----------------------------------------------------------------------------
(* What is left of the system's guarantees.                                 *)

\* c holds u, and can still give it back itself: a client that Ctrl-C finds waiting for
\* the answer to its logout will not get it.
Keeps(c, u) == Holds(c, u) /\ ~(c \in cut /\ cpc[c] \in {"quit", "logout"})

\* Those that hold an account of the tables there are.
Keepers(u) == {c \in Clients \ stale : Keeps(c, u)}

\* RestartLock's holder, read off the state.  The lock has no state for the last case.
HolderSince(u) ==
  LET keepers == Keepers(u) IN
    CASE keepers = {} -> IF InUse(u) THEN Abandoned ELSE Free
      [] InUse(u) /\ (\E c \in keepers : keepers = {c}) -> CHOOSE c \in keepers : TRUE
      [] OTHER -> keepers

Since == INSTANCE RestartLock
           WITH Holders <- Clients, Accounts <- Usernames, broken <- freed,
                holder <- [u \in Usernames |-> HolderSince(u)]

\* However often the database and the server end and start: the accounts of one run of
\* the database are granted, returned and abandoned as by the account lock, and nobody
\* else has one, until a client that logged in before its tables were emptied logs out,
\* which frees the account under a client that holds it now (database.c:82, logout).
ImplementsRestartLock == Since!LockSpec

\* Every call returns, but for a client whose session was stranded, by a collision or
\* by a database that ended or was just starting, and one that waits for a database.
CallsReturnOrStranded ==
  \A c \in Clients : cpc[c] \in Calls ~>
    \/ cpc[c] \in {"prompt", "leaving", "gone"}
    \/ Stranded(c)
    \/ spc[c] = "exit" /\ c \notin cut
    \/ spc[c] = "db" /\ "database" \notin running

\* Ctrl-C at the server's terminal leaves no client waiting, not even one whose
\* session was stranded before (server.c:200): main and the session had the other end.
InterruptFreesClients ==
  \A c \in Clients :
    "server" \notin running /\ cpc[c] \in Calls ~> cpc[c] \notin Calls

\* While the database runs, the row of a played character is there, and a player has
\* at most LIMIT_TOSAVE unsaved points at the prompt, and one more at the level cap,
\* where point() returns before it counts; one that has been answered its last save
\* has none (client.c:484).  Left out are a client that has lost its server, which
\* takes end-of-file for the answer to its save and plays on (client.c:488), and what
\* a client of earlier tables does to the new ones: it frees an account, or saves a
\* character of its own over a new one of the same name (database.c:376).
UnsavedBoundedWhileUp ==
  "database" \in running /\ ~freed =>
    \A c \in Clients \ (cut \cup stale) :
      Playing(c) /\ character[c].name \notin overwritten =>
        /\ character[c].name \in DOMAIN Chars
        /\ Unsaved(c) >= 0
        /\ cpc[c] = "prompt" => Unsaved(c) <= LIMIT_TOSAVE + 1
        /\ cpc[c] \in {"quit", "logout"} => Unsaved(c) = 0
=============================================================================

----------------------------- MODULE Descriptors -----------------------------
(***************************************************************************)
(* The file descriptors of the server: what main keeps of every client it  *)
(* has accepted, what a session inherits at the fork (server.c), and what  *)
(* each of its calls takes and gives back (communicate_with_database,      *)
(* getaddress of commlib.c, db_comm_connect and db_comm_disconnect).       *)
(* getaddress opens the configuration file and never closes it.            *)
(*                                                                         *)
(* DBRendezvous has the steps of the handshake with the database; here it  *)
(* is one step, which waits while the database serves another session.     *)
(***************************************************************************)
EXTENDS Integers, FiniteSets

CONSTANTS
  Clients,
  OpenMax,      \* descriptors a process may have
  Bases,        \* those main may have before its first client
  PerClient,    \* those of a connection: two FIFOs or one socket
  NoSession, Hung

DescriptorParameters ==
  /\ OpenMax \in Nat /\ Bases \in SUBSET (0..OpenMax) /\ PerClient \in {1, 2}
  /\ NoSession \notin Clients /\ Hung \notin Clients /\ NoSession # Hung

VARIABLES
  mpc,        \* whether main accepts clients
  base,       \* main's descriptors before its first client
  used,       \* main's descriptors
  spc,        \* what each session is doing
  sused,      \* its descriptors
  inherited,  \* history: those it started with
  calls,      \* history: its calls that the database has answered
  database    \* the session it serves, NoSession, or Hung

sessionVars == <<spc, sused, inherited, calls>>
mainVars == <<mpc, base, used>>
vars == <<mainVars, sessionVars, database>>

TypeOK ==
  /\ mpc \in {"accept", "exit"}
  /\ base \in Bases
  /\ used \in base..OpenMax
  /\ spc \in [Clients -> {"none", "recv", "getaddress", "connect", "exchange",
                          "closed", "exit"}]
  /\ sused \in [Clients -> 0..OpenMax]
  /\ inherited \in [Clients -> 0..OpenMax]
  /\ calls \in [Clients -> 0..OpenMax]
  /\ database \in Clients \cup {NoSession, Hung}

Init ==
  /\ mpc = "accept"
  /\ base \in Bases
  /\ used = base
  /\ spc = [c \in Clients |-> "none"]
  /\ sused = [c \in Clients |-> 0]
  /\ inherited = [c \in Clients |-> 0]
  /\ calls = [c \in Clients |-> 0]
  /\ database = NoSession

At(c, step, next) ==
  /\ spc[c] = step
  /\ spc' = [spc EXCEPT ![c] = next]

-----------------------------------------------------------------------------

\* comm_accept and fork.  Without room for the connection comm_accept returns NULL
\* and main exits; the sessions go on.
accept(c) ==
  /\ mpc = "accept" /\ spc[c] = "none"
  /\ IF used + PerClient <= OpenMax
       THEN /\ used' = used + PerClient
            /\ At(c, "none", "recv")
            /\ sused' = [sused EXCEPT ![c] = used']
            /\ inherited' = [inherited EXCEPT ![c] = used']
            /\ UNCHANGED <<mpc, calls>>
       ELSE mpc' = "exit" /\ UNCHANGED <<used, sessionVars>>
  /\ UNCHANGED <<base, database>>

\* A request: the session calls communicate_with_database.
receiveData(c) ==
  /\ At(c, "recv", "getaddress")
  /\ UNCHANGED <<mainVars, sused, inherited, calls, database>>

\* The client quits.
server_close(c) ==
  /\ At(c, "recv", "closed")
  /\ UNCHANGED <<mainVars, sused, inherited, calls, database>>

\* Mutation: getkey is called for the key of the database as well.
getaddress_twice(c) ==
  /\ sused[c] + 2 <= OpenMax
  /\ At(c, "getaddress", "connect")
  /\ sused' = [sused EXCEPT ![c] = @ + 2]
  /\ UNCHANGED <<mainVars, inherited, calls, database>>

\* fopen without fclose; when it fails the process exits.
getaddress(c) ==
  /\ \/ /\ sused[c] < OpenMax
        /\ At(c, "getaddress", "connect")
        /\ sused' = [sused EXCEPT ![c] = @ + 1]
     \/ /\ sused[c] = OpenMax
        /\ At(c, "getaddress", "exit")
        /\ UNCHANGED sused
  /\ UNCHANGED <<mainVars, inherited, calls, database>>

\* db_comm_connect needs one descriptor for the listening FIFO, closes it, and needs
\* two for the pair.  With one it fails in the middle: the session exits, and the
\* database waits for ever in its open of the session's second FIFO.
db_comm_connect(c) ==
  LET free == OpenMax - sused[c] IN
  /\ \/ /\ free >= 2 /\ database = NoSession
        /\ At(c, "connect", "exchange")
        /\ sused' = [sused EXCEPT ![c] = @ + 2]
        /\ database' = c
     \/ /\ free = 1 /\ database = NoSession
        /\ At(c, "connect", "exit")
        /\ database' = Hung
        /\ UNCHANGED sused
     \/ /\ free = 0
        /\ At(c, "connect", "exit")
        /\ UNCHANGED <<sused, database>>
  /\ UNCHANGED <<mainVars, inherited, calls>>

\* Mutation: the outgoing FIFO is not closed.
db_comm_disconnect_half(c) ==
  /\ At(c, "exchange", "recv")
  /\ sused' = [sused EXCEPT ![c] = @ - 1]
  /\ calls' = [calls EXCEPT ![c] = @ + 1]
  /\ database' = NoSession
  /\ UNCHANGED <<mainVars, inherited>>

\* The answer, and db_comm_disconnect at both ends.
db_comm_disconnect(c) ==
  /\ At(c, "exchange", "recv")
  /\ sused' = [sused EXCEPT ![c] = @ - 2]
  /\ calls' = [calls EXCEPT ![c] = @ + 1]
  /\ database' = NoSession
  /\ UNCHANGED <<mainVars, inherited>>

-----------------------------------------------------------------------------
Serve(c) == getaddress(c) \/ db_comm_connect(c) \/ db_comm_disconnect(c)

Next == \E c \in Clients : accept(c) \/ receiveData(c) \/ server_close(c) \/ Serve(c)

Spec == Init /\ [][Next]_vars

-----------------------------------------------------------------------------
(* What the leaks add up to.                                                *)

\* The descriptors a session had left when it was forked.
Room(c) == OpenMax - inherited[c]

\* A session that gives up has served one call for each descriptor it had left when
\* it was forked, but the two a connection needs, and none before that: it leaks one
\* a call (commlib.c:22), and fewer are left to who came later (server.c:78).
CallsBeforeGivingUp ==
  \A c \in Clients : spc[c] = "exit" =>
    calls[c] = IF Room(c) >= 2 THEN Room(c) - 2 ELSE 0

\* A session that has made its last possible call takes the database with it: it
\* fails in the open of the second FIFO, never in an earlier one
\* (databasecomm.c:80,141), unless it could not make a single call.
GivingUpHangsDatabase ==
  \A c \in Clients : spc[c] = "exit" /\ Room(c) >= 2 => database = Hung
=============================================================================

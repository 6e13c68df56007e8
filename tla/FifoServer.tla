----------------------------- MODULE FifoServer -----------------------------
(***************************************************************************)
(* How clients reach the server when it is built with commfifos.c:         *)
(* comm_connect in the main function of client.c, comm_listen and          *)
(* comm_accept in that of server.c, up to the fork of a session.  The      *)
(* handshake is the database's (DBRendezvous); its surroundings are not: a *)
(* client connects once and stays connected, the server accepts the next   *)
(* client while it still has the descriptors of the others, and a failed   *)
(* accept ends it.                                                         *)
(***************************************************************************)
EXTENDS Fifo, Integers, Functions

CONSTANTS
  Clients, Server,    \* the processes
  NoClient,           \* a process id that names no client
  MaxInterrupts,      \* bound: processes ended by Ctrl-C
  MaxSessions         \* bound: sessions forked for one client

ASSUME FifoServerAssumption ==
  /\ Server \notin Clients
  /\ NoClient \notin Clients
  /\ MaxInterrupts \in Nat /\ MaxSessions \in Nat \ {0}

VARIABLES
  listener, linked,     \* the FIFO under the server's address, if there is one
  incoming, outgoing,   \* the FIFOs of each client
  cpc, mpc,             \* what each client and the server's main process do
  requester,            \* the process id in the server's connectionRequest
  sessions,             \* how many sessions were forked for each client
  forkless,             \* history: the clients for which the fork failed
  raced                 \* history: the client's request overlapped with another's

fifos == <<listener, linked, incoming, outgoing>>
vars == <<fifos, cpc, mpc, requester, sessions, forkless, raced>>

Processes == Clients \cup {Server}

Gone == {"failed", "sigpipe", "interrupted", "gone"}

ClientPC == {"off", "open", "opening", "close", "open_incoming",
             "opening_incoming", "opening_outgoing", "connected"} \cup Gone

ServerPC == {"start", "mknod", "accept", "accepting", "close", "open_incoming",
             "opening_incoming", "opening_outgoing", "exit", "interrupted"}

TypeOK ==
  /\ listener \in FifoType(Processes, Clients)
  /\ linked \in BOOLEAN
  /\ incoming \in [Clients -> FifoType(Processes, {})]
  /\ outgoing \in [Clients -> FifoType(Processes, {})]
  /\ cpc \in [Clients -> ClientPC]
  /\ mpc \in ServerPC
  /\ requester \in Clients \cup {NoClient}
  /\ sessions \in [Clients -> 0..MaxSessions]
  /\ forkless \subseteq Clients
  /\ raced \in [Clients -> BOOLEAN]

\* An earlier run may have left a FIFO under the address.
Init ==
  /\ listener = NewFifo /\ linked \in BOOLEAN
  /\ incoming = [c \in Clients |-> NewFifo]
  /\ outgoing = [c \in Clients |-> NewFifo]
  /\ cpc = [c \in Clients |-> "off"]
  /\ mpc = "start"
  /\ requester = NoClient
  /\ sessions = [c \in Clients |-> 0]
  /\ forkless = {}
  /\ raced = [c \in Clients |-> FALSE]

-----------------------------------------------------------------------------
(* A client: main up to run_session.                                        *)

ClientAt(c, step, next) ==
  /\ cpc[c] = step
  /\ cpc' = [cpc EXCEPT ![c] = next]

EndClient(c, how) ==
  /\ cpc' = [cpc EXCEPT ![c] = how]
  /\ listener' = Close(listener, c)
  /\ incoming' = [incoming EXCEPT ![c] = Close(@, c)]
  /\ outgoing' = [outgoing EXCEPT ![c] = Close(@, c)]
  /\ UNCHANGED linked

\* A client asks from its first open until the server has read its process id.
Asking(c) ==
  \/ cpc[c] = "opening"
  \/ /\ cpc[c] \in {"close", "open_incoming", "opening_incoming"}
     /\ c \in Range(listener.data)

Chosen(c) ==
  /\ requester = c
  /\ mpc \in {"close", "open_incoming", "opening_incoming", "opening_outgoing"}

Met(c) ==
  \/ cpc[c] \in {"opening_outgoing", "connected"}
  \/ Chosen(c) /\ cpc[c] \in {"close", "open_incoming", "opening_incoming"}

EndedByCtrlC ==
  {c \in Clients : cpc[c] = "interrupted"} \cup {p \in {Server} : mpc = "interrupted"}

\* The client is started; comm_connect up to its first open.
make_fifos(c) ==
  /\ ClientAt(c, "off", "open")
  /\ UNCHANGED <<fifos, mpc, requester, sessions, forkless, raced>>

\* comm_connect does not test this open: without a FIFO under the address it is the
\* write that fails, and main exits.
open_listener(c) ==
  LET rivals == {d \in Clients \ {c} : Asking(d) \/ Met(d)} IN
  /\ \/ /\ linked
        /\ ClientAt(c, "open", "opening")
        /\ listener' = OpenWriter(listener, c)
        /\ raced' = [d \in Clients |->
                       IF d = c THEN rivals # {} ELSE raced[d] \/ d \in rivals]
     \/ /\ ~linked
        /\ ClientAt(c, "open", "failed")
        /\ UNCHANGED <<listener, raced>>
  /\ UNCHANGED <<linked, incoming, outgoing, mpc, requester, sessions, forkless>>

write_pid(c) ==
  /\ Opened(listener, c)
  /\ \/ /\ ~WriteBreaks(listener, c)
        /\ ClientAt(c, "opening", "close")
        /\ listener' = Write(listener, c)
        /\ UNCHANGED <<linked, incoming, outgoing>>
     \/ /\ cpc[c] = "opening"
        /\ WriteBreaks(listener, c)
        /\ EndClient(c, "sigpipe")
  /\ UNCHANGED <<mpc, requester, sessions, forkless, raced>>

close_listener(c) ==
  /\ ClientAt(c, "close", "open_incoming")
  /\ listener' = Close(listener, c)
  /\ UNCHANGED <<linked, incoming, outgoing, mpc, requester, sessions, forkless, raced>>

open_incoming(c) ==
  /\ ClientAt(c, "open_incoming", "opening_incoming")
  /\ incoming' = [incoming EXCEPT ![c] = OpenReader(@, c)]
  /\ UNCHANGED <<listener, linked, outgoing, mpc, requester, sessions, forkless, raced>>

open_outgoing(c) ==
  /\ Opened(incoming[c], c)
  /\ ClientAt(c, "opening_incoming", "opening_outgoing")
  /\ outgoing' = [outgoing EXCEPT ![c] = OpenWriter(@, c)]
  /\ UNCHANGED <<listener, linked, incoming, mpc, requester, sessions, forkless, raced>>

connected(c) ==
  /\ Opened(outgoing[c], c)
  /\ ClientAt(c, "opening_outgoing", "connected")
  /\ UNCHANGED <<fifos, mpc, requester, sessions, forkless, raced>>

\* quit: comm_disconnect.
comm_disconnect(c) ==
  /\ cpc[c] = "connected"
  /\ EndClient(c, "gone")
  /\ UNCHANGED <<mpc, requester, sessions, forkless, raced>>

\* Ctrl-C before the connection exists: clt_sigRutine hands a null connection to
\* sendData, and the process dies there.
clt_sigRutine(c) ==
  /\ cpc[c] \notin Gone \cup {"off", "connected"}
  /\ Cardinality(EndedByCtrlC) < MaxInterrupts
  /\ EndClient(c, "interrupted")
  /\ UNCHANGED <<mpc, requester, sessions, forkless, raced>>

-----------------------------------------------------------------------------
(* The server's main process.                                               *)

ServerAt(step, next) == mpc = step /\ mpc' = next

\* comm_listen: unlink, then mknod.  A client that waits in the open of the old
\* FIFO waits for ever.
unlink_listener ==
  /\ ServerAt("start", "mknod")
  /\ linked' = FALSE
  /\ listener' = NewFifo
  /\ UNCHANGED <<incoming, outgoing, cpc, requester, sessions, forkless, raced>>

mknod_listener ==
  /\ ServerAt("mknod", "accept")
  /\ linked' = TRUE
  /\ UNCHANGED <<listener, incoming, outgoing, cpc, requester, sessions, forkless, raced>>

accept_open ==
  /\ ServerAt("accept", "accepting")
  /\ listener' = OpenReader(listener, Server)
  /\ UNCHANGED <<linked, incoming, outgoing, cpc, requester, sessions, forkless, raced>>

\* Mutation: the process id stays in the FIFO.
accept_read_leavesPid ==
  /\ Opened(listener, Server)
  /\ HasData(listener)
  /\ ServerAt("accepting", "close")
  /\ requester' = Head(listener.data)
  /\ UNCHANGED <<fifos, cpc, sessions, forkless, raced>>

\* At end-of-file connectionRequest is uninitialized: an id of nobody, or the one of
\* the call before.
accept_read ==
  /\ Opened(listener, Server)
  /\ ServerAt("accepting", "close")
  /\ \/ /\ HasData(listener)
        /\ requester' = Head(listener.data)
        /\ listener' = Consume(listener)
     \/ /\ AtEnd(listener)
        /\ requester' \in {NoClient, requester}
        /\ UNCHANGED listener
  /\ UNCHANGED <<linked, incoming, outgoing, cpc, sessions, forkless, raced>>

accept_close ==
  /\ ServerAt("close", "open_incoming")
  /\ listener' = Close(listener, Server)
  /\ UNCHANGED <<linked, incoming, outgoing, cpc, requester, sessions, forkless, raced>>

\* Mutation: the server opens the two FIFOs in the other order.
accept_incoming_swapped ==
  /\ requester # NoClient
  /\ ServerAt("open_incoming", "opening_incoming")
  /\ outgoing' = [outgoing EXCEPT ![requester] = OpenReader(@, Server)]
  /\ UNCHANGED <<listener, linked, incoming, cpc, requester, sessions, forkless, raced>>

\* Opening the FIFOs of nobody fails: comm_accept returns NULL and main exits.
accept_incoming ==
  /\ \/ /\ requester # NoClient
        /\ ServerAt("open_incoming", "opening_incoming")
        /\ incoming' = [incoming EXCEPT ![requester] = OpenWriter(@, Server)]
     \/ /\ requester = NoClient
        /\ ServerAt("open_incoming", "exit")
        /\ UNCHANGED incoming
  /\ UNCHANGED <<listener, linked, outgoing, cpc, requester, sessions, forkless, raced>>

accept_outgoing ==
  /\ mpc = "opening_incoming" /\ Opened(incoming[requester], Server)
  /\ mpc' = "opening_outgoing"
  /\ outgoing' = [outgoing EXCEPT ![requester] = OpenReader(@, Server)]
  /\ UNCHANGED <<listener, linked, incoming, cpc, requester, sessions, forkless, raced>>

\* Accepted: main forks the session and goes on, with the descriptors still open.  It
\* does so too when the fork fails (server.c:78): nobody will serve that client.
fork_session ==
  /\ mpc = "opening_outgoing" /\ Opened(outgoing[requester], Server)
  /\ mpc' = "accept"
  /\ \/ /\ sessions[requester] < MaxSessions
        /\ sessions' = [sessions EXCEPT ![requester] = @ + 1]
        /\ UNCHANGED forkless
     \/ /\ forkless' = forkless \cup {requester}
        /\ UNCHANGED sessions
  /\ UNCHANGED <<fifos, cpc, requester, raced>>

\* Ctrl-C ends main and its sessions, and with them all their descriptors; the FIFO
\* keeps its name.
srv_sigRutine ==
  /\ mpc \notin {"exit", "interrupted"} /\ Cardinality(EndedByCtrlC) < MaxInterrupts
  /\ mpc' = "interrupted"
  /\ listener' = Close(listener, Server)
  /\ incoming' = [c \in Clients |-> Close(incoming[c], Server)]
  /\ outgoing' = [c \in Clients |-> Close(outgoing[c], Server)]
  /\ UNCHANGED <<linked, cpc, requester, sessions, forkless, raced>>

-----------------------------------------------------------------------------
ClientStep(c) ==
  \/ open_listener(c)
  \/ write_pid(c)
  \/ close_listener(c)
  \/ open_incoming(c)
  \/ open_outgoing(c)
  \/ connected(c)

ServerStep ==
  \/ unlink_listener
  \/ mknod_listener
  \/ accept_open
  \/ accept_read
  \/ accept_close
  \/ accept_incoming
  \/ accept_outgoing
  \/ fork_session

Next ==
  \/ \E c \in Clients :
       make_fifos(c) \/ ClientStep(c) \/ comm_disconnect(c) \/ clt_sigRutine(c)
  \/ ServerStep
  \/ srv_sigRutine

Spec == Init /\ [][Next]_vars

\* The operating system runs the processes; nobody has to start a client, to quit
\* or to press Ctrl-C.
FairSpec ==
  /\ Spec
  /\ \A c \in Clients : WF_vars(ClientStep(c))
  /\ WF_vars(ServerStep)

-----------------------------------------------------------------------------
(* What the handshake guarantees.                                           *)

StateOf(c) ==
  CASE cpc[c] \in {"off", "open", "failed"} -> "idle"
    [] Asking(c) -> "asking"
    [] Met(c) -> "met"
    [] cpc[c] = "gone" -> "idle"
    [] OTHER -> "lost"

Abstract == INSTANCE Rendezvous
  WITH Requesters <- Clients, Nobody <- NoClient,
       state <- [c \in Clients |-> StateOf(c)],
       serving <- IF mpc \in {"start", "mknod", "accept", "accepting", "exit", "interrupted"}
                    THEN NoClient ELSE requester

ClientInterrupted == \E c \in Clients : cpc[c] = "interrupted"
Interrupted == ClientInterrupted \/ mpc = "interrupted"

\* Up to the first Ctrl-C the server takes one client at a time, and loses a client
\* only if its request overlapped with another's (comm_connect, comm_accept).
ImplementsRendezvous ==
  Abstract!Init /\ [][~Interrupted' => Abstract!Next \/ UNCHANGED Abstract!vars]_vars

\* A client is accepted once: it has one session, or none because the fork failed.
\* After Ctrl-C in another client's handshake the stale process id can make the server
\* accept a client a second time (commfifos.c:118: a read at end-of-file).
OneSessionPerClient ==
  \A c \in Clients :
    sessions[c] > 1 \/ (sessions[c] = 1 /\ c \in forkless) => ClientInterrupted

\* A client that says it is connected gets a session, unless the fork of it fails or
\* Ctrl-C ends the server first.
ConnectedGetsSession ==
  \A c \in Clients :
    cpc[c] = "connected" ~> sessions[c] > 0 \/ c \in forkless \/ mpc = "interrupted"

\* The server exits or hangs in its accept only after a client was interrupted
\* in its handshake, unless it is ended itself.
ServerKeepsAccepting ==
  mpc \notin {"accept", "accepting"} ~>
    \/ mpc \in {"accept", "interrupted"}
    \/ ClientInterrupted /\ mpc \in {"exit", "opening_incoming", "opening_outgoing"}
=============================================================================

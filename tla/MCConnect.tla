------------------------------ MODULE MCConnect ------------------------------
(***************************************************************************)
(* Small instances of the two implementations of comm.h.  The Makefile     *)
(* links one of them into client and server; a behaviour is one of the     *)
(* build that its first state chooses.                                     *)
(***************************************************************************)
EXTENDS FifoServer

CONSTANTS Servers, NoServer, OldServer, MAXQ_SIZE

VARIABLES
  build,                                            \* "fifos" or "sockets"
  address, backlog, main, client, target, session, unforked   \* of SocketServer

Sockets == INSTANCE SocketServer WITH mpc <- main, cpc <- client, forkless <- unforked

ASSUME SocketAssumption == Sockets!SocketParameters

socketVars == <<address, backlog, main, client, target, session, unforked>>
allVars == <<build, vars, socketVars>>

\* The variables of the other build keep one of their initial values.
MCInit ==
  /\ build \in {"fifos", "sockets"}
  /\ Init /\ (build = "sockets" => ~linked)
  /\ Sockets!Init /\ (build = "fifos" => address = NoServer)

WithFifos(A) == build = "fifos" /\ A /\ UNCHANGED <<build, socketVars>>
WithSockets(A) == build = "sockets" /\ A /\ UNCHANGED <<build, vars>>

MCNext == WithFifos(Next) \/ WithSockets(Sockets!Next)

\* FairSpec of either module.
MCSpec ==
  /\ MCInit /\ [][MCNext]_allVars
  /\ WF_allVars(WithFifos(ServerStep))
  /\ \A c \in Clients : /\ WF_allVars(WithFifos(ClientStep(c)))
                        /\ SF_allVars(WithSockets(Sockets!connect(c)))
  /\ \A m \in Servers : WF_allVars(WithSockets(Sockets!ServerStep(m)))

\* The server over FIFOs comes back to its accept, as FifoServer has it.
FifosKeepAccepting == build = "fifos" => ServerKeepsAccepting

\* SocketServer's properties, stated and explained there (commsockets.c): a client
\* that waits while a server listens gets in.
WaiterGetsIn == Sockets!WaiterGetsIn

\* A client is accepted once, over FIFOs unless a handshake was interrupted
\* (commfifos.c:118), and over sockets with the server that it reached, in whose backlog
\* it stays until then (commsockets.c:73-107).
ConnectedIsKept == Sockets!ConnectedIsKept
ClientsGetOneSession == OneSessionPerClient /\ ConnectedIsKept

\* A client that is connected gets a session, over FIFOs and, with the server that it
\* reached, over sockets, unless its fork fails or Ctrl-C ends the server: no other
\* client's failed fork, leftover or place in the backlog keeps it waiting
\* (server.c:66-88).
ConnectedClientsServed == ConnectedGetsSession /\ Sockets!ConnectedGetsSession
=============================================================================

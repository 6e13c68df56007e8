---------------------------- MODULE SocketServer ----------------------------
(***************************************************************************)
(* How clients reach the server when it is built with commsockets.c:       *)
(* comm_connect in client.c, comm_listen and comm_accept in the main       *)
(* function of server.c, up to the fork of a session.  The system keeps    *)
(* the connections that nobody has accepted yet; connect waits while there *)
(* are too many.  A second server may be started: it takes the address,    *)
(* and the clients of the first one stay with that.                        *)
(***************************************************************************)
EXTENDS Integers, Sequences, SequencesExt

CONSTANTS
  Clients, Servers,   \* the processes; a server is a main process
  NoServer,           \* no socket under the address
  OldServer,          \* the socket that an earlier run left under it
  MAXQ_SIZE

SocketParameters ==
  /\ NoServer \notin Servers /\ OldServer \notin Servers /\ NoServer # OldServer
  /\ MAXQ_SIZE \in Nat

VARIABLES
  address,    \* whose socket has the address
  backlog,    \* connections each server has not accepted
  mpc, cpc,   \* what each server's main and each client do
  target,     \* the server each client has connected to
  session,    \* the server that forked a session for the client
  forkless    \* history: the clients for which the fork failed

vars == <<address, backlog, mpc, cpc, target, session, forkless>>

TypeOK ==
  /\ address \in Servers \cup {NoServer, OldServer}
  /\ backlog \in [Servers -> Seq(Clients)]
  /\ \A m \in Servers : Len(backlog[m]) <= MAXQ_SIZE + 1
  /\ mpc \in [Servers -> {"start", "bind", "listen", "accept", "failed", "exit"}]
  /\ cpc \in [Clients -> {"off", "connect", "connected", "failed"}]
  /\ target \in [Clients -> Servers \cup {NoServer}]
  /\ session \in [Clients -> Servers \cup {NoServer}]
  /\ forkless \subseteq Clients

Init ==
  /\ address \in {NoServer, OldServer}
  /\ backlog = [m \in Servers |-> << >>]
  /\ mpc = [m \in Servers |-> "start"]
  /\ cpc = [c \in Clients |-> "off"]
  /\ target = [c \in Clients |-> NoServer]
  /\ session = [c \in Clients |-> NoServer]
  /\ forkless = {}

ServerAt(m, step, next) ==
  /\ mpc[m] = step
  /\ mpc' = [mpc EXCEPT ![m] = next]

ClientAt(c, step, next) ==
  /\ cpc[c] = step
  /\ cpc' = [cpc EXCEPT ![c] = next]

-----------------------------------------------------------------------------
(* comm_listen.  Nobody unlinks the address when a server ends.             *)

unlink_address(m) ==
  /\ ServerAt(m, "start", "bind")
  /\ address' = NoServer
  /\ UNCHANGED <<backlog, cpc, target, session, forkless>>

\* bind fails if there is a socket: main gives up.
bind(m) ==
  /\ \/ /\ address = NoServer
        /\ ServerAt(m, "bind", "listen")
        /\ address' = m
     \/ /\ address # NoServer
        /\ ServerAt(m, "bind", "failed")
        /\ UNCHANGED address
  /\ UNCHANGED <<backlog, cpc, target, session, forkless>>

listen(m) ==
  /\ ServerAt(m, "listen", "accept")
  /\ UNCHANGED <<address, backlog, cpc, target, session, forkless>>

\* Mutation: newpid <= 0 for newpid == 0: when the fork fails main is the session, and
\* never accepts again.
comm_accept_withoutChild(m) ==
  /\ mpc[m] = "accept" /\ mpc' \in {mpc, [mpc EXCEPT ![m] = "session"]}
  /\ backlog[m] # << >>
  /\ session' = [session EXCEPT ![Head(backlog[m])] = m]
  /\ backlog' = [backlog EXCEPT ![m] = Tail(@)]
  /\ UNCHANGED <<address, cpc, target, forkless>>

\* Mutation: the client is still in the backlog when its session is forked.
comm_accept_leavesClient(m) ==
  /\ ServerAt(m, "accept", "accept")
  /\ backlog[m] # << >>
  /\ session' = [session EXCEPT ![Head(backlog[m])] = m]
  /\ UNCHANGED <<address, backlog, cpc, target, forkless>>

\* comm_accept, and the fork of a session.  When it fails main goes on all the same, and
\* the client stays connected to nobody.
comm_accept(m) ==
  /\ ServerAt(m, "accept", "accept")
  /\ backlog[m] # << >>
  /\ \/ /\ session' = [session EXCEPT ![Head(backlog[m])] = m]
        /\ UNCHANGED forkless
     \/ /\ forkless' = forkless \cup {Head(backlog[m])}
        /\ UNCHANGED session
  /\ backlog' = [backlog EXCEPT ![m] = Tail(@)]
  /\ UNCHANGED <<address, cpc, target>>

\* Ctrl-C: with the process goes its socket, and what nobody has accepted.
srv_sigRutine(m) ==
  /\ mpc[m] \notin {"start", "failed", "exit"}
  /\ mpc' = [mpc EXCEPT ![m] = "exit"]
  /\ backlog' = [backlog EXCEPT ![m] = << >>]
  /\ UNCHANGED <<address, cpc, target, session, forkless>>

-----------------------------------------------------------------------------
(* comm_connect.                                                            *)

Listens(m) == m \in Servers /\ mpc[m] = "accept"

\* The client is started.
start(c) ==
  /\ ClientAt(c, "off", "connect")
  /\ UNCHANGED <<address, backlog, mpc, target, session, forkless>>

\* Mutation: a full backlog is a reason to give up (a socket with O_NONBLOCK).
connect_doesNotWait(c) ==
  /\ \/ /\ Listens(address) /\ Len(backlog[address]) <= MAXQ_SIZE
        /\ ClientAt(c, "connect", "connected")
        /\ backlog' = [backlog EXCEPT ![address] = Append(@, c)]
        /\ target' = [target EXCEPT ![c] = address]
     \/ /\ ~(Listens(address) /\ Len(backlog[address]) <= MAXQ_SIZE)
        /\ ClientAt(c, "connect", "failed")
        /\ UNCHANGED <<backlog, target>>
  /\ UNCHANGED <<address, mpc, session, forkless>>

\* connect fails without a socket, or with one at which nobody listens.  It waits
\* for room, and then looks again at who has the address.
connect(c) ==
  /\ \/ /\ Listens(address) /\ Len(backlog[address]) <= MAXQ_SIZE
        /\ ClientAt(c, "connect", "connected")
        /\ backlog' = [backlog EXCEPT ![address] = Append(@, c)]
        /\ target' = [target EXCEPT ![c] = address]
     \/ /\ ~Listens(address)
        /\ ClientAt(c, "connect", "failed")
        /\ UNCHANGED <<backlog, target>>
  /\ UNCHANGED <<address, mpc, session, forkless>>

-----------------------------------------------------------------------------
ServerStep(m) == bind(m) \/ listen(m) \/ comm_accept(m)

Next ==
  \/ \E m \in Servers : unlink_address(m) \/ ServerStep(m) \/ srv_sigRutine(m)
  \/ \E c \in Clients : start(c) \/ connect(c)

Spec == Init /\ [][Next]_vars

\* The system runs the processes and lets waiting clients in one after the other;
\* nobody has to start a server or a client, or to press Ctrl-C.
FairSpec ==
  /\ Spec
  /\ \A m \in Servers : WF_vars(ServerStep(m))
  /\ \A c \in Clients : SF_vars(connect(c))

-----------------------------------------------------------------------------
(* What connecting over sockets guarantees.                                 *)

\* A client that waits while a server listens gets in, however many come at once,
\* unless Ctrl-C or another server that is started comes between.
WaiterGetsIn ==
  \A c \in Clients :
    cpc[c] = "connect" /\ Listens(address)
      ~> cpc[c] = "connected" \/ \E m \in Servers : mpc[m] \notin {"start", "accept"}

Waits(c, m) == \E i \in 1..Len(backlog[m]) : backlog[m][i] = c

\* Between connect and accept nobody gets lost or is served twice: whoever waits has
\* reached that server and has not been accepted anywhere, and whoever has reached a
\* server has its session there, or none because the fork failed, or waits for it, unless
\* Ctrl-C at that server took the backlog away; whoever has taken the address since
\* (commsockets.c:73-107).
ConnectedIsKept ==
  \A c \in Clients, m \in Servers :
    /\ Waits(c, m) => target[c] = m /\ session[c] = NoServer /\ c \notin forkless
    /\ target[c] = m =>
         \/ session[c] = m /\ c \notin forkless
         \/ session[c] = NoServer /\ (c \in forkless \/ mpc[m] = "exit" \/ Waits(c, m))

\* A connected client gets a session with the server it connected to, although
\* another one may have taken the address since; only Ctrl-C at that server or a fork
\* that fails takes it away (contrast FifoServer).
ConnectedGetsSession ==
  \A c \in Clients, m \in Servers :
    target[c] = m ~> session[c] = m \/ c \in forkless \/ mpc[m] = "exit"
=============================================================================

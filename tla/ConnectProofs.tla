---------------------------- MODULE ConnectProofs ----------------------------
(***************************************************************************)
(* Proofs about the clients' connection to a server built with             *)
(* commfifos.c, for any number of clients, of Ctrl-C and of forked         *)
(* sessions: up to the first Ctrl-C in a client a client is accepted once  *)
(* at most, and up to the first one anywhere the handshake implements      *)
(* Rendezvous (FifoServer).                                                *)
(*                                                                         *)
(* The argument is that of RendezvousProofs.  The differences are those of *)
(* the code: a client's FIFOs are used once and keep the server's ends for *)
(* ever, and a client may come while the server replaces the FIFO under    *)
(* its address.  The last section is about a server built with             *)
(* commsockets.c, any number of servers and any size of the backlog        *)
(* (SocketServer).                                                         *)
(***************************************************************************)
EXTENDS MCConnect, FifoProofs

\* A step of the specification is one of the server over FIFOs, one of the server
\* over sockets, or none.
LEMMA MCStep ==
  ASSUME [MCNext]_allVars
  PROVE  Next \/ UNCHANGED vars
BY DEF MCNext, WithFifos, WithSockets, allVars

-----------------------------------------------------------------------------
(* The invariant.                                                           *)

With(c, steps) == requester = c /\ mpc \in steps

\* main has called fork for the client, and got a session or not.
Forked(c) == sessions[c] = 1 \/ c \in forkless

AcceptedOnce(c) == sessions[c] \in {0, 1} /\ (sessions[c] = 1 => c \notin forkless)

\* Whatever faults there are.
Typed ==
  /\ TypeOK
  /\ mpc \in {"opening_incoming", "opening_outgoing"} => requester \in Clients

\* The listening FIFO before the first fault: who has which end.  A client that came
\* before the server keeps waiting, in a FIFO that the server replaces.
ListenerUsers ==
  /\ mpc # "exit" /\ (mpc \notin {"start", "mknod"} => linked)
  /\ mpc \in {"start", "mknod"} =>
       \A c \in Clients : /\ cpc[c] \in {"off", "open", "opening", "failed"}
                          /\ ~Opened(listener, c)
  /\ listener.readers = IF mpc \in {"accepting", "close"} THEN {Server} ELSE {}
  /\ listener.writers \subseteq {c \in Clients : cpc[c] \in {"opening", "close"}}
  /\ \A c \in Clients : cpc[c] = "close" => c \in listener.writers
  /\ \A c \in Clients \cap listener.waiting : cpc[c] = "opening"
  /\ mpc = "accepting" /\ Server \notin listener.waiting =>
       listener.data # << >> \/ listener.writers # {}

\* Which process ids are in it.
ListenerIds ==
  /\ IsInjective(listener.data)
  /\ Users(listener) = {} => listener.data = << >>
  /\ \A c \in Clients : cpc[c] = "close" => Asking(c) \/ Chosen(c)
  /\ \A c \in Range(listener.data) :
       cpc[c] \in {"close", "open_incoming", "opening_incoming"} /\ ~Chosen(c)

ListenerOrder == ListenerUsers /\ ListenerIds

\* Where the server and the client it accepts can be at the same time.
InStep(c) ==
  /\ With(c, {"close", "open_incoming"}) =>
       cpc[c] \in {"close", "open_incoming", "opening_incoming"}
  /\ With(c, {"opening_incoming"}) =>
       cpc[c] \in {"close", "open_incoming", "opening_incoming", "opening_outgoing"}
  /\ With(c, {"opening_outgoing"}) =>
       cpc[c] \in {"opening_incoming", "opening_outgoing", "connected", "gone"}
  /\ cpc[c] = "opening_outgoing" =>
       With(c, {"opening_incoming", "opening_outgoing"}) \/ Forked(c)
  /\ cpc[c] \in {"connected", "gone"} => With(c, {"opening_outgoing"}) \/ Forked(c)

\* One fork at most, and only after the handshake.
SessionOrder(c) ==
  /\ AcceptedOnce(c)
  /\ Forked(c) => /\ ~Chosen(c)
                  /\ cpc[c] \in {"opening_outgoing", "connected", "gone"}

\* The client's two FIFOs: the server keeps its ends.
PairOrder(c) ==
  /\ incoming[c].readers =
       IF cpc[c] \in {"opening_incoming", "opening_outgoing", "connected"} THEN {c} ELSE {}
  /\ incoming[c].writers =
       IF With(c, {"opening_incoming", "opening_outgoing"}) \/ Forked(c) THEN {Server}
                                                                         ELSE {}
  /\ outgoing[c].writers =
       IF cpc[c] \in {"opening_outgoing", "connected"} THEN {c} ELSE {}
  /\ outgoing[c].readers =
       IF With(c, {"opening_outgoing"}) \/ Forked(c) THEN {Server} ELSE {}
  /\ cpc[c] = "opening_incoming" /\ c \notin incoming[c].waiting => incoming[c].writers # {}
  /\ With(c, {"opening_incoming"}) /\ Server \notin incoming[c].waiting =>
       incoming[c].readers # {}
  /\ cpc[c] = "opening_outgoing" /\ c \notin outgoing[c].waiting => outgoing[c].readers # {}
  /\ With(c, {"opening_outgoing"}) /\ Server \notin outgoing[c].waiting =>
       cpc[c] \in {"opening_outgoing", "connected", "gone"}

ClientOrder(c) == InStep(c) /\ SessionOrder(c) /\ PairOrder(c)

Listening == {"start", "mknod", "accept", "accepting", "exit", "interrupted"}

Orderly ==
  /\ ListenerOrder
  /\ mpc \notin Listening => requester \in Clients
  /\ \A c \in Clients : ClientOrder(c)

\* Who has overlapped knows it: two clients that ask or have been taken, and a client
\* that was let into the listening FIFO and finds nobody there any more.
Competing(c) == Asking(c) \/ Met(c)

Overtaken(c) ==
  /\ listener.readers = {} /\ Asking(c)
  /\ cpc[c] \in {"opening", "close"}
  /\ cpc[c] = "opening" => Opened(listener, c)

RaceOrder ==
  \A c \in Clients :
    /\ Overtaken(c) => raced[c]
    /\ \A d \in Clients \ {c} : Competing(c) /\ Competing(d) => raced[c]

\* Ctrl-C at the server takes the order away with its descriptors, but not what it has
\* forked.
ConnectInvariant ==
  /\ Typed
  /\ ~Interrupted => Orderly
  /\ ~ClientInterrupted => \A c \in Clients : AcceptedOnce(c)

RaceInvariant == ~Interrupted => RaceOrder

-----------------------------------------------------------------------------
(* Every step keeps Typed, faults included.                                 *)

\* Clients and the server are the processes.
LEMMA ProcessTypes ==
  /\ Clients \subseteq Processes /\ Server \in Processes
  /\ \A c \in Clients : c # Server /\ c # NoClient
BY FifoServerAssumption DEF Processes

\* What a step needs to know of the FIFOs.
Fifos ==
  /\ listener \in FifoType(Processes, Clients) /\ listener.data \in Seq(Clients)
  /\ incoming \in [Clients -> FifoType(Processes, {})]
  /\ outgoing \in [Clients -> FifoType(Processes, {})]
  /\ cpc \in [Clients -> ClientPC]
  /\ sessions \in [Clients -> 0..MaxSessions] /\ forkless \subseteq Clients
  /\ raced \in [Clients -> BOOLEAN]
  /\ Server \in Processes /\ Clients \subseteq Processes
  /\ \A c \in Clients : c # Server /\ c # NoClient

\* The type invariant has all of Fifos.
LEMMA FifosAre == Typed => Fifos
BY ProcessTypes DEF Typed, TypeOK, Fifos, FifoType

\* The end of a client.
LEMMA EndClientTypes ==
  ASSUME Typed, NEW c \in Clients, NEW how \in Gone, EndClient(c, how),
         UNCHANGED <<mpc, requester, sessions, forkless, raced>>
  PROVE  Typed'
PROOF
<1>1. Fifos
  BY FifosAre
<1>2. /\ Close(listener, c) \in FifoType(Processes, Clients)
      /\ Close(incoming[c], c) \in FifoType(Processes, {})
      /\ Close(outgoing[c], c) \in FifoType(Processes, {})
  BY <1>1, FifoTypes DEF Fifos
<1>3. [cpc EXCEPT ![c] = how] \in [Clients -> ClientPC]
  BY <1>1 DEF Fifos, ClientPC
<1>4. /\ listener' \in FifoType(Processes, Clients)
      /\ incoming' \in [Clients -> FifoType(Processes, {})]
      /\ outgoing' \in [Clients -> FifoType(Processes, {})]
      /\ cpc' \in [Clients -> ClientPC] /\ linked' = linked
  BY <1>1, <1>2, <1>3 DEF EndClient, Fifos
<1> QED BY <1>4 DEF Typed, TypeOK

\* Each step of a client.
LEMMA ClientTypes ==
  ASSUME Typed, NEW c \in Clients,
         make_fifos(c) \/ ClientStep(c) \/ comm_disconnect(c) \/ clt_sigRutine(c)
  PROVE  Typed'
PROOF
<1>1. Fifos
  BY FifosAre
<1>2. /\ OpenWriter(listener, c) \in FifoType(Processes, Clients)
      /\ Write(listener, c) \in FifoType(Processes, Clients)
      /\ Close(listener, c) \in FifoType(Processes, Clients)
      /\ OpenReader(incoming[c], c) \in FifoType(Processes, {})
      /\ OpenWriter(outgoing[c], c) \in FifoType(Processes, {})
  BY <1>1, FifoTypes DEF Fifos
<1>3. CASE \E how \in Gone : EndClient(c, how)
                             /\ UNCHANGED <<mpc, requester, sessions, forkless, raced>>
  BY <1>3, EndClientTypes
<1>4. CASE ~ \E how \in Gone : EndClient(c, how)
                               /\ UNCHANGED <<mpc, requester, sessions, forkless, raced>>
  <2>1. PICK next \in ClientPC : cpc' = [cpc EXCEPT ![c] = next]
    BY <1>4
       DEF make_fifos, ClientStep, comm_disconnect, clt_sigRutine, open_listener, write_pid,
           close_listener, open_incoming, open_outgoing, connected, ClientAt, ClientPC, Gone
  <2>2. /\ linked' = linked
        /\ UNCHANGED <<mpc, requester, sessions, forkless>>
        /\ raced' = raced \/ raced' \in [Clients -> BOOLEAN]
    BY <1>1, <1>4
       DEF make_fifos, ClientStep, comm_disconnect, clt_sigRutine, open_listener, write_pid,
           close_listener, open_incoming, open_outgoing, connected, Gone, Fifos, fifos
  <2>3. listener' \in FifoType(Processes, Clients)
    BY <1>1, <1>2, <1>4
       DEF make_fifos, ClientStep, comm_disconnect, clt_sigRutine, open_listener, write_pid,
           close_listener, open_incoming, open_outgoing, connected, Gone, Fifos, fifos
  <2>4. /\ incoming' \in {incoming, [incoming EXCEPT ![c] = OpenReader(@, c)]}
        /\ outgoing' \in {outgoing, [outgoing EXCEPT ![c] = OpenWriter(@, c)]}
    BY <1>4
       DEF make_fifos, ClientStep, comm_disconnect, clt_sigRutine, open_listener, write_pid,
           close_listener, open_incoming, open_outgoing, connected, Gone, fifos
  <2>5. /\ incoming' \in [Clients -> FifoType(Processes, {})]
        /\ outgoing' \in [Clients -> FifoType(Processes, {})]
    BY <1>1, <1>2, <2>4 DEF Fifos
  <2>6. cpc' \in [Clients -> ClientPC]
    BY <1>1, <2>1 DEF Fifos
  <2> QED BY <2>2, <2>3, <2>5, <2>6 DEF Typed, TypeOK
<1> QED BY <1>3, <1>4

\* Each step of the server's main process.
LEMMA ServerTypes ==
  ASSUME Typed, ServerStep
  PROVE  Typed'
PROOF
<1>1. Fifos /\ requester \in Clients \cup {NoClient}
  BY FifosAre DEF Typed, TypeOK
<1>2. /\ NewFifo \in FifoType(Processes, Clients)
      /\ OpenReader(listener, Server) \in FifoType(Processes, Clients)
      /\ Close(listener, Server) \in FifoType(Processes, Clients)
      /\ HasData(listener) => /\ Consume(listener) \in FifoType(Processes, Clients)
                              /\ Head(listener.data) \in Clients
  BY <1>1, FifoTypes DEF Fifos
<1>3. listener' \in FifoType(Processes, Clients) /\ linked' \in BOOLEAN
  BY <1>1, <1>2
     DEF ServerStep, unlink_listener, mknod_listener, accept_open, accept_read, accept_close,
         accept_incoming, accept_outgoing, fork_session, fifos, Fifos, Typed, TypeOK
<1>4. /\ UNCHANGED <<cpc, raced>> /\ requester' \in Clients \cup {NoClient}
      /\ mpc' \in ServerPC
      /\ mpc' \in {"opening_incoming", "opening_outgoing"} => requester' \in Clients
  BY <1>1, <1>2
     DEF ServerStep, unlink_listener, mknod_listener, accept_open, accept_read, accept_close,
         accept_incoming, accept_outgoing, fork_session, ServerAt, ServerPC, Typed
<1>5. incoming' \in [Clients -> FifoType(Processes, {})]
  <2>1. CASE accept_incoming /\ requester # NoClient
    <3>1. OpenWriter(incoming[requester], Server) \in FifoType(Processes, {})
      BY <1>1, <2>1, FifoTypes DEF Fifos
    <3> QED BY <1>1, <2>1, <3>1 DEF accept_incoming, Fifos
  <2>2. CASE ~(accept_incoming /\ requester # NoClient)
    BY <1>1, <2>2
       DEF ServerStep, unlink_listener, mknod_listener, accept_open, accept_read,
           accept_close, accept_incoming, accept_outgoing, fork_session, fifos, Fifos
  <2> QED BY <2>1, <2>2
<1>6. outgoing' \in [Clients -> FifoType(Processes, {})]
  <2>1. CASE accept_outgoing
    <3>1. requester \in Clients
      BY <2>1 DEF accept_outgoing, Typed
    <3>2. OpenReader(outgoing[requester], Server) \in FifoType(Processes, {})
      BY <1>1, <3>1, FifoTypes DEF Fifos
    <3> QED BY <1>1, <2>1, <3>1, <3>2 DEF accept_outgoing, Fifos
  <2>2. CASE ~accept_outgoing
    BY <1>1, <2>2
       DEF ServerStep, unlink_listener, mknod_listener, accept_open, accept_read,
           accept_close, accept_incoming, fork_session, fifos, Fifos
  <2> QED BY <2>1, <2>2
<1>7. sessions' \in [Clients -> 0..MaxSessions]
  <2>1. CASE fork_session /\ sessions' # sessions
    <3>1. requester \in Clients /\ sessions[requester] < MaxSessions
      BY <2>1 DEF fork_session, Typed
    <3> QED BY <1>1, <2>1, <3>1, FifoServerAssumption DEF fork_session, Fifos
  <2>2. CASE ~(fork_session /\ sessions' # sessions)
    BY <1>1, <2>2
       DEF ServerStep, unlink_listener, mknod_listener, accept_open, accept_read,
           accept_close, accept_incoming, accept_outgoing, Fifos
  <2> QED BY <2>1, <2>2
<1>8. forkless' \subseteq Clients
  <2>1. fork_session => requester \in Clients
    BY DEF fork_session, Typed
  <2> QED
    BY <1>1, <2>1
       DEF ServerStep, unlink_listener, mknod_listener, accept_open, accept_read,
           accept_close, accept_incoming, accept_outgoing, fork_session, Fifos
<1> QED BY <1>1, <1>3, <1>4, <1>5, <1>6, <1>7, <1>8 DEF Typed, TypeOK, Fifos

\* Ctrl-C at the server.
LEMMA ServerEndTypes ==
  ASSUME Typed, srv_sigRutine
  PROVE  Typed'
PROOF
<1>1. Fifos
  BY FifosAre
<1>2. /\ Close(listener, Server) \in FifoType(Processes, Clients)
      /\ \A c \in Clients : /\ Close(incoming[c], Server) \in FifoType(Processes, {})
                            /\ Close(outgoing[c], Server) \in FifoType(Processes, {})
  BY <1>1, FifoTypes DEF Fifos
<1>3. /\ listener' \in FifoType(Processes, Clients)
      /\ incoming' \in [Clients -> FifoType(Processes, {})]
      /\ outgoing' \in [Clients -> FifoType(Processes, {})]
      /\ mpc' = "interrupted"
      /\ UNCHANGED <<linked, cpc, requester, sessions, forkless, raced>>
  BY <1>2 DEF srv_sigRutine
<1> QED BY <1>3 DEF Typed, TypeOK, ServerPC

-----------------------------------------------------------------------------
(* Every step up to the first Ctrl-C keeps Orderly.                         *)

\* An interrupted client stays interrupted.
LEMMA ClientsStayEnded ==
  ASSUME Typed, Next, ~ClientInterrupted'
  PROVE  ~ClientInterrupted /\ \A c \in Clients : ~clt_sigRutine(c)
PROOF
<1>1. cpc \in [Clients -> ClientPC]
  BY DEF Typed, TypeOK
<1>2. ASSUME NEW c \in Clients, clt_sigRutine(c)
      PROVE  FALSE
  BY <1>1, <1>2 DEF clt_sigRutine, EndClient, ClientInterrupted
<1>3. ASSUME NEW d \in Clients, cpc[d] = "interrupted"
      PROVE  cpc'[d] = "interrupted"
  <2>1. ServerStep \/ srv_sigRutine => cpc' = cpc
    BY DEF ServerStep, unlink_listener, mknod_listener, accept_open, accept_read,
           accept_close, accept_incoming, accept_outgoing, fork_session, srv_sigRutine
  <2>2. ASSUME NEW c \in Clients, make_fifos(c) \/ ClientStep(c) \/ comm_disconnect(c)
        PROVE  cpc[c] # "interrupted" /\ \A e \in Clients \ {c} : cpc'[e] = cpc[e]
    BY <1>1, <2>2
       DEF make_fifos, ClientStep, comm_disconnect, open_listener, write_pid,
           close_listener, open_incoming, open_outgoing, connected, ClientAt, EndClient
  <2> QED BY <1>2, <1>3, <2>1, <2>2 DEF Next
<1> QED BY <1>2, <1>3 DEF ClientInterrupted

\* And so does the server, which forks nothing any more.
LEMMA ServerStaysEnded ==
  ASSUME Next
  PROVE  /\ mpc = "interrupted" \/ srv_sigRutine => mpc' = "interrupted"
         /\ mpc' = "interrupted" => UNCHANGED <<sessions, forkless>>
PROOF
<1>1. ASSUME NEW c \in Clients,
             make_fifos(c) \/ ClientStep(c) \/ comm_disconnect(c) \/ clt_sigRutine(c)
      PROVE  UNCHANGED <<mpc, sessions, forkless>>
  BY <1>1
     DEF make_fifos, ClientStep, comm_disconnect, clt_sigRutine, open_listener, write_pid,
         close_listener, open_incoming, open_outgoing, connected
<1>2. ServerStep => mpc # "interrupted" /\ mpc' # "interrupted"
  BY DEF ServerStep, unlink_listener, mknod_listener, accept_open, accept_read,
         accept_close, accept_incoming, accept_outgoing, fork_session, ServerAt
<1> QED BY <1>1, <1>2 DEF Next, srv_sigRutine

\* Nobody was interrupted before a step after which nobody is.
LEMMA InterruptsStay ==
  ASSUME Typed, Next, ~Interrupted'
  PROVE  ~Interrupted /\ ~srv_sigRutine /\ \A c \in Clients : ~clt_sigRutine(c)
BY ClientsStayEnded, ServerStaysEnded DEF Interrupted

\* A step of one client concerns the listening FIFO, its pair and its own place.
LEMMA OneClientOrder ==
  ASSUME Orderly, NEW c \in Clients, UNCHANGED <<mpc, requester, sessions, forkless>>,
         ListenerOrder', ClientOrder(c)',
         \A d \in Clients \ {c} :
           incoming'[d] = incoming[d] /\ outgoing'[d] = outgoing[d] /\ cpc'[d] = cpc[d]
  PROVE  Orderly'
PROOF
<1>1. ASSUME NEW d \in Clients \ {c}
      PROVE  ClientOrder(d)'
  <2>1. /\ incoming'[d] = incoming[d] /\ outgoing'[d] = outgoing[d]
        /\ cpc'[d] = cpc[d] /\ sessions'[d] = sessions[d]
        /\ mpc' = mpc /\ requester' = requester
    OBVIOUS
  <2>2. /\ \A steps : With(d, steps)' = With(d, steps)
        /\ Chosen(d)' = Chosen(d) /\ Forked(d)' = Forked(d)
    BY <2>1 DEF With, Chosen, Forked
  <2>3. InStep(d)' /\ SessionOrder(d)'
    BY <2>1, <2>2 DEF Orderly, ClientOrder, InStep, SessionOrder, AcceptedOnce
  <2>4. PairOrder(d)
    BY DEF Orderly, ClientOrder
  <2>5. PairOrder(d)'
    BY <2>1, <2>2, <2>4 DEF PairOrder
  <2> QED BY <2>3, <2>5 DEF ClientOrder
<1> QED BY <1>1 DEF Orderly, Listening

\* A client is started.
LEMMA MakeFifosOrder ==
  ASSUME Typed, Orderly, NEW c \in Clients, make_fifos(c)
  PROVE  Orderly'
PROOF
<1>1. Fifos
  BY FifosAre
<1>2. /\ cpc[c] = "off" /\ cpc' = [cpc EXCEPT ![c] = "open"]
      /\ UNCHANGED <<listener, linked, incoming, outgoing, mpc, requester, sessions, forkless>>
  BY DEF make_fifos, ClientAt, fifos
<1>3. ListenerUsers'
  BY <1>1, <1>2 DEF Orderly, ListenerOrder, ListenerUsers, Fifos
<1>4. ListenerIds'
  BY <1>1, <1>2 DEF Orderly, ListenerOrder, ListenerIds, Fifos, Asking, Chosen
<1>5. ClientOrder(c)'
  BY <1>1, <1>2
     DEF Orderly, ClientOrder, InStep, SessionOrder, AcceptedOnce, PairOrder, With, Forked,
         Fifos, Chosen
<1> QED BY <1>1, <1>2, <1>3, <1>4, <1>5, OneClientOrder DEF Fifos, ListenerOrder

\* The steps that leave the pair of FIFOs alone.
LEMMA ListenerStepOrder ==
  ASSUME Typed, Orderly, NEW c \in Clients,
         open_listener(c) \/ write_pid(c) \/ close_listener(c)
  PROVE  Orderly'
PROOF
<1>1. Fifos
  BY FifosAre
<1>2. /\ listener \in FifoType(Processes, Clients)
      /\ listener.data \in Seq(Clients)
      /\ listener.readers = IF mpc \in {"accepting", "close"} THEN {Server} ELSE {}
      /\ listener.writers \subseteq {d \in Clients : cpc[d] \in {"opening", "close"}}
      /\ \A d \in Range(listener.data) : d \in Clients
  BY <1>1, Queue DEF Orderly, ListenerOrder, ListenerUsers, Fifos, Range
<1>3. ASSUME NEW next \in {"failed", "opening", "close", "open_incoming", "sigpipe"},
             cpc' = [cpc EXCEPT ![c] = next],
             \/ cpc[c] \in {"open", "opening"}
             \/ cpc[c] = "close" /\ next = "open_incoming",
             UNCHANGED <<incoming, outgoing, mpc, requester, sessions, forkless>>,
             ListenerOrder'
      PROVE  Orderly'
  <2>1. ClientOrder(c)'
    BY <1>1, <1>3
       DEF Orderly, ClientOrder, InStep, SessionOrder, AcceptedOnce, PairOrder, With,
           Forked, Fifos, Chosen
  <2> QED BY <1>1, <1>3, <2>1, OneClientOrder DEF Fifos
<1>4. CASE open_listener(c) /\ linked
  <2>1. /\ cpc[c] = "open" /\ cpc' = [cpc EXCEPT ![c] = "opening"]
        /\ listener' = OpenWriter(listener, c)
        /\ UNCHANGED <<linked, incoming, outgoing, mpc, requester, sessions, forkless>>
    BY <1>4 DEF open_listener, ClientAt
  <2>2. /\ listener'.readers = listener.readers
        /\ listener'.writers = listener.writers \cup {c}
        /\ listener'.waiting =
             (listener.waiting \ listener.readers)
               \cup IF listener.readers = {} THEN {c} ELSE {}
        /\ listener'.data = listener.data
    BY <1>1, <2>1, OpenFields DEF Fifos
  <2>3. mpc \in {"start", "mknod"} => \A d \in Clients : ~Opened(listener', d)
    <3>1. mpc \in {"start", "mknod"} =>
            listener.readers = {} /\ \A d \in Clients : ~Opened(listener, d)
      BY <1>2 DEF Orderly, ListenerOrder, ListenerUsers
    <3> QED BY <2>2, <3>1 DEF Opened, Users
  <2>4. ListenerUsers'
    BY <1>1, <1>2, <2>1, <2>2, <2>3 DEF Orderly, ListenerOrder, ListenerUsers, Fifos
  <2>5. ListenerIds'
    BY <1>1, <1>2, <2>1, <2>2
       DEF Orderly, ListenerOrder, ListenerIds, Fifos, Asking, Chosen, Users
  <2> QED BY <2>1, <2>4, <2>5, <1>3 DEF ListenerOrder
<1>5. CASE open_listener(c) /\ ~linked
  <2>1. /\ cpc[c] = "open" /\ cpc' = [cpc EXCEPT ![c] = "failed"]
        /\ UNCHANGED <<listener, linked, incoming, outgoing>>
        /\ UNCHANGED <<mpc, requester, sessions, forkless>>
    BY <1>5 DEF open_listener, ClientAt
  <2>2. ListenerUsers'
    BY <1>1, <1>2, <2>1 DEF Orderly, ListenerOrder, ListenerUsers, Fifos
  <2>3. ListenerIds'
    BY <1>1, <1>2, <2>1 DEF Orderly, ListenerOrder, ListenerIds, Fifos, Asking, Chosen
  <2> QED BY <2>1, <2>2, <2>3, <1>3 DEF ListenerOrder
<1>6. write_pid(c) => c \in listener.writers /\ mpc \notin {"start", "mknod"}
  BY <1>1, <1>2 DEF write_pid, Opened, Users, Orderly, ListenerOrder, ListenerUsers, Fifos
<1>7. CASE write_pid(c) /\ ~EndClient(c, "sigpipe")
  <2>1. /\ cpc[c] = "opening" /\ cpc' = [cpc EXCEPT ![c] = "close"]
        /\ listener' = Write(listener, c) /\ listener.readers # {}
        /\ c \notin listener.waiting
        /\ UNCHANGED <<linked, incoming, outgoing, mpc, requester, sessions, forkless>>
    BY <1>6, <1>7 DEF write_pid, ClientAt, WriteBreaks, Opened
  <2>2. /\ listener'.readers = listener.readers /\ listener'.writers = listener.writers
        /\ listener'.waiting = listener.waiting
        /\ listener'.data = Append(listener.data, c)
    BY <1>1, <2>1, DataFields DEF Fifos
  <2>3. c \notin Range(listener.data)
    BY <2>1 DEF Orderly, ListenerOrder, ListenerIds
  <2>4. /\ Range(listener'.data) = Range(listener.data) \cup {c}
        /\ IsInjective(listener'.data) /\ listener'.data # << >>
    BY <1>2, <2>2, <2>3, Queue DEF Orderly, ListenerOrder, ListenerIds
  <2>5. ListenerUsers'
    BY <1>1, <1>2, <1>6, <1>7, <2>1, <2>2, <2>4
       DEF Orderly, ListenerOrder, ListenerUsers, Fifos
  <2>6. ~Chosen(c)
    BY <2>1 DEF Orderly, ClientOrder, InStep, With, Chosen
  <2>7. ListenerIds'
    BY <1>1, <1>2, <2>1, <2>2, <2>4, <2>6
       DEF Orderly, ListenerOrder, ListenerIds, Fifos, Asking, Chosen, Users
  <2> QED BY <2>1, <2>5, <2>7, <1>3 DEF ListenerOrder
<1>8. CASE write_pid(c) /\ EndClient(c, "sigpipe")
  <2>1. /\ cpc[c] = "opening" /\ cpc' = [cpc EXCEPT ![c] = "sigpipe"]
        /\ listener' = Close(listener, c) /\ listener.readers = {}
        /\ incoming' = [incoming EXCEPT ![c] = Close(@, c)]
        /\ outgoing' = [outgoing EXCEPT ![c] = Close(@, c)]
        /\ UNCHANGED <<linked, mpc, requester, sessions, forkless>>
    BY <1>1, <1>6, <1>8 DEF write_pid, ClientAt, WriteBreaks, EndClient, Fifos
  <2>2. /\ listener'.readers = {} /\ listener'.writers = listener.writers \ {c}
        /\ listener'.waiting = listener.waiting \ {c}
        /\ listener'.data = IF listener.writers \ {c} = {} THEN << >> ELSE listener.data
    <3>1. /\ listener'.readers = listener.readers \ {c}
          /\ listener'.writers = listener.writers \ {c}
          /\ listener'.waiting = listener.waiting \ {c}
          /\ listener'.data =
               IF (listener.readers \cup listener.writers) \ {c} = {} THEN << >>
               ELSE listener.data
      BY <1>2, <2>1, CloseFields
    <3> QED BY <2>1, <3>1
  <2>3. ListenerUsers'
    BY <1>1, <1>2, <1>6, <1>8, <2>1, <2>2
       DEF Orderly, ListenerOrder, ListenerUsers, Fifos
  <2>4. c \notin Range(listener.data)
    BY <2>1 DEF Orderly, ListenerOrder, ListenerIds
  <2>5. /\ Range(listener'.data) \subseteq Range(listener.data)
        /\ IsInjective(listener'.data)
        /\ listener'.writers # {} => listener'.data = listener.data
        /\ Users(listener') = {} => listener'.data = << >>
    BY <1>2, <2>2, Queue DEF Orderly, ListenerOrder, ListenerIds, Users
  <2>6. \A d \in Clients \ {c} : cpc[d] = "close" => d \in listener'.writers
    BY <2>2 DEF Orderly, ListenerOrder, ListenerUsers
  <2>7. ListenerIds'
    BY <1>1, <1>2, <2>1, <2>4, <2>5, <2>6
       DEF Orderly, ListenerOrder, ListenerIds, Fifos, Asking, Chosen
  <2>8. ClientOrder(c)'
    <3>1. /\ incoming'[c].readers = {} /\ incoming'[c].writers = {}
          /\ outgoing'[c].readers = {} /\ outgoing'[c].writers = {}
      <4>1. /\ incoming[c].readers = {} /\ incoming[c].writers = {}
            /\ outgoing[c].readers = {} /\ outgoing[c].writers = {}
        BY <2>1 DEF Orderly, ClientOrder, InStep, SessionOrder, PairOrder, With, Forked
      <4>2. incoming'[c] = Close(incoming[c], c) /\ outgoing'[c] = Close(outgoing[c], c)
        BY <1>1, <2>1 DEF Fifos
      <4>3. incoming[c] \in FifoType(Processes, {}) /\ outgoing[c] \in FifoType(Processes, {})
        BY <1>1 DEF Fifos
      <4>4. /\ incoming'[c].readers = incoming[c].readers \ {c}
            /\ incoming'[c].writers = incoming[c].writers \ {c}
            /\ outgoing'[c].readers = outgoing[c].readers \ {c}
            /\ outgoing'[c].writers = outgoing[c].writers \ {c}
        BY <4>2, <4>3, CloseFields
      <4> QED BY <4>1, <4>4
    <3> QED
      BY <1>1, <2>1, <3>1
         DEF Orderly, ClientOrder, InStep, SessionOrder, AcceptedOnce, PairOrder, With,
             Forked, Fifos,
             Chosen
  <2> QED BY <1>1, <2>1, <2>3, <2>7, <2>8, OneClientOrder DEF Fifos, ListenerOrder
<1>9. CASE close_listener(c)
  <2>1. /\ cpc[c] = "close" /\ cpc' = [cpc EXCEPT ![c] = "open_incoming"]
        /\ listener' = Close(listener, c)
        /\ UNCHANGED <<linked, incoming, outgoing, mpc, requester, sessions, forkless>>
    BY <1>9 DEF close_listener, ClientAt
  <2>2. /\ listener'.readers = listener.readers
        /\ listener'.writers = listener.writers \ {c}
        /\ listener'.waiting = listener.waiting \ {c}
        /\ listener'.data =
             IF listener.readers = {} /\ listener.writers \ {c} = {} THEN << >>
             ELSE listener.data
    <3>1. /\ listener'.readers = listener.readers \ {c}
          /\ listener'.writers = listener.writers \ {c}
          /\ listener'.waiting = listener.waiting \ {c}
          /\ listener'.data =
               IF (listener.readers \cup listener.writers) \ {c} = {} THEN << >>
               ELSE listener.data
      <4>1. listener \in FifoType(Processes, Clients) /\ listener' = Close(listener, c)
        BY <1>2, <2>1
      <4> QED BY <4>1, CloseFields
    <3>2. listener.readers \ {c} = listener.readers
      BY <1>1, <1>2 DEF Fifos
    <3> QED BY <3>1, <3>2
  <2>3. /\ Range(listener'.data) \subseteq Range(listener.data)
        /\ IsInjective(listener'.data)
        /\ listener'.readers # {} \/ listener'.writers # {} =>
             listener'.data = listener.data
        /\ Users(listener') = {} => listener'.data = << >>
    BY <1>2, <2>2, Queue DEF Orderly, ListenerOrder, ListenerIds, Users
  <2>4. mpc = "accepting" => listener.data # << >>
    <3>1. Asking(c) \/ Chosen(c)
      BY <2>1 DEF Orderly, ListenerOrder, ListenerIds
    <3> QED BY <1>2, <2>1, <3>1, Queue DEF Asking, Chosen
  <2>5. ListenerUsers'
    BY <1>1, <1>2, <2>1, <2>2, <2>4 DEF Orderly, ListenerOrder, ListenerUsers, Fifos
  <2>6. \A d \in Clients \ {c} : cpc[d] = "close" => d \in listener'.writers
    BY <2>2 DEF Orderly, ListenerOrder, ListenerUsers
  <2>7. ListenerIds'
    BY <1>1, <1>2, <2>1, <2>3, <2>6
       DEF Orderly, ListenerOrder, ListenerIds, Fifos, Asking, Chosen
  <2> QED BY <2>1, <2>5, <2>7, <1>3 DEF ListenerOrder
<1> QED BY <1>4, <1>5, <1>7, <1>8, <1>9 DEF open_listener

\* A client that is connected, or has not asked yet, has no end of the listening
\* FIFO: closing it changes nothing there.
LEMMA OutsiderCloses ==
  ASSUME Fifos, Orderly, NEW c \in Clients, comm_disconnect(c)
  PROVE  listener' = listener
PROOF
<1>1. listener' = Close(listener, c) /\ cpc[c] = "connected"
  BY DEF comm_disconnect, EndClient
<1>2. c \notin listener.writers /\ c \notin listener.readers /\ c \notin listener.waiting
  BY <1>1 DEF Orderly, ListenerOrder, ListenerUsers, Fifos
<1>3. Users(listener) = {} => listener.data = << >>
  BY DEF Orderly, ListenerOrder, ListenerIds
<1> QED BY <1>1, <1>2, <1>3, CloseStranger DEF Fifos

\* The steps that leave the listening FIFO alone; the end of a connection leaves it
\* alone as well, for the client has no end of it.
LEMMA PairStepOrder ==
  ASSUME Typed, Orderly, NEW c \in Clients,
         open_incoming(c) \/ open_outgoing(c) \/ connected(c) \/ comm_disconnect(c)
  PROVE  Orderly'
PROOF
<1>1. Fifos
  BY FifosAre
<1>2. InStep(c) /\ SessionOrder(c) /\ PairOrder(c)
  BY DEF Orderly, ClientOrder
<1>3. ASSUME NEW next \in ClientPC \ {"off", "open", "opening", "close"},
             cpc' = [cpc EXCEPT ![c] = next],
             cpc[c] \in {"open_incoming", "opening_incoming", "opening_outgoing", "connected"},
             next = "opening_incoming" \/ Chosen(c) \/ cpc[c] # "opening_incoming",
             cpc[c] = "open_incoming" => next = "opening_incoming",
             UNCHANGED <<listener, linked, mpc, requester>>
      PROVE  ListenerOrder'
  <2>1. ListenerUsers'
    BY <1>1, <1>3 DEF Orderly, ListenerOrder, ListenerUsers, Fifos
  <2>2. ListenerIds'
    BY <1>1, <1>3 DEF Orderly, ListenerOrder, ListenerIds, Fifos, Asking, Chosen
  <2> QED BY <2>1, <2>2 DEF ListenerOrder
<1>4. incoming[c] \in FifoType(Processes, {}) /\ outgoing[c] \in FifoType(Processes, {})
  BY <1>1 DEF Fifos
<1>5. CASE open_incoming(c)
  <2>1. /\ cpc[c] = "open_incoming" /\ cpc' = [cpc EXCEPT ![c] = "opening_incoming"]
        /\ incoming' = [incoming EXCEPT ![c] = OpenReader(@, c)]
        /\ UNCHANGED <<listener, linked, outgoing, mpc, requester, sessions, forkless>>
    BY <1>5 DEF open_incoming, ClientAt
  <2>2. incoming'[c] = OpenReader(incoming[c], c) /\ outgoing'[c] = outgoing[c]
    BY <1>1, <2>1 DEF Fifos
  <2>3. /\ incoming'[c].readers = incoming[c].readers \cup {c}
        /\ incoming'[c].writers = incoming[c].writers
        /\ incoming'[c].waiting =
             (incoming[c].waiting \ incoming[c].writers)
               \cup IF incoming[c].writers = {} THEN {c} ELSE {}
    BY <1>4, <2>2, OpenFields
  <2>4. ClientOrder(c)'
    BY <1>1, <1>2, <2>1, <2>2, <2>3
       DEF ClientOrder, InStep, SessionOrder, AcceptedOnce, PairOrder, With, Forked, Fifos,
           Chosen
  <2>5. ListenerOrder'
    BY <1>3, <2>1 DEF ClientPC
  <2> QED BY <1>1, <2>1, <2>4, <2>5, OneClientOrder DEF Fifos
<1>6. CASE open_outgoing(c)
  <2>1. /\ cpc[c] = "opening_incoming" /\ cpc' = [cpc EXCEPT ![c] = "opening_outgoing"]
        /\ outgoing' = [outgoing EXCEPT ![c] = OpenWriter(@, c)]
        /\ c \notin incoming[c].waiting
        /\ UNCHANGED <<listener, linked, incoming, mpc, requester, sessions, forkless>>
    BY <1>6 DEF open_outgoing, ClientAt, Opened
  <2>2. outgoing'[c] = OpenWriter(outgoing[c], c) /\ incoming'[c] = incoming[c]
    BY <1>1, <2>1 DEF Fifos
  <2>3. /\ outgoing'[c].readers = outgoing[c].readers
        /\ outgoing'[c].writers = outgoing[c].writers \cup {c}
        /\ outgoing'[c].waiting =
             (outgoing[c].waiting \ outgoing[c].readers)
               \cup IF outgoing[c].readers = {} THEN {c} ELSE {}
    BY <1>4, <2>2, OpenFields
  <2>4. With(c, {"opening_incoming", "opening_outgoing"})
    BY <1>2, <2>1 DEF PairOrder, SessionOrder, Forked
  <2>5. ClientOrder(c)'
    BY <1>1, <1>2, <2>1, <2>2, <2>3, <2>4
       DEF ClientOrder, InStep, SessionOrder, AcceptedOnce, PairOrder, With, Forked, Fifos,
           Chosen
  <2>6. ListenerOrder'
    BY <1>3, <2>1, <2>4 DEF ClientPC, With, Chosen
  <2> QED BY <1>1, <2>1, <2>5, <2>6, OneClientOrder DEF Fifos
<1>7. CASE connected(c)
  <2>1. /\ cpc[c] = "opening_outgoing" /\ cpc' = [cpc EXCEPT ![c] = "connected"]
        /\ c \notin outgoing[c].waiting
        /\ UNCHANGED <<listener, linked, incoming, outgoing>>
        /\ UNCHANGED <<mpc, requester, sessions, forkless>>
    BY <1>7 DEF connected, ClientAt, Opened, fifos
  <2>2. With(c, {"opening_outgoing"}) \/ Forked(c)
    BY <1>2, <2>1 DEF PairOrder
  <2>3. ClientOrder(c)'
    BY <1>1, <1>2, <2>1, <2>2
       DEF ClientOrder, InStep, SessionOrder, AcceptedOnce, PairOrder, With, Forked, Fifos,
           Chosen
  <2>4. ListenerOrder'
    BY <1>3, <2>1 DEF ClientPC
  <2> QED BY <1>1, <2>1, <2>3, <2>4, OneClientOrder DEF Fifos
<1>8. CASE comm_disconnect(c)
  <2>1. /\ cpc[c] = "connected" /\ cpc' = [cpc EXCEPT ![c] = "gone"]
        /\ incoming' = [incoming EXCEPT ![c] = Close(@, c)]
        /\ outgoing' = [outgoing EXCEPT ![c] = Close(@, c)]
        /\ listener' = Close(listener, c)
        /\ UNCHANGED <<linked, mpc, requester, sessions, forkless>>
    BY <1>8 DEF comm_disconnect, EndClient
  <2>2. listener' = listener
    BY <1>1, <1>8, OutsiderCloses
  <2>3. incoming'[c] = Close(incoming[c], c) /\ outgoing'[c] = Close(outgoing[c], c)
    BY <1>1, <2>1 DEF Fifos
  <2>4. /\ incoming'[c].readers = incoming[c].readers \ {c}
        /\ incoming'[c].writers = incoming[c].writers \ {c}
        /\ incoming'[c].waiting = incoming[c].waiting \ {c}
        /\ outgoing'[c].readers = outgoing[c].readers \ {c}
        /\ outgoing'[c].writers = outgoing[c].writers \ {c}
        /\ outgoing'[c].waiting = outgoing[c].waiting \ {c}
    BY <1>4, <2>3, CloseFields
  <2>5. With(c, {"opening_outgoing"}) \/ Forked(c)
    BY <1>2, <2>1 DEF InStep
  <2>6. /\ incoming'[c].readers = {} /\ incoming'[c].writers = incoming[c].writers
        /\ outgoing'[c].writers = {} /\ outgoing'[c].readers = outgoing[c].readers
    <3>1. c # Server
      BY <1>1 DEF Fifos
    <3>2. /\ incoming[c].readers = {c} /\ incoming[c].writers \subseteq {Server}
          /\ outgoing[c].writers = {c} /\ outgoing[c].readers \subseteq {Server}
      BY <1>2, <2>1 DEF PairOrder
    <3> QED BY <2>4, <3>1, <3>2
  <2>7. cpc'[c] = "gone" /\ mpc' = mpc /\ requester' = requester /\ sessions' = sessions
    BY <1>1, <2>1 DEF Fifos
  <2>8. PairOrder(c)'
    BY <1>2, <2>1, <2>5, <2>6, <2>7 DEF SessionOrder, PairOrder, With, Forked, Chosen
  <2>9. InStep(c)' /\ SessionOrder(c)'
    BY <1>2, <2>1, <2>5, <2>7 DEF InStep, SessionOrder, AcceptedOnce, With, Forked, Chosen
  <2>10. ListenerOrder'
    BY <1>3, <2>1, <2>2 DEF ClientPC, Gone
  <2> QED BY <1>1, <2>1, <2>8, <2>9, <2>10, OneClientOrder DEF Fifos, ClientOrder
<1> QED BY <1>5, <1>6, <1>7, <1>8

\* A step of the server at the pair of the client it accepts.
LEMMA ServedOrder ==
  ASSUME Typed, Orderly, NEW c \in Clients, requester = c, requester' = c,
         mpc \notin Listening, ClientOrder(c)',
         \A d \in Clients \ {c} :
           /\ incoming'[d] = incoming[d] /\ outgoing'[d] = outgoing[d]
           /\ sessions'[d] = sessions[d] /\ (d \in forkless' <=> d \in forkless),
         UNCHANGED <<listener, linked, cpc>>,
         mpc # "close", mpc' \notin {"start", "mknod", "accepting", "close", "exit"},
         Chosen(c)' = Chosen(c) \/ (~Chosen(c)' /\ cpc[c] # "close")
  PROVE  Orderly'
PROOF
<1>1. ASSUME NEW d \in Clients \ {c}
      PROVE  ClientOrder(d)'
  <2>1. ~Chosen(d) /\ ~Chosen(d)' /\ \A steps : ~With(d, steps) /\ ~With(d, steps)'
    BY DEF Chosen, With
  <2>2. Forked(d)' = Forked(d)
    BY DEF Forked
  <2>3. InStep(d)' /\ SessionOrder(d)'
    BY <2>1, <2>2 DEF Orderly, ClientOrder, InStep, SessionOrder, AcceptedOnce
  <2>4. PairOrder(d)
    BY DEF Orderly, ClientOrder
  <2>5. PairOrder(d)'
    BY <2>1, <2>2, <2>4 DEF PairOrder
  <2> QED BY <2>3, <2>5 DEF ClientOrder
<1>2. mpc \notin {"start", "mknod", "accepting", "close", "exit"}
  BY DEF Listening
<1>3. ListenerUsers'
  BY <1>2 DEF Orderly, ListenerOrder, ListenerUsers
<1>4. \A d \in Clients \ {c} : ~Chosen(d) /\ ~Chosen(d)'
  BY DEF Chosen
<1>5. listener.data \in Seq(Clients)
  BY FifosAre DEF Fifos
<1>6. ListenerIds'
  BY <1>4, <1>5 DEF Orderly, ListenerOrder, ListenerIds, Asking, Range
<1> QED BY <1>1, <1>3, <1>6 DEF Orderly, ListenerOrder

\* The steps of the server at the listening FIFO, from comm_listen on.
LEMMA ListenOrder ==
  ASSUME Typed, Orderly,
         unlink_listener \/ mknod_listener \/ accept_open \/ accept_read \/ accept_close
  PROVE  Orderly'
PROOF
<1>1. Fifos
  BY FifosAre
<1>2. /\ listener \in FifoType(Processes, Clients)
      /\ listener.data \in Seq(Clients)
      /\ listener.readers = IF mpc \in {"accepting", "close"} THEN {Server} ELSE {}
      /\ listener.writers \subseteq {d \in Clients : cpc[d] \in {"opening", "close"}}
      /\ \A d \in Range(listener.data) : d \in Clients
      /\ Server \notin Clients /\ cpc \in [Clients -> ClientPC]
  BY <1>1, Queue, FifoServerAssumption
     DEF Orderly, ListenerOrder, ListenerUsers, Fifos, Range
<1>3. CASE unlink_listener
  <2>1. /\ mpc = "start" /\ mpc' = "mknod" /\ linked' = FALSE /\ listener' = NewFifo
        /\ UNCHANGED <<incoming, outgoing, cpc, requester, sessions, forkless>>
    BY <1>3 DEF unlink_listener, ServerAt
  <2>2. /\ listener'.readers = {} /\ listener'.writers = {} /\ listener'.waiting = {}
        /\ listener'.data = << >>
    BY <2>1 DEF NewFifo
  <2>3. Range(<< >>) = {} /\ IsInjective(<< >>)
    BY DEF Range, IsInjective
  <2>4. \A d \in Clients : cpc[d] \in {"off", "open", "opening", "failed"}
    BY <2>1 DEF Orderly, ListenerOrder, ListenerUsers
  <2>5. ListenerUsers'
    BY <2>1, <2>2, <2>4 DEF ListenerUsers, Opened, Users
  <2>6. ListenerIds'
    BY <2>1, <2>2, <2>3, <2>4 DEF ListenerIds
  <2>7. ASSUME NEW d \in Clients
        PROVE  ClientOrder(d)'
    BY <2>1
       DEF Orderly, ClientOrder, InStep, SessionOrder, AcceptedOnce, PairOrder, With,
           Forked, Chosen
  <2> QED BY <2>1, <2>5, <2>6, <2>7 DEF Orderly, ListenerOrder, Listening
<1>4. CASE mknod_listener
  <2>1. /\ mpc = "mknod" /\ mpc' = "accept" /\ linked' = TRUE
        /\ UNCHANGED <<listener, incoming, outgoing, cpc, requester, sessions, forkless>>
    BY <1>4 DEF mknod_listener, ServerAt
  <2>2. ListenerUsers'
    BY <1>2, <2>1 DEF Orderly, ListenerOrder, ListenerUsers
  <2>3. ListenerIds'
    BY <1>2, <2>1 DEF Orderly, ListenerOrder, ListenerIds, Asking, Chosen
  <2>4. ASSUME NEW d \in Clients
        PROVE  ClientOrder(d)'
    BY <2>1
       DEF Orderly, ClientOrder, InStep, SessionOrder, AcceptedOnce, PairOrder, With,
           Forked, Chosen
  <2> QED BY <2>1, <2>2, <2>3, <2>4 DEF Orderly, ListenerOrder, Listening
<1>5. CASE accept_open
  <2>1. /\ mpc = "accept" /\ mpc' = "accepting" /\ listener' = OpenReader(listener, Server)
        /\ UNCHANGED <<linked, incoming, outgoing, cpc, requester, sessions, forkless>>
    BY <1>5 DEF accept_open, ServerAt
  <2>2. /\ listener'.readers = listener.readers \cup {Server}
        /\ listener'.writers = listener.writers
        /\ listener'.waiting =
             (listener.waiting \ listener.writers)
               \cup IF listener.writers = {} THEN {Server} ELSE {}
        /\ listener'.data = listener.data
    BY <1>2, <2>1, OpenFields
  <2>3. ListenerUsers'
    BY <1>2, <2>1, <2>2 DEF Orderly, ListenerOrder, ListenerUsers
  <2>4. ListenerIds'
    BY <1>2, <2>1, <2>2 DEF Orderly, ListenerOrder, ListenerIds, Asking, Chosen, Users
  <2>5. ASSUME NEW d \in Clients
        PROVE  ClientOrder(d)'
    BY <2>1
       DEF Orderly, ClientOrder, InStep, SessionOrder, AcceptedOnce, PairOrder, With,
           Forked, Chosen
  <2> QED BY <2>1, <2>3, <2>4, <2>5 DEF Orderly, ListenerOrder, Listening
<1>6. CASE accept_read
  <2>1. /\ mpc = "accepting" /\ mpc' = "close" /\ Server \notin listener.waiting
        /\ UNCHANGED <<linked, incoming, outgoing, cpc, sessions, forkless>>
    BY <1>6 DEF accept_read, ServerAt, Opened
  <2>2. HasData(listener)
    <3>1. SUFFICES ASSUME listener.data = << >>
                   PROVE  listener.writers # {}
      BY <1>6 DEF accept_read, HasData, AtEnd
    <3> QED BY <2>1, <3>1 DEF Orderly, ListenerOrder, ListenerUsers
  <2>3. requester' = Head(listener.data) /\ listener' = Consume(listener)
    BY <1>6, <2>2 DEF accept_read, HasData, AtEnd
  <2>4. /\ listener'.readers = listener.readers /\ listener'.writers = listener.writers
        /\ listener'.waiting = listener.waiting
        /\ listener'.data = Tail(listener.data)
    BY <1>2, <2>3, DataFields
  <2>5. PICK h \in Clients : /\ requester' = h
                             /\ Range(listener.data) = Range(listener'.data) \cup {h}
                             /\ IsInjective(listener'.data) /\ h \notin Range(listener'.data)
    BY <1>2, <2>2, <2>3, <2>4, Queue DEF Orderly, ListenerOrder, ListenerIds, HasData
  <2>6. ListenerUsers'
    BY <1>2, <2>1, <2>4 DEF Orderly, ListenerOrder, ListenerUsers
  <2>7. ListenerIds'
    BY <1>2, <2>1, <2>4, <2>5
       DEF Orderly, ListenerOrder, ListenerIds, Asking, Chosen, Users
  <2>8. cpc[h] \in {"close", "open_incoming", "opening_incoming"}
    BY <2>5 DEF Orderly, ListenerOrder, ListenerIds
  <2>9. ASSUME NEW d \in Clients
        PROVE  ClientOrder(d)'
    <3>1. /\ \A steps : mpc \notin steps => ~With(d, steps)
          /\ \A steps : "close" \notin steps => ~With(d, steps)'
          /\ ~Chosen(d) /\ (Chosen(d)' => d = h) /\ Forked(d)' = Forked(d)
      BY <2>1, <2>5 DEF With, Chosen, Forked
    <3>2. InStep(d)'
      BY <2>1, <2>5, <2>8, <3>1 DEF Orderly, ClientOrder, InStep, With
    <3>3. PairOrder(d)'
      BY <2>1, <3>1 DEF Orderly, ClientOrder, PairOrder
    <3>4. SessionOrder(d)'
      BY <2>1, <2>8, <3>1 DEF Orderly, ClientOrder, SessionOrder, AcceptedOnce
    <3> QED BY <3>2, <3>3, <3>4 DEF ClientOrder
  <2> QED BY <2>5, <2>6, <2>7, <2>9 DEF Orderly, ListenerOrder
<1>7. CASE accept_close
  <2>1. /\ mpc = "close" /\ mpc' = "open_incoming" /\ listener' = Close(listener, Server)
        /\ UNCHANGED <<linked, incoming, outgoing, cpc, requester, sessions, forkless>>
    BY <1>7 DEF accept_close, ServerAt
  <2>2. /\ listener'.readers = listener.readers \ {Server}
        /\ listener'.writers = listener.writers \ {Server}
        /\ listener'.waiting = listener.waiting \ {Server}
        /\ listener'.data =
             IF (listener.readers \cup listener.writers) \ {Server} = {} THEN << >>
             ELSE listener.data
    BY <1>2, <2>1, CloseFields
  <2>3. /\ listener'.readers = {} /\ listener'.writers = listener.writers
        /\ listener'.data = IF listener.writers = {} THEN << >> ELSE listener.data
    BY <1>2, <2>1, <2>2
  <2>4. /\ Range(listener'.data) \subseteq Range(listener.data)
        /\ IsInjective(listener'.data)
        /\ listener'.writers # {} => listener'.data = listener.data
        /\ Users(listener') = {} => listener'.data = << >>
    BY <1>2, <2>3, Queue DEF Orderly, ListenerOrder, ListenerIds, Users
  <2>5. ListenerUsers'
    BY <1>2, <2>1, <2>2, <2>3 DEF Orderly, ListenerOrder, ListenerUsers
  <2>6. \A d \in Clients : cpc[d] = "close" => d \in listener'.writers
    BY <2>3 DEF Orderly, ListenerOrder, ListenerUsers
  <2>7. ListenerIds'
    BY <1>2, <2>1, <2>4, <2>6 DEF Orderly, ListenerOrder, ListenerIds, Asking, Chosen
  <2>8. ASSUME NEW d \in Clients
        PROVE  ClientOrder(d)'
    BY <2>1
       DEF Orderly, ClientOrder, InStep, SessionOrder, AcceptedOnce, PairOrder, With,
           Forked, Chosen
  <2> QED BY <2>1, <2>5, <2>7, <2>8 DEF Orderly, ListenerOrder, Listening
<1> QED BY <1>3, <1>4, <1>5, <1>6, <1>7

\* The steps of the server at the pair of the client it accepts, and the fork.
LEMMA AcceptOrder ==
  ASSUME Typed, Orderly, accept_incoming \/ accept_outgoing \/ fork_session
  PROVE  Orderly'
PROOF
<1>1. mpc \notin Listening
  BY DEF accept_incoming, accept_outgoing, fork_session, ServerAt, Listening
<1>2. PICK c \in Clients : c = requester
  BY <1>1 DEF Orderly
<1>3. Fifos
  BY FifosAre
<1>4. InStep(c) /\ SessionOrder(c) /\ PairOrder(c)
  BY DEF Orderly, ClientOrder
<1>5. incoming[c] \in FifoType(Processes, {}) /\ outgoing[c] \in FifoType(Processes, {})
  BY <1>3 DEF Fifos
<1> USE DEF With, Chosen, Forked
<1>6. CASE accept_incoming
  <2>1. /\ mpc = "open_incoming" /\ mpc' = "opening_incoming"
        /\ incoming' = [incoming EXCEPT ![c] = OpenWriter(@, Server)]
        /\ UNCHANGED <<listener, linked, outgoing, cpc, requester, sessions, forkless>>
    BY <1>2, <1>3, <1>6 DEF accept_incoming, ServerAt, Fifos
  <2>2. incoming'[c] = OpenWriter(incoming[c], Server) /\ outgoing'[c] = outgoing[c]
    BY <1>3, <2>1 DEF Fifos
  <2>3. /\ incoming'[c].readers = incoming[c].readers
        /\ incoming'[c].writers = incoming[c].writers \cup {Server}
        /\ incoming'[c].waiting =
             (incoming[c].waiting \ incoming[c].readers)
               \cup IF incoming[c].readers = {} THEN {Server} ELSE {}
    BY <1>5, <2>2, OpenFields
  <2>4. ClientOrder(c)'
    BY <1>2, <1>4, <2>1, <2>2, <2>3
       DEF ClientOrder, InStep, SessionOrder, AcceptedOnce, PairOrder
  <2> QED BY <1>1, <1>2, <1>3, <2>1, <2>4, ServedOrder DEF Fifos
<1>7. CASE accept_outgoing
  <2>1. /\ mpc = "opening_incoming" /\ mpc' = "opening_outgoing"
        /\ Server \notin incoming[c].waiting
        /\ outgoing' = [outgoing EXCEPT ![c] = OpenReader(@, Server)]
        /\ UNCHANGED <<listener, linked, incoming, cpc, requester, sessions, forkless>>
    BY <1>2, <1>7 DEF accept_outgoing, Opened
  <2>2. outgoing'[c] = OpenReader(outgoing[c], Server) /\ incoming'[c] = incoming[c]
    BY <1>3, <2>1 DEF Fifos
  <2>3. /\ outgoing'[c].readers = outgoing[c].readers \cup {Server}
        /\ outgoing'[c].writers = outgoing[c].writers
        /\ outgoing'[c].waiting =
             (outgoing[c].waiting \ outgoing[c].writers)
               \cup IF outgoing[c].writers = {} THEN {Server} ELSE {}
    BY <1>5, <2>2, OpenFields
  <2>4. cpc[c] \in {"opening_incoming", "opening_outgoing"}
    BY <1>2, <1>4, <2>1 DEF InStep, PairOrder
  <2>5. ClientOrder(c)'
    BY <1>2, <1>4, <2>1, <2>2, <2>3, <2>4
       DEF ClientOrder, InStep, SessionOrder, AcceptedOnce, PairOrder
  <2> QED BY <1>1, <1>2, <1>3, <2>1, <2>5, ServedOrder DEF Fifos
<1>8. CASE fork_session
  <2>1. /\ mpc = "opening_outgoing" /\ mpc' = "accept" /\ Server \notin outgoing[c].waiting
        /\ \/ sessions' = [sessions EXCEPT ![c] = @ + 1] /\ forkless' = forkless
           \/ sessions' = sessions /\ forkless' = forkless \cup {c}
        /\ UNCHANGED <<listener, linked, incoming, outgoing, cpc, requester>>
    BY <1>2, <1>8 DEF fork_session, Opened, fifos
  <2>2. cpc[c] \in {"opening_outgoing", "connected", "gone"}
    BY <1>2, <1>4, <2>1 DEF PairOrder
  <2>3. sessions[c] = 0 /\ c \notin forkless
    BY <1>2, <1>4, <2>1 DEF SessionOrder, AcceptedOnce
  <2>4. \/ sessions'[c] = 1 /\ c \notin forkless'
        \/ sessions'[c] = 0 /\ c \in forkless'
    BY <1>3, <2>1, <2>3 DEF Fifos
  <2>5. ClientOrder(c)'
    BY <1>2, <1>4, <2>1, <2>2, <2>4
       DEF ClientOrder, InStep, SessionOrder, AcceptedOnce, PairOrder
  <2> QED BY <1>1, <1>2, <1>3, <2>1, <2>2, <2>5, ServedOrder DEF Fifos
<1> QED BY <1>6, <1>7, <1>8

\* Every step before the first Ctrl-C keeps Orderly.
LEMMA OrderStep ==
  ASSUME Typed, Orderly, Next, ~Interrupted'
  PROVE  Orderly'
BY InterruptsStay, MakeFifosOrder, ListenerStepOrder, PairStepOrder, ListenOrder, AcceptOrder
   DEF Next, ClientStep, ServerStep

-----------------------------------------------------------------------------
(* The invariant, and one session for each client.                          *)

\* Nobody has asked yet, and nobody has been accepted.
LEMMA ConnectInit == MCInit => ConnectInvariant
PROOF
<1> SUFFICES ASSUME MCInit
             PROVE  ConnectInvariant
  OBVIOUS
<1>1. Init
  BY DEF MCInit
<1>2. /\ \A M : NewFifo \in FifoType(Processes, M)
      /\ NewFifo.readers = {} /\ NewFifo.writers = {} /\ NewFifo.waiting = {}
      /\ NewFifo.data = << >>
  <2>1. \A M : << >> \in Seq(M)
    OBVIOUS
  <2> QED BY <2>1 DEF NewFifo, FifoType
<1>3. Typed
  BY <1>1, <1>2, FifoServerAssumption DEF Init, Typed, TypeOK, ClientPC, ServerPC
<1>4. \A c \in Clients : ClientOrder(c)
  BY <1>1, <1>2
     DEF Init, ClientOrder, InStep, SessionOrder, AcceptedOnce, PairOrder, With, Forked,
         Chosen
<1>5. ListenerOrder
  <2>1. Range(<< >>) = {} /\ IsInjective(<< >>)
    BY DEF Range, IsInjective
  <2> QED
    BY <1>1, <1>2, <2>1
       DEF Init, ListenerOrder, ListenerUsers, ListenerIds, Opened, Users
<1>6. \A c \in Clients : AcceptedOnce(c)
  BY <1>4 DEF ClientOrder, SessionOrder
<1> QED BY <1>1, <1>3, <1>4, <1>5, <1>6 DEF Init, ConnectInvariant, Orderly, Listening

\* Every step keeps the invariant, Ctrl-C included.
LEMMA ConnectStep ==
  ASSUME ConnectInvariant, [MCNext]_allVars
  PROVE  ConnectInvariant'
PROOF
<1>1. CASE Next
  <2>1. Typed'
    BY <1>1, ClientTypes, ServerTypes, ServerEndTypes DEF Next, ConnectInvariant
  <2>2. ~Interrupted' => Orderly'
    BY <1>1, InterruptsStay, OrderStep DEF ConnectInvariant
  <2>3. ASSUME ~ClientInterrupted', NEW c \in Clients
        PROVE  AcceptedOnce(c)'
    <3>1. CASE mpc' = "interrupted"
      <4>1. UNCHANGED <<sessions, forkless>>
        BY <1>1, <3>1, ServerStaysEnded
      <4>2. AcceptedOnce(c)
        BY <1>1, <2>3, ClientsStayEnded DEF ConnectInvariant
      <4> QED BY <4>1, <4>2 DEF AcceptedOnce
    <3>2. CASE mpc' # "interrupted"
      BY <2>2, <2>3, <3>2 DEF Interrupted, Orderly, ClientOrder, SessionOrder
    <3> QED BY <3>1, <3>2
  <2> QED BY <2>1, <2>2, <2>3 DEF ConnectInvariant
<1>2. CASE UNCHANGED vars
  <2>1. /\ UNCHANGED <<listener, linked, incoming, outgoing>>
        /\ UNCHANGED <<cpc, mpc, requester, sessions, forkless, raced>>
    BY <1>2 DEF vars, fifos
  <2>2. Typed' = Typed
    BY <2>1 DEF Typed, TypeOK
  <2>3. ListenerOrder' = ListenerOrder
    BY <2>1 DEF ListenerOrder, ListenerUsers, ListenerIds, Asking, Chosen
  <2>4. \A c \in Clients : ClientOrder(c)' = ClientOrder(c)
    BY <2>1
       DEF ClientOrder, InStep, SessionOrder, AcceptedOnce, PairOrder, With, Forked, Chosen
  <2>5. (~Interrupted => Orderly)' = (~Interrupted => Orderly)
    BY <2>1, <2>3, <2>4 DEF Orderly, Interrupted, ClientInterrupted
  <2>6. /\ ClientInterrupted' = ClientInterrupted
        /\ \A c \in Clients : AcceptedOnce(c)' = AcceptedOnce(c)
    BY <2>1 DEF ClientInterrupted, AcceptedOnce
  <2> QED BY <2>2, <2>5, <2>6 DEF ConnectInvariant
<1> QED BY <1>1, <1>2, MCStep

\* Up to the first Ctrl-C the server and the client it accepts go through the handshake
\* in step.
THEOREM ConnectInvariantHolds == MCSpec => []ConnectInvariant
BY ConnectInit, ConnectStep, PTL DEF MCSpec

\* A client is accepted a second time, with a session or without, only after another was
\* interrupted; Ctrl-C at the server does not do that.
THEOREM OneSession == MCSpec => []OneSessionPerClient
PROOF
<1>1. ConnectInvariant => OneSessionPerClient
  BY DEF ConnectInvariant, OneSessionPerClient, AcceptedOnce
<1> QED BY <1>1, ConnectInvariantHolds, PTL

-----------------------------------------------------------------------------
(* The connection implements Rendezvous: what a step means there.           *)

\* A client asks, has been met, or neither.
LEMMA StateIs ==
  ASSUME Orderly, NEW c \in Clients
  PROVE  /\ Asking(c) => StateOf(c) = "asking" /\ ~Met(c)
         /\ Met(c) => StateOf(c) = "met"
         /\ cpc[c] \in {"off", "open", "failed", "gone"} =>
              StateOf(c) = "idle" /\ ~Asking(c) /\ ~Met(c)
         /\ StateOf(c) = "asking" <=> Asking(c)
         /\ StateOf(c) = "met" <=> Met(c)
PROOF
<1>1. Asking(c) => ~Met(c)
  BY DEF Orderly, ListenerOrder, ListenerIds, Asking, Met
<1>2. Asking(c) \/ Met(c) => cpc[c] \notin {"off", "open", "failed", "gone"}
  BY DEF Asking, Met
<1> QED BY <1>1, <1>2 DEF StateOf

\* The same after a step.
LEMMA StateWillBe ==
  ASSUME Orderly', NEW c \in Clients
  PROVE  /\ Asking(c)' => StateOf(c)' = "asking" /\ ~Met(c)'
         /\ Met(c)' => StateOf(c)' = "met"
         /\ cpc'[c] \in {"off", "open", "failed", "gone"} =>
              StateOf(c)' = "idle" /\ ~Asking(c)' /\ ~Met(c)'
PROOF
<1>1. Asking(c)' => ~Met(c)'
  BY DEF Orderly, ListenerOrder, ListenerIds, Asking, Met
<1>2. Asking(c)' \/ Met(c)' => cpc'[c] \notin {"off", "open", "failed", "gone"}
  BY DEF Asking, Met
<1> QED BY <1>1, <1>2 DEF StateOf

\* What a client's state depends on.
LEMMA SameState ==
  ASSUME NEW c \in Clients, cpc'[c] = cpc[c], Chosen(c)' = Chosen(c),
         c \in Range(listener'.data) <=> c \in Range(listener.data)
  PROVE  /\ (Asking(c)' <=> Asking(c)) /\ (Met(c)' <=> Met(c))
         /\ StateOf(c)' = StateOf(c)
PROOF
<1>1. (Asking(c)' <=> Asking(c)) /\ (Met(c)' <=> Met(c))
  BY DEF Asking, Met
<1> QED BY <1>1 DEF StateOf

\* A step in which nobody begins to compete.
LEMMA RaceKept ==
  ASSUME RaceOrder, UNCHANGED raced,
         \A c \in Clients : /\ Competing(c)' => Competing(c)
                            /\ Overtaken(c)' => raced[c]
  PROVE  RaceOrder'
BY DEF RaceOrder

Serving == IF mpc \in Listening THEN NoClient ELSE requester

\* A step in which clients only lose their requests, or nothing happens.
LEMMA LoseStep ==
  ASSUME UNCHANGED raced, Serving' = Serving,
         \A c \in Clients :
           \/ StateOf(c)' = StateOf(c)
           \/ StateOf(c) = "asking" /\ raced[c] /\ StateOf(c)' = "lost"
  PROVE  Abstract!Next
PROOF
<1> DEFINE R == {c \in Clients : StateOf(c)' # StateOf(c)}
<1>1. /\ \A c \in R : StateOf(c) = "asking" /\ raced[c]
      /\ \A c \in Clients : StateOf(c)' = IF c \in R THEN "lost" ELSE StateOf(c)
  OBVIOUS
<1>2. R \in SUBSET Clients
  OBVIOUS
<1> HIDE DEF R
<1>3. Abstract!Lose(R)
  BY <1>1, <1>2 DEF Abstract!Lose, Serving, Listening
<1> QED BY <1>2, <1>3 DEF Abstract!Next

\* The goal for one step.
Implemented == RaceOrder' /\ Abstract!Next

\* A step that changes neither the requests nor whom the server has taken.
LEMMA QuietStep ==
  ASSUME RaceOrder, UNCHANGED raced, Serving' = Serving,
         \A c \in Clients :
           /\ StateOf(c)' = StateOf(c)
           /\ (Asking(c)' <=> Asking(c)) /\ (Met(c)' <=> Met(c))
           /\ Overtaken(c)' => raced[c]
  PROVE  Implemented
BY RaceKept, LoseStep DEF Competing, Implemented

\* The steps of a client before it has asked, while it asks, and after it has been met.
LEMMA ClientImplements ==
  ASSUME Typed, Orderly, Orderly', RaceOrder, NEW c \in Clients,
         \/ make_fifos(c) \/ open_incoming(c) \/ open_outgoing(c) \/ connected(c)
         \/ (open_listener(c) /\ ~linked) \/ (write_pid(c) /\ ~EndClient(c, "sigpipe"))
  PROVE  Implemented
PROOF
<1>1. Fifos
  BY FifosAre
<1>2. /\ UNCHANGED <<mpc, requester, sessions, forkless, raced>>
      /\ \A d \in Clients \ {c} : cpc'[d] = cpc[d]
  BY <1>1
     DEF make_fifos, open_incoming, open_outgoing, connected, open_listener, write_pid,
         EndClient, ClientAt, Fifos
<1>3. Serving' = Serving /\ \A d \in Clients : Chosen(d)' = Chosen(d)
  BY <1>2 DEF Serving, Chosen
<1>4. CASE write_pid(c) /\ ~EndClient(c, "sigpipe")
  <2>1. /\ cpc[c] = "opening" /\ cpc'[c] = "close" /\ listener' = Write(listener, c)
        /\ listener.readers # {}
    BY <1>1, <1>4 DEF write_pid, ClientAt, Fifos, WriteBreaks
  <2>2. /\ listener'.readers = listener.readers
        /\ listener'.data = Append(listener.data, c)
    <3>1. listener \in FifoType(Processes, Clients)
      BY <1>1 DEF Fifos
    <3> QED BY <2>1, <3>1, DataFields
  <2>3. Range(listener'.data) = Range(listener.data) \cup {c}
    BY <1>1, <2>2, Queue DEF Fifos
  <2>4. Asking(c) /\ Asking(c)'
    BY <2>1, <2>3 DEF Asking
  <2>5. \A d \in Clients : /\ StateOf(d)' = StateOf(d) /\ (Asking(d)' <=> Asking(d))
                           /\ (Met(d)' <=> Met(d))
    <3>1. StateOf(c)' = StateOf(c) /\ (Met(c)' <=> Met(c))
      BY <2>4, StateIs, StateWillBe
    <3>2. ASSUME NEW d \in Clients \ {c}
          PROVE  /\ StateOf(d)' = StateOf(d) /\ (Asking(d)' <=> Asking(d))
                 /\ (Met(d)' <=> Met(d))
      BY <1>2, <1>3, <2>3, SameState
    <3> QED BY <2>4, <3>1, <3>2
  <2> QED BY <1>2, <1>3, <2>1, <2>2, <2>5, QuietStep DEF Overtaken
<1>5. CASE \/ make_fifos(c) \/ open_incoming(c) \/ open_outgoing(c) \/ connected(c)
           \/ (open_listener(c) /\ ~linked)
  <2>1. /\ listener' = listener
        /\ \/ cpc[c] = "off" /\ cpc'[c] = "open"
           \/ cpc[c] = "open" /\ cpc'[c] = "failed"
           \/ cpc[c] = "open_incoming" /\ cpc'[c] = "opening_incoming"
           \/ cpc[c] = "opening_incoming" /\ cpc'[c] = "opening_outgoing"
           \/ cpc[c] = "opening_outgoing" /\ cpc'[c] = "connected"
    BY <1>1, <1>5
       DEF make_fifos, open_incoming, open_outgoing, connected, open_listener, ClientAt,
           fifos, Fifos
  <2>2. /\ (Asking(c)' <=> Asking(c)) /\ (Met(c)' <=> Met(c)) /\ StateOf(c)' = StateOf(c)
        /\ ~Overtaken(c)'
    <3>1. CASE cpc'[c] = "opening_outgoing"
      <4>1. Chosen(c)
        <5>1. c \notin incoming[c].waiting /\ cpc[c] = "opening_incoming"
          BY <1>5, <2>1, <3>1
             DEF open_outgoing, make_fifos, open_incoming, connected, open_listener,
                 ClientAt, Opened
        <5>2. With(c, {"opening_incoming", "opening_outgoing"})
          BY <5>1 DEF Orderly, ClientOrder, PairOrder, SessionOrder, Forked
        <5> QED BY <5>2 DEF With, Chosen
      <4>2. c \notin Range(listener.data)
        BY <4>1 DEF Orderly, ListenerOrder, ListenerIds
      <4>3. ~Asking(c) /\ ~Asking(c)' /\ Met(c) /\ Met(c)'
        BY <2>1, <3>1, <4>1, <4>2 DEF Asking, Met
      <4> QED BY <4>3, StateIs, StateWillBe DEF Overtaken
    <3>2. CASE cpc'[c] # "opening_outgoing"
      <4>1. (Asking(c)' <=> Asking(c)) /\ (Met(c)' <=> Met(c))
        BY <1>3, <2>1, <3>2 DEF Asking, Met
      <4>2. StateOf(c)' = StateOf(c)
        BY <2>1, <3>2, <4>1 DEF StateOf
      <4> QED BY <2>1, <3>2, <4>1, <4>2 DEF Overtaken
    <3> QED BY <3>1, <3>2
  <2>3. ASSUME NEW d \in Clients \ {c}
        PROVE  /\ StateOf(d)' = StateOf(d) /\ (Asking(d)' <=> Asking(d))
               /\ (Met(d)' <=> Met(d)) /\ (Overtaken(d)' => Overtaken(d))
    <3>1. StateOf(d)' = StateOf(d) /\ (Asking(d)' <=> Asking(d)) /\ (Met(d)' <=> Met(d))
      BY <1>2, <1>3, <2>1, SameState
    <3> QED BY <1>2, <2>1, <3>1 DEF Overtaken
  <2> QED BY <1>2, <1>3, <2>2, <2>3, QuietStep DEF RaceOrder
<1> QED BY <1>4, <1>5

\* open_listener: the client asks, and it and its rivals overlap.
LEMMA AskImplements ==
  ASSUME Typed, Orderly, Orderly', RaceOrder, NEW c \in Clients,
         open_listener(c), linked
  PROVE  Implemented
PROOF
<1> DEFINE rivals == {d \in Clients \ {c} : Asking(d) \/ Met(d)}
<1>1. Fifos /\ listener \in FifoType(Processes, Clients)
  BY FifosAre DEF Fifos
<1>2. /\ cpc[c] = "open" /\ cpc' = [cpc EXCEPT ![c] = "opening"]
      /\ listener' = OpenWriter(listener, c)
      /\ raced' = [d \in Clients |-> IF d = c THEN rivals # {} ELSE raced[d] \/ d \in rivals]
      /\ UNCHANGED <<mpc, requester>>
  BY DEF open_listener, ClientAt
<1>3. /\ listener'.readers = listener.readers
      /\ listener'.writers = listener.writers \cup {c}
      /\ listener'.waiting =
           (listener.waiting \ listener.readers)
             \cup IF listener.readers = {} THEN {c} ELSE {}
      /\ listener'.data = listener.data
  BY <1>1, <1>2, OpenFields
<1>4. /\ Serving' = Serving
      /\ \A d \in Clients : Chosen(d)' = Chosen(d)
      /\ cpc'[c] = "opening"
      /\ \A d \in Clients \ {c} : cpc'[d] = cpc[d]
  BY <1>1, <1>2 DEF Serving, Chosen, Fifos
<1>5. \A d \in Clients \ {c} : /\ Asking(d)' <=> Asking(d)
                               /\ Met(d)' <=> Met(d)
                               /\ StateOf(d)' = StateOf(d)
  BY <1>3, <1>4, SameState
<1>6. Asking(c)' /\ StateOf(c)' = "asking" /\ ~Asking(c) /\ ~Met(c) /\ StateOf(c) = "idle"
  <2>1. Asking(c)'
    BY <1>4 DEF Asking
  <2> QED BY <1>2, <2>1, StateIs, StateWillBe
<1>7. \A d \in Clients : d \in rivals <=> d # c /\ StateOf(d) \in {"asking", "met"}
  BY StateIs
<1> HIDE DEF rivals
<1>8. Abstract!Next
  <2>1. rivals = {d \in Clients \ {c} : StateOf(d) \in {"asking", "met"}}
    BY <1>7 DEF rivals
  <2>2. [d \in Clients |-> StateOf(d)]' =
          [[d \in Clients |-> StateOf(d)] EXCEPT ![c] = "asking"]
    BY <1>5, <1>6
  <2>3. Abstract!Ask(c)
    BY <1>2, <1>4, <1>6, <2>1, <2>2 DEF Abstract!Ask, Serving, Listening
  <2> QED BY <2>3 DEF Abstract!Next
<1>9. RaceOrder'
  <2>1. \A d \in Clients \ {c} : raced[d] => raced'[d]
    BY <1>2
  <2>2. ASSUME NEW d \in Clients
        PROVE  Overtaken(d)' => raced'[d]
    <3>1. CASE d = c
      BY <1>3, <1>4, <3>1 DEF Overtaken, Opened
    <3>2. CASE d # c
      <4>1. listener'.readers = {} => (Opened(listener', d) <=> Opened(listener, d))
        BY <1>3, <3>2 DEF Opened, Users
      <4> QED BY <1>3, <1>4, <1>5, <2>1, <3>2, <4>1 DEF Overtaken, RaceOrder
    <3> QED BY <3>1, <3>2
  <2>3. ASSUME NEW d \in Clients, NEW e \in Clients \ {d}, Competing(d)', Competing(e)'
        PROVE  raced'[d]
    <3>1. CASE d = c
      <4>1. e \in rivals
        BY <1>5, <2>3, <3>1 DEF Competing, rivals
      <4> QED BY <1>2, <3>1, <4>1
    <3>2. CASE e = c
      <4>1. d \in rivals
        BY <1>5, <2>3, <3>2 DEF Competing, rivals
      <4> QED BY <1>2, <3>2, <4>1
    <3>3. CASE d # c /\ e # c
      BY <1>5, <2>1, <2>3, <3>3 DEF Competing, RaceOrder
    <3> QED BY <3>1, <3>2, <3>3
  <2> QED BY <2>2, <2>3 DEF RaceOrder
<1> QED BY <1>8, <1>9 DEF Implemented

\* A client leaves the listening FIFO: after its process id, or of SIGPIPE.  As the
\* last one it takes the ids in it along.
LEMMA LeavingImplements ==
  ASSUME Typed, Orderly, Orderly', RaceOrder, NEW c \in Clients,
         close_listener(c) \/ (write_pid(c) /\ EndClient(c, "sigpipe"))
  PROVE  Implemented
PROOF
<1>1. Fifos /\ listener \in FifoType(Processes, Clients)
  BY FifosAre DEF Fifos
<1>2. /\ \/ cpc[c] = "close" /\ cpc'[c] = "open_incoming"
         \/ /\ cpc[c] = "opening" /\ cpc'[c] = "sigpipe"
            /\ listener.readers = {} /\ Opened(listener, c)
      /\ listener' = Close(listener, c)
      /\ UNCHANGED <<mpc, requester, sessions, forkless, raced>>
      /\ \A d \in Clients \ {c} : cpc'[d] = cpc[d]
  <2>1. listener.readers \subseteq {Server} /\ c # Server
    BY <1>1 DEF Orderly, ListenerOrder, ListenerUsers, Fifos
  <2>2. write_pid(c) => c \in listener.writers
    BY <2>1 DEF write_pid, Opened, Users
  <2> QED
    BY <1>1, <2>2 DEF close_listener, write_pid, EndClient, ClientAt, WriteBreaks, Fifos
<1>3. /\ listener'.readers = listener.readers \ {c}
      /\ listener'.writers = listener.writers \ {c}
      /\ listener'.waiting = listener.waiting \ {c}
      /\ listener'.data =
           IF (listener.readers \cup listener.writers) \ {c} = {} THEN << >>
           ELSE listener.data
  BY <1>1, <1>2, CloseFields
<1>4. /\ listener'.readers = listener.readers
      /\ listener'.data \in {<< >>, listener.data}
      /\ listener'.data # listener.data => listener.readers = {}
  <2>1. listener.readers \subseteq {Server} /\ c # Server
    BY <1>1 DEF Orderly, ListenerOrder, ListenerUsers, Fifos
  <2> QED BY <1>3, <2>1
<1>5. Serving' = Serving /\ \A d \in Clients : Chosen(d)' = Chosen(d)
  BY <1>2 DEF Serving, Chosen
<1>6. Range(<< >>) = {}
  BY DEF Range
<1>7. Competing(c) /\ (cpc[c] = "opening" => Asking(c))
  <2>1. cpc[c] = "close" => Asking(c) \/ Chosen(c)
    BY DEF Orderly, ListenerOrder, ListenerIds
  <2> QED BY <1>2, <2>1 DEF Competing, Asking, Met
<1>8. ASSUME NEW d \in Clients \ {c}
      PROVE  /\ \/ (Asking(d)' <=> Asking(d)) /\ StateOf(d)' = StateOf(d)
                \/ Asking(d) /\ ~Asking(d)' /\ StateOf(d)' = "lost"
             /\ Met(d)' <=> Met(d)
  <2>1. CASE d \in Range(listener'.data) <=> d \in Range(listener.data)
    BY <1>2, <1>5, <2>1, SameState
  <2>2. CASE ~(d \in Range(listener'.data) <=> d \in Range(listener.data))
    <3>1. /\ d \in Range(listener.data) /\ d \notin Range(listener'.data)
          /\ cpc[d] \in {"close", "open_incoming", "opening_incoming"} /\ ~Chosen(d)
      BY <1>4, <1>6, <2>2 DEF Orderly, ListenerOrder, ListenerIds
    <3>2. Asking(d) /\ ~Asking(d)' /\ ~Met(d) /\ ~Met(d)'
      BY <1>2, <1>5, <3>1 DEF Asking, Met
    <3>3. StateOf(d)' = "lost"
      BY <1>2, <3>1, <3>2 DEF StateOf
    <3> QED BY <3>2, <3>3
  <2> QED BY <2>1, <2>2
<1>9. /\ \/ (Asking(c)' <=> Asking(c)) /\ StateOf(c)' = StateOf(c)
         \/ Asking(c) /\ ~Asking(c)' /\ StateOf(c)' = "lost" /\ raced[c]
      /\ Met(c)' <=> Met(c)
  <2>1. CASE Asking(c)' <=> Asking(c)
    <3>1. cpc[c] = "close"
      BY <1>2, <1>7, <2>1 DEF Asking
    <3>2. Met(c)' <=> Met(c)
      BY <1>2, <1>5, <3>1 DEF Met
    <3> QED BY <1>2, <2>1, <3>1, <3>2 DEF StateOf
  <2>2. CASE ~(Asking(c)' <=> Asking(c))
    <3>1. Asking(c) /\ ~Asking(c)'
      BY <1>2, <1>4, <1>6, <1>7, <2>2 DEF Asking
    <3>2. listener.readers = {}
      BY <1>2, <1>4, <3>1 DEF Asking
    <3>3. raced[c]
      BY <1>2, <3>1, <3>2 DEF Overtaken, RaceOrder
    <3>4. ~Met(c) /\ ~Met(c)'
      <4>1. ~Met(c)
        BY <3>1, StateIs
      <4> QED BY <1>2, <1>5, <4>1 DEF Met
    <3>5. StateOf(c)' = "lost"
      BY <1>2, <3>1, <3>4 DEF StateOf
    <3> QED BY <3>1, <3>3, <3>4, <3>5
  <2> QED BY <2>1, <2>2
<1>10. ASSUME NEW d \in Clients
       PROVE  Overtaken(d)' => raced[d]
  <2>1. CASE d = c
    BY <1>2, <2>1 DEF Overtaken
  <2>2. CASE d # c
    <3>1. Opened(listener', d) <=> Opened(listener, d)
      BY <1>3, <2>2 DEF Opened, Users
    <3> QED BY <1>2, <1>4, <1>8, <2>2, <3>1 DEF Overtaken, RaceOrder
  <2> QED BY <2>1, <2>2
<1>11. RaceOrder'
  BY <1>2, <1>8, <1>9, <1>10, RaceKept DEF Competing
<1>12. Abstract!Next
  <2>1. \A d \in Clients \ {c} : Asking(d) => raced[d] /\ StateOf(d) = "asking"
    BY <1>7, StateIs DEF RaceOrder, Competing
  <2>2. Asking(c) => StateOf(c) = "asking"
    BY StateIs
  <2> QED BY <1>2, <1>5, <1>8, <1>9, <2>1, <2>2, LoseStep
<1> QED BY <1>11, <1>12 DEF Implemented

\* comm_disconnect: a client that has been met leaves.
LEMMA LeaveImplements ==
  ASSUME Typed, Orderly, Orderly', RaceOrder, NEW c \in Clients, comm_disconnect(c)
  PROVE  Implemented
PROOF
<1>1. Fifos
  BY FifosAre
<1>2. /\ cpc[c] = "connected" /\ cpc'[c] = "gone" /\ listener' = listener
      /\ UNCHANGED <<mpc, requester, sessions, forkless, raced>>
      /\ \A d \in Clients \ {c} : cpc'[d] = cpc[d]
  BY <1>1, OutsiderCloses DEF comm_disconnect, EndClient, Fifos
<1>3. Serving' = Serving /\ \A d \in Clients : Chosen(d)' = Chosen(d)
  BY <1>2 DEF Serving, Chosen
<1>4. \A d \in Clients \ {c} : /\ Asking(d)' <=> Asking(d)
                               /\ Met(d)' <=> Met(d)
                               /\ StateOf(d)' = StateOf(d)
  BY <1>2, <1>3, SameState
<1>5. /\ StateOf(c) = "met" /\ StateOf(c)' = "idle"
      /\ ~Asking(c)' /\ ~Met(c)'
  <2>1. Met(c)
    BY <1>2 DEF Met
  <2> QED BY <1>2, <2>1, StateIs, StateWillBe
<1>6. \A d \in Clients : Overtaken(d)' => Overtaken(d)
  BY <1>2, <1>4, <1>5 DEF Overtaken
<1>7. RaceOrder'
  BY <1>2, <1>4, <1>5, <1>6, RaceKept DEF Competing, RaceOrder
<1>8. [d \in Clients |-> StateOf(d)]' =
        [[d \in Clients |-> StateOf(d)] EXCEPT ![c] = "idle"]
  BY <1>4, <1>5
<1>9. Abstract!Leave(c)
  BY <1>2, <1>3, <1>5, <1>8 DEF Abstract!Leave, Serving, Listening
<1> QED BY <1>7, <1>9 DEF Implemented, Abstract!Next

\* accept_read: the server takes the client whose process id it has read.
LEMMA TakeImplements ==
  ASSUME Typed, Orderly, Orderly', RaceOrder, accept_read
  PROVE  Implemented
PROOF
<1>1. listener \in FifoType(Processes, Clients) /\ listener.data \in Seq(Clients)
  BY FifosAre DEF Fifos
<1>2. mpc = "accepting" /\ mpc' = "close" /\ UNCHANGED <<cpc, raced>>
  BY DEF accept_read, ServerAt
<1>3. /\ listener.data # << >> /\ requester' = Head(listener.data)
      /\ listener' = Consume(listener)
  <2>1. listener.data = << >> => listener.writers # {}
    BY DEF Orderly, ListenerOrder, ListenerUsers, accept_read, ServerAt, Opened
  <2> QED BY <2>1 DEF accept_read, HasData, AtEnd
<1>4. listener'.readers = listener.readers /\ listener'.data = Tail(listener.data)
  BY <1>1, <1>3, DataFields
<1>5. PICK h \in Clients : /\ requester' = h
                           /\ Range(listener.data) = Range(listener'.data) \cup {h}
                           /\ h \notin Range(listener'.data)
  BY <1>1, <1>3, <1>4, Queue DEF Orderly, ListenerOrder, ListenerIds
<1>6. cpc[h] \in {"close", "open_incoming", "opening_incoming"}
  BY <1>5 DEF Orderly, ListenerOrder, ListenerIds
<1>7. /\ Asking(h) /\ ~Asking(h)' /\ Met(h)'
      /\ StateOf(h) = "asking" /\ StateOf(h)' = "met"
  <2>1. Asking(h) /\ ~Asking(h)' /\ Met(h)'
    BY <1>2, <1>5, <1>6 DEF Asking, Met, Chosen
  <2> QED BY <2>1, StateIs, StateWillBe
<1>8. \A d \in Clients \ {h} : /\ Asking(d)' <=> Asking(d)
                               /\ Met(d)' <=> Met(d)
                               /\ StateOf(d)' = StateOf(d)
  <2> SUFFICES ASSUME NEW d \in Clients \ {h}
               PROVE  /\ Asking(d)' <=> Asking(d)
                      /\ Met(d)' <=> Met(d)
                      /\ StateOf(d)' = StateOf(d)
    OBVIOUS
  <2>1. Chosen(d)' = Chosen(d) /\ cpc'[d] = cpc[d]
    BY <1>2, <1>5 DEF Chosen
  <2> QED BY <1>5, <2>1, SameState
<1>9. RaceOrder'
  <2>1. listener'.readers # {}
    BY <1>2, <1>4 DEF Orderly, ListenerOrder, ListenerUsers
  <2> QED BY <1>2, <1>7, <1>8, <2>1, RaceKept DEF Competing, Overtaken
<1>10. [d \in Clients |-> StateOf(d)]' =
         [[d \in Clients |-> StateOf(d)] EXCEPT ![h] = "met"]
  BY <1>7, <1>8
<1>11. Serving = NoClient /\ Serving' = h
  BY <1>2, <1>5 DEF Serving, Listening
<1>12. Abstract!Take(h)
  BY <1>2, <1>7, <1>10, <1>11 DEF Abstract!Take, Serving, Listening
<1> QED BY <1>9, <1>12 DEF Implemented, Abstract!Next

\* accept_close: the server leaves the listening FIFO; ids of clients that have left
\* it before are lost.
LEMMA CloseImplements ==
  ASSUME Typed, Orderly, Orderly', RaceOrder, accept_close
  PROVE  Implemented
PROOF
<1>1. listener \in FifoType(Processes, Clients) /\ listener.data \in Seq(Clients)
  BY FifosAre DEF Fifos
<1>2. /\ mpc = "close" /\ mpc' = "open_incoming" /\ listener' = Close(listener, Server)
      /\ UNCHANGED <<requester, cpc, raced>>
  BY DEF accept_close, ServerAt
<1>3. listener'.data \in {<< >>, listener.data}
  BY <1>1, <1>2, CloseFields
<1>4. /\ Serving' = Serving /\ UNCHANGED raced
      /\ \A d \in Clients : (Chosen(d)' = Chosen(d)) /\ cpc'[d] = cpc[d]
  BY <1>2 DEF Serving, Chosen, Listening
<1>5. PICK h \in Clients : h = requester /\ Competing(h) /\ ~Asking(h)
  <2>1. requester \in Clients
    BY <1>2 DEF Orderly, Listening
  <2>2. cpc[requester] \in {"close", "open_incoming", "opening_incoming"} /\ Chosen(requester)
    BY <1>2, <2>1 DEF Orderly, ClientOrder, InStep, With, Chosen
  <2>3. Met(requester)
    BY <2>2 DEF Met
  <2> QED BY <2>1, <2>3, StateIs DEF Competing
<1>6. \A d \in Clients : Asking(d) => raced[d] /\ StateOf(d) = "asking"
  BY <1>5, StateIs DEF RaceOrder, Competing
<1>7. ASSUME NEW d \in Clients
      PROVE  /\ \/ (Asking(d)' <=> Asking(d)) /\ StateOf(d)' = StateOf(d)
                \/ Asking(d) /\ ~Asking(d)' /\ StateOf(d)' = "lost"
             /\ Met(d)' <=> Met(d)
  <2>1. CASE d \in Range(listener'.data) <=> d \in Range(listener.data)
    BY <1>4, <2>1, SameState
  <2>2. CASE ~(d \in Range(listener'.data) <=> d \in Range(listener.data))
    <3>1. Range(<< >>) = {}
      BY DEF Range
    <3>2. /\ d \in Range(listener.data) /\ d \notin Range(listener'.data)
          /\ cpc[d] \in {"close", "open_incoming", "opening_incoming"} /\ ~Chosen(d)
      BY <1>3, <2>2, <3>1 DEF Orderly, ListenerOrder, ListenerIds
    <3>3. Asking(d) /\ ~Asking(d)' /\ ~Met(d) /\ ~Met(d)'
      BY <1>4, <3>2 DEF Asking, Met
    <3>4. StateOf(d)' = "lost"
      BY <1>4, <3>2, <3>3 DEF StateOf
    <3> QED BY <3>3, <3>4
  <2> QED BY <2>1, <2>2
<1>8. RaceOrder'
  BY <1>4, <1>6, <1>7, RaceKept DEF Competing, Overtaken
<1>9. Abstract!Next
  BY <1>4, <1>6, <1>7, LoseStep
<1> QED BY <1>8, <1>9 DEF Implemented

\* unlink_listener, mknod_listener and accept_open: the FIFO is made anew, gets its
\* name and its reader; no process id is in it that could get lost.
LEMMA ListenImplements ==
  ASSUME Typed, Orderly, Orderly', RaceOrder,
         unlink_listener \/ mknod_listener \/ accept_open
  PROVE  Implemented
PROOF
<1>1. /\ UNCHANGED <<requester, cpc, raced>>
      /\ mpc \in {"start", "mknod", "accept"} /\ mpc' \in {"mknod", "accept", "accepting"}
  BY DEF unlink_listener, mknod_listener, accept_open, ServerAt
<1>2. /\ Serving' = Serving
      /\ \A d \in Clients : (Chosen(d)' = Chosen(d)) /\ cpc'[d] = cpc[d]
  BY <1>1 DEF Serving, Chosen, Listening
<1>3. CASE unlink_listener
  <2>1. /\ mpc = "start" /\ listener'.data = << >>
        /\ listener'.readers = {} /\ listener'.writers = {}
    BY <1>3 DEF unlink_listener, ServerAt, NewFifo
  <2>2. Range(<< >>) = {}
    BY DEF Range
  <2>3. ASSUME NEW d \in Clients
        PROVE  /\ (Asking(d)' <=> Asking(d)) /\ (Met(d)' <=> Met(d))
               /\ StateOf(d)' = StateOf(d) /\ ~Overtaken(d)'
    <3>1. cpc[d] \in {"off", "open", "opening", "failed"}
      BY <2>1 DEF Orderly, ListenerOrder, ListenerUsers
    <3>2. d \notin Range(listener.data) /\ d \notin Range(listener'.data)
      BY <2>1, <2>2, <3>1 DEF Orderly, ListenerOrder, ListenerIds
    <3>3. ~Overtaken(d)'
      BY <1>2, <2>1, <3>1 DEF Overtaken, Opened, Users
    <3> QED BY <1>2, <3>2, <3>3, SameState
  <2> QED BY <1>1, <1>2, <2>3, QuietStep
<1>4. CASE mknod_listener
  <2>1. listener' = listener
    BY <1>4 DEF mknod_listener
  <2>2. \A d \in Clients : /\ (Asking(d)' <=> Asking(d)) /\ (Met(d)' <=> Met(d))
                           /\ StateOf(d)' = StateOf(d)
    BY <1>2, <2>1, SameState
  <2>3. \A d \in Clients : Overtaken(d)' => Overtaken(d)
    BY <1>2, <2>1, <2>2 DEF Overtaken
  <2> QED BY <1>1, <1>2, <2>2, <2>3, QuietStep DEF RaceOrder
<1>5. CASE accept_open
  <2>1. listener'.data = listener.data /\ listener'.readers # {}
    <3>1. listener \in FifoType(Processes, Clients)
      BY FifosAre DEF Fifos
    <3>2. /\ listener'.data = listener.data
          /\ listener'.readers = listener.readers \cup {Server}
      BY <1>5, <3>1, OpenFields DEF accept_open
    <3> QED BY <3>2
  <2>2. \A d \in Clients : /\ (Asking(d)' <=> Asking(d)) /\ (Met(d)' <=> Met(d))
                           /\ StateOf(d)' = StateOf(d)
    BY <1>2, <2>1, SameState
  <2> QED BY <1>1, <1>2, <2>1, <2>2, QuietStep DEF Overtaken
<1> QED BY <1>3, <1>4, <1>5

\* The steps of the server at the pair of the client it has met; the fork ends them.
LEMMA ServingImplements ==
  ASSUME Typed, Orderly, Orderly', RaceOrder,
         accept_incoming \/ accept_outgoing \/ fork_session
  PROVE  Implemented
PROOF
<1>1. requester \in Clients /\ requester # NoClient
  BY FifoServerAssumption
     DEF accept_incoming, accept_outgoing, fork_session, ServerAt, Orderly, Listening
<1>2. /\ UNCHANGED <<listener, requester, cpc, raced>>
      /\ \/ mpc = "open_incoming" /\ mpc' = "opening_incoming"
         \/ mpc = "opening_incoming" /\ mpc' = "opening_outgoing"
         \/ /\ mpc = "opening_outgoing" /\ mpc' = "accept"
            /\ Server \notin outgoing[requester].waiting
  BY <1>1
     DEF accept_incoming, accept_outgoing, fork_session, ServerAt, Opened, fifos
<1>3. ASSUME NEW d \in Clients
      PROVE  /\ Asking(d)' <=> Asking(d)
             /\ Met(d)' <=> Met(d)
             /\ StateOf(d)' = StateOf(d)
             /\ Overtaken(d)' => raced[d]
  <2>1. Asking(d)' <=> Asking(d)
    BY <1>2 DEF Asking
  <2>2. Met(d)' <=> Met(d)
    <3>1. mpc' = "accept" /\ requester = d =>
            cpc[d] \in {"opening_outgoing", "connected", "gone"}
      BY <1>2 DEF Orderly, ClientOrder, PairOrder, With
    <3> QED BY <1>2, <3>1 DEF Met, Chosen
  <2>3. StateOf(d)' = StateOf(d)
    BY <1>2, <2>1, <2>2 DEF StateOf
  <2>4. Overtaken(d)' => Overtaken(d)
    BY <1>2, <2>1 DEF Overtaken
  <2> QED BY <2>1, <2>2, <2>3, <2>4 DEF RaceOrder
<1>4. CASE mpc # "opening_outgoing"
  <2>1. Serving' = Serving
    BY <1>2, <1>4 DEF Serving, Listening
  <2> QED BY <1>2, <1>3, <2>1, QuietStep
<1>5. CASE mpc = "opening_outgoing"
  <2>1. Serving # NoClient /\ Serving' = NoClient
    BY <1>1, <1>2, <1>5 DEF Serving, Listening
  <2>2. Abstract!Finish
    BY <1>2, <1>3, <2>1 DEF Abstract!Finish, Serving, Listening
  <2>3. RaceOrder'
    BY <1>2, <1>3, RaceKept DEF Competing
  <2> QED BY <2>2, <2>3 DEF Implemented, Abstract!Next
<1> QED BY <1>4, <1>5

\* Every step of the connection is a step of the abstract rendezvous or stutters.
LEMMA ImplementsStep ==
  ASSUME Typed, Orderly, RaceOrder, Next, ~Interrupted'
  PROVE  Implemented
PROOF
<1>1. Orderly'
  BY OrderStep
<1>2. ASSUME NEW c \in Clients, make_fifos(c) \/ ClientStep(c) \/ comm_disconnect(c)
      PROVE  Implemented
  <2>1. CASE write_pid(c) \/ close_listener(c)
    BY <1>1, <2>1, ClientImplements, LeavingImplements
  <2>2. CASE open_listener(c)
    BY <1>1, <2>2, AskImplements, ClientImplements
  <2>3. CASE comm_disconnect(c)
    BY <1>1, <2>3, LeaveImplements
  <2>4. CASE make_fifos(c) \/ open_incoming(c) \/ open_outgoing(c) \/ connected(c)
    BY <1>1, <2>4, ClientImplements
  <2> QED BY <1>2, <2>1, <2>2, <2>3, <2>4 DEF ClientStep
<1>3. ServerStep => Implemented
  BY <1>1, ListenImplements, TakeImplements, CloseImplements, ServingImplements
     DEF ServerStep
<1> QED BY <1>2, <1>3, InterruptsStay DEF Next

\* Nobody has overlapped with anybody.
LEMMA RaceInit == MCInit => RaceInvariant
PROOF
<1> SUFFICES ASSUME MCInit, NEW c \in Clients
             PROVE  ~Asking(c) /\ ~Met(c)
  BY DEF RaceInvariant, RaceOrder, Overtaken, Competing
<1> QED BY DEF MCInit, Init, Asking, Met, Chosen

\* Every step before the first Ctrl-C records the overlap it causes.
LEMMA RaceStep ==
  ASSUME ConnectInvariant, RaceInvariant, [MCNext]_allVars
  PROVE  RaceInvariant'
PROOF
<1>1. CASE Next
  BY <1>1, InterruptsStay, ImplementsStep DEF ConnectInvariant, RaceInvariant, Implemented
<1>2. CASE UNCHANGED vars
  <2>1. UNCHANGED <<listener, cpc, mpc, requester, raced>>
    BY <1>2 DEF vars, fifos
  <2>2. \A c \in Clients : /\ Overtaken(c)' <=> Overtaken(c)
                           /\ Competing(c)' <=> Competing(c)
    BY <2>1 DEF Overtaken, Competing, Asking, Met, Chosen
  <2> QED BY <2>1, <2>2 DEF RaceInvariant, RaceOrder, Interrupted, ClientInterrupted
<1> QED BY <1>1, <1>2, MCStep

\* Which clients have overlapped is recorded, for every one that asks or has been
\* accepted and for every one that was let in and left behind.
THEOREM RaceInvariantHolds == MCSpec => []RaceInvariant
BY ConnectInvariantHolds, RaceInit, RaceStep, PTL DEF MCSpec

\* Up to the first Ctrl-C the connection, step by step, implements
\* Rendezvous: the server accepts one client at a time, only clients that ask, and a
\* request is lost only if it overlapped with another's.
THEOREM ConnectImplementsRendezvous == MCSpec => ImplementsRendezvous
PROOF
<1>1. MCInit => Abstract!Init
  <2> SUFFICES ASSUME MCInit
               PROVE  Abstract!Init
    OBVIOUS
  <2>1. \A c \in Clients : StateOf(c) = "idle"
    BY DEF MCInit, Init, StateOf, Asking, Met, Chosen
  <2> QED BY <2>1 DEF MCInit, Init, Abstract!Init
<1>2. ConnectInvariant /\ RaceInvariant /\ [MCNext]_allVars
        => [~Interrupted' => Abstract!Next \/ UNCHANGED Abstract!vars]_vars
  <2> SUFFICES ASSUME ConnectInvariant, RaceInvariant, Next, ~Interrupted'
               PROVE  Abstract!Next
    BY MCStep
  <2> QED
    BY InterruptsStay, ImplementsStep DEF ConnectInvariant, RaceInvariant, Implemented
<1> QED
  BY <1>1, <1>2, ConnectInvariantHolds, RaceInvariantHolds, PTL
     DEF MCSpec, ImplementsRendezvous
-----------------------------------------------------------------------------
(* Over sockets.                                                            *)

LEMMA SocketStep ==
  ASSUME [MCNext]_allVars
  PROVE  Sockets!Next \/ UNCHANGED socketVars
BY DEF MCNext, WithFifos, WithSockets, allVars

\* Who waits in the backlog of m stands there once, has connected to m and has no session
\* yet, and no fork for it has failed; only a server that listens has a backlog.
BacklogOrder(m) ==
  /\ \A i, j \in 1..Len(backlog[m]) : backlog[m][i] = backlog[m][j] => i = j
  /\ \A i \in 1..Len(backlog[m]) : /\ target[backlog[m][i]] = m
                                   /\ session[backlog[m][i]] = NoServer
                                   /\ backlog[m][i] \notin unforked
  /\ main[m] # "accept" => backlog[m] = << >>

\* A client has reached one server, and has its session there, or its fork has failed, or
\* it waits as long as that server is not interrupted.
ClientReached(c) ==
  /\ target[c] # NoServer <=> client[c] = "connected"
  /\ session[c] \in {NoServer, target[c]}
  /\ c \in unforked => target[c] # NoServer /\ session[c] = NoServer
  /\ \A m \in Servers :
       target[c] = m /\ session[c] = NoServer /\ c \notin unforked /\ main[m] # "exit"
         => Sockets!Waits(c, m)

SocketInvariant ==
  /\ Sockets!TypeOK
  /\ \A m \in Servers : BacklogOrder(m)
  /\ \A c \in Clients : ClientReached(c)

LEMMA SocketInit ==
  ASSUME Sockets!Init
  PROVE  SocketInvariant
PROOF
<1>1. \A m \in Servers : backlog[m] = << >>
  BY DEF Sockets!Init
<1>2. Sockets!TypeOK
  BY <1>1, SocketAssumption DEF Sockets!Init, Sockets!TypeOK, Sockets!SocketParameters
<1>3. \A m \in Servers : BacklogOrder(m)
  BY <1>1 DEF BacklogOrder
<1>4. \A c \in Clients : ClientReached(c)
  BY SocketAssumption DEF Sockets!Init, ClientReached, Sockets!SocketParameters
<1> QED BY <1>2, <1>3, <1>4 DEF SocketInvariant

\* comm_listen.
LEMMA SocketListenStep ==
  ASSUME SocketInvariant, NEW m \in Servers,
         Sockets!unlink_address(m) \/ Sockets!bind(m) \/ Sockets!listen(m)
  PROVE  SocketInvariant'
PROOF
<1>1. /\ UNCHANGED <<backlog, client, target, session, unforked>>
      /\ \A n \in Servers \ {m} : main'[n] = main[n]
      /\ main[m] \in {"start", "bind", "listen"}
      /\ main'[m] \in {"bind", "listen", "failed", "accept"}
      /\ main' \in [Servers -> {"start", "bind", "listen", "accept", "failed", "exit"}]
      /\ address' \in Servers \cup {NoServer, OldServer}
  BY DEF SocketInvariant, Sockets!TypeOK, Sockets!unlink_address, Sockets!bind,
         Sockets!listen, Sockets!ServerAt
<1>2. Sockets!TypeOK'
  BY <1>1 DEF SocketInvariant, Sockets!TypeOK
<1>3. \A n \in Servers : BacklogOrder(n)'
  BY <1>1 DEF SocketInvariant, BacklogOrder
<1>4. \A c \in Clients : ClientReached(c)'
  BY <1>1 DEF SocketInvariant, ClientReached, Sockets!Waits
<1> QED BY <1>2, <1>3, <1>4 DEF SocketInvariant

\* Whoever is accepted was the first to wait, and everybody else still waits.
LEMMA SocketAcceptStep ==
  ASSUME SocketInvariant, NEW m \in Servers, Sockets!comm_accept(m)
  PROVE  SocketInvariant'
PROOF
<1> DEFINE first == Head(backlog[m])
<1>1. /\ main[m] = "accept" /\ backlog[m] # << >>
      /\ main' = [main EXCEPT ![m] = "accept"]
      /\ \/ session' = [session EXCEPT ![first] = m] /\ unforked' = unforked
         \/ session' = session /\ unforked' = unforked \cup {first}
      /\ backlog' = [backlog EXCEPT ![m] = Tail(backlog[m])]
      /\ UNCHANGED <<address, client, target>>
  BY DEF Sockets!comm_accept, Sockets!ServerAt
<1>2. /\ Sockets!TypeOK /\ backlog[m] \in Seq(Clients) /\ BacklogOrder(m)
      /\ Len(backlog[m]) \in Nat /\ Len(backlog[m]) <= MAXQ_SIZE + 1
      /\ \A n \in Servers : BacklogOrder(n)
      /\ \A c \in Clients : ClientReached(c)
  BY DEF SocketInvariant, Sockets!TypeOK
<1>3. /\ first = backlog[m][1] /\ first \in Clients /\ Len(backlog[m]) > 0
      /\ Tail(backlog[m]) \in Seq(Clients) /\ Len(Tail(backlog[m])) = Len(backlog[m]) - 1
      /\ \A i \in 1..Len(backlog[m]) - 1 : Tail(backlog[m])[i] = backlog[m][i + 1]
  BY <1>1, <1>2
<1>4. target[first] = m /\ session[first] = NoServer /\ first \notin unforked
  BY <1>2, <1>3 DEF BacklogOrder
<1> HIDE DEF first
<1>5. main' = main /\ backlog'[m] = Tail(backlog[m])
      /\ \A n \in Servers \ {m} : backlog'[n] = backlog[n]
  BY <1>1, <1>2 DEF Sockets!TypeOK
<1>6. /\ \/ session'[first] = m /\ first \notin unforked'
         \/ session'[first] = NoServer /\ first \in unforked'
      /\ \A c \in Clients \ {first} : /\ session'[c] = session[c]
                                      /\ c \in unforked' <=> c \in unforked
  BY <1>1, <1>2, <1>3, <1>4 DEF Sockets!TypeOK
<1>7. Sockets!TypeOK'
  <2>1. ASSUME NEW n \in Servers
        PROVE  Len(backlog'[n]) <= MAXQ_SIZE + 1
    <3>1. CASE n = m
      <4>1. MAXQ_SIZE \in Nat
        BY SocketAssumption DEF Sockets!SocketParameters
      <4>2. backlog'[n] = Tail(backlog[m])
        BY <1>5, <3>1
      <4>3. Len(backlog'[n]) = Len(backlog[m]) - 1
        BY <1>3, <4>2
      <4>4. Len(backlog[m]) \in Nat /\ Len(backlog[m]) <= MAXQ_SIZE + 1
        BY <1>2
      <4> QED BY <4>1, <4>3, <4>4
    <3>2. CASE n # m
      BY <1>2, <1>5, <3>2 DEF Sockets!TypeOK
    <3> QED BY <3>1, <3>2
  <2>2. backlog' \in [Servers -> Seq(Clients)]
    BY <1>1, <1>2, <1>3 DEF Sockets!TypeOK
  <2>3. /\ session' \in [Clients -> Servers \cup {NoServer}]
        /\ unforked' \subseteq Clients
    BY <1>1, <1>2, <1>3 DEF Sockets!TypeOK
  <2> QED BY <1>1, <1>2, <1>5, <2>1, <2>2, <2>3 DEF Sockets!TypeOK
<1>8. ASSUME NEW n \in Servers
      PROVE  BacklogOrder(n)'
  <2>1. CASE n # m
    <3>1. \A i \in 1..Len(backlog[n]) : backlog[n][i] # first /\ backlog[n][i] \in Clients
      BY <1>2, <1>4, <2>1 DEF BacklogOrder, Sockets!TypeOK
    <3> QED BY <1>1, <1>2, <1>5, <1>6, <2>1, <3>1 DEF BacklogOrder
  <2>2. CASE n = m
    <3>1. \A i \in 1..Len(backlog'[m]) : /\ i + 1 \in 2..Len(backlog[m])
                                         /\ backlog'[m][i] = backlog[m][i + 1]
      BY <1>2, <1>3, <1>5
    <3>2. ASSUME NEW i \in 1..Len(backlog'[m]), NEW j \in 1..Len(backlog'[m]),
                 backlog'[m][i] = backlog'[m][j]
          PROVE  i = j
      <4>1. /\ i + 1 \in 1..Len(backlog[m]) /\ j + 1 \in 1..Len(backlog[m])
            /\ backlog[m][i + 1] = backlog[m][j + 1]
        BY <1>2, <3>1, <3>2
      <4>2. i + 1 = j + 1
        BY <1>2, <4>1 DEF BacklogOrder
      <4> QED BY <4>2
    <3>3. \A i \in 2..Len(backlog[m]) : backlog[m][i] # first /\ backlog[m][i] \in Clients
      BY <1>2, <1>3 DEF BacklogOrder
    <3>4. \A i \in 1..Len(backlog'[m]) : /\ target'[backlog'[m][i]] = m
                                         /\ session'[backlog'[m][i]] = NoServer
                                         /\ backlog'[m][i] \notin unforked'
      BY <1>1, <1>2, <1>6, <3>1, <3>3 DEF BacklogOrder
    <3>5. main'[m] = "accept"
      BY <1>1, <1>5
    <3> QED BY <2>2, <3>2, <3>4, <3>5 DEF BacklogOrder
  <2> QED BY <2>1, <2>2
<1>9. ASSUME NEW c \in Clients
      PROVE  ClientReached(c)'
  <2>1. CASE c = first
    <3>1. client[c] = "connected" /\ m # NoServer
      BY <1>2, <1>4, <2>1, SocketAssumption DEF ClientReached, Sockets!SocketParameters
    <3> QED BY <1>1, <1>2, <1>4, <1>6, <2>1, <3>1 DEF ClientReached
  <2>2. CASE c # first
    <3>1. ASSUME NEW n \in Servers, Sockets!Waits(c, n)
          PROVE  Sockets!Waits(c, n)'
      <4>1. CASE n # m
        BY <1>5, <3>1, <4>1 DEF Sockets!Waits
      <4>2. CASE n = m
        <5>1. PICK i \in 1..Len(backlog[m]) : backlog[m][i] = c
          BY <3>1, <4>2 DEF Sockets!Waits
        <5>2. i - 1 \in 1..Len(backlog[m]) - 1 /\ (i - 1) + 1 = i
          BY <1>2, <1>3, <2>2, <5>1
        <5>3. Tail(backlog[m])[i - 1] = c
          BY <1>3, <5>1, <5>2
        <5> QED BY <1>3, <1>5, <4>2, <5>2, <5>3 DEF Sockets!Waits
      <4> QED BY <4>1, <4>2
    <3> QED BY <1>1, <1>2, <1>5, <1>6, <2>2, <3>1 DEF ClientReached
  <2> QED BY <2>1, <2>2
<1> QED BY <1>7, <1>8, <1>9 DEF SocketInvariant

\* Ctrl-C takes the backlog with it.
LEMMA SocketInterruptStep ==
  ASSUME SocketInvariant, NEW m \in Servers, Sockets!srv_sigRutine(m)
  PROVE  SocketInvariant'
PROOF
<1>1. /\ main' = [main EXCEPT ![m] = "exit"]
      /\ backlog' = [backlog EXCEPT ![m] = << >>]
      /\ UNCHANGED <<address, client, target, session, unforked>>
  BY DEF Sockets!srv_sigRutine
<1>2. /\ main'[m] = "exit" /\ backlog'[m] = << >>
      /\ \A n \in Servers \ {m} : main'[n] = main[n] /\ backlog'[n] = backlog[n]
  BY <1>1 DEF SocketInvariant, Sockets!TypeOK
<1>3. Sockets!TypeOK'
  BY <1>1, <1>2, SocketAssumption
     DEF SocketInvariant, Sockets!TypeOK, Sockets!SocketParameters
<1>4. \A n \in Servers : BacklogOrder(n)'
  BY <1>1, <1>2 DEF SocketInvariant, BacklogOrder
<1>5. \A c \in Clients : ClientReached(c)'
  BY <1>1, <1>2 DEF SocketInvariant, ClientReached, Sockets!Waits
<1> QED BY <1>3, <1>4, <1>5 DEF SocketInvariant

\* A client that is let in waits behind all others.
LEMMA SocketClientStep ==
  ASSUME SocketInvariant, NEW c \in Clients, Sockets!start(c) \/ Sockets!connect(c)
  PROVE  SocketInvariant'
PROOF
<1>1. /\ Sockets!TypeOK /\ UNCHANGED <<address, main, session, unforked>>
      /\ \A m \in Servers : BacklogOrder(m)
      /\ \A d \in Clients : ClientReached(d)
  BY DEF SocketInvariant, Sockets!start, Sockets!connect
<1>2. CASE UNCHANGED <<backlog, target>>
  <2>1. /\ client[c] # "connected" /\ client'[c] # "connected"
        /\ \A d \in Clients \ {c} : client'[d] = client[d]
        /\ client' \in [Clients -> {"off", "connect", "connected", "failed"}]
    <3>1. CASE Sockets!start(c)
      BY <1>1, <3>1 DEF Sockets!start, Sockets!ClientAt, Sockets!TypeOK
    <3>2. CASE Sockets!connect(c) /\ target'[c] = target[c]
      <4>1. CASE client' = [client EXCEPT ![c] = "connected"] /\ client[c] = "connect"
                 /\ target' = [target EXCEPT ![c] = address] /\ address \in Servers
        BY <1>1, <3>2, <4>1, SocketAssumption
           DEF ClientReached, Sockets!TypeOK, Sockets!SocketParameters
      <4> QED BY <1>1, <3>2, <4>1
              DEF Sockets!connect, Sockets!ClientAt, Sockets!TypeOK, Sockets!Listens
    <3> QED BY <1>2, <3>1, <3>2
  <2>2. Sockets!TypeOK'
    BY <1>1, <1>2, <2>1 DEF Sockets!TypeOK
  <2>3. \A m \in Servers : BacklogOrder(m)'
    BY <1>1, <1>2 DEF BacklogOrder
  <2>4. \A d \in Clients : ClientReached(d)'
    BY <1>1, <1>2, <2>1 DEF ClientReached, Sockets!Waits
  <2> QED BY <2>2, <2>3, <2>4 DEF SocketInvariant
<1>3. ASSUME NEW m \in Servers, m = address, main[m] = "accept",
             Len(backlog[m]) <= MAXQ_SIZE, client[c] = "connect",
             client' = [client EXCEPT ![c] = "connected"],
             backlog' = [backlog EXCEPT ![m] = Append(backlog[m], c)],
             target' = [target EXCEPT ![c] = m]
      PROVE  SocketInvariant'
  <2>1. backlog[m] \in Seq(Clients) /\ Len(backlog[m]) \in Nat
    BY <1>1 DEF Sockets!TypeOK
  <2>2. /\ backlog'[m] = Append(backlog[m], c) /\ target'[c] = m
        /\ client'[c] = "connected"
        /\ \A n \in Servers \ {m} : backlog'[n] = backlog[n]
        /\ \A d \in Clients \ {c} : target'[d] = target[d] /\ client'[d] = client[d]
    BY <1>1, <1>3 DEF Sockets!TypeOK
  <2>3. /\ Len(backlog'[m]) = Len(backlog[m]) + 1
        /\ backlog'[m][Len(backlog[m]) + 1] = c
        /\ \A i \in 1..Len(backlog[m]) : backlog'[m][i] = backlog[m][i]
    BY <2>1, <2>2
  <2>4. /\ target[c] = NoServer /\ session[c] = NoServer /\ m # NoServer
        /\ c \notin unforked
    BY <1>1, <1>3, SocketAssumption DEF ClientReached, Sockets!SocketParameters
  <2>5. \A n \in Servers : \A i \in 1..Len(backlog[n]) :
          backlog[n][i] # c /\ backlog[n][i] \in Clients
    BY <1>1, <2>4, SocketAssumption
       DEF BacklogOrder, Sockets!TypeOK, Sockets!SocketParameters
  <2>6. Sockets!TypeOK'
    <3>1. \A n \in Servers : Len(backlog'[n]) <= MAXQ_SIZE + 1
      BY <1>1, <1>3, <2>1, <2>2, <2>3, SocketAssumption
         DEF Sockets!TypeOK, Sockets!SocketParameters
    <3>2. backlog' \in [Servers -> Seq(Clients)]
      BY <1>1, <1>3, <2>1 DEF Sockets!TypeOK
    <3> QED BY <1>1, <1>3, <3>1, <3>2 DEF Sockets!TypeOK
  <2>7. ASSUME NEW n \in Servers
        PROVE  BacklogOrder(n)'
    <3>1. CASE n # m
      BY <1>1, <2>2, <2>5, <3>1 DEF BacklogOrder
    <3>2. CASE n = m
      <4>1. \A i \in 1..Len(backlog'[m]) :
              \/ i \in 1..Len(backlog[m]) /\ backlog'[m][i] = backlog[m][i]
              \/ i = Len(backlog[m]) + 1 /\ backlog'[m][i] = c
        BY <2>1, <2>3
      <4>2. \A i, j \in 1..Len(backlog'[m]) : backlog'[m][i] = backlog'[m][j] => i = j
        BY <1>1, <2>5, <4>1 DEF BacklogOrder
      <4>3. \A i \in 1..Len(backlog'[m]) : /\ target'[backlog'[m][i]] = m
                                           /\ session'[backlog'[m][i]] = NoServer
                                           /\ backlog'[m][i] \notin unforked'
        BY <1>1, <2>2, <2>4, <2>5, <4>1 DEF BacklogOrder
      <4> QED BY <1>1, <1>3, <3>2, <4>2, <4>3 DEF BacklogOrder
    <3> QED BY <3>1, <3>2
  <2>8. ASSUME NEW d \in Clients
        PROVE  ClientReached(d)'
    <3>1. CASE d = c
      <4>1. Sockets!Waits(c, m)'
        <5>1. Len(backlog[m]) + 1 \in 1..Len(backlog'[m])
          BY <2>1, <2>3
        <5> QED BY <2>3, <5>1 DEF Sockets!Waits
      <4> QED BY <1>1, <2>2, <2>4, <3>1, <4>1 DEF ClientReached
    <3>2. CASE d # c
      <4>1. ASSUME NEW n \in Servers, Sockets!Waits(d, n)
            PROVE  Sockets!Waits(d, n)'
        <5>1. CASE n # m
          BY <2>2, <4>1, <5>1 DEF Sockets!Waits
        <5>2. CASE n = m
          <6>1. PICK i \in 1..Len(backlog[m]) : backlog[m][i] = d
            BY <4>1, <5>2 DEF Sockets!Waits
          <6>2. i \in 1..Len(backlog'[m]) /\ backlog'[m][i] = d
            BY <2>1, <2>3, <6>1
          <6> QED BY <5>2, <6>2 DEF Sockets!Waits
        <5> QED BY <5>1, <5>2
      <4> QED BY <1>1, <2>2, <3>2, <4>1 DEF ClientReached
    <3> QED BY <3>1, <3>2
  <2> QED BY <2>6, <2>7, <2>8 DEF SocketInvariant
<1>4. Sockets!start(c) => UNCHANGED <<backlog, target>>
  BY DEF Sockets!start
<1>5. CASE Sockets!connect(c)
  <2>1. CASE UNCHANGED <<backlog, target>>
    BY <1>2, <2>1
  <2>2. CASE ~UNCHANGED <<backlog, target>>
    <3>1. /\ Sockets!Listens(address) /\ Len(backlog[address]) <= MAXQ_SIZE
          /\ Sockets!ClientAt(c, "connect", "connected")
          /\ backlog' = [backlog EXCEPT ![address] = Append(@, c)]
          /\ target' = [target EXCEPT ![c] = address]
      BY <1>5, <2>2 DEF Sockets!connect
    <3> QED BY <1>3, <3>1 DEF Sockets!Listens, Sockets!ClientAt
  <2> QED BY <2>1, <2>2
<1> QED BY <1>2, <1>4, <1>5

\* Over sockets a backlog holds, once each, the clients that have reached its server and
\* have no session, and whoever has reached a server has its session there, or is in its
\* backlog, unless its fork failed or the server was interrupted (commsockets.c:73-107).
THEOREM SocketInvariantHolds == MCSpec => []SocketInvariant
PROOF
<1>1. MCInit => SocketInvariant
  BY SocketInit DEF MCInit
<1>2. SocketInvariant /\ UNCHANGED socketVars => SocketInvariant'
  BY DEF socketVars, SocketInvariant, Sockets!TypeOK, BacklogOrder, ClientReached,
         Sockets!Waits
<1>3. SocketInvariant /\ Sockets!Next => SocketInvariant'
  BY SocketListenStep, SocketAcceptStep, SocketInterruptStep, SocketClientStep
     DEF Sockets!Next, Sockets!ServerStep
<1>4. SocketInvariant /\ [MCNext]_allVars => SocketInvariant'
  BY <1>2, <1>3, SocketStep
<1> QED BY <1>1, <1>4, PTL DEF MCSpec

\* Over sockets nobody gets lost or is served twice between connect and accept, for any
\* number of clients and servers and any size of the backlog (commsockets.c:73-107).
THEOREM SocketClientsAreKept == MCSpec => []ConnectedIsKept
PROOF
<1>1. ASSUME SocketInvariant
      PROVE  ConnectedIsKept
  <2> SUFFICES ASSUME NEW c \in Clients, NEW m \in Servers
               PROVE  /\ Sockets!Waits(c, m) =>
                           target[c] = m /\ session[c] = NoServer /\ c \notin unforked
                      /\ target[c] = m =>
                           \/ session[c] = m /\ c \notin unforked
                           \/ /\ session[c] = NoServer
                              /\ \/ c \in unforked \/ main[m] = "exit"
                                 \/ Sockets!Waits(c, m)
    BY DEF ConnectedIsKept, Sockets!ConnectedIsKept
  <2>1. BacklogOrder(m) /\ ClientReached(c)
    BY <1>1 DEF SocketInvariant
  <2>2. m # NoServer
    BY SocketAssumption DEF Sockets!SocketParameters
  <2> QED BY <2>1, <2>2 DEF BacklogOrder, ClientReached, Sockets!Waits
<1> QED BY <1>1, SocketInvariantHolds, PTL

\* A client gets one session, over either kind of connection (server.c:66-88).
THEOREM OneSessionEach == MCSpec => []ClientsGetOneSession
BY OneSession, SocketClientsAreKept, PTL DEF ClientsGetOneSession
=============================================================================

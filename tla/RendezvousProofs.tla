--------------------------- MODULE RendezvousProofs ---------------------------
(***************************************************************************)
(* Proofs about the sessions' connection to the database, for any number   *)
(* of sessions and clients and any size of the table of descriptors: the   *)
(* descriptors that run out (Descriptors), and the handshake step by step  *)
(* (DBRendezvous), which gives every session its own answer and implements *)
(* Rendezvous.                                                             *)
(***************************************************************************)
EXTENDS MCRendezvous, FifoProofs

\* A step of the specification is one of the handshake, one of a process with
\* descriptors, or none.
LEMMA MCStep ==
  ASSUME [MCNext]_allVars
  PROVE  \/ Next /\ UNCHANGED tableVars
         \/ Tables!Next /\ UNCHANGED vars
         \/ UNCHANGED <<vars, tableVars>>
BY DEF MCNext, Handshake, Descriptors, allVars

-----------------------------------------------------------------------------
(* Descriptors: the invariant.                                              *)

\* The descriptors that a call has taken so far: the configuration file, and
\* the pair of FIFOs.
Taken(c) == CASE state[c] = "connect" -> 1
              [] state[c] = "exchange" -> 3
              [] OTHER -> 0

\* The calls that a session can make: two descriptors stay free for the pair.
Possible(c) == IF Tables!Room(c) >= 2 THEN Tables!Room(c) - 2 ELSE 0

\* A session has what it inherited, what its earlier calls leaked and what its
\* present call has taken, and has not made more calls than are possible.
SessionTable(c) ==
  /\ state[c] = "none" => calls[c] = 0
  /\ state[c] \notin {"none", "exit"} => /\ sused[c] = inherited[c] + calls[c] + Taken(c)
                                         /\ calls[c] <= Possible(c)
  /\ state[c] = "exchange" => serves = c
  /\ state[c] = "exit" => /\ calls[c] = Possible(c)
                          /\ Tables!Room(c) >= 2 => serves = Hung

TablesInvariant == Tables!TypeOK /\ \A c \in Clients : SessionTable(c)

-----------------------------------------------------------------------------
(* Descriptors: every step keeps the invariant.                             *)

\* At the start every table has room for every call.
LEMMA TablesInit == MCInit => TablesInvariant
BY DescriptorAssumption
   DEF MCInit, Tables!Init, TablesInvariant, Tables!TypeOK, SessionTable,
       Tables!DescriptorParameters

\* A step of one session leaves the other sessions' entries alone, and the database
\* too, unless the session is the one it serves or nobody is.
OthersAlone(c) ==
  \A d \in Clients \ {c} :
    /\ state'[d] = state[d] /\ sused'[d] = sused[d]
    /\ inherited'[d] = inherited[d] /\ calls'[d] = calls[d]

\* What one session does leaves the other sessions' entries as they were.
LEMMA SessionTableKept ==
  ASSUME TablesInvariant, NEW c \in Clients, OthersAlone(c), SessionTable(c)',
         serves' = serves \/ serves = NoSession \/ serves = c
  PROVE  \A d \in Clients : SessionTable(d)'
PROOF
<1> SUFFICES ASSUME NEW d \in Clients, d # c
             PROVE  SessionTable(d)'
  OBVIOUS
<1>1. /\ Taken(d)' = Taken(d)
      /\ Tables!Room(d)' = Tables!Room(d)
      /\ Possible(d)' = Possible(d)
  BY DEF OthersAlone, Taken, Possible, Tables!Room
<1>2. state[d] = "exchange" => serves' = d
  BY DescriptorAssumption
     DEF TablesInvariant, SessionTable, Tables!DescriptorParameters
<1>3. serves = Hung => serves' = Hung
  BY DescriptorAssumption DEF Tables!DescriptorParameters
<1> QED BY <1>1, <1>2, <1>3 DEF OthersAlone, TablesInvariant, SessionTable

\* Each step of main, of a session and of its calls keeps the invariant.
LEMMA TablesStep ==
  ASSUME TablesInvariant, Tables!Next
  PROVE  TablesInvariant'
PROOF
<1> USE DescriptorAssumption DEF Tables!DescriptorParameters
<1>1. PICK c \in Clients : \/ Tables!accept(c) \/ Tables!receiveData(c)
                           \/ Tables!server_close(c) \/ Tables!Serve(c)
  BY DEF Tables!Next
<1> DEFINE free == OpenMax - sused[c]
<1>2. CASE Tables!accept(c)
  BY <1>2, SessionTableKept
     DEF Tables!accept, Tables!At, Tables!sessionVars, TablesInvariant, Tables!TypeOK,
         SessionTable, OthersAlone, Taken, Possible, Tables!Room
<1>3. CASE Tables!receiveData(c) \/ Tables!server_close(c)
  BY <1>3, SessionTableKept
     DEF Tables!receiveData, Tables!server_close, Tables!At, Tables!mainVars,
         TablesInvariant, Tables!TypeOK, SessionTable, OthersAlone, Taken, Possible,
         Tables!Room
<1>4. CASE Tables!getaddress(c)
  BY <1>4, SessionTableKept
     DEF Tables!getaddress, Tables!At, Tables!mainVars, TablesInvariant, Tables!TypeOK,
         SessionTable, OthersAlone, Taken, Possible, Tables!Room
<1>5. CASE Tables!db_comm_connect(c)
  BY <1>5, SessionTableKept
     DEF Tables!db_comm_connect, Tables!At, Tables!mainVars, TablesInvariant,
         Tables!TypeOK, SessionTable, OthersAlone, Taken, Possible, Tables!Room
<1>6. CASE Tables!db_comm_disconnect(c)
  BY <1>6, SessionTableKept
     DEF Tables!db_comm_disconnect, Tables!At, Tables!mainVars, TablesInvariant,
         Tables!TypeOK, SessionTable, OthersAlone, Taken, Possible, Tables!Room
<1> QED BY <1>1, <1>2, <1>3, <1>4, <1>5, <1>6 DEF Tables!Serve

\* The handshake does not touch the tables.
LEMMA TablesStay ==
  ASSUME TablesInvariant, UNCHANGED tableVars
  PROVE  TablesInvariant'
BY DEF tableVars, TablesInvariant, Tables!TypeOK, SessionTable, Taken, Possible,
       Tables!Room

\* What each session has, what it has leaked and whom the database serves agree.
THEOREM TablesInvariantHolds == MCSpec => []TablesInvariant
PROOF
<1>1. TablesInvariant /\ [MCNext]_allVars => TablesInvariant'
  BY MCStep, TablesStep, TablesStay
<1> QED BY <1>1, TablesInit, PTL DEF MCSpec

\* A session that gives up has served exactly the calls its table had room for.
THEOREM CallsUntilExhaustion == MCSpec => []CallsBeforeGivingUp
PROOF
<1>1. TablesInvariant => CallsBeforeGivingUp
  BY DEF TablesInvariant, SessionTable, Possible, CallsBeforeGivingUp,
         Tables!CallsBeforeGivingUp
<1> QED BY <1>1, TablesInvariantHolds, PTL

\* It gives up in the open of its second FIFO, and the database waits for ever.
THEOREM ExhaustionHangsDatabase == MCSpec => []GivingUpHangsDatabase
PROOF
<1>1. TablesInvariant => GivingUpHangsDatabase
  BY DEF TablesInvariant, SessionTable, GivingUpHangsDatabase,
         Tables!GivingUpHangsDatabase
<1> QED BY <1>1, TablesInvariantHolds, PTL

-----------------------------------------------------------------------------
(* The handshake: the invariant.                                            *)

With(s, steps) == requester = s /\ dpc \in steps

\* Whatever faults there are: who writes into a session's pair of FIFOs writes
\* the session's request and the answer to it, or what an end-of-file left.
Answers(s) ==
  /\ reply[s] \in {NoSession, Garbage, s}
  /\ incoming[s] \in FifoType(Processes, {s, Garbage})
  /\ outgoing[s] \in FifoType(Processes, {s})
  /\ With(s, {"send", "disconnect"}) => data \in {s, Garbage}

Connecting == {"opening_incoming", "opening_outgoing", "send", "disconnect"}

AnswersAreOwn ==
  /\ TypeOK
  /\ dpc \in Connecting => requester \in Sessions
  /\ \A s \in Sessions : Answers(s)

\* The listening FIFO before the first fault: who has which end.
ListenerUsers ==
  /\ linked /\ dpc # "mknod"
  /\ listener.readers = IF dpc \in {"accepting", "close"} THEN {DB} ELSE {}
  /\ listener.writers = {s \in Sessions : spc[s] \in {"opening", "write", "close"}}
  /\ \A s \in Sessions \cap listener.waiting : spc[s] = "opening"
  /\ dpc = "accepting" /\ DB \notin listener.waiting =>
       listener.data # << >> \/ listener.writers # {}

\* Which process ids are in it.
ListenerIds ==
  /\ IsInjective(listener.data)
  /\ \A s \in Sessions : spc[s] = "close" => Asking(s) \/ Chosen(s)
  /\ \A s \in Range(listener.data) :
       spc[s] \in {"close", "open_incoming", "opening_incoming"} /\ ~Chosen(s)

ListenerOrder == ListenerUsers /\ ListenerIds

\* Where the database and the session it serves can be at the same time.
InStep(s) ==
  /\ With(s, {"close", "open_incoming"}) =>
       spc[s] \in {"close", "open_incoming", "opening_incoming"}
  /\ With(s, {"opening_incoming"}) =>
       spc[s] \in {"close", "open_incoming", "opening_incoming", "opening_outgoing"}
  /\ With(s, {"opening_outgoing"}) =>
       spc[s] \in {"opening_incoming", "opening_outgoing", "receive"}
  /\ With(s, {"send"}) => spc[s] = "receive"
  /\ spc[s] = "opening_outgoing" => With(s, {"opening_incoming", "opening_outgoing"})
  /\ spc[s] = "receive" =>
       With(s, {"opening_outgoing", "send"}) \/ incoming[s].data # << >>

\* The database has not closed its ends of the pair yet.
HasPair(s, steps) ==
  \/ With(s, steps)
  \/ With(s, {"disconnect"}) /\ spc[s] \in {"receive", "idle"}

\* A session's pair of FIFOs before the first fault.
PairOrder(s) ==
  /\ incoming[s].readers =
       IF spc[s] \in {"opening_incoming", "opening_outgoing", "receive"} THEN {s} ELSE {}
  /\ incoming[s].writers =
       IF HasPair(s, {"opening_incoming", "opening_outgoing", "send"}) THEN {DB} ELSE {}
  /\ outgoing[s].writers = IF spc[s] \in {"opening_outgoing", "receive"} THEN {s} ELSE {}
  /\ outgoing[s].readers =
       IF HasPair(s, {"opening_outgoing", "send"}) THEN {DB} ELSE {}
  /\ spc[s] = "opening_incoming" /\ s \notin incoming[s].waiting => incoming[s].writers # {}
  /\ With(s, {"opening_incoming"}) /\ DB \notin incoming[s].waiting =>
       incoming[s].readers # {}
  /\ spc[s] = "opening_outgoing" /\ s \notin outgoing[s].waiting => outgoing[s].readers # {}
  /\ With(s, {"opening_outgoing"}) /\ DB \notin outgoing[s].waiting =>
       outgoing[s].writers # {}

\* One request, one answer.
DataOrder(s) ==
  /\ incoming[s].data \in {<< >>, <<s>>}
  /\ incoming[s].data # << >> => spc[s] = "receive" /\ ~Chosen(s)
  /\ spc[s] \notin {"receive", "idle"} => outgoing[s].data = << >>
  /\ With(s, {"opening_outgoing"}) /\ spc[s] = "receive" => outgoing[s].data # << >>
  /\ With(s, {"send", "disconnect"}) => data = s
  /\ reply[s] # Garbage

\* What has overlapped knows it: two sessions that ask or have been taken, and a
\* session that was let into the listening FIFO and finds nobody there any more.
Competing(s) == Asking(s) \/ Met(s)

Overtaken(s) ==
  /\ listener.readers = {}
  /\ spc[s] \in {"opening", "write", "close"}
  /\ spc[s] = "opening" => s \notin listener.waiting
  /\ Asking(s)

RaceOrder ==
  \A s \in Sessions :
    /\ Overtaken(s) => raced[s]
    /\ \A t \in Sessions \ {s} : Competing(s) /\ Competing(t) => raced[s]

SessionOrder(s) == InStep(s) /\ PairOrder(s) /\ DataOrder(s)

Orderly ==
  /\ ListenerOrder
  /\ dpc \notin Listening => requester \in Sessions
  /\ \A s \in Sessions : SessionOrder(s)

HandshakeInvariant == AnswersAreOwn /\ (Faultless => Orderly)
RaceInvariant == Faultless => RaceOrder

-----------------------------------------------------------------------------
(* The handshake: every step keeps AnswersAreOwn, faults included.          *)

\* Sessions and the database are the processes.
LEMMA ProcessTypes == Sessions \subseteq Processes /\ DB \in Processes
BY DEF Processes

\* A step of a session that changes only its own FIFOs and its own answer.
LEMMA SessionAnswers ==
  ASSUME AnswersAreOwn, NEW s \in Sessions, UNCHANGED databaseVars,
         listener' \in FifoType(Processes, Sessions), linked' \in BOOLEAN,
         spc' \in [Sessions -> SessionPC], raced' \in [Sessions -> BOOLEAN],
         NEW in \in FifoType(Processes, {s, Garbage}),
         incoming' = [incoming EXCEPT ![s] = in],
         NEW out \in FifoType(Processes, {s}),
         outgoing' = [outgoing EXCEPT ![s] = out],
         NEW r \in {NoSession, Garbage, s},
         reply' = [reply EXCEPT ![s] = r]
  PROVE  AnswersAreOwn'
PROOF
<1>1. /\ in \in FifoType(Processes, Sessions \cup {Garbage})
      /\ out \in FifoType(Processes, Sessions)
  BY DEF FifoType
<1>2. TypeOK'
  BY <1>1 DEF AnswersAreOwn, TypeOK, databaseVars
<1>3. ASSUME NEW t \in Sessions
      PROVE  Answers(t)'
  <2>1. Answers(t) /\ TypeOK
    BY DEF AnswersAreOwn
  <2>2. \A steps : With(t, steps)' = With(t, steps)
    BY DEF With, databaseVars
  <2>3. /\ incoming'[t] = IF t = s THEN in ELSE incoming[t]
        /\ outgoing'[t] = IF t = s THEN out ELSE outgoing[t]
        /\ reply'[t] = IF t = s THEN r ELSE reply[t]
    BY <2>1 DEF TypeOK
  <2> QED BY <2>1, <2>2, <2>3 DEF Answers, databaseVars
<1> QED BY <1>2, <1>3 DEF AnswersAreOwn, databaseVars

\* The end of a session.
LEMMA EndSessionAnswers ==
  ASSUME AnswersAreOwn, NEW s \in Sessions, NEW how \in Gone, EndSession(s, how),
         UNCHANGED <<reply, raced, databaseVars>>
  PROVE  AnswersAreOwn'
PROOF
<1>1. /\ listener \in FifoType(Processes, Sessions)
      /\ incoming[s] \in FifoType(Processes, {s, Garbage})
      /\ outgoing[s] \in FifoType(Processes, {s})
      /\ s \in Processes /\ s \in {s, Garbage} /\ s \in {s}
  BY ProcessTypes DEF AnswersAreOwn, TypeOK, Answers
<1>2. /\ Close(listener, s) \in FifoType(Processes, Sessions)
      /\ Close(incoming[s], s) \in FifoType(Processes, {s, Garbage})
      /\ Close(outgoing[s], s) \in FifoType(Processes, {s})
  BY <1>1, FifoTypes
<1>3. spc' \in [Sessions -> SessionPC]
  BY DEF EndSession, AnswersAreOwn, TypeOK, SessionPC
<1>4. reply' = [reply EXCEPT ![s] = reply[s]]
  BY DEF AnswersAreOwn, TypeOK
<1> QED
  BY <1>2, <1>3, <1>4, SessionAnswers DEF EndSession, AnswersAreOwn, TypeOK, Answers

\* Each step of getAddress, db_comm_connect and the calls after it.
LEMMA SessionStepAnswers ==
  ASSUME AnswersAreOwn, NEW s \in Sessions,
         make_fifos(s) \/ SessionStep(s) \/ srv_sigRutine(s)
  PROVE  AnswersAreOwn'
PROOF
<1>0. /\ listener \in FifoType(Processes, Sessions)
      /\ incoming[s] \in FifoType(Processes, {s, Garbage})
      /\ outgoing[s] \in FifoType(Processes, {s})
      /\ s \in Processes /\ s \in {s, Garbage} /\ s \in {s}
      /\ spc \in [Sessions -> SessionPC] /\ raced \in [Sessions -> BOOLEAN]
      /\ reply[s] \in {NoSession, Garbage, s} /\ linked \in BOOLEAN
      /\ Garbage \in {s, Garbage}
  BY ProcessTypes DEF AnswersAreOwn, TypeOK, Answers
<1>1. /\ reply = [reply EXCEPT ![s] = reply[s]]
      /\ incoming = [incoming EXCEPT ![s] = incoming[s]]
      /\ outgoing = [outgoing EXCEPT ![s] = outgoing[s]]
  BY DEF AnswersAreOwn, TypeOK
<1>2. /\ NewFifo \in FifoType(Processes, {s, Garbage}) \cap FifoType(Processes, {s})
      /\ OpenWriter(listener, s) \in FifoType(Processes, Sessions)
      /\ Write(listener, s) \in FifoType(Processes, Sessions)
      /\ Close(listener, s) \in FifoType(Processes, Sessions)
      /\ OpenReader(incoming[s], s) \in FifoType(Processes, {s, Garbage})
      /\ Close(incoming[s], s) \in FifoType(Processes, {s, Garbage})
      /\ OpenWriter(outgoing[s], s) \in FifoType(Processes, {s})
      /\ Write(outgoing[s], s) \in FifoType(Processes, {s})
      /\ Close(outgoing[s], s) \in FifoType(Processes, {s})
  BY <1>0, FifoTypes
<1>3. HasData(incoming[s]) =>
        /\ Close(Consume(incoming[s]), s) \in FifoType(Processes, {s, Garbage})
        /\ Head(incoming[s].data) \in {s, Garbage}
  BY <1>0, FifoTypes
<1>4. \A step \in SessionPC : [spc EXCEPT ![s] = step] \in [Sessions -> SessionPC]
  BY <1>0
<1> USE <1>0, <1>1, <1>2, SessionAnswers DEF SessionAt, fifos
<1>5. CASE make_fifos(s)
  <2>1. spc' \in [Sessions -> SessionPC]
    BY <1>5, <1>4 DEF make_fifos, SessionPC
  <2> QED BY <1>5, <2>1 DEF make_fifos
<1>6. CASE open_listener(s)
  <2>1. spc' \in [Sessions -> SessionPC] /\ raced' \in [Sessions -> BOOLEAN]
    BY <1>6, <1>4 DEF open_listener, SessionPC, Gone
  <2> QED BY <1>6, <2>1 DEF open_listener
<1>7. CASE listener_opened(s)
  <2>1. spc' \in [Sessions -> SessionPC]
    BY <1>7, <1>4 DEF listener_opened, SessionPC
  <2> QED BY <1>7, <2>1 DEF listener_opened
<1>8. CASE write_pid(s)
  <2>1. spc' \in [Sessions -> SessionPC]
    BY <1>8, <1>4 DEF write_pid, SessionPC, Gone, EndSession
  <2> QED BY <1>8, <2>1, EndSessionAnswers DEF write_pid, Gone
<1>9. CASE close_listener(s)
  <2>1. spc' \in [Sessions -> SessionPC]
    BY <1>9, <1>4 DEF close_listener, SessionPC
  <2> QED BY <1>9, <2>1 DEF close_listener
<1>10. CASE open_incoming(s)
  <2>1. spc' \in [Sessions -> SessionPC]
    BY <1>10, <1>4 DEF open_incoming, SessionPC
  <2> QED BY <1>10, <2>1 DEF open_incoming
<1>11. CASE open_outgoing(s)
  <2>1. spc' \in [Sessions -> SessionPC]
    BY <1>11, <1>4 DEF open_outgoing, SessionPC
  <2> QED BY <1>11, <2>1 DEF open_outgoing
<1>12. CASE send_request(s)
  <2>1. spc' \in [Sessions -> SessionPC]
    BY <1>12, <1>4 DEF send_request, SessionPC, Gone, EndSession
  <2> QED BY <1>12, <2>1, EndSessionAnswers DEF send_request, Gone
<1>13. CASE receive_reply(s)
  <2>1. spc' \in [Sessions -> SessionPC]
    BY <1>13, <1>4 DEF receive_reply, SessionPC
  <2>2. PICK r \in {NoSession, Garbage, s} : reply' = [reply EXCEPT ![s] = r]
    BY <1>13, <1>3 DEF receive_reply
  <2>3. PICK in \in FifoType(Processes, {s, Garbage}) :
               incoming' = [incoming EXCEPT ![s] = in]
    BY <1>13, <1>3 DEF receive_reply
  <2> QED BY <1>13, <2>1, <2>2, <2>3 DEF receive_reply
<1>14. CASE srv_sigRutine(s)
  BY <1>14, EndSessionAnswers DEF srv_sigRutine, Gone
<1> QED
  BY <1>5, <1>6, <1>7, <1>8, <1>9, <1>10, <1>11, <1>12, <1>13, <1>14 DEF SessionStep

\* A step of the database that changes only its own variables and the pair of the
\* session it serves.
LEMMA PairAnswers ==
  ASSUME AnswersAreOwn, UNCHANGED <<linked, starts, sessionVars>>,
         listener' \in FifoType(Processes, Sessions), dpc' \in DatabasePC,
         NEW s \in Sessions, requester' = s, data' \in Sessions \cup {Garbage},
         dpc' \in {"send", "disconnect"} => data' \in {s, Garbage},
         NEW in \in FifoType(Processes, {s, Garbage}),
         incoming' = [incoming EXCEPT ![s] = in],
         NEW out \in FifoType(Processes, {s}),
         outgoing' = [outgoing EXCEPT ![s] = out]
  PROVE  AnswersAreOwn'
PROOF
<1>1. /\ in \in FifoType(Processes, Sessions \cup {Garbage})
      /\ out \in FifoType(Processes, Sessions)
  BY DEF FifoType
<1>2. TypeOK'
  BY <1>1 DEF AnswersAreOwn, TypeOK, sessionVars
<1>3. \A t \in Sessions : Answers(t)'
  BY DEF AnswersAreOwn, TypeOK, Answers, With, sessionVars
<1> QED BY <1>2, <1>3 DEF AnswersAreOwn

\* The end of the database: its ends are closed, nothing else moves.
LEMMA EndDatabaseAnswers ==
  ASSUME AnswersAreOwn, EndDatabase
  PROVE  AnswersAreOwn'
PROOF
<1>1. /\ Close(listener, DB) \in FifoType(Processes, Sessions)
      /\ \A s \in Sessions :
           /\ Close(incoming[s], DB) \in FifoType(Processes, {s, Garbage})
           /\ Close(outgoing[s], DB) \in FifoType(Processes, {s})
           /\ Close(incoming[s], DB) \in FifoType(Processes, Sessions \cup {Garbage})
           /\ Close(outgoing[s], DB) \in FifoType(Processes, Sessions)
  <2>1. Close(listener, DB) \in FifoType(Processes, Sessions)
    <3>1. listener \in FifoType(Processes, Sessions)
      BY DEF AnswersAreOwn, TypeOK
    <3> QED BY <3>1, FifoTypes, ProcessTypes
  <2>2. ASSUME NEW s \in Sessions
        PROVE  /\ Close(incoming[s], DB) \in FifoType(Processes, {s, Garbage})
               /\ Close(outgoing[s], DB) \in FifoType(Processes, {s})
    <3>1. /\ incoming[s] \in FifoType(Processes, {s, Garbage})
          /\ outgoing[s] \in FifoType(Processes, {s})
      BY DEF AnswersAreOwn, Answers
    <3> QED BY <3>1, FifoTypes, ProcessTypes
  <2>3. ASSUME NEW s \in Sessions
        PROVE  /\ Close(incoming[s], DB) \in FifoType(Processes, Sessions \cup {Garbage})
               /\ Close(outgoing[s], DB) \in FifoType(Processes, Sessions)
    <3>1. /\ incoming[s] \in FifoType(Processes, Sessions \cup {Garbage})
          /\ outgoing[s] \in FifoType(Processes, Sessions)
      BY DEF AnswersAreOwn, TypeOK
    <3> QED BY <3>1, FifoTypes, ProcessTypes
  <2> QED BY <2>1, <2>2, <2>3
<1>2. TypeOK'
  BY <1>1 DEF EndDatabase, AnswersAreOwn, TypeOK, sessionVars, DatabasePC
<1>3. \A s \in Sessions : Answers(s)'
  BY <1>1 DEF EndDatabase, AnswersAreOwn, Answers, With, sessionVars
<1> QED BY <1>2, <1>3 DEF AnswersAreOwn, EndDatabase, Connecting

\* A step that only the listening FIFO and the database's place show.
LEMMA ListenerAnswers ==
  ASSUME AnswersAreOwn, UNCHANGED <<incoming, outgoing, data, reply, raced>>,
         linked' \in BOOLEAN, starts' \in 1..MaxStarts,
         listener' \in FifoType(Processes, Sessions), dpc' \in DatabasePC \ Connecting,
         spc' \in [Sessions -> SessionPC],
         requester' \in Sessions \cup {NoSession}
  PROVE  AnswersAreOwn'
PROOF
<1>1. TypeOK'
  BY DEF AnswersAreOwn, TypeOK
<1>2. \A s \in Sessions : Answers(s)'
  BY DEF AnswersAreOwn, Answers, With, Connecting
<1> QED BY <1>1, <1>2 DEF AnswersAreOwn

\* Each step of wait_request, db_accept, the answer and disconnect.
LEMMA DatabaseStepAnswers ==
  ASSUME AnswersAreOwn, DatabaseStep \/ unlink_listener \/ kill_database
  PROVE  AnswersAreOwn'
PROOF
<1>0. /\ listener \in FifoType(Processes, Sessions)
      /\ spc \in [Sessions -> SessionPC]
      /\ linked \in BOOLEAN /\ starts \in 1..MaxStarts
      /\ requester \in Sessions \cup {NoSession} /\ data \in Sessions \cup {Garbage}
  BY DEF AnswersAreOwn, TypeOK
<1>1. /\ NewFifo \in FifoType(Processes, Sessions)
      /\ OpenReader(listener, DB) \in FifoType(Processes, Sessions)
      /\ Close(listener, DB) \in FifoType(Processes, Sessions)
      /\ HasData(listener) => /\ Consume(listener) \in FifoType(Processes, Sessions)
                              /\ Head(listener.data) \in Sessions
  BY <1>0, FifoTypes, ProcessTypes
<1>2. ASSUME NEW s \in Sessions
      PROVE  /\ OpenWriter(incoming[s], DB) \in FifoType(Processes, {s, Garbage})
             /\ Close(incoming[s], DB) \in FifoType(Processes, {s, Garbage})
             /\ \A m \in {s, Garbage} :
                  Write(incoming[s], m) \in FifoType(Processes, {s, Garbage})
             /\ OpenReader(outgoing[s], DB) \in FifoType(Processes, {s})
             /\ Close(outgoing[s], DB) \in FifoType(Processes, {s})
             /\ HasData(outgoing[s]) => /\ Consume(outgoing[s]) \in FifoType(Processes, {s})
                                        /\ Head(outgoing[s].data) = s
  <2>1. /\ incoming[s] \in FifoType(Processes, {s, Garbage})
        /\ outgoing[s] \in FifoType(Processes, {s})
    BY DEF AnswersAreOwn, Answers
  <2>2. HasData(outgoing[s]) => Head(outgoing[s].data) \in {s}
    BY <2>1, FifoTypes, ProcessTypes
  <2> QED BY <2>1, <2>2, FifoTypes, ProcessTypes
<1>3. /\ \A s \in Sessions : incoming[s] \in FifoType(Processes, {s, Garbage})
      /\ \A s \in Sessions : outgoing[s] \in FifoType(Processes, {s})
      /\ \A s \in Sessions : incoming = [incoming EXCEPT ![s] = incoming[s]]
      /\ \A s \in Sessions : outgoing = [outgoing EXCEPT ![s] = outgoing[s]]
  BY DEF AnswersAreOwn, Answers, TypeOK
<1>4. CASE mknod_listener \/ accept_open \/ accept_close \/ unlink_listener
  <2>1. /\ UNCHANGED <<incoming, outgoing, data, reply, raced, requester>>
        /\ dpc' \in DatabasePC \ Connecting /\ linked' \in BOOLEAN
    BY <1>4, <1>0
       DEF mknod_listener, accept_open, accept_close, unlink_listener, DatabaseAt,
           DatabasePC, Connecting, sessionVars
  <2>4. starts' \in 1..MaxStarts
    BY <1>4, <1>0, RendezvousAssumption
       DEF mknod_listener, accept_open, accept_close, unlink_listener
  <2>2. listener' \in FifoType(Processes, Sessions)
    BY <1>4, <1>0, <1>1 DEF mknod_listener, accept_open, accept_close, unlink_listener
  <2>3. spc' \in [Sessions -> SessionPC]
    BY <1>4, <1>0
       DEF mknod_listener, accept_open, accept_close, unlink_listener, sessionVars,
           SessionPC
  <2> QED BY <2>1, <2>2, <2>3, <2>4, <1>0, ListenerAnswers
<1>5. CASE accept_read
  BY <1>5, <1>0, <1>1, ListenerAnswers
     DEF accept_read, DatabaseAt, DatabasePC, Connecting, sessionVars
<1>6. CASE accept_incoming
  <2>1. CASE EndDatabase
    BY <2>1, EndDatabaseAnswers
  <2>2. CASE ~EndDatabase
    <3>1. requester \in Sessions
      BY <1>6, <2>2, <1>0 DEF accept_incoming
    <3>2. PICK in \in FifoType(Processes, {requester, Garbage}) :
                 incoming' = [incoming EXCEPT ![requester] = in]
      BY <1>6, <2>2, <3>1, <1>2 DEF accept_incoming
    <3>3. /\ UNCHANGED <<listener, linked, outgoing, requester, data, starts, sessionVars>>
          /\ dpc' = "opening_incoming"
      BY <1>6, <2>2 DEF accept_incoming, DatabaseAt
    <3>4. /\ outgoing[requester] \in FifoType(Processes, {requester})
          /\ outgoing' = [outgoing EXCEPT ![requester] = outgoing[requester]]
      BY <3>1, <3>3, <1>3
    <3>5. dpc' \in DatabasePC /\ dpc' \notin {"send", "disconnect"}
      BY <3>3 DEF DatabasePC
    <3> QED BY <3>1, <3>2, <3>3, <3>4, <3>5, <1>0, PairAnswers
  <2> QED BY <2>1, <2>2
<1>7. CASE accept_outgoing \/ receive_request \/ disconnect
  <2>1. requester \in Sessions
    BY <1>7 DEF accept_outgoing, receive_request, disconnect, DatabaseAt, AnswersAreOwn,
                Connecting
  <2>2. CASE accept_outgoing
    BY <2>2, <2>1, <1>0, <1>2, <1>3, PairAnswers
       DEF accept_outgoing, DatabasePC, Connecting
  <2>3. CASE receive_request
    <3>1. PICK out \in FifoType(Processes, {requester}) :
                 outgoing' = [outgoing EXCEPT ![requester] = out]
      BY <2>3, <2>1, <1>2, <1>3 DEF receive_request
    <3>2. data' \in {requester, Garbage} /\ dpc' = "send"
      BY <2>3, <2>1, <1>2 DEF receive_request
    <3>3. UNCHANGED <<listener, linked, incoming, requester, starts, sessionVars>>
      BY <2>3 DEF receive_request
    <3>4. /\ incoming[requester] \in FifoType(Processes, {requester, Garbage})
          /\ incoming' = [incoming EXCEPT ![requester] = incoming[requester]]
      BY <2>1, <3>3, <1>3
    <3>5. dpc' \in DatabasePC
      BY <3>2 DEF DatabasePC
    <3> QED BY <2>1, <3>1, <3>2, <3>3, <3>4, <3>5, <1>0, PairAnswers
  <2>4. CASE disconnect
    <3>1. data \in {requester, Garbage}
      BY <2>4, <2>1 DEF disconnect, DatabaseAt, AnswersAreOwn, Answers, With
    <3> QED
      BY <2>4, <2>1, <3>1, <1>0, <1>2, <1>3, PairAnswers
         DEF disconnect, DatabaseAt, DatabasePC
  <2> QED BY <1>7, <2>2, <2>3, <2>4
<1>8. CASE send_reply
  <2>1. CASE EndDatabase
    BY <2>1, EndDatabaseAnswers
  <2>2. CASE ~EndDatabase
    <3>1. requester \in Sessions /\ data \in {requester, Garbage}
      BY <1>8 DEF send_reply, AnswersAreOwn, Connecting, Answers, With
    <3>2. Write(incoming[requester], data) \in FifoType(Processes, {requester, Garbage})
      BY <3>1, <1>2
    <3>3. PICK in \in FifoType(Processes, {requester, Garbage}) :
                 incoming' = [incoming EXCEPT ![requester] = in]
      BY <1>8, <2>2, <3>2 DEF send_reply
    <3>4. /\ UNCHANGED <<listener, linked, outgoing, requester, data, starts, sessionVars>>
          /\ dpc' = "disconnect"
      BY <1>8, <2>2 DEF send_reply
    <3>5. /\ outgoing[requester] \in FifoType(Processes, {requester})
          /\ outgoing' = [outgoing EXCEPT ![requester] = outgoing[requester]]
      BY <3>1, <3>4, <1>3
    <3>6. dpc' \in DatabasePC /\ data' \in {requester, Garbage}
      BY <3>1, <3>4 DEF DatabasePC
    <3> QED BY <3>1, <3>3, <3>4, <3>5, <3>6, <1>0, PairAnswers
  <2> QED BY <2>1, <2>2
<1>9. CASE kill_database
  BY <1>9, EndDatabaseAnswers DEF kill_database
<1> QED BY <1>4, <1>5, <1>6, <1>7, <1>8, <1>9 DEF DatabaseStep

-----------------------------------------------------------------------------
(* The handshake: every step up to the first fault keeps Orderly.           *)

\* A fault is never taken back.
LEMMA FaultsStay ==
  ASSUME AnswersAreOwn, Next, Faultless'
  PROVE  /\ Faultless
         /\ starts' = 1 /\ starts = 1 /\ dpc # "down" /\ dpc' # "down"
PROOF
<1> USE DEF Faultless, Interrupted
<1>1. starts \in 1..MaxStarts
  BY DEF AnswersAreOwn, TypeOK
<1>2. starts' \in {starts, starts + 1} /\ (starts' = starts \/ dpc' = "mknod")
  BY DEF Next, make_fifos, SessionStep, srv_sigRutine, DatabaseStep, unlink_listener,
         kill_database, open_listener, listener_opened, write_pid, close_listener,
         open_incoming, open_outgoing, send_request, receive_reply, mknod_listener,
         accept_open, accept_read, accept_close, accept_incoming, accept_outgoing,
         receive_request, send_reply, disconnect, EndDatabase, databaseVars, DatabaseAt
<1>3. starts' = starts /\ starts = 1
  BY <1>1, <1>2, RendezvousAssumption
<1>4. dpc # "down"
  <2>1. ASSUME NEW s \in Sessions, make_fifos(s) \/ SessionStep(s) \/ srv_sigRutine(s)
        PROVE  dpc' = dpc
    BY <2>1
       DEF make_fifos, SessionStep, srv_sigRutine, open_listener, listener_opened,
           write_pid, close_listener, open_incoming, open_outgoing, send_request,
           receive_reply, databaseVars
  <2>2. DatabaseStep \/ kill_database => dpc # "down"
    BY DEF DatabaseStep, kill_database, mknod_listener, accept_open, accept_read,
           accept_close, accept_incoming, accept_outgoing, receive_request, send_reply,
           disconnect, DatabaseAt
  <2>3. ~unlink_listener
    BY <1>1, <1>3 DEF unlink_listener
  <2> QED BY <2>1, <2>2, <2>3 DEF Next
<1>5. ASSUME NEW s \in Sessions, spc[s] = "interrupted"
      PROVE  spc'[s] = "interrupted"
  BY <1>5, <1>3
     DEF AnswersAreOwn, TypeOK, Next, make_fifos, SessionStep, srv_sigRutine,
         DatabaseStep, unlink_listener, kill_database, open_listener, listener_opened,
         write_pid, close_listener, open_incoming, open_outgoing, send_request,
         receive_reply, mknod_listener, accept_open, accept_read, accept_close,
         accept_incoming, accept_outgoing, receive_request, send_reply, disconnect,
         EndDatabase, EndSession, sessionVars, SessionAt, Gone
<1> QED BY <1>3, <1>4, <1>5

\* A step of one session concerns the listening FIFO, its pair and its own place.
LEMMA OneSessionOrder ==
  ASSUME Orderly, NEW s \in Sessions, UNCHANGED databaseVars,
         ListenerOrder', SessionOrder(s)',
         \A t \in Sessions \ {s} :
           /\ incoming'[t] = incoming[t] /\ outgoing'[t] = outgoing[t]
           /\ spc'[t] = spc[t] /\ reply'[t] = reply[t]
  PROVE  Orderly'
PROOF
<1>1. ASSUME NEW t \in Sessions \ {s}
      PROVE  SessionOrder(t)'
  <2>1. /\ incoming'[t] = incoming[t] /\ outgoing'[t] = outgoing[t]
        /\ spc'[t] = spc[t] /\ reply'[t] = reply[t]
        /\ dpc' = dpc /\ requester' = requester /\ data' = data
    BY DEF databaseVars
  <2>2. /\ \A steps : With(t, steps)' = With(t, steps)
        /\ Chosen(t)' = Chosen(t)
    BY <2>1 DEF With, Chosen
  <2>3. InStep(t)' /\ DataOrder(t)'
    BY <2>1, <2>2 DEF Orderly, SessionOrder, InStep, DataOrder
  <2>5. \A steps : HasPair(t, steps)' = HasPair(t, steps)
    BY <2>1, <2>2 DEF HasPair
  <2>6. PairOrder(t)
    BY DEF Orderly, SessionOrder
  <2>4. PairOrder(t)'
    BY <2>1, <2>2, <2>5, <2>6 DEF PairOrder
  <2> QED BY <2>3, <2>4 DEF SessionOrder
<1> QED BY <1>1 DEF Orderly, databaseVars, Listening

\* What a session's step needs to know of the FIFOs.
Fifos(s) ==
  /\ listener \in FifoType(Processes, Sessions)
  /\ incoming[s] \in FifoType(Processes, {s, Garbage})
  /\ outgoing[s] \in FifoType(Processes, {s})
  /\ spc \in [Sessions -> SessionPC]
  /\ incoming \in [Sessions -> FifoType(Processes, Sessions \cup {Garbage})]
  /\ outgoing \in [Sessions -> FifoType(Processes, Sessions)]
  /\ DB \in Processes /\ s \in Processes /\ DB # s

\* The type invariant has all of Fifos.
LEMMA FifosAre ==
  ASSUME AnswersAreOwn, NEW s \in Sessions
  PROVE  Fifos(s)
BY ProcessTypes, RendezvousAssumption DEF AnswersAreOwn, TypeOK, Answers, Fifos

\* getAddress: a session makes its pair anew, when the old pair is of no more use.
LEMMA MakeFifosOrder ==
  ASSUME AnswersAreOwn, Orderly, NEW s \in Sessions, make_fifos(s)
  PROVE  Orderly'
PROOF
<1>1. Fifos(s)
  BY FifosAre
<1>2. ListenerOrder'
  BY <1>1
     DEF make_fifos, SessionAt, Orderly, ListenerOrder, ListenerUsers, ListenerIds, Fifos,
         Asking, Chosen, databaseVars
<1>3. SessionOrder(s)'
  BY <1>1
     DEF make_fifos, SessionAt, Orderly, SessionOrder, InStep, PairOrder, DataOrder,
         HasPair, With, Fifos, NewFifo, databaseVars, Chosen
<1> QED BY <1>1, <1>2, <1>3, OneSessionOrder DEF make_fifos, SessionAt, Fifos

\* The steps that leave the pair of FIFOs alone.
LEMMA ListenerStepOrder ==
  ASSUME AnswersAreOwn, Orderly, Faultless', NEW s \in Sessions,
         open_listener(s) \/ listener_opened(s) \/ write_pid(s) \/ close_listener(s)
  PROVE  Orderly'
PROOF
<1>1. Fifos(s)
  BY FifosAre
<1>2. /\ listener.data \in Seq(Sessions)
      /\ listener.readers = IF dpc \in {"accepting", "close"} THEN {DB} ELSE {}
      /\ listener.writers = {t \in Sessions : spc[t] \in {"opening", "write", "close"}}
      /\ \A t \in Range(listener.data) : t \in Sessions
  BY <1>1, Queue DEF Orderly, ListenerOrder, ListenerUsers, Fifos, FifoType, Range
<1>3. ASSUME NEW next \in {"opening", "write", "close", "open_incoming"},
             spc' = [spc EXCEPT ![s] = next],
             spc[s] \in {"open", "opening", "write", "close"},
             next # "open_incoming" => spc[s] # "close",
             UNCHANGED <<incoming, outgoing, reply, databaseVars>>,
             ListenerOrder'
      PROVE  Orderly'
  <2>1. SessionOrder(s)'
    BY <1>1, <1>3
       DEF Orderly, SessionOrder, InStep, PairOrder, DataOrder, HasPair, With, Fifos,
           databaseVars, Chosen
  <2> QED BY <1>1, <1>3, <2>1, OneSessionOrder DEF Fifos
<1>4. CASE open_listener(s)
  <2>1. /\ spc[s] = "open" /\ spc' = [spc EXCEPT ![s] = "opening"]
        /\ listener' = OpenWriter(listener, s)
        /\ UNCHANGED <<linked, incoming, outgoing, reply, databaseVars>>
    BY <1>4 DEF open_listener, SessionAt, Orderly, ListenerOrder, ListenerUsers
  <2>2. /\ listener'.readers = listener.readers
        /\ listener'.writers = listener.writers \cup {s}
        /\ listener'.waiting =
             (listener.waiting \ listener.readers)
               \cup IF listener.readers = {} THEN {s} ELSE {}
        /\ listener'.data = listener.data
    BY <1>1, <2>1, OpenFields DEF Fifos
  <2>3. ListenerUsers'
    BY <1>1, <1>2, <2>1, <2>2
       DEF Orderly, ListenerOrder, ListenerUsers, Fifos, databaseVars
  <2>4. ListenerIds'
    BY <1>1, <1>2, <2>1, <2>2
       DEF Orderly, ListenerOrder, ListenerIds, Fifos, Asking, Chosen, databaseVars
  <2> QED BY <2>1, <2>3, <2>4, <1>3 DEF ListenerOrder
<1>5. CASE listener_opened(s)
  <2>1. /\ spc[s] = "opening" /\ spc' = [spc EXCEPT ![s] = "write"]
        /\ s \notin listener.waiting
        /\ UNCHANGED <<fifos, reply, databaseVars>>
    BY <1>5 DEF listener_opened, SessionAt, Opened
  <2>2. ListenerOrder'
    BY <1>1, <1>2, <2>1
       DEF Orderly, ListenerOrder, ListenerUsers, ListenerIds, Fifos, Asking, Chosen,
           databaseVars, fifos
  <2> QED BY <2>1, <2>2, <1>3 DEF fifos
<1>6. CASE write_pid(s) /\ ~EndSession(s, "sigpipe")
  <2>1. /\ spc[s] = "write" /\ spc' = [spc EXCEPT ![s] = "close"]
        /\ listener' = Write(listener, s) /\ listener.readers # {}
        /\ UNCHANGED <<linked, incoming, outgoing, reply, databaseVars>>
    BY <1>6 DEF write_pid, SessionAt, WriteBreaks
  <2>2. /\ listener'.readers = listener.readers /\ listener'.writers = listener.writers
        /\ listener'.waiting = listener.waiting
        /\ listener'.data = Append(listener.data, s)
    BY <1>1, <2>1, DataFields DEF Fifos
  <2>3. s \notin Range(listener.data)
    BY <2>1 DEF Orderly, ListenerOrder, ListenerIds
  <2>4. /\ Range(listener'.data) = Range(listener.data) \cup {s}
        /\ IsInjective(listener'.data) /\ listener'.data # << >>
    BY <1>2, <2>2, <2>3, Queue DEF Orderly, ListenerOrder, ListenerIds
  <2>5. ListenerUsers'
    BY <1>1, <1>2, <2>1, <2>2, <2>4
       DEF Orderly, ListenerOrder, ListenerUsers, Fifos, databaseVars
  <2>6. ~Chosen(s)
    BY <2>1 DEF Orderly, SessionOrder, InStep, With, Chosen
  <2>7. ListenerIds'
    BY <1>1, <1>2, <2>1, <2>2, <2>4, <2>6
       DEF Orderly, ListenerOrder, ListenerIds, Fifos, Asking, Chosen, databaseVars
  <2> QED BY <2>1, <2>5, <2>7, <1>3 DEF ListenerOrder
<1>7. CASE write_pid(s) /\ EndSession(s, "sigpipe")
  <2>1. /\ spc[s] = "write" /\ spc' = [spc EXCEPT ![s] = "sigpipe"]
        /\ listener' = Close(listener, s) /\ listener.readers = {}
        /\ incoming' = [incoming EXCEPT ![s] = Close(@, s)]
        /\ outgoing' = [outgoing EXCEPT ![s] = Close(@, s)]
        /\ UNCHANGED <<linked, reply, databaseVars>>
    BY <1>1, <1>2, <1>7 DEF write_pid, SessionAt, WriteBreaks, EndSession, Fifos
  <2>2. /\ listener'.readers = {} /\ listener'.writers = listener.writers \ {s}
        /\ listener'.waiting = listener.waiting \ {s}
        /\ listener'.data \in {<< >>, listener.data}
        /\ listener'.writers # {} => listener'.data = listener.data
    BY <1>1, <2>1, CloseFields DEF Fifos
  <2>3. ListenerUsers'
    BY <1>1, <1>2, <2>1, <2>2
       DEF Orderly, ListenerOrder, ListenerUsers, Fifos, databaseVars
  <2>4. s \notin Range(listener.data)
    BY <2>1 DEF Orderly, ListenerOrder, ListenerIds
  <2>5. /\ Range(listener'.data) \subseteq Range(listener.data)
        /\ IsInjective(listener'.data)
    BY <1>2, <2>2, Queue DEF Orderly, ListenerOrder, ListenerIds
  <2>6. ListenerIds'
    BY <1>1, <1>2, <2>1, <2>2, <2>3, <2>4, <2>5
       DEF Orderly, ListenerOrder, ListenerIds, ListenerUsers, Fifos, Asking, Chosen,
           databaseVars
  <2>7. SessionOrder(s)'
    <3>1. /\ incoming'[s].readers = {} /\ incoming'[s].writers = incoming[s].writers
          /\ incoming'[s].data = << >>
          /\ outgoing'[s].readers = outgoing[s].readers /\ outgoing'[s].writers = {}
          /\ outgoing'[s].data = << >>
      <4>1. /\ incoming[s].readers = {} /\ incoming[s].writers \subseteq {DB}
            /\ outgoing[s].readers \subseteq {DB} /\ outgoing[s].writers = {}
            /\ incoming[s].data = << >> /\ outgoing[s].data = << >>
        BY <2>1 DEF Orderly, SessionOrder, PairOrder, DataOrder
      <4>2. /\ incoming'[s] = Close(incoming[s], s)
            /\ outgoing'[s] = Close(outgoing[s], s)
        BY <1>1, <2>1 DEF Fifos
      <4>3. /\ incoming'[s].readers = incoming[s].readers \ {s}
            /\ incoming'[s].writers = incoming[s].writers \ {s}
            /\ incoming'[s].data \in {<< >>, incoming[s].data}
            /\ outgoing'[s].readers = outgoing[s].readers \ {s}
            /\ outgoing'[s].writers = outgoing[s].writers \ {s}
            /\ outgoing'[s].data \in {<< >>, outgoing[s].data}
        BY <1>1, <4>2, CloseFields DEF Fifos
      <4> QED BY <1>1, <4>1, <4>3 DEF Fifos
    <3> QED
      BY <1>1, <2>1, <3>1
         DEF Orderly, SessionOrder, InStep, PairOrder, DataOrder, HasPair, With, Fifos,
             databaseVars, Chosen
  <2> QED BY <1>1, <2>1, <2>3, <2>6, <2>7, OneSessionOrder DEF Fifos, ListenerOrder
<1>8. CASE close_listener(s)
  <2>1. /\ spc[s] = "close" /\ spc' = [spc EXCEPT ![s] = "open_incoming"]
        /\ listener' = Close(listener, s)
        /\ UNCHANGED <<linked, incoming, outgoing, reply, databaseVars>>
    BY <1>8 DEF close_listener, SessionAt
  <2>2. /\ listener'.readers = listener.readers
        /\ listener'.writers = listener.writers \ {s}
        /\ listener'.waiting = listener.waiting \ {s}
        /\ listener'.data \in {<< >>, listener.data}
        /\ listener'.readers # {} \/ listener'.writers # {} =>
             listener'.data = listener.data
    <3>1. /\ listener'.readers = listener.readers \ {s}
          /\ listener'.writers = listener.writers \ {s}
          /\ listener'.waiting = listener.waiting \ {s}
          /\ listener'.data =
               IF (listener.readers \cup listener.writers) \ {s} = {} THEN << >>
               ELSE listener.data
      BY <1>1, <2>1, CloseFields DEF Fifos
    <3> QED BY <1>1, <1>2, <3>1 DEF Fifos
  <2>3. /\ Range(listener'.data) \subseteq Range(listener.data)
        /\ IsInjective(listener'.data)
    BY <1>2, <2>2, Queue DEF Orderly, ListenerOrder, ListenerIds
  <2>4. dpc = "accepting" => listener.data # << >>
    <3>1. Asking(s) \/ Chosen(s)
      BY <2>1 DEF Orderly, ListenerOrder, ListenerIds
    <3> QED BY <1>2, <2>1, <3>1, Queue DEF Asking, Chosen
  <2>5. ListenerUsers'
    BY <1>1, <1>2, <2>1, <2>2, <2>4
       DEF Orderly, ListenerOrder, ListenerUsers, Fifos, databaseVars
  <2>6. ListenerIds'
    BY <1>1, <1>2, <2>1, <2>2, <2>3
       DEF Orderly, ListenerOrder, ListenerIds, Fifos, Asking, Chosen, databaseVars
  <2> QED BY <2>1, <2>5, <2>6, <1>3 DEF ListenerOrder
<1> QED BY <1>4, <1>5, <1>6, <1>7, <1>8

\* The database waits for a session's request with its end of the FIFO open.
LEMMA RequestIsAwaited ==
  ASSUME Orderly, NEW s \in Sessions, spc[s] = "opening_outgoing",
         s \notin outgoing[s].waiting
  PROVE  With(s, {"opening_outgoing"}) /\ ~WriteBreaks(outgoing[s], s)
BY DEF Orderly, SessionOrder, InStep, PairOrder, HasPair, With, WriteBreaks

\* The steps that leave the listening FIFO alone.
LEMMA PairStepOrder ==
  ASSUME AnswersAreOwn, Orderly, NEW s \in Sessions,
         open_incoming(s) \/ open_outgoing(s) \/ send_request(s) \/ receive_reply(s)
  PROVE  Orderly'
PROOF
<1>1. Fifos(s)
  BY FifosAre
<1>2. InStep(s) /\ PairOrder(s) /\ DataOrder(s)
  BY DEF Orderly, SessionOrder
<1>3. ASSUME NEW next \in SessionPC \ {"opening", "write", "close"},
             spc' = [spc EXCEPT ![s] = next],
             spc[s] \in {"open_incoming", "opening_incoming", "opening_outgoing", "receive"},
             next = "opening_incoming" \/ Chosen(s) \/ spc[s] = "receive",
             UNCHANGED <<listener, linked, databaseVars>>
      PROVE  ListenerOrder'
  <2>1. ListenerUsers'
    BY <1>1, <1>3
       DEF Orderly, ListenerOrder, ListenerUsers, Fifos, databaseVars
  <2>2. \A t \in Range(listener.data) :
          spc[t] \in {"close", "open_incoming", "opening_incoming"} /\ ~Chosen(t)
    BY DEF Orderly, ListenerOrder, ListenerIds
  <2>3. ListenerIds'
    BY <1>1, <1>3, <2>2
       DEF Orderly, ListenerOrder, ListenerIds, Fifos, Asking, Chosen, databaseVars
  <2> QED BY <2>1, <2>3 DEF ListenerOrder
<1>4. CASE open_incoming(s)
  <2>1. /\ spc[s] = "open_incoming" /\ spc' = [spc EXCEPT ![s] = "opening_incoming"]
        /\ incoming' = [incoming EXCEPT ![s] = OpenReader(@, s)]
        /\ UNCHANGED <<listener, linked, outgoing, reply, databaseVars>>
    BY <1>4 DEF open_incoming, SessionAt
  <2>2. incoming'[s] = OpenReader(incoming[s], s) /\ outgoing'[s] = outgoing[s]
    BY <1>1, <2>1 DEF Fifos
  <2>3. /\ incoming'[s].readers = incoming[s].readers \cup {s}
        /\ incoming'[s].writers = incoming[s].writers
        /\ incoming'[s].waiting =
             (incoming[s].waiting \ incoming[s].writers)
               \cup IF incoming[s].writers = {} THEN {s} ELSE {}
        /\ incoming'[s].data = incoming[s].data
    BY <1>1, <2>2, OpenFields DEF Fifos
  <2>4. SessionOrder(s)'
    BY <1>1, <1>2, <2>1, <2>2, <2>3
       DEF SessionOrder, InStep, PairOrder, DataOrder, HasPair, With, Fifos,
           databaseVars, Chosen
  <2>5. ListenerOrder'
    BY <1>3, <2>1 DEF SessionPC
  <2> QED BY <1>1, <2>1, <2>4, <2>5, OneSessionOrder DEF Fifos
<1>5. CASE open_outgoing(s)
  <2>1. /\ spc[s] = "opening_incoming" /\ spc' = [spc EXCEPT ![s] = "opening_outgoing"]
        /\ outgoing' = [outgoing EXCEPT ![s] = OpenWriter(@, s)]
        /\ s \notin incoming[s].waiting
        /\ UNCHANGED <<listener, linked, incoming, reply, databaseVars>>
    BY <1>5 DEF open_outgoing, SessionAt, Opened
  <2>2. outgoing'[s] = OpenWriter(outgoing[s], s) /\ incoming'[s] = incoming[s]
    BY <1>1, <2>1 DEF Fifos
  <2>3. /\ outgoing'[s].readers = outgoing[s].readers
        /\ outgoing'[s].writers = outgoing[s].writers \cup {s}
        /\ outgoing'[s].waiting =
             (outgoing[s].waiting \ outgoing[s].readers)
               \cup IF outgoing[s].readers = {} THEN {s} ELSE {}
        /\ outgoing'[s].data = outgoing[s].data
    BY <1>1, <2>2, OpenFields DEF Fifos
  <2>4. With(s, {"opening_incoming", "opening_outgoing"})
    BY <1>2, <2>1 DEF PairOrder, InStep, HasPair, With
  <2>5. SessionOrder(s)'
    BY <1>1, <1>2, <2>1, <2>2, <2>3, <2>4
       DEF SessionOrder, InStep, PairOrder, DataOrder, HasPair, With, Fifos,
           databaseVars, Chosen
  <2>6. ListenerOrder'
    BY <1>3, <2>1, <2>4 DEF SessionPC, With, Chosen
  <2> QED BY <1>1, <2>1, <2>5, <2>6, OneSessionOrder DEF Fifos
<1>6. CASE send_request(s)
  <2>1. /\ spc[s] = "opening_outgoing" /\ s \notin outgoing[s].waiting
        /\ UNCHANGED <<reply, databaseVars>>
    BY <1>6 DEF send_request, SessionAt, Opened
  <2>2. With(s, {"opening_outgoing"}) /\ ~WriteBreaks(outgoing[s], s)
    BY <2>1, RequestIsAwaited
  <2>3. /\ spc' = [spc EXCEPT ![s] = "receive"]
        /\ outgoing' = [outgoing EXCEPT ![s] = Write(@, s)]
        /\ UNCHANGED <<listener, linked, incoming>>
    BY <1>6, <2>2 DEF send_request, SessionAt
  <2>4. outgoing'[s] = Write(outgoing[s], s) /\ incoming'[s] = incoming[s]
    BY <1>1, <2>3 DEF Fifos
  <2>5. /\ outgoing'[s].readers = outgoing[s].readers
        /\ outgoing'[s].writers = outgoing[s].writers
        /\ outgoing'[s].waiting = outgoing[s].waiting
        /\ outgoing'[s].data = Append(outgoing[s].data, s)
    BY <1>1, <2>4, DataFields DEF Fifos
  <2>6. outgoing'[s].data # << >>
    <3>1. outgoing[s].data \in Seq({s}) /\ s \in {s}
      BY <1>1 DEF Fifos, FifoType
    <3> QED BY <2>5, <3>1, Queue
  <2>7. SessionOrder(s)'
    BY <1>1, <1>2, <2>1, <2>2, <2>3, <2>4, <2>5, <2>6
       DEF SessionOrder, InStep, PairOrder, DataOrder, HasPair, With, Fifos,
           databaseVars, Chosen
  <2>8. ListenerOrder'
    BY <1>3, <2>1, <2>2, <2>3 DEF SessionPC, With, Chosen
  <2> QED BY <1>1, <2>1, <2>3, <2>7, <2>8, OneSessionOrder DEF Fifos
<1>7. CASE receive_reply(s)
  <2>1. /\ spc[s] = "receive" /\ spc' = [spc EXCEPT ![s] = "idle"]
        /\ incoming' = [incoming EXCEPT ![s] = Close(IF HasData(@) THEN Consume(@) ELSE @, s)]
        /\ outgoing' = [outgoing EXCEPT ![s] = Close(@, s)]
        /\ UNCHANGED <<listener, linked, databaseVars>>
    BY <1>7 DEF receive_reply, SessionAt
  <2>2. HasData(incoming[s]) /\ incoming[s].data = <<s>> /\ ~Chosen(s)
    BY <1>2, <1>7, <2>1
       DEF receive_reply, InStep, PairOrder, DataOrder, HasPair, With, HasData, AtEnd
  <2>3. reply' = [reply EXCEPT ![s] = s]
    BY <1>7, <2>2 DEF receive_reply, HasData, AtEnd
  <2>4. /\ incoming'[s] = Close(Consume(incoming[s]), s)
        /\ outgoing'[s] = Close(outgoing[s], s)
    BY <1>1, <2>1, <2>2 DEF Fifos
  <2>5. /\ Consume(incoming[s]) \in FifoType(Processes, {s, Garbage})
        /\ Consume(incoming[s]).readers = incoming[s].readers
        /\ Consume(incoming[s]).writers = incoming[s].writers
        /\ Consume(incoming[s]).data = << >>
    <3>1. /\ Consume(incoming[s]).readers = incoming[s].readers
          /\ Consume(incoming[s]).writers = incoming[s].writers
          /\ Consume(incoming[s]).data = Tail(incoming[s].data)
      BY <1>1, DataFields DEF Fifos
    <3>2. Consume(incoming[s]) \in FifoType(Processes, {s, Garbage})
      BY <1>1, <2>2, FifoTypes DEF Fifos
    <3>3. Tail(<<s>>) = << >>
      OBVIOUS
    <3> QED BY <2>2, <3>1, <3>2, <3>3
  <2>6. /\ incoming'[s].readers = incoming[s].readers \ {s}
        /\ incoming'[s].writers = incoming[s].writers \ {s}
        /\ incoming'[s].data = << >>
        /\ outgoing'[s].readers = outgoing[s].readers \ {s}
        /\ outgoing'[s].writers = outgoing[s].writers \ {s}
    BY <1>1, <2>4, <2>5, CloseFields DEF Fifos
  <2>7. reply'[s] # Garbage
    BY <2>3, RendezvousAssumption DEF AnswersAreOwn, TypeOK
  <2>10. /\ spc[s] = "receive" /\ spc'[s] = "idle"
         /\ dpc' = dpc /\ requester' = requester /\ data' = data
         /\ \A steps : With(s, steps)' = With(s, steps)
    BY <1>1, <1>7, <2>1 DEF receive_reply, SessionAt, Fifos, databaseVars, With
  <2>11. ~With(s, {"opening_outgoing", "send", "opening_incoming"})
    BY <2>2 DEF Chosen, With
  <2>12. InStep(s)'
    BY <1>2, <2>2, <2>10, <2>11 DEF InStep, With, Chosen
  <2>15. DB # s
    BY RendezvousAssumption
  <2>16. /\ HasPair(s, {"opening_incoming", "opening_outgoing", "send"})'
              <=> HasPair(s, {"opening_incoming", "opening_outgoing", "send"})
         /\ HasPair(s, {"opening_outgoing", "send"})'
              <=> HasPair(s, {"opening_outgoing", "send"})
    BY <2>10, <2>11 DEF HasPair, With
  <2>13. PairOrder(s)'
    BY <1>2, <2>6, <2>10, <2>11, <2>15, <2>16 DEF PairOrder, With
  <2>14. DataOrder(s)'
    BY <1>2, <2>6, <2>7, <2>10, <2>11 DEF DataOrder, With
  <2>8. SessionOrder(s)'
    BY <2>12, <2>13, <2>14 DEF SessionOrder
  <2>9. ListenerOrder'
    BY <1>3, <2>1 DEF SessionPC
  <2> QED BY <1>1, <2>1, <2>3, <2>8, <2>9, OneSessionOrder DEF Fifos, AnswersAreOwn, TypeOK
<1> QED BY <1>4, <1>5, <1>6, <1>7

\* A step of the database at the pair of the session it serves.
LEMMA ServedOrder ==
  ASSUME AnswersAreOwn, Orderly, NEW s \in Sessions, requester = s, requester' = s,
         dpc \notin Listening, SessionOrder(s)',
         \A t \in Sessions \ {s} :
           incoming'[t] = incoming[t] /\ outgoing'[t] = outgoing[t],
         UNCHANGED <<listener, linked, starts, sessionVars>>,
         dpc \notin {"accepting", "close"}, dpc' \notin {"accepting", "close", "mknod"},
         Chosen(s)' = Chosen(s) \/ spc[s] = "receive"
  PROVE  Orderly'
PROOF
<1>1. ASSUME NEW t \in Sessions \ {s}
      PROVE  SessionOrder(t)'
  <2>1. ~Chosen(t) /\ ~Chosen(t)' /\ \A steps : ~With(t, steps) /\ ~With(t, steps)'
    BY DEF Chosen, With
  <2> QED
    BY <2>1
       DEF Orderly, SessionOrder, InStep, PairOrder, DataOrder, HasPair, sessionVars
<1>2. ListenerUsers'
  BY DEF Orderly, ListenerOrder, ListenerUsers, sessionVars
<1>3. \A t \in Sessions : spc[t] # "receive" => Chosen(t)' = Chosen(t)
  BY DEF Chosen
<1>4. listener.data \in Seq(Sessions)
  BY DEF AnswersAreOwn, TypeOK, FifoType
<1>5. ListenerIds'
  BY <1>3, <1>4 DEF Orderly, ListenerOrder, ListenerIds, sessionVars, Asking, Range
<1> QED BY <1>1, <1>2, <1>5 DEF Orderly, ListenerOrder

\* The steps of the database at the listening FIFO.
LEMMA AcceptOrder ==
  ASSUME AnswersAreOwn, Orderly, accept_open \/ accept_read \/ accept_close
  PROVE  Orderly'
PROOF
<1>1. /\ listener \in FifoType(Processes, Sessions)
      /\ listener.data \in Seq(Sessions)
      /\ listener.readers = IF dpc \in {"accepting", "close"} THEN {DB} ELSE {}
      /\ listener.writers = {t \in Sessions : spc[t] \in {"opening", "write", "close"}}
      /\ \A t \in Range(listener.data) : t \in Sessions
      /\ spc \in [Sessions -> SessionPC]
  BY Queue DEF AnswersAreOwn, TypeOK, Orderly, ListenerOrder, ListenerUsers, FifoType, Range
<1>2. CASE accept_open
  <2>1. /\ dpc = "accept" /\ dpc' = "accepting"
        /\ listener' = OpenReader(listener, DB)
        /\ UNCHANGED <<linked, incoming, outgoing, requester, data, starts, sessionVars>>
    BY <1>2 DEF accept_open, DatabaseAt
  <2>2. /\ listener'.readers = listener.readers \cup {DB}
        /\ listener'.writers = listener.writers
        /\ listener'.waiting =
             (listener.waiting \ listener.writers)
               \cup IF listener.writers = {} THEN {DB} ELSE {}
        /\ listener'.data = listener.data
    BY <1>1, <2>1, OpenFields
  <2>3. ListenerUsers'
    BY <1>1, <2>1, <2>2, RendezvousAssumption
       DEF Orderly, ListenerOrder, ListenerUsers, sessionVars
  <2>4. ListenerIds'
    BY <1>1, <2>1, <2>2
       DEF Orderly, ListenerOrder, ListenerIds, sessionVars, Asking, Chosen
  <2>5. ASSUME NEW t \in Sessions
        PROVE  SessionOrder(t)'
    BY <2>1
       DEF Orderly, SessionOrder, InStep, PairOrder, DataOrder, HasPair, With, Chosen,
           sessionVars
  <2> QED BY <2>1, <2>3, <2>4, <2>5 DEF Orderly, ListenerOrder, Listening
<1>3. CASE accept_read
  <2>1. /\ dpc = "accepting" /\ dpc' = "close" /\ DB \notin listener.waiting
        /\ UNCHANGED <<linked, incoming, outgoing, data, starts, sessionVars>>
    BY <1>3 DEF accept_read, DatabaseAt, Opened
  <2>2. HasData(listener)
    <3>1. SUFFICES ASSUME listener.data = << >>
                   PROVE  listener.writers # {}
      BY <1>3 DEF accept_read, HasData, AtEnd
    <3> QED BY <2>1, <3>1 DEF Orderly, ListenerOrder, ListenerUsers
  <2>3. requester' = Head(listener.data) /\ listener' = Consume(listener)
    BY <1>3, <2>2 DEF accept_read, HasData, AtEnd
  <2>4. /\ listener'.readers = listener.readers /\ listener'.writers = listener.writers
        /\ listener'.waiting = listener.waiting
        /\ listener'.data = Tail(listener.data)
    BY <1>1, <2>3, DataFields
  <2>5. /\ requester' \in Sessions
        /\ Range(listener.data) = Range(listener'.data) \cup {requester'}
        /\ IsInjective(listener'.data) /\ requester' \notin Range(listener'.data)
    BY <1>1, <2>2, <2>3, <2>4, Queue DEF Orderly, ListenerOrder, ListenerIds, HasData
  <2>6. ListenerUsers'
    BY <1>1, <2>1, <2>4 DEF Orderly, ListenerOrder, ListenerUsers, sessionVars
  <2>7. ListenerIds'
    BY <1>1, <2>1, <2>5
       DEF Orderly, ListenerOrder, ListenerIds, sessionVars, Asking, Chosen
  <2>8. spc[requester'] \in {"close", "open_incoming", "opening_incoming"}
    BY <2>5 DEF Orderly, ListenerOrder, ListenerIds
  <2>9. ASSUME NEW t \in Sessions
        PROVE  SessionOrder(t)'
    <3>1. /\ \A steps : dpc \notin steps => ~With(t, steps)
          /\ \A steps : "close" \notin steps => ~With(t, steps)'
          /\ ~Chosen(t) /\ (Chosen(t)' => t = requester')
      BY <2>1 DEF With, Chosen
    <3>2. InStep(t)'
      BY <2>1, <2>8, <3>1 DEF Orderly, SessionOrder, InStep, sessionVars, With
    <3>3. PairOrder(t)'
      BY <2>1, <3>1 DEF Orderly, SessionOrder, PairOrder, HasPair, sessionVars
    <3>4. DataOrder(t)'
      BY <2>1, <2>8, <3>1 DEF Orderly, SessionOrder, DataOrder, sessionVars
    <3> QED BY <3>2, <3>3, <3>4 DEF SessionOrder
  <2> QED BY <2>5, <2>6, <2>7, <2>9 DEF Orderly, ListenerOrder
<1>4. CASE accept_close
  <2>1. /\ dpc = "close" /\ dpc' = "open_incoming" /\ listener' = Close(listener, DB)
        /\ UNCHANGED <<linked, incoming, outgoing, requester, data, starts, sessionVars>>
    BY <1>4 DEF accept_close, DatabaseAt
  <2>2. /\ listener'.readers = listener.readers \ {DB}
        /\ listener'.writers = listener.writers \ {DB}
        /\ listener'.waiting = listener.waiting \ {DB}
        /\ listener'.data =
             IF (listener.readers \cup listener.writers) \ {DB} = {} THEN << >>
             ELSE listener.data
    BY <1>1, <2>1, CloseFields
  <2>3. /\ listener'.readers = {} /\ listener'.writers = listener.writers
        /\ listener'.data = IF listener.writers = {} THEN << >> ELSE listener.data
    BY <1>1, <2>1, <2>2, RendezvousAssumption
  <2>4. /\ Range(listener'.data) \subseteq Range(listener.data)
        /\ IsInjective(listener'.data)
    BY <1>1, <2>3, Queue DEF Orderly, ListenerOrder, ListenerIds
  <2>5. ListenerUsers'
    BY <1>1, <2>1, <2>2, <2>3 DEF Orderly, ListenerOrder, ListenerUsers, sessionVars
  <2>6. ListenerIds'
    BY <1>1, <2>1, <2>3, <2>4
       DEF Orderly, ListenerOrder, ListenerIds, sessionVars, Asking, Chosen
  <2>7. ASSUME NEW t \in Sessions
        PROVE  SessionOrder(t)'
    BY <2>1
       DEF Orderly, SessionOrder, InStep, PairOrder, DataOrder, HasPair, With, Chosen,
           sessionVars
  <2> QED BY <2>1, <2>5, <2>6, <2>7 DEF Orderly, ListenerOrder, Listening
<1> QED BY <1>2, <1>3, <1>4

\* The steps of the database at the pair of the session it serves.
LEMMA ServeOrder ==
  ASSUME AnswersAreOwn, Orderly, Faultless',
         accept_incoming \/ accept_outgoing \/ receive_request \/ send_reply \/ disconnect
  PROVE  Orderly'
PROOF
<1>1. dpc' # "down" /\ ~EndDatabase
  BY DEF Faultless, EndDatabase
<1>2. dpc \notin Listening
  BY DEF accept_incoming, accept_outgoing, receive_request, send_reply, disconnect,
         DatabaseAt, Listening
<1>3. PICK s \in Sessions : s = requester
  BY <1>2 DEF Orderly
<1>4. Fifos(s)
  BY FifosAre
<1>5. InStep(s) /\ PairOrder(s) /\ DataOrder(s)
  BY DEF Orderly, SessionOrder
<1> USE DEF With, HasPair, Chosen
<1>6. CASE accept_incoming
  <2>1. /\ dpc = "open_incoming" /\ dpc' = "opening_incoming"
        /\ incoming' = [incoming EXCEPT ![s] = OpenWriter(@, DB)]
        /\ UNCHANGED <<listener, linked, outgoing, requester, data, starts, sessionVars>>
    BY <1>1, <1>3, <1>6 DEF accept_incoming, DatabaseAt
  <2>2. incoming'[s] = OpenWriter(incoming[s], DB) /\ outgoing'[s] = outgoing[s]
    BY <1>4, <2>1 DEF Fifos
  <2>3. /\ incoming'[s].readers = incoming[s].readers
        /\ incoming'[s].writers = incoming[s].writers \cup {DB}
        /\ incoming'[s].waiting =
             (incoming[s].waiting \ incoming[s].readers)
               \cup IF incoming[s].readers = {} THEN {DB} ELSE {}
        /\ incoming'[s].data = incoming[s].data
    BY <1>4, <2>2, OpenFields DEF Fifos
  <2>4. SessionOrder(s)'
    BY <1>3, <1>4, <1>5, <2>1, <2>2, <2>3
       DEF SessionOrder, InStep, PairOrder, DataOrder, sessionVars
  <2> QED BY <1>2, <1>3, <1>4, <2>1, <2>4, ServedOrder DEF Fifos
<1>7. CASE accept_outgoing
  <2>1. /\ dpc = "opening_incoming" /\ dpc' = "opening_outgoing"
        /\ DB \notin incoming[s].waiting
        /\ outgoing' = [outgoing EXCEPT ![s] = OpenReader(@, DB)]
        /\ UNCHANGED <<listener, linked, incoming, requester, data, starts, sessionVars>>
    BY <1>3, <1>7 DEF accept_outgoing, Opened
  <2>2. outgoing'[s] = OpenReader(outgoing[s], DB) /\ incoming'[s] = incoming[s]
    BY <1>4, <2>1 DEF Fifos
  <2>3. /\ outgoing'[s].readers = outgoing[s].readers \cup {DB}
        /\ outgoing'[s].writers = outgoing[s].writers
        /\ outgoing'[s].waiting =
             (outgoing[s].waiting \ outgoing[s].writers)
               \cup IF outgoing[s].writers = {} THEN {DB} ELSE {}
        /\ outgoing'[s].data = outgoing[s].data
    BY <1>4, <2>2, OpenFields DEF Fifos
  <2>4. spc[s] \in {"opening_incoming", "opening_outgoing"}
    BY <1>3, <1>5, <2>1 DEF InStep, PairOrder
  <2>5. SessionOrder(s)'
    BY <1>3, <1>4, <1>5, <2>1, <2>2, <2>3, <2>4
       DEF SessionOrder, InStep, PairOrder, DataOrder, sessionVars
  <2> QED BY <1>2, <1>3, <1>4, <2>1, <2>5, ServedOrder DEF Fifos
<1>8. CASE receive_request
  <2>1. /\ dpc = "opening_outgoing" /\ dpc' = "send" /\ DB \notin outgoing[s].waiting
        /\ UNCHANGED <<listener, linked, incoming, requester, starts, sessionVars>>
    BY <1>3, <1>8 DEF receive_request, Opened
  <2>2. HasData(outgoing[s])
    BY <1>3, <1>5, <1>8, <2>1 DEF receive_request, PairOrder, HasData, AtEnd
  <2>3. /\ data' = Head(outgoing[s].data)
        /\ outgoing' = [outgoing EXCEPT ![s] = Consume(@)]
    BY <1>3, <1>8, <2>2 DEF receive_request, HasData, AtEnd
  <2>4. outgoing'[s] = Consume(outgoing[s]) /\ incoming'[s] = incoming[s]
    BY <1>4, <2>1, <2>3 DEF Fifos
  <2>5. /\ outgoing'[s].readers = outgoing[s].readers
        /\ outgoing'[s].writers = outgoing[s].writers
    BY <1>4, <2>4, DataFields DEF Fifos
  <2>6. Head(outgoing[s].data) \in {s}
    BY <1>4, <2>2, FifoTypes DEF Fifos
  <2>7. spc[s] = "receive"
    <3>1. outgoing[s].data # << >> /\ spc[s] \in {"opening_outgoing", "receive"}
      BY <1>3, <1>5, <2>1, <2>2 DEF InStep, PairOrder, HasData
    <3> QED BY <1>3, <1>5, <2>1, <3>1 DEF DataOrder
  <2>8. SessionOrder(s)'
    BY <1>3, <1>4, <1>5, <2>1, <2>3, <2>4, <2>5, <2>6, <2>7
       DEF SessionOrder, InStep, PairOrder, DataOrder, sessionVars
  <2> QED BY <1>2, <1>3, <1>4, <2>1, <2>3, <2>8, ServedOrder DEF Fifos
<1>9. CASE send_reply
  <2>1. /\ dpc = "send" /\ dpc' = "disconnect"
        /\ incoming' = [incoming EXCEPT ![s] = Write(@, data)]
        /\ UNCHANGED <<listener, linked, outgoing, requester, data, starts, sessionVars>>
    BY <1>1, <1>3, <1>9 DEF send_reply
  <2>2. incoming'[s] = Write(incoming[s], s) /\ outgoing'[s] = outgoing[s]
    BY <1>3, <1>4, <1>5, <2>1 DEF Fifos, DataOrder
  <2>3. /\ incoming'[s].readers = incoming[s].readers
        /\ incoming'[s].writers = incoming[s].writers
        /\ incoming'[s].waiting = incoming[s].waiting
        /\ incoming'[s].data = Append(incoming[s].data, s)
    BY <1>4, <2>2, DataFields DEF Fifos
  <2>4. incoming[s].data = << >> /\ spc[s] = "receive"
    BY <1>3, <1>5, <2>1 DEF DataOrder, InStep
  <2>5. incoming'[s].data = <<s>> /\ <<s>> # << >>
    BY <2>3, <2>4
  <2>6. SessionOrder(s)'
    BY <1>3, <1>4, <1>5, <2>1, <2>2, <2>3, <2>4, <2>5
       DEF SessionOrder, InStep, PairOrder, DataOrder, sessionVars
  <2> QED BY <1>2, <1>3, <1>4, <2>1, <2>4, <2>6, ServedOrder DEF Fifos
<1>10. CASE disconnect
  <2>1. /\ dpc = "disconnect" /\ dpc' = "accept"
        /\ incoming' = [incoming EXCEPT ![s] = Close(@, DB)]
        /\ outgoing' = [outgoing EXCEPT ![s] = Close(@, DB)]
        /\ UNCHANGED <<listener, linked, requester, data, starts, sessionVars>>
    BY <1>3, <1>10 DEF disconnect, DatabaseAt
  <2>2. incoming'[s] = Close(incoming[s], DB) /\ outgoing'[s] = Close(outgoing[s], DB)
    BY <1>4, <2>1 DEF Fifos
  <2>3. /\ incoming'[s].readers = incoming[s].readers \ {DB}
        /\ incoming'[s].writers = incoming[s].writers \ {DB}
        /\ incoming'[s].waiting = incoming[s].waiting \ {DB}
        /\ incoming'[s].data =
             IF (incoming[s].readers \cup incoming[s].writers) \ {DB} = {} THEN << >>
             ELSE incoming[s].data
        /\ outgoing'[s].readers = outgoing[s].readers \ {DB}
        /\ outgoing'[s].writers = outgoing[s].writers \ {DB}
        /\ outgoing'[s].waiting = outgoing[s].waiting \ {DB}
        /\ outgoing'[s].data \in {<< >>, outgoing[s].data}
    BY <1>4, <2>2, CloseFields DEF Fifos
  <2>4. PairOrder(s)'
    <3>1. /\ spc'[s] = spc[s] /\ spc[s] # "opening_outgoing"
          /\ spc[s] = "opening_incoming" => s \in incoming[s].waiting
      BY <1>3, <1>5, <2>1 DEF InStep, PairOrder, sessionVars
    <3>2. /\ incoming[s].writers \subseteq {DB} /\ outgoing[s].readers \subseteq {DB}
          /\ incoming[s].readers \subseteq {s} /\ outgoing[s].writers \subseteq {s}
      BY <1>5 DEF PairOrder
    <3>3. /\ incoming'[s].writers = {} /\ outgoing'[s].readers = {}
          /\ incoming'[s].readers = incoming[s].readers
          /\ outgoing'[s].writers = outgoing[s].writers
          /\ s \in incoming[s].waiting => s \in incoming'[s].waiting
      BY <1>4, <2>3, <3>2 DEF Fifos
    <3> QED BY <1>5, <2>1, <3>1, <3>3 DEF PairOrder
  <2>5. /\ incoming'[s].data \in {<< >>, incoming[s].data}
        /\ spc[s] = "receive" => incoming'[s].data = incoming[s].data
        /\ outgoing'[s].data \in {<< >>, outgoing[s].data}
    BY <1>4, <1>5, <2>3 DEF Fifos, PairOrder
  <2>6. InStep(s)' /\ DataOrder(s)'
    BY <1>3, <1>5, <2>1, <2>5 DEF InStep, DataOrder, sessionVars
  <2>7. SessionOrder(s)'
    BY <2>4, <2>6 DEF SessionOrder
  <2> QED BY <1>2, <1>3, <1>4, <2>1, <2>7, ServedOrder DEF Fifos
<1> QED BY <1>6, <1>7, <1>8, <1>9, <1>10

\* Every step before the first fault keeps Orderly.
LEMMA OrderStep ==
  ASSUME AnswersAreOwn, Orderly, Next, Faultless'
  PROVE  Orderly'
PROOF
<1>1. ASSUME NEW s \in Sessions, make_fifos(s) \/ SessionStep(s)
      PROVE  Orderly'
  BY <1>1, MakeFifosOrder, ListenerStepOrder, PairStepOrder DEF SessionStep
<1>2. ASSUME NEW s \in Sessions, srv_sigRutine(s)
      PROVE  FALSE
  BY <1>2 DEF srv_sigRutine, EndSession, Faultless, Interrupted, AnswersAreOwn, TypeOK
<1>3. ~unlink_listener /\ ~kill_database /\ ~mknod_listener
  BY FaultsStay
     DEF unlink_listener, kill_database, EndDatabase, mknod_listener, DatabaseAt, Orderly,
         ListenerOrder, ListenerUsers
<1>4. DatabaseStep => Orderly'
  BY <1>3, AcceptOrder, ServeOrder DEF DatabaseStep
<1> QED BY <1>1, <1>2, <1>3, <1>4 DEF Next

-----------------------------------------------------------------------------
(* The handshake: the invariant, and what the sessions read.                *)

\* Nobody has asked yet.
LEMMA HandshakeInit == MCInit => HandshakeInvariant
PROOF
<1> SUFFICES ASSUME MCInit
             PROVE  HandshakeInvariant
  OBVIOUS
<1>1. Init
  BY DEF MCInit
<1>2. /\ NewFifo \in FifoType(Processes, Sessions)
      /\ \A s \in Sessions : /\ NewFifo \in FifoType(Processes, {s, Garbage})
                             /\ NewFifo \in FifoType(Processes, {s})
      /\ NewFifo \in FifoType(Processes, Sessions \cup {Garbage})
      /\ NewFifo.readers = {} /\ NewFifo.writers = {} /\ NewFifo.data = << >>
      /\ NewFifo.waiting = {}
  <2>1. \A M : << >> \in Seq(M)
    OBVIOUS
  <2> QED BY <2>1 DEF NewFifo, FifoType
<1>3. TypeOK
  BY <1>1, <1>2, RendezvousAssumption DEF Init, TypeOK, SessionPC, DatabasePC
<1>4. \A s \in Sessions : Answers(s)
  BY <1>1, <1>2 DEF Init, Answers, With
<1>5. \A s \in Sessions : SessionOrder(s)
  BY <1>1, <1>2, RendezvousAssumption
     DEF Init, SessionOrder, InStep, PairOrder, DataOrder, HasPair, With, Chosen
<1>6. ListenerOrder
  <2>1. Range(<< >>) = {} /\ IsInjective(<< >>)
    BY DEF Range, IsInjective
  <2> QED
    BY <1>1, <1>2, <2>1 DEF Init, ListenerOrder, ListenerUsers, ListenerIds
<1> QED
  BY <1>1, <1>3, <1>4, <1>5, <1>6
     DEF Init, HandshakeInvariant, AnswersAreOwn, Orderly, Connecting, Listening

\* Every step keeps the invariant, faults included.
LEMMA HandshakeStep ==
  ASSUME HandshakeInvariant, [MCNext]_allVars
  PROVE  HandshakeInvariant'
PROOF
<1>1. CASE Next
  <2>1. AnswersAreOwn'
    BY <1>1, SessionStepAnswers, DatabaseStepAnswers DEF Next, HandshakeInvariant
  <2>2. Faultless' => Orderly'
    BY <1>1, FaultsStay, OrderStep DEF HandshakeInvariant
  <2> QED BY <2>1, <2>2 DEF HandshakeInvariant
<1>2. CASE UNCHANGED vars
  <2>1. /\ UNCHANGED <<listener, linked, incoming, outgoing, spc, dpc, requester>>
        /\ UNCHANGED <<data, reply, starts, raced>>
    BY <1>2 DEF vars, fifos, sessionVars, databaseVars
  <2>2. AnswersAreOwn' = AnswersAreOwn
    BY <2>1 DEF AnswersAreOwn, TypeOK, Answers, With
  <2>3. (Faultless => Orderly)' = (Faultless => Orderly)
    <3>1. ListenerOrder' = ListenerOrder
      BY <2>1 DEF ListenerOrder, ListenerUsers, ListenerIds, Asking, Chosen
    <3>2. \A s \in Sessions : SessionOrder(s)' = SessionOrder(s)
      BY <2>1 DEF SessionOrder, InStep, PairOrder, DataOrder, HasPair, With, Chosen
    <3> QED BY <2>1, <3>1, <3>2 DEF Orderly, Faultless, Interrupted
  <2> QED BY <2>2, <2>3 DEF HandshakeInvariant
<1> QED BY <1>1, <1>2, MCStep

\* What is written into a session's pair of FIFOs is its own, and up to the first
\* fault the database and the session it serves go through the handshake in step.
THEOREM HandshakeInvariantHolds == MCSpec => []HandshakeInvariant
BY HandshakeInit, HandshakeStep, PTL DEF MCSpec

\* Every session reads the answer to its own request, however sessions interleave,
\* and end-of-file for an answer only after a fault.
THEOREM AnswersAreOwnAnswers == MCSpec => []AnswerIsOwn
PROOF
<1>1. HandshakeInvariant => AnswerIsOwn
  <2> SUFFICES ASSUME HandshakeInvariant, NEW s \in Sessions, reply[s] # NoSession,
                      reply[s] # s
               PROVE  reply[s] = Garbage /\ (Interrupted \/ dpc = "down" \/ starts > 1)
    BY DEF AnswerIsOwn
  <2>1. reply[s] = Garbage
    BY DEF HandshakeInvariant, AnswersAreOwn, Answers
  <2>2. ~Faultless
    BY <2>1 DEF HandshakeInvariant, Orderly, SessionOrder, DataOrder
  <2>3. starts \in Nat \ {0}
    BY RendezvousAssumption DEF HandshakeInvariant, AnswersAreOwn, TypeOK
  <2> QED BY <2>1, <2>2, <2>3 DEF Faultless
<1> QED BY <1>1, HandshakeInvariantHolds, PTL

-----------------------------------------------------------------------------
(* The handshake implements Rendezvous: what a step means there.            *)

\* A session asks, has been met, or neither.
LEMMA StateIs ==
  ASSUME Orderly, NEW s \in Sessions
  PROVE  /\ Asking(s) => StateOf(s) = "asking" /\ ~Met(s)
         /\ Met(s) => StateOf(s) = "met"
         /\ spc[s] \in {"idle", "open"} => StateOf(s) = "idle" /\ ~Asking(s) /\ ~Met(s)
         /\ StateOf(s) = "asking" <=> Asking(s)
         /\ StateOf(s) = "met" <=> Met(s)
PROOF
<1>1. Asking(s) => ~Met(s)
  BY DEF Orderly, ListenerOrder, ListenerIds, Asking, Met
<1>2. Asking(s) \/ Met(s) => spc[s] \notin {"idle", "open", "exit"}
  BY DEF Asking, Met
<1> QED BY <1>1, <1>2 DEF StateOf

\* The same after a step.
LEMMA StateWillBe ==
  ASSUME Orderly', NEW s \in Sessions
  PROVE  /\ Asking(s)' => StateOf(s)' = "asking" /\ ~Met(s)'
         /\ Met(s)' => StateOf(s)' = "met"
         /\ spc'[s] \in {"idle", "open"} => StateOf(s)' = "idle" /\ ~Asking(s)' /\ ~Met(s)'
PROOF
<1>1. Asking(s)' => ~Met(s)'
  BY DEF Orderly, ListenerOrder, ListenerIds, Asking, Met
<1>2. Asking(s)' \/ Met(s)' => spc'[s] \notin {"idle", "open", "exit"}
  BY DEF Asking, Met
<1> QED BY <1>1, <1>2 DEF StateOf

\* What a session's state depends on.
LEMMA SameState ==
  ASSUME NEW s \in Sessions, spc'[s] = spc[s], Chosen(s)' = Chosen(s),
         s \in Range(listener'.data) <=> s \in Range(listener.data)
  PROVE  /\ (Asking(s)' <=> Asking(s)) /\ (Met(s)' <=> Met(s))
         /\ StateOf(s)' = StateOf(s)
PROOF
<1>1. (Asking(s)' <=> Asking(s)) /\ (Met(s)' <=> Met(s))
  BY DEF Asking, Met
<1> QED BY <1>1 DEF StateOf

\* A step in which nobody begins to compete.
LEMMA RaceKept ==
  ASSUME RaceOrder, UNCHANGED raced,
         \A s \in Sessions : /\ Competing(s)' => Competing(s)
                             /\ Overtaken(s)' => raced[s]
  PROVE  RaceOrder'
BY DEF RaceOrder

Serving == IF dpc \in Listening THEN NoSession ELSE requester

\* A step in which sessions only lose their requests, or nothing happens.
LEMMA LoseStep ==
  ASSUME UNCHANGED raced, Serving' = Serving,
         \A s \in Sessions :
           \/ StateOf(s)' = StateOf(s)
           \/ StateOf(s) = "asking" /\ raced[s] /\ StateOf(s)' = "lost"
  PROVE  Abstract!Next
PROOF
<1> DEFINE R == {s \in Sessions : StateOf(s)' # StateOf(s)}
<1>1. /\ \A s \in R : StateOf(s) = "asking" /\ raced[s]
      /\ \A s \in Sessions : StateOf(s)' = IF s \in R THEN "lost" ELSE StateOf(s)
  OBVIOUS
<1>2. R \in SUBSET Sessions
  OBVIOUS
<1> HIDE DEF R
<1>3. Abstract!Lose(R)
  BY <1>1, <1>2 DEF Abstract!Lose, Serving
<1> QED BY <1>2, <1>3 DEF Abstract!Next

\* The goal for one step.
Implemented == RaceOrder' /\ Abstract!Next

\* A step that changes neither the callers, the call served nor an answer stutters.
LEMMA QuietStep ==
  ASSUME RaceOrder, UNCHANGED raced, Serving' = Serving,
         \A s \in Sessions :
           /\ StateOf(s)' = StateOf(s)
           /\ (Asking(s)' <=> Asking(s)) /\ (Met(s)' <=> Met(s))
           /\ Overtaken(s)' => raced[s]
  PROVE  Implemented
BY RaceKept, LoseStep DEF Competing, Implemented

\* The steps of a session before it has asked, and after it has been met.
LEMMA SessionImplements ==
  ASSUME AnswersAreOwn, Orderly, Orderly', RaceOrder, NEW s \in Sessions,
         \/ make_fifos(s) \/ listener_opened(s) \/ open_incoming(s) \/ open_outgoing(s)
         \/ send_request(s) \/ (write_pid(s) /\ ~EndSession(s, "sigpipe"))
  PROVE  Implemented
PROOF
<1>1. Fifos(s) /\ listener.data \in Seq(Sessions)
  BY FifosAre DEF Fifos, FifoType
<1>2. /\ UNCHANGED <<raced, databaseVars>>
      /\ \A t \in Sessions \ {s} : spc'[t] = spc[t]
  BY <1>1
     DEF make_fifos, listener_opened, open_incoming, open_outgoing, send_request,
         write_pid, EndSession, SessionAt, Fifos, fifos
<1>3. Serving' = Serving /\ \A t \in Sessions : Chosen(t)' = Chosen(t)
  BY <1>2 DEF Serving, Chosen, databaseVars
<1>4. CASE write_pid(s) /\ ~EndSession(s, "sigpipe")
  <2>1. /\ spc[s] = "write" /\ spc'[s] = "close" /\ listener' = Write(listener, s)
        /\ listener.readers # {}
    BY <1>1, <1>4 DEF write_pid, SessionAt, Fifos, WriteBreaks
  <2>2. /\ listener'.readers = listener.readers
        /\ listener'.data = Append(listener.data, s)
    BY <1>1, <2>1, DataFields DEF Fifos
  <2>3. Range(listener'.data) = Range(listener.data) \cup {s}
    BY <1>1, <2>2, Queue
  <2>4. Asking(s) /\ Asking(s)'
    BY <2>1, <2>3 DEF Asking
  <2>5. \A t \in Sessions : /\ StateOf(t)' = StateOf(t) /\ (Asking(t)' <=> Asking(t))
                            /\ (Met(t)' <=> Met(t))
    <3>1. StateOf(s)' = StateOf(s) /\ (Met(s)' <=> Met(s))
      BY <2>4, StateIs, StateWillBe
    <3>2. ASSUME NEW t \in Sessions \ {s}
          PROVE  /\ StateOf(t)' = StateOf(t) /\ (Asking(t)' <=> Asking(t))
                 /\ (Met(t)' <=> Met(t))
      BY <1>2, <1>3, <2>3, SameState
    <3> QED BY <2>4, <3>1, <3>2
  <2> QED BY <1>2, <1>3, <2>1, <2>2, <2>5, QuietStep DEF Overtaken
<1>5. ASSUME \/ make_fifos(s) \/ listener_opened(s) \/ open_incoming(s)
             \/ open_outgoing(s) \/ send_request(s)
      PROVE  Implemented
  <2>0. /\ listener' = listener
        /\ \/ spc[s] = "idle" /\ spc'[s] = "open"
           \/ /\ spc[s] = "opening" /\ spc'[s] = "write"
              /\ s \notin listener.waiting
           \/ spc[s] = "open_incoming" /\ spc'[s] = "opening_incoming"
           \/ spc[s] = "opening_incoming" /\ spc'[s] = "opening_outgoing"
           \/ spc[s] = "opening_outgoing" /\ spc'[s] = "receive"
    <3>1. CASE send_request(s)
      <4>1. spc[s] = "opening_outgoing" /\ ~WriteBreaks(outgoing[s], s)
        BY <3>1, RequestIsAwaited DEF send_request, SessionAt, Opened
      <4> QED BY <1>1, <3>1, <4>1 DEF send_request, SessionAt, Fifos
    <3> QED
      BY <1>1, <1>5, <3>1
         DEF make_fifos, listener_opened, open_incoming, open_outgoing, SessionAt, Opened,
             fifos, Fifos
  <2>1. listener' = listener
    BY <2>0
  <2>2. /\ (Asking(s)' <=> Asking(s)) /\ (Met(s)' <=> Met(s)) /\ StateOf(s)' = StateOf(s)
        /\ Overtaken(s)' => Overtaken(s)
    <3>1. CASE spc'[s] = "opening_outgoing"
      <4>1. Chosen(s)
        BY <1>3, <3>1 DEF Orderly, SessionOrder, InStep, With, Chosen
      <4>2. s \notin Range(listener.data)
        BY <4>1 DEF Orderly, ListenerOrder, ListenerIds
      <4>3. ~Asking(s) /\ ~Asking(s)' /\ Met(s) /\ Met(s)'
        BY <2>0, <3>1, <4>1, <4>2 DEF Asking, Met
      <4> QED BY <4>3, StateIs, StateWillBe DEF Overtaken
    <3>2. CASE spc'[s] # "opening_outgoing"
      <4>1. (Asking(s)' <=> Asking(s)) /\ (Met(s)' <=> Met(s))
        BY <1>3, <2>0, <3>2 DEF Asking, Met
      <4>2. StateOf(s)' = StateOf(s)
        BY <2>0, <3>2, <4>1 DEF StateOf
      <4> QED BY <2>0, <3>2, <4>1, <4>2 DEF Overtaken
    <3> QED BY <3>1, <3>2
  <2>3. ASSUME NEW t \in Sessions \ {s}
        PROVE  /\ StateOf(t)' = StateOf(t) /\ (Asking(t)' <=> Asking(t))
               /\ (Met(t)' <=> Met(t)) /\ Overtaken(t)' = Overtaken(t)
    <3>1. /\ StateOf(t)' = StateOf(t) /\ (Asking(t)' <=> Asking(t)) /\ (Met(t)' <=> Met(t))
      BY <1>2, <1>3, <2>1, SameState
    <3> QED BY <1>2, <2>1, <3>1 DEF Overtaken
  <2> QED BY <1>2, <1>3, <2>2, <2>3, QuietStep DEF RaceOrder
<1> QED BY <1>4, <1>5

\* open_listener: the session asks, and it and its rivals overlap.
LEMMA AskImplements ==
  ASSUME AnswersAreOwn, Orderly, Orderly', RaceOrder, NEW s \in Sessions, open_listener(s)
  PROVE  Implemented
PROOF
<1> DEFINE rivals == {t \in Sessions \ {s} : Asking(t) \/ Met(t)}
<1>1. Fifos(s)
  BY FifosAre
<1>2. /\ spc[s] = "open" /\ spc' = [spc EXCEPT ![s] = "opening"]
      /\ listener' = OpenWriter(listener, s)
      /\ raced' = [t \in Sessions |-> IF t = s THEN rivals # {} ELSE raced[t] \/ t \in rivals]
      /\ UNCHANGED <<reply, databaseVars>>
  BY DEF open_listener, SessionAt, Orderly, ListenerOrder, ListenerUsers
<1>3. /\ listener'.readers = listener.readers
      /\ listener'.waiting =
           (listener.waiting \ listener.readers)
             \cup IF listener.readers = {} THEN {s} ELSE {}
      /\ listener'.data = listener.data
  BY <1>1, <1>2, OpenFields DEF Fifos
<1>4. /\ Serving' = Serving
      /\ \A t \in Sessions : Chosen(t)' = Chosen(t)
      /\ spc'[s] = "opening"
      /\ \A t \in Sessions \ {s} : spc'[t] = spc[t]
  BY <1>1, <1>2 DEF Serving, Chosen, databaseVars, Fifos
<1>5. \A t \in Sessions \ {s} : /\ Asking(t)' <=> Asking(t)
                                /\ Met(t)' <=> Met(t)
                                /\ StateOf(t)' = StateOf(t)
  BY <1>3, <1>4, SameState
<1>6. Asking(s)' /\ StateOf(s)' = "asking" /\ ~Asking(s) /\ ~Met(s) /\ StateOf(s) = "idle"
  <2>1. Asking(s)'
    BY <1>4 DEF Asking
  <2> QED BY <1>2, <2>1, StateIs, StateWillBe
<1>7. \A t \in Sessions : t \in rivals <=> t # s /\ StateOf(t) \in {"asking", "met"}
  BY StateIs
<1> HIDE DEF rivals
<1>8. Abstract!Next
  <2>1. rivals = {t \in Sessions \ {s} : StateOf(t) \in {"asking", "met"}}
    BY <1>7 DEF rivals
  <2>2. [t \in Sessions |-> StateOf(t)]' =
          [[t \in Sessions |-> StateOf(t)] EXCEPT ![s] = "asking"]
    BY <1>5, <1>6
  <2>3. Abstract!Ask(s)
    BY <1>2, <1>4, <1>6, <2>1, <2>2 DEF Abstract!Ask, Serving
  <2> QED BY <2>3 DEF Abstract!Next
<1>9. RaceOrder'
  <2>1. \A t \in Sessions \ {s} : raced[t] => raced'[t]
    BY <1>2
  <2>2. ASSUME NEW t \in Sessions
        PROVE  Overtaken(t)' => raced'[t]
    <3>1. CASE t = s
      BY <1>3, <1>4, <3>1 DEF Overtaken
    <3>2. CASE t # s
      BY <1>3, <1>4, <1>5, <2>1, <3>2 DEF Overtaken, RaceOrder
    <3> QED BY <3>1, <3>2
  <2>3. ASSUME NEW t \in Sessions, NEW u \in Sessions \ {t}, Competing(t)', Competing(u)'
        PROVE  raced'[t]
    <3>1. CASE t = s
      <4>1. u \in rivals
        BY <1>5, <2>3, <3>1 DEF Competing, rivals
      <4> QED BY <1>2, <3>1, <4>1
    <3>2. CASE u = s
      <4>1. t \in rivals
        BY <1>5, <2>3, <3>2 DEF Competing, rivals
      <4> QED BY <1>2, <3>2, <4>1
    <3>3. CASE t # s /\ u # s
      BY <1>5, <2>1, <2>3, <3>3 DEF Competing, RaceOrder
    <3> QED BY <3>1, <3>2, <3>3
  <2> QED BY <2>2, <2>3 DEF RaceOrder
<1> QED BY <1>8, <1>9 DEF Implemented

\* A session leaves the listening FIFO: after its process id, or of SIGPIPE.  As the
\* last one it takes the ids in it along.
LEMMA LeavingImplements ==
  ASSUME AnswersAreOwn, Orderly, Orderly', RaceOrder, NEW s \in Sessions,
         close_listener(s) \/ (write_pid(s) /\ EndSession(s, "sigpipe"))
  PROVE  Implemented
PROOF
<1>1. Fifos(s) /\ listener.data \in Seq(Sessions)
  BY FifosAre DEF Fifos, FifoType
<1>2. /\ \/ spc[s] = "close" /\ spc'[s] = "open_incoming"
         \/ spc[s] = "write" /\ spc'[s] = "sigpipe" /\ listener.readers = {}
      /\ listener' = Close(listener, s)
      /\ UNCHANGED <<raced, databaseVars>>
      /\ \A t \in Sessions \ {s} : spc'[t] = spc[t]
  <2>1. s \in listener.writers \/ spc[s] # "write"
    BY DEF Orderly, ListenerOrder, ListenerUsers
  <2> QED
    BY <1>1, <2>1 DEF close_listener, write_pid, EndSession, SessionAt, WriteBreaks, Fifos
<1>3. /\ listener'.readers = listener.readers \ {s}
      /\ listener'.waiting = listener.waiting \ {s}
      /\ listener'.data =
           IF (listener.readers \cup listener.writers) \ {s} = {} THEN << >>
           ELSE listener.data
  BY <1>1, <1>2, CloseFields DEF Fifos
<1>4. /\ listener'.readers = listener.readers
      /\ listener'.data \in {<< >>, listener.data}
      /\ listener'.data # listener.data => listener.readers = {}
  <2>1. listener.readers \subseteq {DB}
    BY DEF Orderly, ListenerOrder, ListenerUsers
  <2> QED BY <1>1, <1>3, <2>1 DEF Fifos
<1>5. Serving' = Serving /\ \A t \in Sessions : Chosen(t)' = Chosen(t)
  BY <1>2 DEF Serving, Chosen, databaseVars
<1>6. Range(<< >>) = {}
  BY DEF Range
<1>7. Competing(s) /\ (spc[s] = "write" => Asking(s))
  <2>1. spc[s] = "close" => Asking(s) \/ Chosen(s)
    BY DEF Orderly, ListenerOrder, ListenerIds
  <2> QED BY <1>2, <2>1 DEF Competing, Asking, Met
<1>8. ASSUME NEW t \in Sessions \ {s}
      PROVE  /\ \/ (Asking(t)' <=> Asking(t)) /\ StateOf(t)' = StateOf(t)
                \/ Asking(t) /\ ~Asking(t)' /\ StateOf(t)' = "lost"
             /\ Met(t)' <=> Met(t)
  <2>1. CASE t \in Range(listener'.data) <=> t \in Range(listener.data)
    BY <1>2, <1>5, <2>1, SameState
  <2>2. CASE ~(t \in Range(listener'.data) <=> t \in Range(listener.data))
    <3>1. /\ t \in Range(listener.data) /\ t \notin Range(listener'.data)
          /\ spc[t] \in {"close", "open_incoming", "opening_incoming"} /\ ~Chosen(t)
      BY <1>4, <1>6, <2>2 DEF Orderly, ListenerOrder, ListenerIds
    <3>2. Asking(t) /\ ~Asking(t)' /\ ~Met(t) /\ ~Met(t)'
      BY <1>2, <1>5, <3>1 DEF Asking, Met
    <3>3. StateOf(t)' = "lost"
      BY <1>2, <3>1, <3>2 DEF StateOf
    <3> QED BY <3>2, <3>3
  <2> QED BY <2>1, <2>2
<1>9. /\ \/ (Asking(s)' <=> Asking(s)) /\ StateOf(s)' = StateOf(s)
         \/ Asking(s) /\ ~Asking(s)' /\ StateOf(s)' = "lost" /\ raced[s]
      /\ Met(s)' <=> Met(s)
  <2>1. CASE Asking(s)' <=> Asking(s)
    <3>1. spc[s] = "close"
      BY <1>2, <1>7, <2>1 DEF Asking
    <3>2. Met(s)' <=> Met(s)
      BY <1>2, <1>5, <3>1 DEF Met
    <3> QED BY <1>2, <2>1, <3>1, <3>2 DEF StateOf
  <2>2. CASE ~(Asking(s)' <=> Asking(s))
    <3>1. Asking(s) /\ ~Asking(s)'
      BY <1>2, <1>4, <1>6, <1>7, <2>2 DEF Asking
    <3>2. listener.readers = {}
      BY <1>2, <1>4, <3>1 DEF Asking
    <3>3. raced[s]
      BY <1>2, <3>1, <3>2 DEF Overtaken, RaceOrder
    <3>4. ~Met(s) /\ ~Met(s)'
      <4>1. ~Met(s)
        BY <3>1, StateIs
      <4> QED BY <1>2, <1>5, <4>1 DEF Met
    <3>5. StateOf(s)' = "lost"
      BY <1>2, <3>1, <3>4 DEF StateOf
    <3> QED BY <3>1, <3>3, <3>4, <3>5
  <2> QED BY <2>1, <2>2
<1>10. ASSUME NEW t \in Sessions
       PROVE  Overtaken(t)' => raced[t]
  <2>1. CASE t = s
    BY <1>2, <2>1 DEF Overtaken
  <2>2. CASE t # s
    BY <1>2, <1>3, <1>4, <1>8, <2>2 DEF Overtaken, RaceOrder
  <2> QED BY <2>1, <2>2
<1>11. RaceOrder'
  BY <1>2, <1>8, <1>9, <1>10, RaceKept DEF Competing
<1>12. Abstract!Next
  <2>1. \A t \in Sessions \ {s} : Asking(t) => raced[t] /\ StateOf(t) = "asking"
    BY <1>7, StateIs DEF RaceOrder, Competing
  <2>2. Asking(s) => StateOf(s) = "asking"
    BY StateIs
  <2> QED BY <1>2, <1>5, <1>8, <1>9, <2>1, <2>2, LoseStep
<1> QED BY <1>11, <1>12 DEF Implemented

\* receive_reply: the session has its answer and leaves.
LEMMA LeaveImplements ==
  ASSUME AnswersAreOwn, Orderly, Orderly', RaceOrder, NEW s \in Sessions, receive_reply(s)
  PROVE  Implemented
PROOF
<1>1. Fifos(s)
  BY FifosAre
<1>2. /\ spc[s] = "receive" /\ spc'[s] = "idle" /\ listener' = listener
      /\ UNCHANGED <<raced, databaseVars>>
      /\ \A t \in Sessions \ {s} : spc'[t] = spc[t]
  BY <1>1 DEF receive_reply, SessionAt, Fifos
<1>3. Serving' = Serving /\ \A t \in Sessions : Chosen(t)' = Chosen(t)
  BY <1>2 DEF Serving, Chosen, databaseVars
<1>4. \A t \in Sessions \ {s} : /\ Asking(t)' <=> Asking(t)
                                /\ Met(t)' <=> Met(t)
                                /\ StateOf(t)' = StateOf(t)
  BY <1>2, <1>3, SameState
<1>5. /\ StateOf(s) = "met" /\ StateOf(s)' = "idle"
      /\ ~Asking(s)' /\ ~Met(s)'
  <2>1. Met(s)
    BY <1>2 DEF Met
  <2> QED BY <1>2, <2>1, StateIs, StateWillBe
<1>6. \A t \in Sessions : Overtaken(t)' => Overtaken(t)
  BY <1>2, <1>4, <1>5 DEF Overtaken
<1>7. RaceOrder'
  BY <1>2, <1>4, <1>5, <1>6, RaceKept DEF Competing, RaceOrder
<1>8. [t \in Sessions |-> StateOf(t)]' =
        [[t \in Sessions |-> StateOf(t)] EXCEPT ![s] = "idle"]
  BY <1>4, <1>5
<1>9. Abstract!Leave(s)
  BY <1>2, <1>3, <1>5, <1>8 DEF Abstract!Leave, Serving
<1> QED BY <1>7, <1>9 DEF Implemented, Abstract!Next

\* accept_read: the database takes the session whose process id it has read.
LEMMA TakeImplements ==
  ASSUME AnswersAreOwn, Orderly, Orderly', RaceOrder, accept_read
  PROVE  Implemented
PROOF
<1>1. listener \in FifoType(Processes, Sessions) /\ listener.data \in Seq(Sessions)
  BY DEF AnswersAreOwn, TypeOK, FifoType
<1>2. dpc = "accepting" /\ dpc' = "close" /\ UNCHANGED sessionVars
  BY DEF accept_read, DatabaseAt
<1>3. listener.data # << >> /\ requester' = Head(listener.data) /\ listener' = Consume(listener)
  <2>1. listener.data = << >> => listener.writers # {}
    BY DEF Orderly, ListenerOrder, ListenerUsers, accept_read, DatabaseAt, Opened
  <2> QED BY <2>1 DEF accept_read, HasData, AtEnd
<1>4. listener'.readers = listener.readers /\ listener'.data = Tail(listener.data)
  BY <1>1, <1>3, DataFields
<1>5. PICK h \in Sessions : /\ requester' = h
                            /\ Range(listener.data) = Range(listener'.data) \cup {h}
                            /\ h \notin Range(listener'.data)
  BY <1>1, <1>3, <1>4, Queue DEF Orderly, ListenerOrder, ListenerIds
<1>6. spc[h] \in {"close", "open_incoming", "opening_incoming"}
  BY <1>5 DEF Orderly, ListenerOrder, ListenerIds
<1>7. /\ Asking(h) /\ ~Asking(h)' /\ Met(h)'
      /\ StateOf(h) = "asking" /\ StateOf(h)' = "met"
  <2>1. Asking(h) /\ ~Asking(h)' /\ Met(h)'
    BY <1>2, <1>5, <1>6 DEF Asking, Met, Chosen, sessionVars
  <2> QED BY <2>1, StateIs, StateWillBe
<1>8. \A t \in Sessions \ {h} : /\ Asking(t)' <=> Asking(t)
                                /\ Met(t)' <=> Met(t)
                                /\ StateOf(t)' = StateOf(t)
  <2> SUFFICES ASSUME NEW t \in Sessions \ {h}
               PROVE  /\ Asking(t)' <=> Asking(t)
                      /\ Met(t)' <=> Met(t)
                      /\ StateOf(t)' = StateOf(t)
    OBVIOUS
  <2>1. Chosen(t)' = Chosen(t) /\ spc'[t] = spc[t]
    BY <1>2, <1>5 DEF Chosen, sessionVars
  <2> QED BY <1>5, <2>1, SameState
<1>9. RaceOrder'
  <2>1. listener'.readers # {}
    BY <1>2, <1>4 DEF Orderly, ListenerOrder, ListenerUsers
  <2> QED BY <1>2, <1>7, <1>8, <2>1, RaceKept DEF Competing, Overtaken, sessionVars
<1>10. [t \in Sessions |-> StateOf(t)]' =
         [[t \in Sessions |-> StateOf(t)] EXCEPT ![h] = "met"]
  BY <1>7, <1>8
<1>11. Serving = NoSession /\ Serving' = h
  BY <1>2, <1>5 DEF Serving, Listening
<1>12. Abstract!Take(h)
  BY <1>2, <1>7, <1>10, <1>11 DEF Abstract!Take, Serving, sessionVars
<1> QED BY <1>9, <1>12 DEF Implemented, Abstract!Next

\* accept_close: the database leaves the listening FIFO; ids of sessions that have
\* left it before are lost.
LEMMA CloseImplements ==
  ASSUME AnswersAreOwn, Orderly, Orderly', RaceOrder, accept_close
  PROVE  Implemented
PROOF
<1>1. listener \in FifoType(Processes, Sessions) /\ listener.data \in Seq(Sessions)
  BY DEF AnswersAreOwn, TypeOK, FifoType
<1>2. /\ dpc = "close" /\ dpc' = "open_incoming" /\ listener' = Close(listener, DB)
      /\ UNCHANGED <<requester, sessionVars>>
  BY DEF accept_close, DatabaseAt
<1>3. listener'.data \in {<< >>, listener.data} /\ listener'.waiting = listener.waiting \ {DB}
  BY <1>1, <1>2, CloseFields
<1>4. /\ Serving' = Serving /\ UNCHANGED raced
      /\ \A t \in Sessions : (Chosen(t)' = Chosen(t)) /\ spc'[t] = spc[t]
  BY <1>2 DEF Serving, Chosen, Listening, sessionVars
<1>5. PICK h \in Sessions : h = requester /\ Competing(h) /\ ~Asking(h)
  <2>1. requester \in Sessions
    BY <1>2 DEF Orderly, Listening
  <2>2. spc[requester] \in {"close", "open_incoming", "opening_incoming"} /\ Chosen(requester)
    BY <1>2, <2>1 DEF Orderly, SessionOrder, InStep, With, Chosen
  <2>3. Met(requester)
    BY <2>2 DEF Met
  <2> QED BY <2>1, <2>3, StateIs DEF Competing
<1>6. \A t \in Sessions : Asking(t) => raced[t] /\ StateOf(t) = "asking"
  BY <1>5, StateIs DEF RaceOrder, Competing
<1>7. ASSUME NEW t \in Sessions
      PROVE  /\ \/ (Asking(t)' <=> Asking(t)) /\ StateOf(t)' = StateOf(t)
                \/ Asking(t) /\ ~Asking(t)' /\ StateOf(t)' = "lost"
             /\ Met(t)' <=> Met(t)
  <2>1. CASE t \in Range(listener'.data) <=> t \in Range(listener.data)
    BY <1>4, <2>1, SameState
  <2>2. CASE ~(t \in Range(listener'.data) <=> t \in Range(listener.data))
    <3>1. Range(<< >>) = {}
      BY DEF Range
    <3>2. /\ t \in Range(listener.data) /\ t \notin Range(listener'.data)
          /\ spc[t] \in {"close", "open_incoming", "opening_incoming"} /\ ~Chosen(t)
      BY <1>3, <2>2, <3>1 DEF Orderly, ListenerOrder, ListenerIds
    <3>3. Asking(t) /\ ~Asking(t)' /\ ~Met(t) /\ ~Met(t)'
      BY <1>4, <3>2 DEF Asking, Met
    <3>4. StateOf(t)' = "lost"
      BY <1>4, <3>2, <3>3 DEF StateOf
    <3> QED BY <3>3, <3>4
  <2> QED BY <2>1, <2>2
<1>8. RaceOrder'
  BY <1>4, <1>6, <1>7, RaceKept DEF Competing, Overtaken
<1>9. Abstract!Next
  BY <1>4, <1>6, <1>7, LoseStep
<1> QED BY <1>8, <1>9 DEF Implemented

\* The steps of the database at the pair of the session it has met.
LEMMA ServingImplements ==
  ASSUME AnswersAreOwn, Orderly, Orderly', RaceOrder, ~EndDatabase,
         accept_incoming \/ accept_outgoing \/ receive_request \/ send_reply \/ disconnect
  PROVE  Implemented
PROOF
<1>1. /\ UNCHANGED <<listener, requester, sessionVars>>
      /\ \/ dpc = "open_incoming" /\ dpc' = "opening_incoming"
         \/ dpc = "opening_incoming" /\ dpc' = "opening_outgoing"
         \/ dpc = "opening_outgoing" /\ dpc' = "send"
         \/ dpc = "send" /\ dpc' = "disconnect"
         \/ dpc = "disconnect" /\ dpc' = "accept"
  BY DEF accept_incoming, accept_outgoing, receive_request, send_reply, disconnect,
         DatabaseAt
<1>2. ASSUME NEW t \in Sessions
      PROVE  /\ Asking(t)' <=> Asking(t)
             /\ Met(t)' <=> Met(t)
             /\ StateOf(t)' = StateOf(t)
             /\ Overtaken(t)' => raced[t]
  <2>1. Asking(t)' <=> Asking(t)
    BY <1>1 DEF Asking, sessionVars
  <2>2. Met(t)' <=> Met(t)
    <3>1. dpc = "send" /\ requester = t => spc[t] = "receive"
      BY DEF Orderly, SessionOrder, InStep, With
    <3> QED BY <1>1, <3>1 DEF Met, Chosen, sessionVars
  <2>3. StateOf(t)' = StateOf(t)
    BY <1>1, <2>1, <2>2 DEF StateOf, sessionVars
  <2>4. Overtaken(t)' => Overtaken(t)
    BY <1>1, <2>1 DEF Overtaken, sessionVars
  <2> QED BY <2>1, <2>2, <2>3, <2>4 DEF RaceOrder
<1>3. CASE dpc # "disconnect"
  <2>1. Serving' = Serving
    BY <1>1, <1>3 DEF Serving, Listening
  <2> QED BY <1>1, <1>2, <2>1, QuietStep DEF sessionVars
<1>4. CASE dpc = "disconnect"
  <2>1. Serving # NoSession /\ Serving' = NoSession
    BY <1>1, <1>4, RendezvousAssumption DEF Serving, Listening, Orderly
  <2>2. Abstract!Finish
    BY <1>1, <1>2, <2>1 DEF Abstract!Finish, Serving, sessionVars
  <2>3. RaceOrder'
    BY <1>1, <1>2, RaceKept DEF Competing, sessionVars
  <2> QED BY <2>2, <2>3 DEF Implemented, Abstract!Next
<1> QED BY <1>3, <1>4

\* accept_open: the database comes back to the listening FIFO.
LEMMA OpenImplements ==
  ASSUME AnswersAreOwn, Orderly, Orderly', RaceOrder, accept_open
  PROVE  Implemented
PROOF
<1>1. /\ dpc = "accept" /\ dpc' = "accepting" /\ listener' = OpenReader(listener, DB)
      /\ UNCHANGED <<requester, sessionVars>>
  BY DEF accept_open, DatabaseAt
<1>2. listener'.data = listener.data /\ listener'.readers # {}
  <2>1. listener \in FifoType(Processes, Sessions)
    BY DEF AnswersAreOwn, TypeOK
  <2>2. /\ listener'.data = listener.data
        /\ listener'.readers = listener.readers \cup {DB}
    BY <1>1, <2>1, OpenFields
  <2> QED BY <2>2
<1>3. /\ Serving' = Serving /\ UNCHANGED raced
      /\ \A t \in Sessions : (Chosen(t)' = Chosen(t)) /\ spc'[t] = spc[t]
  BY <1>1 DEF Serving, Chosen, Listening, sessionVars
<1>4. \A t \in Sessions : /\ Asking(t)' <=> Asking(t)
                          /\ Met(t)' <=> Met(t)
                          /\ StateOf(t)' = StateOf(t)
  BY <1>2, <1>3, SameState
<1> QED BY <1>2, <1>3, <1>4, QuietStep DEF Overtaken

\* Every step of the handshake is a step of the abstract rendezvous or stutters.
LEMMA ImplementsStep ==
  ASSUME AnswersAreOwn, Orderly, RaceOrder, Next, Faultless'
  PROVE  Implemented
PROOF
<1>1. Orderly'
  BY OrderStep
<1>2. ASSUME NEW s \in Sessions, make_fifos(s) \/ SessionStep(s)
      PROVE  Implemented
  <2>1. CASE write_pid(s) \/ close_listener(s)
    <3>1. CASE write_pid(s) /\ ~EndSession(s, "sigpipe")
      BY <1>1, <3>1, SessionImplements
    <3>2. CASE close_listener(s) \/ (write_pid(s) /\ EndSession(s, "sigpipe"))
      BY <1>1, <3>2, LeavingImplements
    <3> QED BY <2>1, <3>1, <3>2
  <2>2. CASE open_listener(s)
    BY <1>1, <2>2, AskImplements
  <2>3. CASE receive_reply(s)
    BY <1>1, <2>3, LeaveImplements
  <2>4. CASE \/ make_fifos(s) \/ listener_opened(s) \/ open_incoming(s)
             \/ open_outgoing(s) \/ send_request(s)
    <3>1. \/ make_fifos(s) \/ listener_opened(s) \/ open_incoming(s) \/ open_outgoing(s)
          \/ send_request(s) \/ (write_pid(s) /\ ~EndSession(s, "sigpipe"))
      BY <2>4
    <3> QED BY <1>1, <3>1, SessionImplements
  <2> QED BY <1>2, <2>1, <2>2, <2>3, <2>4 DEF SessionStep
<1>3. ASSUME NEW s \in Sessions, srv_sigRutine(s)
      PROVE  FALSE
  BY <1>3 DEF srv_sigRutine, EndSession, Faultless, Interrupted, AnswersAreOwn, TypeOK
<1>4. ~unlink_listener /\ ~kill_database /\ ~mknod_listener /\ ~EndDatabase
  BY FaultsStay
     DEF unlink_listener, kill_database, EndDatabase, mknod_listener, DatabaseAt, Orderly,
         ListenerOrder, ListenerUsers
<1>5. DatabaseStep => Implemented
  BY <1>1, <1>4, OpenImplements, TakeImplements, CloseImplements, ServingImplements
     DEF DatabaseStep
<1> QED BY <1>2, <1>3, <1>4, <1>5 DEF Next

\* Nobody has overlapped with anybody.
LEMMA RaceInit == MCInit => RaceInvariant
PROOF
<1> SUFFICES ASSUME MCInit, NEW s \in Sessions
             PROVE  ~Asking(s) /\ ~Met(s)
  BY DEF RaceInvariant, RaceOrder, Overtaken, Competing
<1> QED BY DEF MCInit, Init, Asking, Met, Chosen

\* Every step before the first fault records the overlap it causes.
LEMMA RaceStep ==
  ASSUME HandshakeInvariant, RaceInvariant, [MCNext]_allVars
  PROVE  RaceInvariant'
PROOF
<1>1. CASE Next
  BY <1>1, FaultsStay, ImplementsStep DEF HandshakeInvariant, RaceInvariant, Implemented
<1>2. CASE UNCHANGED vars
  <2>1. UNCHANGED <<listener, spc, dpc, requester, starts, raced>>
    BY <1>2 DEF vars, fifos, sessionVars, databaseVars
  <2>2. \A s \in Sessions : /\ Overtaken(s)' <=> Overtaken(s)
                            /\ Competing(s)' <=> Competing(s)
    BY <2>1 DEF Overtaken, Competing, Asking, Met, Chosen
  <2> QED BY <2>1, <2>2 DEF RaceInvariant, RaceOrder, Faultless, Interrupted
<1> QED BY <1>1, <1>2, MCStep

\* Who has overlapped with whom is recorded, for every session that competes and for
\* every one that was let in and left behind.
THEOREM RaceInvariantHolds == MCSpec => []RaceInvariant
BY HandshakeInvariantHolds, RaceInit, RaceStep, PTL DEF MCSpec

\* Up to the first fault the handshake, step by step, implements Rendezvous: the
\* database serves one session at a time, only sessions that ask, and a request is
\* lost only if it overlapped with another's.
THEOREM HandshakeImplementsRendezvous == MCSpec => ImplementsRendezvous
PROOF
<1>1. MCInit => Abstract!Init
  <2> SUFFICES ASSUME MCInit
               PROVE  Abstract!Init
    OBVIOUS
  <2>1. \A s \in Sessions : StateOf(s) = "idle"
    BY DEF MCInit, Init, StateOf, Asking, Met, Chosen
  <2>2. Serving = NoSession
    BY DEF MCInit, Init, Serving, Listening
  <2> QED BY <2>1, <2>2 DEF MCInit, Init, Abstract!Init, Serving
<1>2. HandshakeInvariant /\ RaceInvariant /\ [MCNext]_allVars
        => [Faultless' => Abstract!Next \/ UNCHANGED Abstract!vars]_vars
  <2> SUFFICES ASSUME HandshakeInvariant, RaceInvariant, Next, Faultless'
               PROVE  Abstract!Next
    BY MCStep
  <2> QED
    BY FaultsStay, ImplementsStep DEF HandshakeInvariant, RaceInvariant, Implemented
<1> QED
  BY <1>1, <1>2, HandshakeInvariantHolds, RaceInvariantHolds, PTL
     DEF MCSpec, ImplementsRendezvous
=============================================================================

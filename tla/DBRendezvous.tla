---------------------------- MODULE DBRendezvous ----------------------------
(***************************************************************************)
(* How session processes reach the database: db_comm_connect,              *)
(* db_comm_listen and db_comm_accept of databasecomm.c, inside the calls   *)
(* that communicate_with_database (server.c) and main (database.c) make    *)
(* with them.  A session writes its process id into the listening FIFO;    *)
(* the database reads one id, closes that FIFO, and the two meet in a pair *)
(* of FIFOs that the session has made.  A request is named by the session  *)
(* that sends it.                                                          *)
(*                                                                         *)
(* Ctrl-C at the server ends a session at any of its steps; the database   *)
(* may be killed and started again.                                        *)
(***************************************************************************)
EXTENDS Fifo, Integers, Functions

CONSTANTS
  Sessions, DB,       \* the processes
  NoSession,          \* a process id that names no session
  Garbage,            \* what a read that met end-of-file leaves in a buffer
  MaxInterrupts,      \* bound: sessions ended by Ctrl-C at the server
  MaxStarts           \* bound: times the database is started

ASSUME RendezvousAssumption ==
  /\ DB \notin Sessions
  /\ NoSession \notin Sessions
  /\ Garbage \notin Sessions \cup {NoSession}
  /\ MaxInterrupts \in Nat /\ MaxStarts \in Nat \ {0}

VARIABLES
  listener,     \* the FIFO under the listening address
  linked,       \* whether there is one
  incoming,     \* the pair of FIFOs of each session
  outgoing,
  spc,          \* what each session is doing
  dpc,          \* what the database is doing
  requester,    \* the process id in the database's db_connectionRequest
  data,         \* the request the database handles
  reply,        \* the last answer each session has read
  starts,       \* how often the database has been started
  raced         \* history: the session's request has overlapped with another's

fifos == <<listener, linked, incoming, outgoing>>
sessionVars == <<spc, reply, raced>>
databaseVars == <<dpc, requester, data, starts>>
vars == <<fifos, sessionVars, databaseVars>>

Processes == Sessions \cup {DB}

Gone == {"sigpipe", "exit", "interrupted"}

SessionPC == {"idle", "open", "opening", "write", "close", "open_incoming",
              "opening_incoming", "opening_outgoing", "receive"} \cup Gone

DatabasePC == {"down", "mknod", "accept", "accepting", "close", "open_incoming",
               "opening_incoming", "opening_outgoing", "send", "disconnect"}

TypeOK ==
  /\ listener \in FifoType(Processes, Sessions)
  /\ linked \in BOOLEAN
  /\ incoming \in [Sessions -> FifoType(Processes, Sessions \cup {Garbage})]
  /\ outgoing \in [Sessions -> FifoType(Processes, Sessions)]
  /\ spc \in [Sessions -> SessionPC]
  /\ dpc \in DatabasePC
  /\ requester \in Sessions \cup {NoSession}
  /\ data \in Sessions \cup {Garbage}
  /\ reply \in [Sessions -> Sessions \cup {NoSession, Garbage}]
  /\ starts \in 1..MaxStarts
  /\ raced \in [Sessions -> BOOLEAN]

\* The database is started before the server.
Init ==
  /\ listener = NewFifo
  /\ linked = TRUE
  /\ incoming = [s \in Sessions |-> NewFifo]
  /\ outgoing = [s \in Sessions |-> NewFifo]
  /\ spc = [s \in Sessions |-> "idle"]
  /\ dpc = "accept"
  /\ requester = NoSession
  /\ data = Garbage
  /\ reply = [s \in Sessions |-> NoSession]
  /\ starts = 1
  /\ raced = [s \in Sessions |-> FALSE]

-----------------------------------------------------------------------------
(* A session: communicate_with_database.                                    *)

SessionAt(s, step, next) ==
  /\ spc[s] = step
  /\ spc' = [spc EXCEPT ![s] = next]

\* The process ends, and with it every descriptor it has.
EndSession(s, how) ==
  /\ spc' = [spc EXCEPT ![s] = how]
  /\ listener' = Close(listener, s)
  /\ incoming' = [incoming EXCEPT ![s] = Close(@, s)]
  /\ outgoing' = [outgoing EXCEPT ![s] = Close(@, s)]
  /\ UNCHANGED linked

\* A session asks from its first open until the database has read its process id,
\* or that is lost.
Asking(s) ==
  \/ spc[s] \in {"opening", "write"}
  \/ /\ spc[s] \in {"close", "open_incoming", "opening_incoming"}
     /\ s \in Range(listener.data)

\* The database has read the session's process id and not answered it yet.
Chosen(s) ==
  /\ requester = s
  /\ dpc \in {"close", "open_incoming", "opening_incoming", "opening_outgoing", "send"}

Met(s) ==
  \/ spc[s] \in {"opening_outgoing", "receive"}
  \/ Chosen(s) /\ spc[s] \in {"close", "open_incoming", "opening_incoming"}

\* db_comm_connect up to its first open: a fresh pair of FIFOs.
make_fifos(s) ==
  /\ SessionAt(s, "idle", "open")
  /\ incoming' = [incoming EXCEPT ![s] = NewFifo]
  /\ outgoing' = [outgoing EXCEPT ![s] = NewFifo]
  /\ UNCHANGED <<listener, linked, reply, raced, databaseVars>>

\* Without a FIFO under the address open fails, db_comm_connect returns NULL and
\* the session calls exit(1).
open_listener(s) ==
  LET rivals == {t \in Sessions \ {s} : Asking(t) \/ Met(t)} IN
  /\ \/ /\ linked
        /\ SessionAt(s, "open", "opening")
        /\ listener' = OpenWriter(listener, s)
        /\ raced' = [t \in Sessions |->
                       IF t = s THEN rivals # {} ELSE raced[t] \/ t \in rivals]
     \/ /\ ~linked
        /\ SessionAt(s, "open", "exit")
        /\ UNCHANGED <<listener, raced>>
  /\ UNCHANGED <<linked, incoming, outgoing, reply, databaseVars>>

listener_opened(s) ==
  /\ Opened(listener, s)
  /\ SessionAt(s, "opening", "write")
  /\ UNCHANGED <<fifos, reply, raced, databaseVars>>

write_pid(s) ==
  /\ \/ /\ ~WriteBreaks(listener, s)
        /\ SessionAt(s, "write", "close")
        /\ listener' = Write(listener, s)
        /\ UNCHANGED <<linked, incoming, outgoing>>
     \/ /\ spc[s] = "write"
        /\ WriteBreaks(listener, s)
        /\ EndSession(s, "sigpipe")
  /\ UNCHANGED <<reply, raced, databaseVars>>

close_listener(s) ==
  /\ SessionAt(s, "close", "open_incoming")
  /\ listener' = Close(listener, s)
  /\ UNCHANGED <<linked, incoming, outgoing, reply, raced, databaseVars>>

open_incoming(s) ==
  /\ SessionAt(s, "open_incoming", "opening_incoming")
  /\ incoming' = [incoming EXCEPT ![s] = OpenReader(@, s)]
  /\ UNCHANGED <<listener, linked, outgoing, reply, raced, databaseVars>>

open_outgoing(s) ==
  /\ Opened(incoming[s], s)
  /\ SessionAt(s, "opening_incoming", "opening_outgoing")
  /\ outgoing' = [outgoing EXCEPT ![s] = OpenWriter(@, s)]
  /\ UNCHANGED <<listener, linked, incoming, reply, raced, databaseVars>>

\* Connected: db_sendData.
send_request(s) ==
  /\ Opened(outgoing[s], s)
  /\ \/ /\ ~WriteBreaks(outgoing[s], s)
        /\ SessionAt(s, "opening_outgoing", "receive")
        /\ outgoing' = [outgoing EXCEPT ![s] = Write(@, s)]
        /\ UNCHANGED <<listener, linked, incoming>>
     \/ /\ spc[s] = "opening_outgoing"
        /\ WriteBreaks(outgoing[s], s)
        /\ EndSession(s, "sigpipe")
  /\ UNCHANGED <<reply, raced, databaseVars>>

\* Mutation: the session does not wait for the answer (O_NONBLOCK).
receive_reply_doesNotWait(s) ==
  /\ SessionAt(s, "receive", "idle")
  /\ reply' = [reply EXCEPT ![s] =
                 IF HasData(incoming[s]) THEN Head(incoming[s].data) ELSE Garbage]
  /\ incoming' = [incoming EXCEPT ![s] = Close(IF HasData(@) THEN Consume(@) ELSE @, s)]
  /\ outgoing' = [outgoing EXCEPT ![s] = Close(@, s)]
  /\ UNCHANGED <<listener, linked, raced, databaseVars>>

\* db_receiveData takes end-of-file for a record; then db_comm_disconnect.
receive_reply(s) ==
  /\ SessionAt(s, "receive", "idle")
  /\ \/ HasData(incoming[s]) /\ reply' = [reply EXCEPT ![s] = Head(incoming[s].data)]
     \/ AtEnd(incoming[s]) /\ reply' = [reply EXCEPT ![s] = Garbage]
  /\ incoming' = [incoming EXCEPT ![s] =
                    Close(IF HasData(@) THEN Consume(@) ELSE @, s)]
  /\ outgoing' = [outgoing EXCEPT ![s] = Close(@, s)]
  /\ UNCHANGED <<listener, linked, raced, databaseVars>>

\* Ctrl-C at the server: exit(1) wherever the session is.
srv_sigRutine(s) ==
  /\ spc[s] \notin Gone
  /\ Cardinality({t \in Sessions : spc[t] = "interrupted"}) < MaxInterrupts
  /\ EndSession(s, "interrupted")
  /\ UNCHANGED <<reply, raced, databaseVars>>

-----------------------------------------------------------------------------
(* The database: main, with db_comm_listen and db_comm_accept.              *)

DatabaseAt(step, next) == dpc = step /\ dpc' = next

\* db_comm_listen: unlink, then mknod.  A session that had been let into the old
\* FIFO goes on with it, one that waits in its open waits for ever.
unlink_listener ==
  /\ starts < MaxStarts
  /\ starts' = starts + 1
  /\ DatabaseAt("down", "mknod")
  /\ linked' = FALSE
  /\ listener' = NewFifo
  /\ spc' = [s \in Sessions |->
               IF spc[s] = "opening" /\ Opened(listener, s) THEN "write" ELSE spc[s]]
  /\ UNCHANGED <<incoming, outgoing, requester, data, reply, raced>>

mknod_listener ==
  /\ DatabaseAt("mknod", "accept")
  /\ linked' = TRUE
  /\ UNCHANGED <<listener, incoming, outgoing, requester, data, starts, sessionVars>>

accept_open ==
  /\ DatabaseAt("accept", "accepting")
  /\ listener' = OpenReader(listener, DB)
  /\ UNCHANGED <<linked, incoming, outgoing, requester, data, starts, sessionVars>>

\* Mutation: the process id stays in the FIFO.
accept_read_leavesPid ==
  /\ Opened(listener, DB)
  /\ HasData(listener)
  /\ DatabaseAt("accepting", "close")
  /\ requester' = Head(listener.data)
  /\ UNCHANGED <<fifos, data, starts, sessionVars>>

\* At end-of-file db_connectionRequest is uninitialized: an id of nobody, or the
\* one of the call before.
accept_read ==
  /\ Opened(listener, DB)
  /\ DatabaseAt("accepting", "close")
  /\ \/ /\ HasData(listener)
        /\ requester' = Head(listener.data)
        /\ listener' = Consume(listener)
     \/ /\ AtEnd(listener)
        /\ requester' \in {NoSession, requester}
        /\ UNCHANGED listener
  /\ UNCHANGED <<linked, incoming, outgoing, data, starts, sessionVars>>

accept_close ==
  /\ DatabaseAt("close", "open_incoming")
  /\ listener' = Close(listener, DB)
  /\ UNCHANGED <<linked, incoming, outgoing, requester, data, starts, sessionVars>>

\* The database dies: of the null connection that db_comm_accept returned and main
\* does not test, of SIGPIPE, or killed.
EndDatabase ==
  /\ dpc' = "down"
  /\ listener' = Close(listener, DB)
  /\ incoming' = [s \in Sessions |-> Close(incoming[s], DB)]
  /\ outgoing' = [s \in Sessions |-> Close(outgoing[s], DB)]
  /\ requester' = NoSession
  /\ data' = Garbage
  /\ UNCHANGED <<linked, starts, sessionVars>>

\* Mutation: the database opens the two FIFOs in the other order.
accept_incoming_swapped ==
  /\ requester # NoSession
  /\ DatabaseAt("open_incoming", "opening_incoming")
  /\ outgoing' = [outgoing EXCEPT ![requester] = OpenReader(@, DB)]
  /\ UNCHANGED <<listener, linked, incoming, requester, data, starts, sessionVars>>

accept_incoming ==
  \/ /\ requester # NoSession
     /\ DatabaseAt("open_incoming", "opening_incoming")
     /\ incoming' = [incoming EXCEPT ![requester] = OpenWriter(@, DB)]
     /\ UNCHANGED <<listener, linked, outgoing, requester, data, starts, sessionVars>>
  \/ /\ requester = NoSession
     /\ dpc = "open_incoming"
     /\ EndDatabase

accept_outgoing ==
  /\ dpc = "opening_incoming" /\ Opened(incoming[requester], DB)
  /\ dpc' = "opening_outgoing"
  /\ outgoing' = [outgoing EXCEPT ![requester] = OpenReader(@, DB)]
  /\ UNCHANGED <<listener, linked, incoming, requester, data, starts, sessionVars>>

\* Connected: db_receiveData, and process_data.
receive_request ==
  LET f == outgoing[requester] IN
  /\ dpc = "opening_outgoing" /\ Opened(f, DB)
  /\ dpc' = "send"
  /\ \/ /\ HasData(f)
        /\ data' = Head(f.data)
        /\ outgoing' = [outgoing EXCEPT ![requester] = Consume(@)]
     \/ /\ AtEnd(f)
        /\ data' = Garbage
        /\ UNCHANGED outgoing
  /\ UNCHANGED <<listener, linked, incoming, requester, starts, sessionVars>>

send_reply ==
  \/ /\ dpc = "send" /\ ~WriteBreaks(incoming[requester], DB)
     /\ dpc' = "disconnect"
     /\ incoming' = [incoming EXCEPT ![requester] = Write(@, data)]
     /\ UNCHANGED <<listener, linked, outgoing, requester, data, starts, sessionVars>>
  \/ /\ dpc = "send" /\ WriteBreaks(incoming[requester], DB)
     /\ EndDatabase

disconnect ==
  /\ DatabaseAt("disconnect", "accept")
  /\ incoming' = [incoming EXCEPT ![requester] = Close(@, DB)]
  /\ outgoing' = [outgoing EXCEPT ![requester] = Close(@, DB)]
  /\ UNCHANGED <<listener, linked, requester, data, starts, sessionVars>>

kill_database ==
  /\ dpc # "down"
  /\ starts < MaxStarts
  /\ EndDatabase

-----------------------------------------------------------------------------
SessionStep(s) ==
  \/ open_listener(s)
  \/ listener_opened(s)
  \/ write_pid(s)
  \/ close_listener(s)
  \/ open_incoming(s)
  \/ open_outgoing(s)
  \/ send_request(s)
  \/ receive_reply(s)

DatabaseStep ==
  \/ mknod_listener
  \/ accept_open
  \/ accept_read
  \/ accept_close
  \/ accept_incoming
  \/ accept_outgoing
  \/ receive_request
  \/ send_reply
  \/ disconnect

Next ==
  \/ \E s \in Sessions : make_fifos(s) \/ SessionStep(s) \/ srv_sigRutine(s)
  \/ DatabaseStep
  \/ unlink_listener
  \/ kill_database

Spec == Init /\ [][Next]_vars

\* The operating system runs the processes; nobody has to ask, to press Ctrl-C,
\* or to start the database.
FairSpec ==
  /\ Spec
  /\ \A s \in Sessions : WF_vars(SessionStep(s))
  /\ WF_vars(DatabaseStep)

-----------------------------------------------------------------------------
(* What the handshake guarantees.                                           *)

StateOf(s) ==
  CASE spc[s] \in {"idle", "open", "exit"} -> "idle"
    [] Asking(s) -> "asking"
    [] Met(s) -> "met"
    [] OTHER -> "lost"

Listening == {"down", "mknod", "accept", "accepting"}

Abstract == INSTANCE Rendezvous
  WITH Requesters <- Sessions, Nobody <- NoSession,
       state <- [s \in Sessions |-> StateOf(s)],
       serving <- IF dpc \in Listening THEN NoSession ELSE requester

Interrupted == \E s \in Sessions : spc[s] = "interrupted"

\* No session has been interrupted and the database has not been killed yet.
Faultless == ~Interrupted /\ dpc # "down" /\ starts = 1

\* Up to the first fault the database serves one session at a time, only sessions
\* that ask, and loses a request only if two of them overlapped (db_comm_connect,
\* db_comm_accept): the handshake implements Rendezvous.  This is what GameSystem's
\* connect_collision assumes of a collision.
ImplementsRendezvous ==
  Abstract!Init /\ [][Faultless' => Abstract!Next \/ UNCHANGED Abstract!vars]_vars

\* What a session reads is the answer to its own request.  It is garbage only
\* after a session was interrupted or the database was killed: db_receiveData
\* then takes end-of-file for a record.
AnswerIsOwn ==
  \A s \in Sessions : reply[s] # NoSession =>
    \/ reply[s] = s
    \/ reply[s] = Garbage /\ (Interrupted \/ dpc = "down" \/ starts > 1)

\* The database comes back for the next session.  Only after Ctrl-C ended a session
\* it hangs in the open of a pair of FIFOs (databasecomm.c:140-141) or dies by itself,
\* of the null connection that db_comm_accept returned or of SIGPIPE in db_sendData.
\* (After the last start allowed here nobody kills it.)
DatabaseComesBack ==
  dpc \notin Listening ~>
    \/ dpc = "accept"
    \/ dpc = "down" /\ (Interrupted \/ starts < MaxStarts)
    \/ Interrupted /\ dpc \in {"opening_incoming", "opening_outgoing"}

\* When sessions collide one of them wins: with the database listening and a session
\* about to ask, some session gets through, unless a fault comes between.
RaceHasAWinner ==
  (dpc = "accept" /\ Faultless /\ \E s \in Sessions : spc[s] = "open")
    ~> ~Faultless \/ \E s \in Sessions : spc[s] = "receive"
=============================================================================

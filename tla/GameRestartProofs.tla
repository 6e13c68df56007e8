--------------------------- MODULE GameRestartProofs ---------------------------
(***************************************************************************)
(* Proofs about the system whose database and server may end and start     *)
(* again, for any number of clients, accounts and faults: the accounts of  *)
(* one run of the database stay exclusive, its characters stay with their  *)
(* players and their unsaved progress bounded, until a client of earlier   *)
(* tables interferes.                                                      *)
(*                                                                         *)
(* A step of GameSystem does to its client here what GameProofs shows it   *)
(* does there, as long as the connection has both ends; the layers are     *)
(* those of GameInvariants, said of one client at a time.                  *)
(***************************************************************************)
EXTENDS GameRestart, GameProofs

-----------------------------------------------------------------------------
(* The invariant.                                                           *)

RestartTypes ==
  /\ TypeInvariant
  /\ running \in SUBSET {"server", "database"}
  /\ cut \in SUBSET Clients
  /\ stale \in SUBSET Clients

\* The session came to a database that was just starting (start_database), and left
\* its client waiting.
Orphaned(c) ==
  /\ spc[c] = "exit" /\ cpc[c] \in Calls
  /\ c2s[c] = << >> /\ s2c[c] = << >>

\* The session is gone, and what its client has sent with it.
CutOff(c) == cpc[c] # "off" /\ spc[c] \in Ended /\ c2s[c] = << >>

\* Who has both ends is strictly call - return.
ClientCall(c) ==
  /\ StateFollowsCall(c)
  /\ spc[c] = "none" => cpc[c] = "off"
  /\ IF c \in cut THEN CutOff(c) ELSE CallDiscipline(c) \/ Orphaned(c)

RestartCalls == \A c \in Clients : ClientCall(c)

\* What AccountInvariant says, of the clients that hold accounts of this run of the
\* database.
RestartAccounts ==
  freed \/ LET fresh == Clients \ stale IN
    /\ \A c \in fresh, u \in Usernames : Keeps(c, u) => InUse(u)
    /\ \A c, d \in fresh, u \in Usernames : Keeps(c, u) /\ Keeps(d, u) => c = d

RestartInvariant == RestartTypes /\ RestartCalls /\ RestartAccounts

-----------------------------------------------------------------------------
(* The steps: those of GameSystem, and the faults.                          *)

\* A step of GameSystem, of a client that can send or does not.
OwnStep(c) ==
  /\ Step(c)
  /\ c \in cut => UNCHANGED c2s \/ Session(c) \/ connect_collision(c)
  /\ UNCHANGED processVars /\ Observe

\* A client takes end-of-file for an answer.
ReadsEnd(c) ==
  /\ c \in cut /\ cpc[c] \in Calls /\ s2c[c] = << >>
  /\ \E d \in Garbage : s2c' = [s2c EXCEPT ![c] = <<d>>]
  /\ UNCHANGED <<clientVars, serverVars, dbVars, c2s, processVars>> /\ Observe

Fault == kill_database \/ start_database \/ srv_sigRutine \/ start_server

\* A client without a server that exits or dies of SIGPIPE is one that is lost.
LEMMA RestartStepIs ==
  ASSUME [RestartNext]_allVars
  PROVE  \/ \E c \in Clients : OwnStep(c) \/ ReadsEnd(c)
         \/ Fault
         \/ UNCHANGED allVars
PROOF
<1>1. {"prompt"} \cup Calls \subseteq {m \in ClientPC : m # "off" /\ m # "gone"}
  BY DEF Calls, ClientPC
<1>2. ASSUME NEW c \in Clients, Client(c) \/ Reply_or_leave(c)
      PROVE  OwnStep(c)
  BY <1>2 DEF Client, Reply_or_leave, OwnStep, Step, MaySend
<1>3. ASSUME NEW c \in Clients, SessionStep(c) \/ Collision(c)
      PROVE  OwnStep(c)
  BY <1>3 DEF SessionStep, Collision, OwnStep, Step
<1>4. ASSUME NEW c \in Clients, receive_eof(c)
      PROVE  ReadsEnd(c) \/ OwnStep(c)
  BY <1>1, <1>4 DEF receive_eof, ReadsEnd, OwnStep, Step, connection_lost, Alive
<1>5. ASSUME NEW c \in Clients, send_sigpipe(c)
      PROVE  OwnStep(c)
  <2>1. cpc[c] \in {"prompt"} \cup Calls
    BY <1>5 DEF send_sigpipe, SecondCall, Calls
  <2> QED BY <1>1, <1>5, <2>1 DEF send_sigpipe, OwnStep, Step, connection_lost, Alive
<1> QED BY <1>2, <1>3, <1>4, <1>5 DEF RestartNext, Fault

\* The bytes of a fresh buffer are a reply that grants nothing.
LEMMA GarbageIsReply ==
  /\ Garbage \subseteq Replies /\ NULL \notin Garbage
  /\ \A d \in Garbage : d.opcode # "NO_ERROR"
PROOF
<1>1. ASSUME NEW opcode \in {"LOGIN", "OTHER"}
      PROVE  newData(opcode) \in Data /\ newData(opcode).opcode = opcode
  BY PlainRequest DEF Requests
<1> QED BY <1>1, NullAssumption DEF Garbage, Replies

-----------------------------------------------------------------------------
(* Types.                                                                   *)

Outcomes == {"db", "send", "blocked", "collided", "exit"}

\* The sessions that were connecting, whatever the database leaves them.
LEMMA GoOnTypes ==
  ASSUME TypeInvariant, NEW outcome \in [Connecting -> Outcomes], GoOn(outcome),
         DBTypeOK'
  PROVE  TypeInvariant'
PROOF
<1>1. ControlOK /\ RecordsWellFormed
  BY TypeInvariantParts
<1>2. /\ spc' = [s \in Clients |-> IF s \in Connecting THEN outcome[s] ELSE spc[s]]
      /\ UNCHANGED <<cpc, session_state, username, character, counter,
                     data_from_client, c2s, s2c>>
  BY DEF GoOn, clientVars
<1>3. ControlOK'
  BY <1>1, <1>2 DEF ControlOK, SessionPC, Outcomes
<1>4. data_to_client' \in [Clients -> Replies \cup {NULL}]
  BY <1>1, GarbageIsReply DEF GoOn, RecordsWellFormed
<1>5. \A s \in Clients :
        spc'[s] \in {"process", "db", "send"} => data_from_client'[s] # NULL
  BY <1>1, <1>2 DEF RecordsWellFormed, Connecting, Outcomes
<1>6. RecordsWellFormed'
  BY <1>1, <1>2, <1>4, <1>5 DEF RecordsWellFormed
<1> QED BY <1>3, <1>6, TypeInvariantParts, PTL

\* A fault of the database leaves the tables, or empties them.
LEMMA DatabaseFaultTypes ==
  ASSUME TypeInvariant, kill_database \/ start_database
  PROVE  TypeInvariant'
PROOF
<1>1. DBTypeOK
  BY TypeInvariantParts
<1>2. DBTypeOK'
  BY <1>1 DEF kill_database, start_database, initialize_tables, DBTypeOK, dbVars
<1>3. PICK outcome \in [Connecting -> Outcomes] : GoOn(outcome)
  BY DEF kill_database, start_database, Outcomes
<1> QED BY <1>2, <1>3, GoOnTypes

\* The types are those of GameSystem, and the clients that are cut off and stale are
\* clients.
LEMMA TypesStep ==
  ASSUME RestartTypes, [RestartNext]_allVars
  PROVE  RestartTypes'
PROOF
<1>1. DBTypeOK /\ ControlOK /\ RecordsWellFormed
  BY TypeInvariantParts DEF RestartTypes
<1>2. ASSUME Observe
      PROVE  stale' \in SUBSET Clients
  BY <1>2 DEF Observe, RestartTypes
<1>3. ASSUME UNCHANGED processVars
      PROVE  running' \in SUBSET {"server", "database"} /\ cut' \in SUBSET Clients
  BY <1>3 DEF processVars, RestartTypes
<1>4. ASSUME NEW c \in Clients, OwnStep(c)
      PROVE  RestartTypes'
  <2>1. TypeInvariant'
    BY <1>4, TypeStep, NextIsStep DEF OwnStep, RestartTypes
  <2> QED BY <1>2, <1>3, <1>4, <2>1 DEF OwnStep, RestartTypes
<1>5. ASSUME NEW c \in Clients, ReadsEnd(c)
      PROVE  RestartTypes'
  <2>1. PICK d \in Garbage : s2c' = [s2c EXCEPT ![c] = <<d>>]
    BY <1>5 DEF ReadsEnd
  <2>2. s2c' \in [Clients -> Seq(Replies)]
    BY <1>1, <2>1, GarbageIsReply DEF RecordsWellFormed
  <2>3. UNCHANGED <<cpc, session_state, username, character, counter, spc,
                    data_from_client, data_to_client, c2s, User, Chars>>
    BY <1>5 DEF ReadsEnd, clientVars, serverVars, dbVars
  <2>4. DBTypeOK' /\ ControlOK'
    BY <1>1, <2>3 DEF DBTypeOK, ControlOK
  <2>5. RecordsWellFormed'
    BY <1>1, <2>2, <2>3 DEF RecordsWellFormed
  <2>6. TypeInvariant'
    BY <2>4, <2>5, TypeInvariantParts, PTL
  <2> QED BY <1>2, <1>3, <1>5, <2>6 DEF ReadsEnd, RestartTypes
<1>6. CASE kill_database
  <2>1. TypeInvariant'
    BY <1>6, DatabaseFaultTypes DEF RestartTypes
  <2> QED BY <1>2, <1>6, <2>1 DEF kill_database, RestartTypes
<1>7. CASE start_database
  <2>1. TypeInvariant'
    BY <1>7, DatabaseFaultTypes DEF RestartTypes
  <2> QED BY <1>7, <2>1 DEF start_database, RestartTypes
<1>8. CASE srv_sigRutine
  <2>1. /\ c2s' \in [Clients -> Seq(Requests)]
        /\ data_from_client' = [s \in Clients |-> NULL]
        /\ data_to_client' = [s \in Clients |-> NULL]
        /\ UNCHANGED <<cpc, session_state, username, character, counter, s2c, User, Chars>>
    BY <1>8 DEF srv_sigRutine, clientVars, dbVars
  <2>2. /\ spc' \in [Clients -> SessionPC]
        /\ \A s \in Clients : spc'[s] \notin {"process", "db", "send"}
    BY <1>1, <1>8 DEF srv_sigRutine, ControlOK, SessionPC, Ended
  <2>3. DBTypeOK' /\ ControlOK'
    BY <1>1, <2>1, <2>2 DEF DBTypeOK, ControlOK
  <2>4. RecordsWellFormed'
    BY <1>1, <2>1, <2>2 DEF RecordsWellFormed
  <2>5. TypeInvariant'
    BY <2>3, <2>4, TypeInvariantParts, PTL
  <2>6. running' \in SUBSET {"server", "database"} /\ cut' \in SUBSET Clients
    BY <1>8 DEF srv_sigRutine, RestartTypes
  <2> QED BY <1>2, <1>8, <2>5, <2>6 DEF srv_sigRutine, RestartTypes
<1>9. CASE start_server \/ UNCHANGED allVars
  <2>1. UNCHANGED <<vars, cut, stale>> /\ running' \in SUBSET {"server", "database"}
    BY <1>9 DEF start_server, allVars, processVars, historyVars, RestartTypes
  <2>2. TypeInvariant'
    BY <2>1, TypeStep DEF RestartTypes
  <2> QED BY <2>1, <2>2 DEF RestartTypes
<1> QED BY <1>4, <1>5, <1>6, <1>7, <1>8, <1>9, RestartStepIs DEF Fault

-----------------------------------------------------------------------------
(* Calls.                                                                   *)

\* The clients that a step is not about keep their call.
LEMMA OthersKeepClientCall ==
  ASSUME NEW c \in Clients, NEW d \in Clients \ {c}, UnchangedOthers(c),
         UNCHANGED cut, ClientCall(d)
  PROVE  ClientCall(d)'
PROOF
<1>1. /\ CallDiscipline(d) => CallDiscipline(d)'
      /\ StateFollowsCall(d)'
  BY DEF UnchangedOthers, ClientCall, StateFollowsCall, CallDiscipline, Idle, Asked,
         InService, Replied, Matches
<1>2. /\ Orphaned(d) => Orphaned(d)'
      /\ CutOff(d) => CutOff(d)'
  BY DEF UnchangedOthers, Orphaned, CutOff
<1> QED BY <1>1, <1>2 DEF ClientCall, UnchangedOthers

\* A session that has begun has not "not begun".
LEMMA SessionsStay ==
  ASSUME TypeInvariant, NEW c \in Clients, Step(c), spc[c] = "none" => cpc[c] = "off"
  PROVE  spc'[c] = "none" => cpc'[c] = "off"
PROOF
<1>1. ControlOK
  BY TypeInvariantParts
<1>2. CASE comm_connect(c)
  BY <1>1, <1>2 DEF comm_connect, ControlOK
<1>3. CASE Command(c)
  <2>1. UNCHANGED spc /\ cpc[c] = "prompt"
    BY <1>3 DEF Command, login_command, createAccount_command, selectCharacter_command,
       createCharacter_command, deleteCharacter_command, CharacterCommand, point, quit,
       logOut, CommandAllowed, Call, serverVars
  <2> QED BY <2>1
<1>4. CASE HandleReply(c)
  <2>1. UNCHANGED spc /\ cpc[c] \in Calls
    BY <1>4 DEF HandleReply, login_reply, selectCharacter_reply, report_reply, save_reply,
       quit_reply, logout_reply, Answered, Receive, serverVars, Calls
  <2> QED BY <2>1 DEF Calls
<1>5. CASE disconnect(c) \/ clt_sigRutine(c) \/ connection_lost(c)
  <2>1. UNCHANGED spc /\ cpc[c] # "off"
    BY <1>5 DEF disconnect, clt_sigRutine, connection_lost, Terminate, serverVars, Alive
  <2> QED BY <2>1
<1>6. CASE Session(c) \/ connect_collision(c)
  <2>1. spc'[c] # "none"
    BY <1>1, <1>6 DEF Session, accept, receiveData, server_process_data, NextStep,
       communicate_with_database, sendData, AfterSend, connect_collision, Goto, ControlOK
  <2> QED BY <2>1
<1> QED BY <1>2, <1>3, <1>4, <1>5, <1>6 DEF Step

\* An orphaned client can only be interrupted.
LEMMA OrphanEnds ==
  ASSUME NEW c \in Clients, Orphaned(c), Step(c)
  PROVE  clt_sigRutine(c) \/ connection_lost(c)
PROOF
<1>1. cpc[c] \notin {"off", "prompt", "leaving"}
  BY DEF Orphaned, Calls
<1>2. ~Command(c)
  BY <1>1 DEF Command, login_command, createAccount_command, selectCharacter_command,
     createCharacter_command, deleteCharacter_command, CharacterCommand, point, quit,
     logOut, CommandAllowed
<1>3. ~HandleReply(c)
  BY DEF Orphaned, HandleReply, login_reply, selectCharacter_reply, report_reply,
     save_reply, quit_reply, logout_reply, Answered
<1>4. ~Session(c) /\ ~connect_collision(c)
  BY DEF Orphaned, Session, accept, receiveData, server_process_data,
     communicate_with_database, sendData, connect_collision
<1> QED BY <1>1, <1>2, <1>3, <1>4 DEF Step, comm_connect, disconnect

\* An orphaned client that is interrupted leaves only the notice behind.
LEMMA OrphanCalls ==
  ASSUME TypeInvariant, NEW c \in Clients, Orphaned(c), Step(c)
  PROVE  CallDiscipline(c)' /\ StateFollowsCall(c)'
PROOF
<1>1. ControlOK /\ RecordsWellFormed
  BY TypeInvariantParts
<1>2. clt_sigRutine(c) \/ connection_lost(c)
  BY OrphanEnds
<1>3. Terminate(c) /\ spc[c] = "exit" /\ c2s[c] = << >>
  BY <1>2 DEF Orphaned, clt_sigRutine, connection_lost
<1>4. /\ cpc'[c] = "gone" /\ session_state'[c] = "EXIT_GAME" /\ spc'[c] = "exit"
  BY <1>1, <1>3 DEF Terminate, ControlOK, serverVars
<1>5. \A i \in 1..Len(c2s'[c]) : c2s'[c][i].opcode = "CONNECTION_INTERRUMPED"
  <2>1. CASE UNCHANGED c2s
    BY <1>3, <2>1
  <2>2. CASE clt_sigRutine(c)
    <3>1. c2s'[c] = Append(<< >>, newData("CONNECTION_INTERRUMPED"))
      BY <1>1, <1>3, <2>2 DEF clt_sigRutine, RecordsWellFormed
    <3> QED BY <3>1, PlainRequest
  <2> QED BY <1>2, <2>1, <2>2 DEF connection_lost
<1>6. CallDiscipline(c)'
  BY <1>4, <1>5 DEF CallDiscipline, Calls
<1>7. StateFollowsCall(c)'
  BY <1>4 DEF StateFollowsCall, AccountCalls, Calls, LoggedStates, Ended
<1> QED BY <1>6, <1>7

\* A client that is cut off and sends nothing plays on, reads an answer that it has
\* got, or ends.
LEMMA CutSteps ==
  ASSUME TypeInvariant, NEW c \in Clients, CutOff(c), Step(c),
         UNCHANGED c2s \/ Session(c) \/ connect_collision(c)
  PROVE  /\ UNCHANGED c2s
         /\ \/ /\ point(c)
               /\ UNCHANGED <<cpc, session_state, username, serverVars, s2c, dbVars>>
            \/ login_reply(c) \/ selectCharacter_reply(c) \/ report_reply(c)
            \/ quit_reply(c) \/ logout_reply(c)
            \/ disconnect(c) \/ connection_lost(c)
PROOF
<1>1. ControlOK /\ RecordsWellFormed
  BY TypeInvariantParts
<1>2. ~Session(c) /\ ~connect_collision(c) /\ ~comm_connect(c)
  BY DEF CutOff, Ended, Session, accept, receiveData, server_process_data,
     communicate_with_database, sendData, connect_collision, comm_connect
<1>3. ASSUME NEW m PROVE c2s' # [c2s EXCEPT ![c] = Append(@, m)]
  <2>1. c2s[c] = << >> /\ c2s'[c] = << >>
    BY <1>2 DEF CutOff
  <2>2. [c2s EXCEPT ![c] = Append(@, m)][c] = Append(<< >>, m)
    BY <1>1, <2>1 DEF RecordsWellFormed
  <2> QED BY <2>1, <2>2
<1>4. ~clt_sigRutine(c) /\ ~save_reply(c)
  BY <1>3 DEF clt_sigRutine, save_reply
<1>5. \A call, m : ~Call(c, call, m)
  BY <1>3 DEF Call
<1>6. CASE Command(c)
  <2>1. point(c)
    BY <1>5, <1>6 DEF Command, login_command, createAccount_command,
       selectCharacter_command, createCharacter_command, deleteCharacter_command,
       CharacterCommand, quit, logOut
  <2> QED BY <1>2, <1>5, <2>1 DEF point
<1> QED BY <1>2, <1>4, <1>6 DEF Step, HandleReply

\* A client that is cut off stays so, and its state follows the call.
LEMMA CutCalls ==
  ASSUME TypeInvariant, NEW c \in Clients, CutOff(c), StateFollowsCall(c), Step(c),
         UNCHANGED c2s \/ Session(c) \/ connect_collision(c)
  PROVE  CutOff(c)' /\ StateFollowsCall(c)'
PROOF
<1>1. ControlOK
  BY TypeInvariantParts
<1>2. UNCHANGED c2s
  BY CutSteps
<1>3. CASE UNCHANGED <<cpc, session_state, username, serverVars, s2c, dbVars>>
  BY <1>2, <1>3 DEF CutOff, StateFollowsCall, serverVars
<1>4. CASE \/ login_reply(c) \/ selectCharacter_reply(c) \/ report_reply(c)
           \/ logout_reply(c)
  <2>1. /\ Receive(c, "prompt") /\ cpc[c] \in Calls
    BY <1>4 DEF login_reply, selectCharacter_reply, report_reply, logout_reply,
       Answered, Calls
  <2>2. cpc'[c] = "prompt" /\ spc'[c] = spc[c]
    BY <1>1, <2>1 DEF Receive, ControlOK, serverVars
  <2>3. session_state[c] # "EXIT_GAME"
    BY <2>1 DEF StateFollowsCall, AccountCalls, LoggedStates
  <2>4. session_state'[c] # "EXIT_GAME"
    BY <1>1, <1>4, <2>3 DEF ControlOK, login_reply, selectCharacter_reply, report_reply,
       logout_reply
  <2> QED BY <1>2, <2>2, <2>4 DEF CutOff, StateFollowsCall, AccountCalls, Calls
<1>5. CASE quit_reply(c)
  <2>1. cpc'[c] = "leaving" /\ spc'[c] = spc[c] /\ session_state'[c] = "EXIT_GAME"
    BY <1>1, <1>5 DEF quit_reply, Receive, ControlOK, serverVars
  <2> QED BY <1>2, <2>1
          DEF CutOff, StateFollowsCall, AccountCalls, Calls, LoggedStates
<1>6. CASE disconnect(c) \/ connection_lost(c)
  <2>1. cpc'[c] = "gone" /\ spc'[c] = spc[c] /\ session_state'[c] = "EXIT_GAME"
    BY <1>1, <1>6 DEF disconnect, connection_lost, Terminate, ControlOK, serverVars
  <2> QED BY <1>2, <2>1
          DEF CutOff, StateFollowsCall, AccountCalls, Calls, LoggedStates
<1> QED BY <1>3, <1>4, <1>5, <1>6, CutSteps

\* What a step of GameSystem leaves of its client's call.
LEMMA OwnStepCalls ==
  ASSUME RestartTypes, RestartCalls, NEW c \in Clients, OwnStep(c)
  PROVE  RestartCalls'
PROOF
<1>1. TypeInvariant /\ ClientCall(c) /\ Step(c) /\ UNCHANGED cut
  BY DEF RestartTypes, RestartCalls, OwnStep, processVars
<1>2. CASE c \in cut
  <2>1. CutOff(c)' /\ StateFollowsCall(c)'
    BY <1>1, <1>2, CutCalls DEF ClientCall, OwnStep
  <2> QED BY <1>1, <1>2, <2>1, StepIsLocal, OthersKeepClientCall
          DEF ClientCall, RestartCalls, CutOff, Ended
<1>3. CASE c \notin cut
  <2>1. CallDiscipline(c)' /\ StateFollowsCall(c)'
    BY <1>1, <1>3, CommandCalls, HandleReplyCalls, ProcessCalls, SessionCalls, OrphanCalls
       DEF Step, ClientCall
  <2>2. spc'[c] = "none" => cpc'[c] = "off"
    BY <1>1, SessionsStay DEF ClientCall
  <2> QED BY <1>1, <1>3, <2>1, <2>2, StepIsLocal, OthersKeepClientCall
          DEF ClientCall, RestartCalls
<1> QED BY <1>2, <1>3

LEMMA ReadsEndIsLocal ==
  ASSUME TypeInvariant, NEW c \in Clients, ReadsEnd(c)
  PROVE  UnchangedOthers(c)
BY TypeInvariantParts
   DEF ReadsEnd, RecordsWellFormed, UnchangedOthers, clientVars, serverVars

\* A client that takes end-of-file for an answer is cut off all the same.
LEMMA ReadsEndCalls ==
  ASSUME RestartTypes, RestartCalls, NEW c \in Clients, ReadsEnd(c)
  PROVE  RestartCalls'
PROOF
<1>1. TypeInvariant
  BY DEF RestartTypes
<1>2. UNCHANGED <<cpc, session_state, username, character, spc, data_from_client,
                  data_to_client, c2s, cut>>
  BY DEF ReadsEnd, clientVars, serverVars, processVars
<1>3. UnchangedOthers(c)
  BY <1>1, ReadsEndIsLocal
<1>4. c \in cut /\ CutOff(c) /\ StateFollowsCall(c)
  BY DEF ReadsEnd, RestartCalls, ClientCall
<1>5. ClientCall(c)'
  BY <1>2, <1>4 DEF ClientCall, CutOff, StateFollowsCall, Ended
<1> QED BY <1>2, <1>3, <1>5, OthersKeepClientCall DEF RestartCalls

\* A session that was connecting is not cut off, and however it goes on its call is
\* where it can be, or stranded.
LEMMA GoOnCalls ==
  ASSUME RestartTypes, RestartCalls, NEW outcome \in [Connecting -> Outcomes],
         GoOn(outcome), UNCHANGED cut
  PROVE  RestartCalls'
PROOF
<1>1. ControlOK /\ RecordsWellFormed
  BY TypeInvariantParts DEF RestartTypes
<1>2. /\ spc' = [s \in Clients |-> IF s \in Connecting THEN outcome[s] ELSE spc[s]]
      /\ UNCHANGED <<cpc, session_state, username, data_from_client, c2s, s2c>>
  BY DEF GoOn, clientVars
<1>3. PICK d \in Garbage :
        data_to_client' = [s \in Clients |->
          CASE s \in Connecting /\ outcome[s] = "send" -> d
            [] s \in Connecting /\ outcome[s] \in Ended -> NULL
            [] OTHER -> data_to_client[s]]
  BY DEF GoOn
<1>4. d # NULL
  BY GarbageIsReply
<1> SUFFICES ASSUME NEW c \in Clients PROVE ClientCall(c)'
  BY DEF RestartCalls
<1>5. ClientCall(c)
  BY DEF RestartCalls
<1>6. CASE c \notin Connecting
  <2>1. spc'[c] = spc[c] /\ data_to_client'[c] = data_to_client[c]
    BY <1>2, <1>3, <1>6
  <2> QED BY <1>2, <1>5, <2>1 DEF ClientCall, StateFollowsCall, CallDiscipline, Idle,
             Asked, InService, Replied, Matches, Orphaned, CutOff
<1>7. CASE c \in Connecting
  <2>1. spc[c] = "db" /\ c \notin cut /\ CallDiscipline(c) /\ StateFollowsCall(c)
    BY <1>5, <1>7 DEF Connecting, ClientCall, CutOff, Ended, Orphaned
  <2>2. cpc[c] \notin {"off", "prompt"} /\ (cpc[c] \in Calls => InService(c))
    BY <2>1 DEF CallDiscipline, Idle, Asked, Replied
  <2>3. spc'[c] = outcome[c] /\ outcome[c] \in Outcomes
    BY <1>2, <1>7
  <2>4. /\ outcome[c] = "send" => data_to_client'[c] = d
        /\ outcome[c] \notin Ended \cup {"send"} => data_to_client'[c] = data_to_client[c]
    BY <1>3, <1>7 DEF Ended
  <2>5. StateFollowsCall(c)'
    BY <1>2, <1>4, <2>1, <2>3, <2>4 DEF StateFollowsCall, Ended, Outcomes
  <2>6. CallDiscipline(c)' \/ Orphaned(c)'
    <3>1. CASE outcome[c] = "exit" /\ cpc[c] \in Calls
      BY <1>2, <2>2, <2>3, <3>1 DEF InService, Orphaned
    <3>2. CASE ~(outcome[c] = "exit" /\ cpc[c] \in Calls)
      <4>1. cpc[c] \in Calls => InService(c)'
        BY <1>2, <1>4, <2>2, <2>3, <2>4, <3>2 DEF InService, Matches, Outcomes
      <4> QED BY <1>2, <2>1, <2>2, <2>3, <4>1 DEF CallDiscipline, Outcomes
    <3> QED BY <3>1, <3>2
  <2> QED BY <2>1, <2>2, <2>3, <2>5, <2>6 DEF ClientCall, Outcomes
<1> QED BY <1>6, <1>7

\* Ctrl-C at the server takes every session that runs, and what was sent to it.
LEMMA InterruptCalls ==
  ASSUME RestartTypes, RestartCalls, srv_sigRutine
  PROVE  RestartCalls'
PROOF
<1>1. ControlOK /\ RecordsWellFormed
  BY TypeInvariantParts DEF RestartTypes
<1>2. /\ UNCHANGED <<cpc, session_state, username, s2c>>
      /\ spc' = [s \in Clients |-> IF spc[s] \in Ended \cup {"none"} THEN spc[s]
                                   ELSE "exit"]
      /\ c2s' = [c \in Clients |-> << >>]
      /\ cut' = {c \in Clients : Alive(c)}
  BY DEF srv_sigRutine, clientVars
<1> SUFFICES ASSUME NEW c \in Clients PROVE ClientCall(c)'
  BY DEF RestartCalls
<1>3. /\ StateFollowsCall(c) /\ (spc[c] = "none" => cpc[c] = "off")
      /\ cpc[c] = "off" => CallDiscipline(c)
  BY DEF RestartCalls, ClientCall, CutOff, Orphaned, Calls
<1>4. c2s'[c] = << >>
  BY <1>2
<1>5. CASE cpc[c] = "off"
  <2>1. spc[c] = "none" /\ s2c[c] = << >> /\ spc'[c] = "none" /\ c \notin cut'
    BY <1>2, <1>3, <1>5 DEF CallDiscipline, Alive
  <2>2. session_state[c] = "USER_LOGIN"
    BY <1>3, <1>5 DEF StateFollowsCall
  <2> QED BY <1>2, <1>4, <1>5, <2>1, <2>2
          DEF ClientCall, CallDiscipline, StateFollowsCall, Calls, AccountCalls,
              LoggedStates
<1>6. CASE cpc[c] # "off"
  <2>1. spc'[c] \in Ended
    BY <1>2, <1>3, <1>6 DEF Ended
  <2>2. StateFollowsCall(c)'
    BY <1>2, <1>3, <2>1 DEF StateFollowsCall
  <2>3. c \in cut' => CutOff(c)'
    BY <1>2, <1>4, <1>6, <2>1 DEF CutOff
  <2>4. c \notin cut' => CallDiscipline(c)'
    BY <1>2, <1>4, <1>6 DEF Alive, CallDiscipline, Calls
  <2> QED BY <2>1, <2>2, <2>3, <2>4 DEF ClientCall, Ended
<1> QED BY <1>5, <1>6

\* Whoever still has both ends is strictly call - return, whatever ends meanwhile.
LEMMA CallsStep ==
  ASSUME RestartTypes, RestartCalls, [RestartNext]_allVars
  PROVE  RestartCalls'
PROOF
<1>1. CASE kill_database \/ start_database
  <2>1. (\E outcome \in [Connecting -> Outcomes] : GoOn(outcome)) /\ UNCHANGED cut
    BY <1>1 DEF kill_database, start_database, Outcomes
  <2> QED BY <2>1, GoOnCalls
<1>2. CASE start_server \/ UNCHANGED allVars
  <2>1. UNCHANGED <<cpc, session_state, username, spc, data_from_client,
                    data_to_client, c2s, s2c, cut>>
    BY <1>2 DEF start_server, allVars, processVars, vars, clientVars, serverVars
  <2> QED BY <2>1 DEF RestartCalls, ClientCall, StateFollowsCall, CallDiscipline, Idle,
             Asked, InService, Replied, Matches, Orphaned, CutOff
<1> QED BY <1>1, <1>2, RestartStepIs, OwnStepCalls, ReadsEndCalls, InterruptCalls
        DEF Fault

-----------------------------------------------------------------------------
(* What is under way after a fault.                                         *)

\* No request is new, and no answer that grants something.
NothingIsGranted ==
  \A c \in Clients :
    /\ PendingRequests(c)' \subseteq PendingRequests(c)
    /\ \A r \in PendingReplies(c)' : r.opcode = "NO_ERROR" => r \in PendingReplies(c)

NoAnswerIsLost == \A c \in Clients : PendingReplies(c) \subseteq PendingReplies(c)'

\* End-of-file, taken for an answer, is one that grants nothing.
LEMMA ReadsEndRecords ==
  ASSUME TypeInvariant, NEW c \in Clients, CutOff(c), ReadsEnd(c)
  PROVE  NothingIsGranted /\ NoAnswerIsLost
PROOF
<1>1. RecordsWellFormed
  BY TypeInvariantParts
<1>2. PICK d \in Garbage : s2c' = [s2c EXCEPT ![c] = <<d>>]
  BY DEF ReadsEnd
<1>3. s2c[c] = << >> /\ UNCHANGED <<spc, data_from_client, data_to_client, c2s>>
  BY DEF ReadsEnd, serverVars
<1>4. \A e \in Clients : PendingRequests(e)' = PendingRequests(e)
  BY <1>3 DEF PendingRequests
<1>5. \A e \in Clients \ {c} : PendingReplies(e)' = PendingReplies(e)
  BY <1>1, <1>2, <1>3 DEF PendingReplies, RecordsWellFormed
<1>6. PendingReplies(c)' = {d} /\ PendingReplies(c) = {} /\ d.opcode # "NO_ERROR"
  <2>1. s2c'[c] = <<d>> /\ spc[c] # "send" /\ spc'[c] # "send"
    BY <1>1, <1>2, <1>3 DEF RecordsWellFormed, CutOff, Ended
  <2> QED BY <1>3, <2>1, GarbageIsReply DEF PendingReplies, Range
<1> QED BY <1>4, <1>5, <1>6 DEF NothingIsGranted, NoAnswerIsLost

\* Nor does a database that ends or starts grant anything: at best a session reads
\* end-of-file.
LEMMA GoOnRecords ==
  ASSUME NEW outcome \in [Connecting -> Outcomes], GoOn(outcome)
  PROVE  NothingIsGranted /\ NoAnswerIsLost
PROOF
<1>1. PICK d \in Garbage :
        data_to_client' = [s \in Clients |->
          CASE s \in Connecting /\ outcome[s] = "send" -> d
            [] s \in Connecting /\ outcome[s] \in Ended -> NULL
            [] OTHER -> data_to_client[s]]
  BY DEF GoOn
<1>2. /\ spc' = [s \in Clients |-> IF s \in Connecting THEN outcome[s] ELSE spc[s]]
      /\ UNCHANGED <<data_from_client, c2s, s2c>>
  BY DEF GoOn
<1>3. ASSUME NEW c \in Clients
      PROVE  /\ PendingRequests(c)' \subseteq PendingRequests(c)
             /\ PendingReplies(c) \subseteq PendingReplies(c)'
             /\ PendingReplies(c)' \subseteq PendingReplies(c) \cup {d}
  <2>1. CASE c \in Connecting
    <3>1. spc[c] = "db" /\ spc'[c] = outcome[c]
          /\ (outcome[c] = "send" => data_to_client'[c] = d)
      BY <1>1, <1>2, <2>1 DEF Connecting, Ended
    <3> QED BY <1>2, <3>1 DEF PendingRequests, PendingReplies
  <2>2. CASE c \notin Connecting
    <3>1. spc'[c] = spc[c] /\ data_to_client'[c] = data_to_client[c]
      BY <1>1, <1>2, <2>2
    <3> QED BY <1>2, <3>1 DEF PendingRequests, PendingReplies
  <2> QED BY <2>1, <2>2
<1> QED BY <1>3, GarbageIsReply DEF NothingIsGranted, NoAnswerIsLost

\* Ctrl-C at the server takes the requests under way, and leaves the answers that the
\* clients have got.
LEMMA InterruptRecords ==
  ASSUME srv_sigRutine
  PROVE  /\ NothingIsGranted
         /\ \A c \in Clients : PendingRequests(c)' = {}
PROOF
<1>1. /\ UNCHANGED s2c
      /\ spc' = [s \in Clients |-> IF spc[s] \in Ended \cup {"none"} THEN spc[s]
                                   ELSE "exit"]
      /\ c2s' = [c \in Clients |-> << >>]
  BY DEF srv_sigRutine
<1>2. ASSUME NEW c \in Clients
      PROVE  /\ PendingRequests(c)' = {}
             /\ PendingReplies(c)' \subseteq PendingReplies(c)
  <2>1. spc'[c] \notin {"process", "db", "send"} /\ c2s'[c] = << >>
    BY <1>1 DEF Ended
  <2> QED BY <1>1, <2>1 DEF PendingRequests, PendingReplies, Range
<1> QED BY <1>2 DEF NothingIsGranted

-----------------------------------------------------------------------------
(* Accounts.                                                                *)

\* Who keeps an account after a step that empties no tables is not stale because it
\* was: a client is stale until it holds nothing.
LEMMA FreshBefore ==
  ASSUME Observe, NEW c \in Clients, NEW u \in Usernames, c \notin stale', Keeps(c, u)'
  PROVE  c \notin stale
BY DEF Observe, HoldsSome, Keeps

\* A step that gives accounts up at most, and changes no mark.
OnlyGivesUp ==
  /\ Observe
  /\ \A u \in Usernames : InUse(u)' <=> InUse(u)
  /\ \A c \in Clients, u \in Usernames : Keeps(c, u)' => Keeps(c, u)

\* Giving accounts up is always safe.
LEMMA FewerKeepers ==
  ASSUME RestartAccounts, OnlyGivesUp
  PROVE  RestartAccounts'
PROOF
<1> SUFFICES ASSUME ~freed' PROVE RestartAccounts'
  BY DEF RestartAccounts
<1>1. ~freed
  BY DEF OnlyGivesUp, Observe
<1>2. \A c \in Clients \ stale', u \in Usernames :
        Keeps(c, u)' => c \in Clients \ stale /\ Keeps(c, u)
  BY FreshBefore DEF OnlyGivesUp
<1> QED BY <1>1, <1>2 DEF RestartAccounts, OnlyGivesUp

\* Each effect that a step of GameSystem has keeps the accounts of the new tables
\* exclusive, unless a stale client returns one of them: then freed remembers it.
LEMMA EffectKeepsRestartAccounts ==
  ASSUME RestartAccounts, NEW c \in Clients \ cut, UnchangedOthers(c),
         AccountEffect(c), Observe, UNCHANGED cut
  PROVE  RestartAccounts'
PROOF
<1>1. \A d \in Clients \ {c}, u \in Usernames : Keeps(d, u)' <=> Keeps(d, u)
  BY OthersHoldTheSame DEF Keeps, UnchangedOthers
<1>2. \A u \in Usernames :
        (Keeps(c, u) <=> Holds(c, u)) /\ (Keeps(c, u)' <=> Holds(c, u)')
  BY DEF Keeps
<1>3. CASE GivesUp(c)
  <2>1. \A d \in Clients, u \in Usernames : Keeps(d, u)' => Keeps(d, u)
    BY <1>1, <1>2, <1>3 DEF GivesUp
  <2> QED BY <1>3, <2>1, FewerKeepers DEF GivesUp, OnlyGivesUp
<1>4. CASE freed'
  BY <1>4 DEF RestartAccounts
<1>5. ASSUME NEW a \in Usernames, Grants(c, a), ~freed'
      PROVE  RestartAccounts'
  <2>1. ~freed
    BY <1>5 DEF Observe
  <2>2. \A d \in Clients \ stale : ~Keeps(d, a)
    BY <1>5, <2>1 DEF Grants, RestartAccounts
  <2>3. ASSUME NEW d \in Clients \ stale', NEW u \in Usernames, Keeps(d, u)'
        PROVE  \/ d = c /\ u = a
               \/ d \in Clients \ stale /\ Keeps(d, u) /\ u # a
    BY <1>1, <1>2, <1>5, <2>2, <2>3, FreshBefore DEF Grants
  <2> QED BY <1>5, <2>1, <2>3 DEF Grants, RestartAccounts
<1>6. ASSUME NEW a \in Usernames, Returns(c, a), ~freed'
      PROVE  RestartAccounts'
  <2>1. ~freed
    BY <1>6 DEF Observe
  <2>2. ASSUME NEW d \in Clients \ stale', NEW u \in Usernames, Keeps(d, u)'
        PROVE  d \in Clients \ stale /\ Keeps(d, u) /\ u # a
    <3>1. d # c /\ Keeps(d, u) /\ d \notin stale
      BY <1>1, <1>2, <1>6, <2>2, FreshBefore DEF Returns
    <3>2. InUse(u)
      BY <2>1, <3>1 DEF RestartAccounts
    <3>3. u # a
      <4>1. CASE c \in stale
        BY <1>6, <3>2, <4>1 DEF Observe, Returns
      <4>2. CASE c \notin stale
        BY <1>2, <1>6, <2>1, <3>1, <4>2 DEF RestartAccounts, Returns
      <4> QED BY <4>1, <4>2
    <3> QED BY <3>1, <3>3
  <2> QED BY <1>6, <2>1, <2>2 DEF Returns, RestartAccounts
<1> QED BY <1>3, <1>4, <1>5, <1>6 DEF AccountEffect

\* An orphaned client only gives up.
LEMMA OrphanEffect ==
  ASSUME TypeInvariant, NEW c \in Clients, Orphaned(c), Step(c)
  PROVE  AccountEffect(c)
BY OrphanEnds, EndPending DEF AccountEffect, GivesUp, InUse, dbVars, Holds, LoggedIn,
   Granted

\* A client that is cut off gains nothing, but the login that was answered before.
LEMMA CutKeeps ==
  ASSUME TypeInvariant, NEW c \in cut, c \in Clients, CutOff(c), StateFollowsCall(c),
         Step(c), UNCHANGED c2s \/ Session(c) \/ connect_collision(c),
         NEW u \in Usernames, Keeps(c, u)'
  PROVE  Keeps(c, u)
PROOF
<1>1. ControlOK /\ RecordsWellFormed
  BY TypeInvariantParts
<1>2. /\ UNCHANGED <<spc, c2s>>
      /\ PendingRequests(c) = {} /\ PendingRequests(c)' = {}
      /\ PendingReplies(c) = Range(s2c[c]) /\ PendingReplies(c)' = Range(s2c'[c])
  <2>1. UNCHANGED <<spc, c2s>>
    BY CutSteps DEF serverVars, login_reply, selectCharacter_reply, report_reply,
       quit_reply, logout_reply, Receive, disconnect, connection_lost, Terminate
  <2> QED BY <2>1 DEF CutOff, Ended, PendingRequests, PendingReplies, Range
<1>3. CASE /\ point(c)
           /\ UNCHANGED <<cpc, session_state, username, serverVars, s2c, dbVars>>
  <2>1. cpc[c] = "prompt"
    BY <1>3 DEF point, CommandAllowed
  <2> QED BY <1>2, <1>3, <2>1 DEF Keeps, Holds, LoggedIn, LogoutServed, Granted
<1>4. ASSUME cpc[c] \notin {"quit", "logout"}, session_state[c] \in LoggedStates,
             username[c] = u
      PROVE  Keeps(c, u)
  BY <1>4 DEF Keeps, Holds, LoggedIn, LogoutServed, LoggedStates
<1>5. CASE login_reply(c)
  <2>1. cpc[c] = "login" /\ session_state[c] = "USER_LOGIN" /\ s2c[c] # << >>
        /\ cpc'[c] = "prompt"
    BY <1>1, <1>5 DEF login_reply, Answered, Receive, StateFollowsCall, ControlOK
  <2>2. LoggedIn(c)' /\ username'[c] = u
    BY <1>2, <2>1 DEF Keeps, Holds, Granted
  <2>3. Head(s2c[c]).opcode = "NO_ERROR" /\ Head(s2c[c]).username = u
    BY <1>1, <1>5, <2>1, <2>2 DEF login_reply, LoggedIn, ControlOK
  <2>4. Head(s2c[c]) \in PendingReplies(c)
    <3>1. s2c[c] \in Seq(Replies)
      BY <1>1 DEF RecordsWellFormed
    <3>2. 1 \in DOMAIN s2c[c] /\ Head(s2c[c]) = s2c[c][1]
      BY <2>1, <3>1, EmptySeq
    <3> QED BY <1>2, <3>2 DEF Range
  <2> QED BY <2>1, <2>3, <2>4 DEF Keeps, Holds, Granted
<1>6. CASE selectCharacter_reply(c) \/ report_reply(c)
  <2>1. cpc'[c] = "prompt" /\ UNCHANGED username /\ cpc[c] \notin {"quit", "logout"}
    BY <1>1, <1>6 DEF selectCharacter_reply, report_reply, Answered, Receive, ControlOK
  <2>2. LoggedIn(c)' /\ username[c] = u
    BY <1>2, <2>1 DEF Keeps, Holds, Granted
  <2>3. session_state[c] \in LoggedStates
    BY <1>6, <2>2 DEF selectCharacter_reply, report_reply, Answered, LoggedIn,
       LoggedStates, StateFollowsCall, AccountCalls, Calls
  <2> QED BY <1>4, <2>1, <2>2, <2>3
<1>7. CASE quit_reply(c) \/ logout_reply(c) \/ disconnect(c) \/ connection_lost(c)
  <2>1. cpc'[c] # "login" /\ session_state'[c] \notin LoggedStates
    BY <1>1, <1>7 DEF quit_reply, logout_reply, Receive, disconnect, connection_lost,
       Terminate, ControlOK, LoggedStates
  <2> QED BY <1>2, <2>1 DEF Keeps, Holds, LoggedIn, Granted, LoggedStates
<1> QED BY <1>3, <1>5, <1>6, <1>7, CutSteps

\* Nor does any step of it free an account or give one to another.
LEMMA CutGivesUp ==
  ASSUME RestartInvariant, NEW c \in Clients, c \in cut, OwnStep(c)
  PROVE  OnlyGivesUp
PROOF
<1>1. /\ TypeInvariant /\ Step(c) /\ UnchangedOthers(c) /\ Observe /\ UNCHANGED cut
      /\ CutOff(c) /\ StateFollowsCall(c)
      /\ (UNCHANGED c2s \/ Session(c) \/ connect_collision(c))
  BY StepIsLocal
     DEF RestartInvariant, RestartTypes, RestartCalls, ClientCall, OwnStep, processVars
<1>2. \A u \in Usernames : Keeps(c, u)' => Keeps(c, u)
  BY <1>1, CutKeeps
<1>3. \A d \in Clients \ {c}, u \in Usernames : Keeps(d, u)' => Keeps(d, u)
  BY <1>1, OthersHoldTheSame DEF Keeps, UnchangedOthers
<1>4. UNCHANGED dbVars
  BY <1>1, CutSteps DEF login_reply, selectCharacter_reply, report_reply,
     quit_reply, logout_reply, Receive, disconnect, connection_lost, Terminate
<1> QED BY <1>1, <1>2, <1>3, <1>4 DEF OnlyGivesUp, InUse, dbVars

\* A step of a client that has both ends.
LEMMA OwnStepEffect ==
  ASSUME RestartInvariant, NEW c \in Clients \ cut, OwnStep(c)
  PROVE  UnchangedOthers(c) /\ AccountEffect(c) /\ Observe /\ UNCHANGED cut
PROOF
<1>1. /\ TypeInvariant /\ ClientCall(c)
      /\ Step(c) /\ UnchangedOthers(c) /\ Observe /\ UNCHANGED cut
  BY StepIsLocal DEF RestartInvariant, RestartTypes, RestartCalls, OwnStep, processVars
<1>2. AccountEffect(c)
  BY <1>1, StepEffect, OrphanEffect DEF ClientCall
<1> QED BY <1>1, <1>2

\* What a step of GameSystem does to the accounts here.
LEMMA OwnStepAccounts ==
  ASSUME RestartInvariant, NEW c \in Clients, OwnStep(c)
  PROVE  RestartAccounts'
BY OwnStepEffect, EffectKeepsRestartAccounts, CutGivesUp, FewerKeepers DEF RestartInvariant

\* Who is granted nothing keeps nothing new, as long as no answer to a logout is lost,
\* or its client is cut off.
LEMMA KeepsNothingNew ==
  ASSUME NothingIsGranted, UNCHANGED <<cpc, session_state, username>>,
         NEW c \in Clients, NEW u, Keeps(c, u)',
         \/ PendingReplies(c) \subseteq PendingReplies(c)' /\ UNCHANGED cut
         \/ cpc[c] \notin {"quit", "logout"}
  PROVE  Keeps(c, u)
BY DEF NothingIsGranted, Keeps, Holds, LoggedIn, LogoutServed, Granted

\* End-of-file, taken for an answer, grants no account.
LEMMA ReadsEndGivesUp ==
  ASSUME RestartInvariant, NEW c \in Clients, ReadsEnd(c)
  PROVE  OnlyGivesUp
PROOF
<1>1. TypeInvariant /\ CutOff(c)
  BY DEF RestartInvariant, RestartTypes, RestartCalls, ClientCall, ReadsEnd
<1>2. UNCHANGED <<cpc, session_state, username, User, cut>> /\ Observe
  BY DEF ReadsEnd, clientVars, processVars, dbVars
<1>3. NothingIsGranted /\ NoAnswerIsLost
  BY <1>1, ReadsEndRecords
<1> QED BY <1>1, <1>2, <1>3, KeepsNothingNew DEF OnlyGivesUp, InUse, NoAnswerIsLost

\* A database that ends grants none either.
LEMMA KillGivesUp ==
  ASSUME RestartInvariant, kill_database
  PROVE  OnlyGivesUp
PROOF
<1>1. PICK outcome \in [Connecting -> Outcomes] : GoOn(outcome)
  BY DEF kill_database, Outcomes
<1>2. UNCHANGED <<cpc, session_state, username, User, cut>> /\ Observe
  BY <1>1 DEF GoOn, clientVars, kill_database, dbVars
<1>3. NothingIsGranted /\ NoAnswerIsLost
  BY <1>1, GoOnRecords
<1> QED BY <1>2, <1>3, KeepsNothingNew
        DEF OnlyGivesUp, InUse, NoAnswerIsLost, RestartInvariant

\* Whom Ctrl-C at the server finds waiting for the answer to its logout has none to
\* come.
LEMMA InterruptGivesUp ==
  ASSUME RestartInvariant, srv_sigRutine
  PROVE  OnlyGivesUp
PROOF
<1>1. /\ UNCHANGED <<cpc, session_state, username, User>> /\ Observe
      /\ cut' = {c \in Clients : Alive(c)}
  BY DEF srv_sigRutine, clientVars, dbVars
<1>2. \A c \in Clients, u \in Usernames :
        Keeps(c, u)' => cpc[c] \notin {"quit", "logout"}
  BY <1>1 DEF Keeps, Alive
<1> QED BY <1>1, <1>2, InterruptRecords, KeepsNothingNew
        DEF OnlyGivesUp, InUse, RestartInvariant

\* A database that starts makes every holder stale: nobody holds one of its accounts.
LEMMA StartAccounts ==
  ASSUME start_database
  PROVE  RestartAccounts'
BY DEF start_database, RestartAccounts, Keeps, HoldsSome

\* Every step, and every fault, keeps the accounts of one run of the database.
LEMMA AccountsStep ==
  ASSUME RestartInvariant, [RestartNext]_allVars
  PROVE  RestartAccounts'
PROOF
<1>1. CASE start_server \/ UNCHANGED allVars
  <2>1. UNCHANGED <<cpc, session_state, username, spc, data_from_client,
                    data_to_client, c2s, s2c, User, cut, stale, freed>>
    BY <1>1 DEF start_server, allVars, processVars, historyVars, vars, clientVars,
       serverVars, dbVars
  <2> QED BY <2>1 DEF RestartInvariant, RestartAccounts, Keeps, Holds, LoggedIn,
             LogoutServed, Granted, PendingRequests, PendingReplies, InUse
<1> QED BY <1>1, RestartStepIs, OwnStepAccounts, ReadsEndGivesUp, KillGivesUp,
           InterruptGivesUp, FewerKeepers, StartAccounts DEF Fault, RestartInvariant

-----------------------------------------------------------------------------
(* The theorems.                                                            *)

\* Initially everything runs and nobody holds an account.
LEMMA RestartInvariantInit == RestartInit => RestartInvariant
PROOF
<1> SUFFICES ASSUME RestartInit PROVE RestartInvariant
  OBVIOUS
<1>1. TypeInvariant /\ CallInvariant /\ AccountInvariant
  BY TypeInit, CallInit, AccountInit DEF RestartInit
<1>2. RestartTypes
  BY <1>1 DEF RestartInit, RestartTypes
<1>3. RestartCalls
  BY <1>1 DEF RestartInit, RestartCalls, ClientCall, CallInvariant, Init
<1>4. RestartAccounts
  BY <1>1 DEF RestartAccounts, Keeps, AccountInvariant
<1> QED BY <1>2, <1>3, <1>4 DEF RestartInvariant

\* However often the database and the server end and are started again: a client that
\* has both ends of its connection is strictly call - return or was orphaned by a
\* database that was just starting, one that Ctrl-C cut off stays so (srv_sigRutine),
\* and the clients that logged in to the tables there are now hold marked accounts of
\* their own (initialize_table), until a client of earlier tables frees one.
THEOREM RestartInvariantHolds == RestartSpec => []RestartInvariant
PROOF
<1>1. RestartInvariant /\ [RestartNext]_allVars => RestartInvariant'
  BY TypesStep, CallsStep, AccountsStep DEF RestartInvariant
<1> QED BY <1>1, RestartInvariantInit, PTL DEF RestartSpec

\* Ctrl-C at the server did not find the client waiting for the answer to its logout.
StillIn(c) == LoggedIn(c) /\ ~(c \in cut /\ cpc[c] \in {"quit", "logout"})

ExclusiveSinceRestart ==
  freed \/ \A c, d \in Clients \ stale :
             StillIn(c) /\ StillIn(d) /\ username[c] = username[d] => c = d

\* Two clients are never logged in to one account of one run of the database, until a
\* client that logged in before its tables were emptied logs out (database.c:82).
THEOREM ExclusiveSinceRestartHolds == RestartSpec => []ExclusiveSinceRestart
PROOF
<1>1. RestartInvariant => ExclusiveSinceRestart
  <2> SUFFICES ASSUME RestartInvariant, ~freed,
                      NEW c \in Clients \ stale, NEW d \in Clients \ stale,
                      StillIn(c), StillIn(d), username[c] = username[d]
               PROVE  c = d
    BY DEF ExclusiveSinceRestart
  <2>1. username[c] \in Usernames
    BY DEF RestartInvariant, RestartTypes, TypeInvariant, RecordsWellFormed, StillIn,
       LoggedIn, LoggedStates
  <2>2. Keeps(c, username[c]) /\ Keeps(d, username[c])
    BY DEF StillIn, Keeps, Holds
  <2> QED BY <2>1, <2>2 DEF RestartInvariant, RestartAccounts
<1> QED BY <1>1, RestartInvariantHolds, PTL

\* Every variable keeps its type, also when what runs ends and is started again: in
\* particular no table gets a record's unwritten field after a restart either.
THEOREM RestartTypeCorrect == RestartSpec => []RestartTypeOK
PROOF
<1> DEFINE Bounded == faults \in 0..MaxFaults
           Recorded == freed \in BOOLEAN /\ overwritten \in SUBSET Names
<1>1. RestartInit => Bounded /\ Recorded
  <2>1. 0 \in 0..MaxFaults
    BY FaultAssumption
  <2>2. FALSE \in BOOLEAN /\ {} \in SUBSET Names
    OBVIOUS
  <2> QED BY <2>1, <2>2 DEF RestartInit
<1>2. Bounded /\ [RestartNext]_allVars => Bounded'
  <2> SUFFICES ASSUME Bounded, [RestartNext]_allVars PROVE Bounded'
    OBVIOUS
  <2>1. CASE UNCHANGED faults
    BY <2>1
  <2>2. CASE faults < MaxFaults /\ faults' = faults + 1
    BY <2>2, FaultAssumption
  <2>3. UNCHANGED faults \/ (faults < MaxFaults /\ faults' = faults + 1)
    BY RestartStepIs DEF OwnStep, ReadsEnd, Fault, kill_database, start_database,
       srv_sigRutine, start_server, allVars, processVars
  <2> QED BY <2>1, <2>2, <2>3
<1>3. RestartInvariant /\ Recorded /\ [RestartNext]_allVars => Recorded'
  <2> SUFFICES ASSUME RestartInvariant, Recorded, [RestartNext]_allVars PROVE Recorded'
    OBVIOUS
  <2>1. CASE Observe
    <3>1. DOMAIN Chars \subseteq Names
      BY TypeInvariantParts DEF RestartInvariant, RestartTypes, DBTypeOK
    <3> QED BY <2>1, <3>1 DEF Observe
  <2>2. CASE UNCHANGED historyVars
    BY <2>2 DEF historyVars
  <2>3. CASE freed' = FALSE /\ overwritten' = {}
    BY <2>3
  <2>4. Observe \/ UNCHANGED historyVars \/ (freed' = FALSE /\ overwritten' = {})
    BY RestartStepIs DEF OwnStep, ReadsEnd, Fault, kill_database, start_database,
       srv_sigRutine, start_server, allVars
  <2> QED BY <2>1, <2>2, <2>3, <2>4
<1>4. RestartInvariant /\ Bounded /\ Recorded => RestartTypeOK
  BY DEF RestartInvariant, RestartTypes, RestartTypeOK, TypeInvariant
<1> HIDE DEF Bounded, Recorded
<1> QED BY <1>1, <1>2, <1>3, <1>4, RestartInvariantHolds, PTL DEF RestartSpec

-----------------------------------------------------------------------------
(* The accounts of one run of the database implement the lock.              *)

\* A client with both ends holds one account at most.
LEMMA OneAccountEach ==
  ASSUME TypeInvariant, NEW c \in Clients \ cut, ClientCall(c),
         NEW u, NEW v, Holds(c, u), Holds(c, v)
  PROVE  u = v
PROOF
<1>1. CASE CallDiscipline(c)
  BY <1>1, OneAccount DEF ClientCall
<1>2. CASE Orphaned(c)
  BY <1>2 DEF Orphaned, Holds, Granted, PendingRequests, PendingReplies, Range
<1> QED BY <1>1, <1>2 DEF ClientCall

\* HolderSince reads the marks and those that keep an account.
SinceReads ==
  \A u \in Usernames :
    /\ ~InUse(u) => HolderSince(u) = Free
    /\ \A c \in Clients \ stale : Keeps(c, u) => HolderSince(u) = c
    /\ InUse(u) /\ (\A c \in Clients \ stale : ~Keeps(c, u)) => HolderSince(u) = Abandoned

\* Until an account is freed it has one keeper at most, and then it is marked.
LEMMA SinceIsRead == RestartAccounts => freed \/ SinceReads
PROOF
<1> SUFFICES ASSUME RestartAccounts, ~freed, NEW u \in Usernames
             PROVE  /\ ~InUse(u) => HolderSince(u) = Free
                    /\ \A c \in Clients \ stale : Keeps(c, u) => HolderSince(u) = c
                    /\ InUse(u) /\ (\A c \in Clients \ stale : ~Keeps(c, u))
                         => HolderSince(u) = Abandoned
  BY DEF SinceReads
<1>1. CASE Keepers(u) = {}
  <2>1. \A c \in Clients \ stale : ~Keeps(c, u)
    BY <1>1 DEF Keepers
  <2>2. HolderSince(u) = IF InUse(u) THEN Abandoned ELSE Free
    BY <1>1 DEF HolderSince
  <2> QED BY <2>1, <2>2
<1>2. ASSUME NEW c \in Clients \ stale, Keeps(c, u)
      PROVE  InUse(u) /\ HolderSince(u) = c
  <2>1. InUse(u) /\ Keepers(u) = {c}
    BY <1>2 DEF RestartAccounts, Keepers
  <2>2. (CHOOSE d \in {c} : TRUE) = c
    OBVIOUS
  <2> QED BY <2>1, <2>2 DEF HolderSince
<1>3. CASE Keepers(u) # {}
  <2>1. PICK c \in Clients \ stale : Keeps(c, u)
    BY <1>3 DEF Keepers
  <2> QED BY <1>2, <2>1
<1> QED BY <1>1, <1>3

holders == [u \in Usernames |-> HolderSince(u)]

\* The lock is broken where freed says so: a stale client has returned a marked account.
LEMMA FreedRefines ==
  ASSUME RestartInvariant, Observe, freed'
  PROVE  Since!Break
PROOF
<1>1. ASSUME ~freed
      PROVE  \E u \in Usernames : holders[u] # Free
  <2>1. PICK u \in Usernames : InUse(u)
    BY <1>1 DEF Observe
  <2>2. SinceReads
    BY <1>1, SinceIsRead DEF RestartInvariant
  <2>3. HolderSince(u) \in Clients \cup {Abandoned}
    BY <2>1, <2>2 DEF SinceReads
  <2> QED BY <2>3, LockAssumption DEF holders
<1> QED BY <1>1 DEF Since!Break, holders

\* Giving accounts up, while no mark changes, abandons those that were kept.
LEMMA FewerKeepersRefine ==
  ASSUME RestartInvariant, RestartInvariant', OnlyGivesUp, ~freed'
  PROVE  Since!Locked
PROOF
<1>1. ~freed /\ SinceReads /\ SinceReads'
  <2>1. ~freed
    BY DEF OnlyGivesUp, Observe
  <2>2. RestartAccounts /\ RestartAccounts'
    BY DEF RestartInvariant
  <2>3. SinceReads'
    BY <2>2, SinceIsRead, PTL
  <2> QED BY <2>1, <2>2, <2>3, SinceIsRead
<1>2. \A c \in Clients \ stale', u \in Usernames :
        Keeps(c, u)' => c \in Clients \ stale /\ Keeps(c, u)
  BY FreshBefore DEF OnlyGivesUp
<1> DEFINE S == {u \in Usernames : HolderSince(u)' # HolderSince(u)}
<1>3. ASSUME NEW u \in S
      PROVE  HolderSince(u) \in Clients /\ HolderSince(u)' = Abandoned
  <2>1. ASSUME NEW c \in Clients \ stale', Keeps(c, u)'
        PROVE  FALSE
    BY <1>1, <1>2, <2>1 DEF SinceReads
  <2>2. PICK c \in Clients \ stale : Keeps(c, u)
    BY <1>1, <2>1 DEF SinceReads, OnlyGivesUp
  <2>3. InUse(u)
    BY <1>1, <2>2 DEF RestartInvariant, RestartAccounts
  <2> QED BY <1>1, <2>1, <2>2, <2>3 DEF SinceReads, OnlyGivesUp
<1>4. Since!AbandonAll(S)
  BY <1>3 DEF Since!AbandonAll
<1>5. S \in SUBSET Usernames
  OBVIOUS
<1> HIDE DEF S
<1> QED BY <1>1, <1>4, <1>5 DEF Since!Locked

\* A step of a client with both ends maps to a step of the lock.
LEMMA EffectRefinesSince ==
  ASSUME RestartInvariant, RestartInvariant', NEW c \in Clients \ cut, UnchangedOthers(c),
         AccountEffect(c), Observe, UNCHANGED cut, ~freed'
  PROVE  Since!Locked
PROOF
<1>1. ~freed /\ SinceReads /\ SinceReads'
  <2>1. ~freed
    BY DEF Observe
  <2>2. RestartAccounts /\ RestartAccounts'
    BY DEF RestartInvariant
  <2>3. SinceReads'
    BY <2>2, SinceIsRead, PTL
  <2> QED BY <2>1, <2>2, <2>3, SinceIsRead
<1>2. \A d \in Clients \ {c}, u \in Usernames : Keeps(d, u)' <=> Keeps(d, u)
  BY OthersHoldTheSame DEF Keeps, UnchangedOthers
<1>3. \A u \in Usernames :
        (Keeps(c, u) <=> Holds(c, u)) /\ (Keeps(c, u)' <=> Holds(c, u)')
  BY DEF Keeps
\* No other client becomes stale, or fresh while it keeps an account.
<1>4. /\ stale' \subseteq stale
      /\ \A d \in Clients, u \in Usernames : Keeps(d, u)' => (d \in stale' <=> d \in stale)
  BY DEF Observe, HoldsSome, Keeps
\* A step that changes account a alone.
<1>5. ASSUME NEW a \in Usernames,
             \A u \in Usernames \ {a} : /\ InUse(u)' <=> InUse(u)
                                        /\ Keeps(c, u)' <=> Keeps(c, u)
      PROVE  holders' = [holders EXCEPT ![a] = HolderSince(a)']
  <2>1. ASSUME NEW u \in Usernames \ {a}
        PROVE  HolderSince(u)' = HolderSince(u)
    <3>1. \A d \in Clients : Keeps(d, u)' <=> Keeps(d, u)
      BY <1>2, <1>5
    <3>2. CASE \E d \in Clients \ stale : Keeps(d, u)
      BY <1>1, <1>4, <3>1, <3>2 DEF SinceReads
    <3>3. CASE \A d \in Clients \ stale : ~Keeps(d, u)
      BY <1>1, <1>4, <1>5, <3>1, <3>3 DEF SinceReads
    <3> QED BY <3>2, <3>3
  <2> QED BY <2>1 DEF holders
<1>6. CASE GivesUp(c)
  BY <1>2, <1>3, <1>6, FewerKeepersRefine DEF GivesUp, OnlyGivesUp
<1>7. ASSUME NEW a \in Usernames, Grants(c, a)
      PROVE  Since!Acquire(c, a) \/ Since!Waste(a)
  <2>1. HolderSince(a) = Free
    BY <1>1, <1>7 DEF SinceReads, Grants
  <2>2. holders' = [holders EXCEPT ![a] = HolderSince(a)']
    BY <1>3, <1>5, <1>7 DEF Grants
  <2>3. CASE Keeps(c, a)' /\ c \notin stale'
    <3>1. HolderSince(a)' = c
      BY <1>1, <2>3 DEF SinceReads
    <3>2. ASSUME NEW b \in Usernames
          PROVE  HolderSince(b) # c
      <4>1. ~Keeps(c, b)
        BY <1>3, <1>7 DEF Grants
      <4>2. CASE \E d \in Clients \ stale : Keeps(d, b)
        BY <1>1, <4>1, <4>2 DEF SinceReads
      <4>3. CASE \A d \in Clients \ stale : ~Keeps(d, b)
        BY <1>1, <4>3, LockAssumption DEF SinceReads
      <4> QED BY <4>2, <4>3
    <3> QED BY <2>1, <2>2, <3>1, <3>2 DEF Since!Acquire, holders
  <2>4. CASE ~(Keeps(c, a)' /\ c \notin stale')
    <3>1. ASSUME NEW d \in Clients \ stale', Keeps(d, a)'
          PROVE  FALSE
      BY <1>1, <1>2, <1>4, <1>7, <2>4, <3>1
         DEF Grants, RestartInvariant, RestartAccounts
    <3>2. HolderSince(a)' = Abandoned
      BY <1>1, <1>7, <3>1 DEF SinceReads, Grants
    <3> QED BY <2>1, <2>2, <3>2 DEF Since!Waste, holders
  <2> QED BY <2>3, <2>4
<1>8. ASSUME NEW a \in Usernames, Returns(c, a)
      PROVE  Since!Locked
  <2>1. CASE c \notin stale
    <3>1. HolderSince(a) = c /\ HolderSince(a)' = Free
      BY <1>1, <1>3, <1>8, <2>1 DEF SinceReads, Returns
    <3>2. \A u \in Usernames \ {a} : ~Holds(c, u)
      BY <1>8, OneAccountEach
         DEF Returns, RestartInvariant, RestartTypes, RestartCalls
    <3>3. holders' = [holders EXCEPT ![a] = Free]
      BY <1>3, <1>5, <1>8, <3>1, <3>2 DEF Returns
    <3>4. Since!Release(c, a)
      BY <3>1, <3>3 DEF Since!Release, holders
    <3> QED BY <1>1, <3>4 DEF Since!Locked, Since!Next
  <2>2. CASE c \in stale
    <3>1. ~InUse(a)
      BY <1>8, <2>2 DEF Observe, Returns
    <3>2. \A u \in Usernames : InUse(u)' <=> InUse(u)
      BY <1>8, <3>1 DEF Returns
    <3>3. \A d \in Clients, u \in Usernames : Keeps(d, u)' => Keeps(d, u)
      BY <1>2, <1>3, <1>8 DEF Returns
    <3> QED BY <3>2, <3>3, FewerKeepersRefine DEF OnlyGivesUp
  <2> QED BY <2>1, <2>2
<1> QED BY <1>1, <1>6, <1>7, <1>8 DEF AccountEffect, Since!Locked, Since!Next

\* A database that starts frees every account.
LEMMA StartRefines ==
  ASSUME RestartInvariant', start_database
  PROVE  Since!Start
PROOF
<1>1. freed' = FALSE /\ \A u \in Usernames : ~InUse(u)'
  BY DEF start_database, initialize_tables, InUse
<1>2. SinceReads'
  <2>1. RestartAccounts'
    BY DEF RestartInvariant
  <2>2. freed' \/ SinceReads'
    BY <2>1, SinceIsRead, PTL
  <2> QED BY <1>1, <2>2
<1>3. \A u \in Usernames : HolderSince(u)' = Free
  BY <1>1, <1>2 DEF SinceReads
<1> QED BY <1>1, <1>3 DEF Since!Start

LEMMA StepRefinesSince ==
  ASSUME RestartInvariant, RestartInvariant', [RestartNext]_allVars
  PROVE  [Since!LockNext]_<<holders, freed>>
PROOF
<1>1. CASE start_server \/ UNCHANGED allVars
  <2>1. UNCHANGED <<cpc, session_state, username, spc, data_from_client,
                    data_to_client, c2s, s2c, User, cut, stale, freed>>
    BY <1>1 DEF start_server, allVars, processVars, historyVars, vars, clientVars,
       serverVars, dbVars
  <2> QED BY <2>1 DEF holders, HolderSince, Keepers, Keeps, Holds, LoggedIn,
             LogoutServed, Granted, PendingRequests, PendingReplies, InUse
<1>2. CASE OnlyGivesUp
  BY <1>2, FreedRefines, FewerKeepersRefine DEF OnlyGivesUp, Since!LockNext
<1>3. ASSUME NEW c \in Clients \ cut, OwnStep(c)
      PROVE  Since!LockNext
  BY <1>3, OwnStepEffect, FreedRefines, EffectRefinesSince DEF Since!LockNext
<1>4. CASE start_database
  BY <1>4, StartRefines DEF Since!LockNext
<1> QED BY <1>1, <1>2, <1>3, <1>4, RestartStepIs, CutGivesUp, ReadsEndGivesUp,
           KillGivesUp, InterruptGivesUp DEF Fault

\* The accounts of one run of the database are granted, returned and abandoned as by the
\* account lock, until a client of earlier tables returns one (database.c:82, logout).
THEOREM RestartImplementsLock == RestartSpec => ImplementsRestartLock
PROOF
<1>1. RestartInit => Since!LockInit
  <2> SUFFICES ASSUME RestartInit PROVE Since!LockInit
    OBVIOUS
  <2>1. ~freed /\ freed = FALSE /\ RestartAccounts /\ \A u \in Usernames : ~InUse(u)
    BY RestartInvariantInit
       DEF RestartInit, Init, initialize_table, InUse, RestartInvariant
  <2> QED BY <2>1, SinceIsRead DEF SinceReads, Since!LockInit, Since!Init
<1>2. RestartInvariant /\ RestartInvariant' /\ [RestartNext]_allVars
      => [Since!LockNext]_<<[u \in Usernames |-> HolderSince(u)], freed>>
  BY StepRefinesSince DEF holders
<1> QED BY <1>1, <1>2, RestartInvariantHolds, PTL
        DEF RestartSpec, ImplementsRestartLock, Since!LockSpec

-----------------------------------------------------------------------------
(* Experience: rows and copies are consistent, whoever makes or saves them.  *)

\* The characters that c has a copy of: as Copies, but a client that waits for the
\* answer to its logout still has the one it played.
KnownTo(c) ==
  {ch \in {character[c]} : session_state[c] = "PLAY_GAME"}
  \cup {r.character : r \in GrantedSelections(c)}
  \cup {m.character : m \in Saves(c)}

RestartExperience ==
  /\ CallsInState
  /\ \A k \in DOMAIN Chars : ExperienceRow(k)
  /\ \A c \in Clients : \A ch \in KnownTo(c) : ConsistentCopy(ch)

\* A character that a client knows of is a character.
LEMMA KnownIsCharacter ==
  ASSUME TypeInvariant, NEW c \in Clients, ClientCall(c)
  PROVE  KnownTo(c) \subseteq Character
PROOF
<1>1. ControlOK /\ RecordsWellFormed
  BY TypeInvariantParts
<1>2. character[c] \in Character
  BY <1>1 DEF ControlOK
<1>3. PendingRequests(c) \subseteq Requests
  BY <1>1 DEF PendingRequests, RecordsWellFormed, Range
<1>4. cpc[c] = "selectchar" /\ spc[c] = "send" => data_to_client[c] # NULL
  BY DEF ClientCall, CutOff, Orphaned, CallDiscipline, Asked, InService, Replied, Calls,
     Ended
<1>5. cpc[c] = "selectchar" => PendingReplies(c) \subseteq Replies
  BY <1>1, <1>4 DEF PendingReplies, RecordsWellFormed, Range
<1> QED BY <1>2, <1>3, <1>5
        DEF KnownTo, GrantedSelections, Saves, Requests, Replies, Data

KnownAreCharacters == \A c \in Clients : KnownTo(c) \subseteq Character

LEMMA AllKnownAreCharacters == RestartInvariant => KnownAreCharacters
BY KnownIsCharacter DEF RestartInvariant, RestartTypes, RestartCalls, KnownAreCharacters

\* c learns of no character, but that of a point it gains.
KnowsNothingNew(c) ==
  /\ \A ch \in KnownTo(c)' : ch \in KnownTo(c) \/ \E dh \in KnownTo(c) : ch = AfterPoint(dh)
  /\ CallInState(c)'

\* A fault tells nobody of a character.
LEMMA FaultTellsNothing ==
  ASSUME NothingIsGranted, UNCHANGED clientVars, NEW c \in Clients, CallInState(c)
  PROVE  KnownTo(c)' \subseteq KnownTo(c) /\ CallInState(c)'
BY DEF NothingIsGranted, clientVars, KnownTo, GrantedSelections, Saves, CallInState

\* A client that waits for the answer to its logout, or begins to, keeps the character
\* it played.
LEMMA LogoutKeepsCharacter ==
  ASSUME TypeInvariant, NEW c \in Clients, Step(c), cpc'[c] \in {"quit", "logout"},
         session_state'[c] = "PLAY_GAME"
  PROVE  session_state[c] = "PLAY_GAME" /\ character'[c] = character[c]
PROOF
<1>1. ControlOK
  BY TypeInvariantParts
<1>2. CASE comm_connect(c)
  BY <1>1, <1>2 DEF comm_connect, ControlOK
<1>3. CASE Command(c)
  <2>1. CASE point(c)
    BY <1>1, <2>1 DEF point, CommandAllowed, Call, ControlOK
  <2>2. CASE ~point(c)
    BY <1>1, <1>3, <2>2 DEF Command, login_command, createAccount_command,
       selectCharacter_command, createCharacter_command, deleteCharacter_command,
       CharacterCommand, quit, logOut, ControlOK
  <2> QED BY <2>1, <2>2
<1>4. CASE HandleReply(c)
  BY <1>1, <1>4 DEF HandleReply, login_reply, selectCharacter_reply, report_reply,
     save_reply, quit_reply, logout_reply, Receive, ControlOK
<1>5. CASE disconnect(c) \/ clt_sigRutine(c) \/ connection_lost(c)
  BY <1>1, <1>5 DEF disconnect, clt_sigRutine, connection_lost, Terminate, ControlOK
<1>6. CASE Session(c) \/ connect_collision(c)
  BY <1>6 DEF Session, accept, receiveData, server_process_data, connect_collision,
     communicate_with_database, sendData, Goto, clientVars
<1> QED BY <1>2, <1>3, <1>4, <1>5, <1>6 DEF Step

\* A client with both ends of its connection learns only what the database tells it.
LEMMA DisciplinedKnows ==
  ASSUME TypeInvariant, NEW c \in Clients, CallDiscipline(c), StateFollowsCall(c),
         CallInState(c), Step(c), ~communicate_with_database(c)
  PROVE  KnowsNothingNew(c)
PROOF
<1>1. KeepsCopies(c)
  BY StepCopies
<1>2. Copies(c) \subseteq KnownTo(c)
  BY DEF Copies, KnownTo, Playing
<1>3. ASSUME NEW ch \in KnownTo(c)', ch \notin Copies(c)'
      PROVE  ch \in KnownTo(c)
  <2>1. /\ session_state'[c] = "PLAY_GAME" /\ ch = character'[c]
        /\ cpc'[c] \in {"quit", "logout"}
    BY <1>3 DEF KnownTo, Copies, Playing, LoggedIn, LogoutServed
  <2> QED BY <2>1, LogoutKeepsCharacter DEF KnownTo
<1> QED BY <1>1, <1>2, <1>3 DEF KeepsCopies, KnowsNothingNew

\* A client that is cut off plays on, or takes over the character it had been granted.
LEMMA CutKnows ==
  ASSUME TypeInvariant, NEW c \in Clients, CutOff(c), CallInState(c), Step(c),
         UNCHANGED c2s \/ Session(c) \/ connect_collision(c)
  PROVE  KnowsNothingNew(c) /\ UNCHANGED dbVars
PROOF
<1>1. ControlOK /\ RecordsWellFormed
  BY TypeInvariantParts
<1>2. UNCHANGED <<c2s, spc, data_from_client, data_to_client, dbVars>>
  BY CutSteps DEF serverVars, login_reply, selectCharacter_reply, report_reply,
     quit_reply, logout_reply, Receive, disconnect, connection_lost, Terminate
<1>3. Saves(c)' = {} /\ PendingReplies(c)' = Range(s2c'[c])
      /\ PendingReplies(c) = Range(s2c[c])
  BY <1>2 DEF CutOff, Ended, Saves, PendingRequests, PendingReplies, Range
<1>4. CASE /\ point(c)
           /\ UNCHANGED <<cpc, session_state, username, serverVars, s2c, dbVars>>
  <2>1. /\ session_state[c] = "PLAY_GAME" /\ cpc[c] = "prompt"
        /\ character'[c] = AfterPoint(character[c])
    BY <1>1, <1>4 DEF point, CommandAllowed, ControlOK
  <2>2. KnownTo(c)' \subseteq {AfterPoint(character[c])} /\ character[c] \in KnownTo(c)
    BY <1>3, <1>4, <2>1 DEF KnownTo, GrantedSelections
  <2> QED BY <1>2, <1>4, <2>1, <2>2 DEF KnowsNothingNew, CallInState, SaveCalls
<1>5. CASE selectCharacter_reply(c)
  <2>1. /\ cpc[c] = "selectchar" /\ cpc'[c] = "prompt" /\ s2c[c] # << >>
        /\ s2c[c] \in Seq(Replies)
    BY <1>1, <1>5 DEF selectCharacter_reply, Answered, Receive, ControlOK,
       RecordsWellFormed
  <2>2. KnownTo(c)' \subseteq {character'[c]}
    BY <1>3, <2>1 DEF KnownTo, GrantedSelections
  <2>3. CASE Head(s2c[c]).opcode = "NO_ERROR"
    <3>1. character'[c] = Head(s2c[c]).character
      BY <1>1, <1>5, <2>3 DEF selectCharacter_reply, ControlOK
    <3>2. Head(s2c[c]) \in Range(s2c[c])
      <4>1. 1 \in DOMAIN s2c[c] /\ Head(s2c[c]) = s2c[c][1]
        BY <2>1, EmptySeq
      <4> QED BY <4>1 DEF Range
    <3>3. Head(s2c[c]) \in GrantedSelections(c)
      BY <1>3, <2>1, <2>3, <3>2 DEF GrantedSelections
    <3> QED BY <1>2, <2>1, <2>2, <3>1, <3>3
            DEF KnowsNothingNew, KnownTo, CallInState, SaveCalls
  <2>4. CASE Head(s2c[c]).opcode # "NO_ERROR"
    <3>1. UNCHANGED <<session_state, character>>
      BY <1>5, <2>4 DEF selectCharacter_reply
    <3> QED BY <1>2, <1>3, <2>1, <3>1
            DEF KnowsNothingNew, KnownTo, GrantedSelections, CallInState, SaveCalls
  <2> QED BY <2>3, <2>4
<1>6. CASE \/ login_reply(c) \/ report_reply(c) \/ quit_reply(c) \/ logout_reply(c)
           \/ disconnect(c) \/ connection_lost(c)
  <2>1. /\ cpc'[c] \in {"prompt", "leaving", "gone"}
        /\ \/ session_state'[c] # "PLAY_GAME"
           \/ session_state'[c] = session_state[c] /\ UNCHANGED character
    BY <1>1, <1>6 DEF login_reply, report_reply, quit_reply, logout_reply, Receive,
       disconnect, connection_lost, Terminate, ControlOK
  <2> QED BY <1>2, <1>3, <2>1
          DEF KnowsNothingNew, KnownTo, GrantedSelections, CallInState, SaveCalls
<1> QED BY <1>2, <1>4, <1>5, <1>6, CutSteps

\* Orphaned, it only ends.
LEMMA OrphanKnows ==
  ASSUME TypeInvariant, NEW c \in Clients, Orphaned(c), Step(c)
  PROVE  KnownTo(c)' \subseteq {} /\ CallInState(c)' /\ UNCHANGED dbVars
PROOF
<1>1. /\ cpc'[c] = "gone" /\ session_state'[c] = "EXIT_GAME"
      /\ UNCHANGED dbVars
      /\ \A m \in PendingRequests(c)' :
           m.opcode \in AccountOpcodes => m \in PendingRequests(c)
  BY OrphanEnds, EndPending
<1>2. PendingRequests(c) = {}
  BY DEF Orphaned, PendingRequests, Range
<1>3. Saves(c)' = {}
  BY <1>1, <1>2 DEF Saves, AccountOpcodes
<1> QED BY <1>1, <1>3 DEF KnownTo, GrantedSelections, CallInState, SaveCalls

\* Orphaned or cut off, a client asks nothing of the database.
LEMMA ServedIsDisciplined ==
  ASSUME NEW c \in Clients, ClientCall(c), spc[c] = "db"
  PROVE  c \notin cut /\ CallDiscipline(c) /\ StateFollowsCall(c)
BY DEF ClientCall, CutOff, Orphaned, Ended

\* Every other step of a client teaches it nothing but its own points.
LEMMA OwnStepKnows ==
  ASSUME TypeInvariant, NEW c \in Clients, ClientCall(c), CallInState(c), OwnStep(c),
         ~communicate_with_database(c)
  PROVE  KnowsNothingNew(c) /\ UNCHANGED dbVars
PROOF
<1>1. Step(c) /\ (c \in cut => UNCHANGED c2s \/ Session(c) \/ connect_collision(c))
  BY DEF OwnStep
<1>2. CASE c \in cut
  BY <1>1, <1>2, CutKnows DEF ClientCall
<1>3. CASE Orphaned(c)
  BY <1>1, <1>3, OrphanKnows DEF KnowsNothingNew
<1>4. CASE c \notin cut /\ CallDiscipline(c)
  BY <1>1, <1>4, DisciplinedKnows, StepCopies DEF ClientCall, KeepsCopies
<1> QED BY <1>2, <1>3, <1>4 DEF ClientCall

\* The database tells a client of the row it selects, and writes what it is told.
LEMMA TurnTells ==
  ASSUME TypeInvariant, NEW s \in Clients, ClientCall(s), CallInState(s),
         NEW req, req = data_from_client[s], communicate_with_database(s)
  PROVE  /\ CallInState(s)'
         /\ \A ch \in KnownTo(s)' :
              \/ ch \in KnownTo(s)
              \/ SelectionGranted(req) /\ ch = Reply(req).character
         /\ req.opcode = "EXP_UP" => req.character \in KnownTo(s)
PROOF
<1>1. CallDiscipline(s) /\ StateFollowsCall(s)
  BY ServedIsDisciplined DEF communicate_with_database
<1>2. /\ req \in PendingRequests(s) /\ Reply(req).opcode = Outcome(req)
      /\ UNCHANGED <<cpc, session_state, character>>
      /\ \A m \in PendingRequests(s)' : m.opcode \notin AccountOpcodes
      /\ cpc[s] \in Calls =>
           /\ Matches(s, req)
           /\ PendingReplies(s)' = {Reply(req)}
  BY <1>1, DatabaseTurn
<1>3. Saves(s)' = {}
  BY <1>2 DEF Saves, AccountOpcodes
<1>4. ASSUME NEW r \in GrantedSelections(s)'
      PROVE  SelectionGranted(req) /\ r = Reply(req)
  <2>1. cpc[s] = "selectchar" /\ cpc[s] \in Calls /\ r.opcode = "NO_ERROR"
    BY <1>2, <1>4 DEF GrantedSelections, Calls
  <2>2. r = Reply(req) /\ Matches(s, req)
    BY <1>2, <1>4, <2>1 DEF GrantedSelections
  <2> QED BY <1>2, <2>1, <2>2 DEF Matches, CallOpcodes, SelectionGranted
<1>5. req.opcode = "EXP_UP" => req.character \in KnownTo(s)
  BY <1>2 DEF KnownTo, Saves
<1> QED BY <1>2, <1>3, <1>4, <1>5 DEF KnownTo, CallInState

\* Whatever a client and the database do, what they keep stays consistent: also what a
\* client saves that the tables do not know, or that it plays on without a server.
LEMMA OwnStepExperience ==
  ASSUME RestartInvariant, RestartExperience, NEW c \in Clients, OwnStep(c)
  PROVE  RestartExperience'
PROOF
<1>1. /\ TypeInvariant /\ ClientCall(c) /\ CallsInState /\ CallInState(c)
      /\ Step(c) /\ UnchangedOthers(c)
  BY StepIsLocal DEF RestartInvariant, RestartTypes, RestartCalls, RestartExperience,
     CallsInState, OwnStep
<1>2. \A k \in DOMAIN Chars : ExperienceRow(k)
  BY DEF RestartExperience
<1>3. \A ch \in KnownTo(c) : ch \in Character /\ ConsistentCopy(ch)
  BY <1>1, KnownIsCharacter DEF RestartExperience
<1>4. \A d \in Clients \ {c} : /\ KnownTo(d)' = KnownTo(d)
                               /\ CallInState(d)' <=> CallInState(d)
  BY <1>1 DEF UnchangedOthers, KnownTo, GrantedSelections, Saves, PendingRequests,
     PendingReplies, CallInState
<1>5. /\ CallInState(c)'
      /\ \A k \in DOMAIN Chars' : ExperienceRow(k)'
      /\ \A ch \in KnownTo(c)' : ConsistentCopy(ch)
  <2>1. CASE ~communicate_with_database(c)
    <3>1. KnowsNothingNew(c) /\ UNCHANGED Chars
      BY <1>1, <2>1, OwnStepKnows DEF dbVars
    <3>2. \A k \in DOMAIN Chars' : ExperienceRow(k)'
      BY <1>2, <3>1 DEF ExperienceRow
    <3>3. \A ch \in KnownTo(c)' : ConsistentCopy(ch)
      BY <1>3, <3>1, PointGainsOne DEF KnowsNothingNew
    <3> QED BY <3>1, <3>2, <3>3 DEF KnowsNothingNew
  <2>2. CASE communicate_with_database(c)
    <3>1. PICK req : req = data_from_client[c]
      OBVIOUS
    <3>2. /\ CallInState(c)'
          /\ \A ch \in KnownTo(c)' :
               \/ ch \in KnownTo(c)
               \/ SelectionGranted(req) /\ ch = Reply(req).character
          /\ req.opcode = "EXP_UP" => req.character \in KnownTo(c)
      BY <1>1, <2>2, <3>1, TurnTells
    <3>3. DBTypeOK /\ req \in Requests /\ process_data(req)
      BY <1>1, <2>2, <3>1, ServedIsDisciplined, DatabaseTurn, TypeInvariantParts
         DEF communicate_with_database
    <3>4. ASSUME NEW k \in DOMAIN Chars' PROVE ExperienceRow(k)'
      <4>1. CASE /\ k \in DOMAIN Chars
                 /\ Chars'[k].Level = Chars[k].Level
                 /\ Chars'[k].TotalExp = Chars[k].TotalExp
                 /\ Chars'[k].CurrentExp = Chars[k].CurrentExp
        BY <1>2, <4>1 DEF ExperienceRow
      <4>2. CASE Chars'[k] = NewCharRow(req.username)
        BY <4>2, GameAssumption DEF NewCharRow, ExperienceRow, Consistent
      <4>3. CASE /\ req.opcode = "EXP_UP"
                 /\ Chars'[k].Level = req.character.lvl
                 /\ Chars'[k].TotalExp = req.character.totalExp
                 /\ Chars'[k].CurrentExp = req.character.currentExp
        BY <1>3, <3>2, <4>3 DEF ExperienceRow, ConsistentCopy
      <4> QED BY <3>3, <4>1, <4>2, <4>3, HandlersWriteProgress
    <3>5. SelectionGranted(req) => ConsistentCopy(Reply(req).character)
      <4> SUFFICES ASSUME SelectionGranted(req)
                   PROVE  ConsistentCopy(Reply(req).character)
        OBVIOUS
      <4>1. /\ Outcome(req) = CharOutcome(req) /\ Outcome(req) = "NO_ERROR"
            /\ Reply(req).character = CharacterOf(req.character.name)
        BY <3>3, HandlersKeepCharacters
           DEF SelectionGranted, Outcome, SelectedRowIsMarked
      <4>2. req.character.name \in DOMAIN Chars
        BY <4>1 DEF CharOutcome
      <4> QED BY <1>2, <4>1, <4>2 DEF ExperienceRow, ConsistentCopy, CharacterOf
    <3> QED BY <1>3, <3>2, <3>4, <3>5
  <2> QED BY <2>1, <2>2
<1>6. CallsInState'
  BY <1>1, <1>4, <1>5 DEF CallsInState
<1>7. \A d \in Clients : \A ch \in KnownTo(d)' : ConsistentCopy(ch)
  BY <1>4, <1>5 DEF RestartExperience
<1> QED BY <1>5, <1>6, <1>7 DEF RestartExperience, ConsistentCopy

\* No fault makes a copy, and the tables stay or are emptied.
LEMMA FaultExperience ==
  ASSUME RestartExperience, NothingIsGranted, UNCHANGED clientVars,
         UNCHANGED Chars \/ initialize_tables
  PROVE  RestartExperience'
PROOF
<1>1. \A c \in Clients : KnownTo(c)' \subseteq KnownTo(c) /\ CallInState(c)'
  BY FaultTellsNothing DEF RestartExperience, CallsInState
<1>2. \A k \in DOMAIN Chars' : ExperienceRow(k)'
  BY DEF RestartExperience, ExperienceRow, initialize_tables
<1> QED BY <1>1, <1>2 DEF RestartExperience, CallsInState, ConsistentCopy

LEMMA ExperienceStepUnderRestarts ==
  ASSUME RestartInvariant, RestartExperience, [RestartNext]_allVars
  PROVE  RestartExperience'
PROOF
<1>1. ASSUME NEW c \in Clients, ReadsEnd(c)
      PROVE  RestartExperience'
  <2>1. NothingIsGranted
    BY <1>1, ReadsEndRecords
       DEF RestartInvariant, RestartTypes, RestartCalls, ClientCall, ReadsEnd
  <2> QED BY <1>1, <2>1, FaultExperience DEF ReadsEnd, dbVars
<1>2. CASE kill_database
  <2>1. PICK outcome \in [Connecting -> Outcomes] : GoOn(outcome)
    BY <1>2 DEF kill_database, Outcomes
  <2> QED BY <1>2, <2>1, GoOnRecords, FaultExperience DEF GoOn, kill_database, dbVars
<1>3. CASE start_database
  <2>1. PICK outcome \in [Connecting -> Outcomes] : GoOn(outcome)
    BY <1>3 DEF start_database, Outcomes
  <2> QED BY <1>3, <2>1, GoOnRecords, FaultExperience DEF GoOn, start_database
<1>4. CASE srv_sigRutine
  BY <1>4, InterruptRecords, FaultExperience DEF srv_sigRutine, dbVars
<1>5. CASE start_server \/ UNCHANGED allVars
  <2>1. UNCHANGED vars
    BY <1>5 DEF start_server, allVars
  <2>2. NothingIsGranted /\ UNCHANGED clientVars /\ UNCHANGED Chars
    BY <2>1 DEF vars, serverVars, dbVars, NothingIsGranted, PendingRequests,
       PendingReplies
  <2> QED BY <2>2, FaultExperience
<1> QED BY <1>1, <1>2, <1>3, <1>4, <1>5, RestartStepIs, OwnStepExperience DEF Fault

\* Rows and copies are consistent in every run of the database, whatever a client brings
\* along from an earlier one or makes of a lost connection (char_exp_up, receive_eof).
THEOREM RestartExperienceHolds == RestartSpec => []RestartExperience
PROOF
<1>1. RestartInit => RestartExperience
  <2> SUFFICES ASSUME RestartInit PROVE RestartExperience
    OBVIOUS
  <2>1. CallsInState /\ DOMAIN Chars = {}
    BY CharacterInit DEF RestartInit, CharacterInvariant, Init, initialize_table
  <2>2. ASSUME NEW c \in Clients PROVE KnownTo(c) = {}
    <3>1. PendingRequests(c) = {} /\ PendingReplies(c) = {}
      BY DEF RestartInit, Init, PendingRequests, PendingReplies, Range
    <3> QED BY <3>1 DEF RestartInit, Init, KnownTo, GrantedSelections, Saves
  <2> QED BY <2>1, <2>2 DEF RestartExperience
<1>2. RestartInvariant /\ RestartExperience /\ [RestartNext]_allVars => RestartExperience'
  BY ExperienceStepUnderRestarts
<1> QED BY <1>1, <1>2, RestartInvariantHolds, PTL DEF RestartSpec

\* The level decides how much experience the next one needs, in the table and in the
\* client's copy, however often the tables are emptied and connections are lost.
THEOREM ExperienceStaysConsistent == RestartSpec => []ExperienceConsistent
PROOF
<1>1. RestartExperience => ExperienceConsistent
  BY DEF RestartExperience, ExperienceRow, ExperienceConsistent, Playing, KnownTo,
     ConsistentCopy
<1> QED BY <1>1, RestartExperienceHolds, PTL

-----------------------------------------------------------------------------
(* Characters: those of this run of the database stay with their players.   *)

\* The clients that have both ends of their connection and hold accounts of the tables
\* there are now.
Fresh == Clients \ (cut \cup stale)

HeldBy(c, k) ==
  /\ k \in DOMAIN Chars
  /\ Chars[k].Inuse = 1
  /\ Holds(c, Chars[k].Name)

CharacterHeld(c) ==
  /\ \A ch \in Copies(c) : HeldBy(c, ch.name)
  /\ \A ch, dh \in Copies(c) : ch = dh

RestartCharacters == freed \/ \A c \in Fresh : CharacterHeld(c)

CopiesHaveSomeHolder == \A c \in Clients : Copies(c) # {} => HoldsSome(c)

\* Whoever has a copy holds an account.
LEMMA CopyNeedsHolder == RestartInvariant => CopiesHaveSomeHolder
BY CopyHasHolder
   DEF RestartInvariant, RestartTypes, RestartCalls, ClientCall, StatesFollowCalls,
       CopiesHaveHolders, CopiesHaveSomeHolder, HoldsSome

\* Who has a copy after a step that empties no tables was fresh before it, if it is now:
\* a client stays stale until it holds nothing.
LEMMA CopyWasFresh ==
  ASSUME RestartInvariant', Observe, UNCHANGED cut, NEW d \in Fresh', Copies(d)' # {}
  PROVE  d \in Fresh
PROOF
<1>1. HoldsSome(d)'
  <2>1. CopiesHaveSomeHolder'
    BY CopyNeedsHolder, PTL
  <2> QED BY <2>1 DEF CopiesHaveSomeHolder, Fresh
<1> QED BY <1>1 DEF Observe, Fresh

\* A logout frees no account under a fresh client that holds it, unless it is a stale
\* client's: then freed remembers it.
LEMMA TurnSparesFresh ==
  ASSUME RestartInvariant, ~freed', NEW s \in Clients, OwnStep(s),
         NEW req, req = data_from_client[s], communicate_with_database(s),
         NEW d \in Fresh, d # s, NEW u \in Usernames, Holds(d, u)
  PROVE  ~LogsOut(req, u) /\ (s \in Fresh => ~Holds(s, u))
PROOF
<1>1. /\ TypeInvariant /\ DBTypeOK /\ ClientCall(s) /\ Step(s) /\ Observe /\ ~freed
      /\ RestartAccounts
  BY TypeInvariantParts
     DEF RestartInvariant, RestartTypes, RestartCalls, OwnStep, Observe
<1>2. s \notin cut /\ CallDiscipline(s) /\ StateFollowsCall(s)
  BY <1>1, ServedIsDisciplined DEF communicate_with_database
<1>3. req \in Requests /\ req \in PendingRequests(s) /\ process_data(req)
  BY <1>1, <1>2, DatabaseTurn
<1>4. Keeps(d, u) /\ d \in Clients \ stale
  BY DEF Keeps, Fresh
<1>5. InUse(u) /\ (s \in Fresh => ~Holds(s, u))
  BY <1>1, <1>4 DEF RestartAccounts, Keeps, Fresh
<1>6. ASSUME LogsOut(req, u) PROVE FALSE
  <2>1. Holds(s, u) /\ ~InUse(u)'
    BY <1>1, <1>3, <1>6, HandlersKeepMarks
       DEF LogsOut, LogoutOpcodes, AccountOpcodes, Holds
  <2>2. AccountEffect(s)
    BY <1>1, <1>2, StepEffect
  <2>3. ~Holds(s, u)'
    BY <1>5, <2>1, <2>2 DEF AccountEffect, GivesUp, Grants, Returns
  <2>4. s \in stale
    BY <1>2, <1>5, <2>1 DEF Fresh
  <2> QED BY <1>1, <1>5, <2>1, <2>3, <2>4 DEF Observe
<1> QED BY <1>5, <1>6

\* A step of another leaves a fresh client its character.
LEMMA OthersKeepCharacter ==
  ASSUME RestartInvariant, RestartExperience, ~freed', NEW c \in Clients, OwnStep(c),
         NEW d \in Fresh, d # c, CharacterHeld(d)
  PROVE  CharacterHeld(d)'
PROOF
<1>1. /\ TypeInvariant /\ ClientCall(c) /\ Step(c) /\ UnchangedOthers(c)
      /\ DBTypeOK
  BY StepIsLocal, TypeInvariantParts
     DEF RestartInvariant, RestartTypes, RestartCalls, OwnStep
<1>2. Copies(d)' = Copies(d) /\ \A u : Holds(d, u)' <=> Holds(d, u)
  BY <1>1, OthersCopyTheSame, OthersHoldTheSame DEF Fresh
<1>3. ASSUME NEW k, HeldBy(d, k)
      PROVE  HeldBy(d, k)'
  <2>1. CASE communicate_with_database(c)
    <3>1. PICK req : req = data_from_client[c]
      OBVIOUS
    <3>2. MarkedRowsStay(req)
      BY <1>1, <2>1, <3>1, ServedIsDisciplined, DatabaseTurn, HandlersKeepCharacters
         DEF communicate_with_database
    <3>3. Chars[k].Name \in Usernames /\ Holds(d, Chars[k].Name)
      BY <1>1, <1>3 DEF HeldBy, DBTypeOK, CharRow
    <3>4. ~LogsOut(req, Chars[k].Name)
      BY <2>1, <3>1, <3>3, TurnSparesFresh
    <3> QED BY <1>2, <1>3, <3>2, <3>4 DEF HeldBy, MarkedRowsStay
  <2>2. CASE ~communicate_with_database(c)
    <3>1. UNCHANGED Chars
      BY <1>1, <2>2, OwnStepKnows DEF RestartExperience, CallsInState, dbVars
    <3> QED BY <1>2, <1>3, <3>1 DEF HeldBy
  <2> QED BY <2>1, <2>2
<1> QED BY <1>2, <1>3 DEF CharacterHeld

\* A step of its own leaves a fresh client its character, or gives it one.
LEMMA OwnCharacter ==
  ASSUME RestartInvariant, RestartInvariant', RestartExperience,
         NEW c \in Fresh, OwnStep(c), CharacterHeld(c)
  PROVE  CharacterHeld(c)'
PROOF
<1>1. /\ c \in Clients \ cut /\ TypeInvariant /\ ClientCall(c) /\ Step(c) /\ DBTypeOK
      /\ StateFollowsCall(c) /\ CallInState(c)
  BY TypeInvariantParts
     DEF RestartInvariant, RestartTypes, RestartCalls, RestartExperience, CallsInState,
         ClientCall, OwnStep, Fresh
<1>2. CASE Orphaned(c)
  <2>1. KnownTo(c)' \subseteq {}
    BY <1>1, <1>2, OrphanKnows
  <2> QED BY <2>1 DEF Copies, KnownTo, Playing, CharacterHeld
<1>3. CASE CallDiscipline(c) /\ ~communicate_with_database(c)
  <2>1. KeepsCopies(c) /\ AccountEffect(c)
    BY <1>1, <1>3, StepCopies, StepEffect
  <2>2. UNCHANGED <<User, Chars>>
    BY <2>1 DEF KeepsCopies, dbVars
  <2>3. Copies(c) \subseteq Character
    <3>1. Copies(c) \subseteq KnownTo(c)
      BY DEF Copies, KnownTo, Playing
    <3> QED BY <1>1, <3>1, KnownIsCharacter
  <2>4. ASSUME NEW ch \in Copies(c)'
        PROVE  HeldBy(c, ch.name)'
    <3>1. PICK dh \in Copies(c) : ch.name = dh.name
      BY <2>1, <2>3, <2>4, PointKeepsName DEF KeepsCopies
    <3>2. HeldBy(c, dh.name) /\ Chars[dh.name].Name \in Usernames
      BY <1>1, <3>1 DEF CharacterHeld, HeldBy, DBTypeOK, CharRow
    <3>3. CopiesHaveSomeHolder'
      BY CopyNeedsHolder, PTL
    <3>4. PICK v \in Usernames : Holds(c, v)'
      BY <1>1, <2>4, <3>3 DEF CopiesHaveSomeHolder, HoldsSome
    <3>5. Holds(c, v)
      BY <2>1, <2>2, <3>4 DEF AccountEffect, GivesUp, Grants, Returns, InUse
    <3>6. v = Chars[dh.name].Name
      BY <1>1, <3>2, <3>5, OneAccountEach DEF HeldBy
    <3> QED BY <2>2, <3>1, <3>2, <3>4, <3>6 DEF HeldBy
  <2>5. \A ch, dh \in Copies(c)' : ch = dh
    BY <2>1 DEF KeepsCopies, CharacterHeld
  <2> QED BY <2>4, <2>5 DEF CharacterHeld
<1>4. CASE CallDiscipline(c) /\ communicate_with_database(c)
  <2>1. PICK req : req = data_from_client[c]
    OBVIOUS
  <2>2. /\ req \in Requests /\ process_data(req)
        /\ UNCHANGED <<cpc, session_state, username>>
    BY <1>1, <1>4, <2>1, DatabaseTurn
  <2>3. MarkedRowsStay(req) /\ SelectedRowIsMarked(req)
    BY <1>1, <2>2, HandlersKeepCharacters
  <2>4. /\ LoggedIn(c)' => LoggedIn(c) /\ \A u : ~LogsOut(req, u)
        /\ \A ch, dh \in Copies(c)' : ch = dh
        /\ \A ch \in Copies(c)' :
             /\ LoggedIn(c)'
             /\ \/ ch \in Copies(c)
                \/ /\ SelectionGranted(req)
                   /\ ch = Reply(req).character
                   /\ req.username = username[c]
    BY <1>1, <1>4, <2>1, TurnCopies
  <2>5. ASSUME NEW ch \in Copies(c)'
        PROVE  HeldBy(c, ch.name)'
    <3>1. /\ LoggedIn(c)' /\ LoggedIn(c) /\ \A u : ~LogsOut(req, u)
          /\ Holds(c, username[c]) /\ \A u : u = username[c] => Holds(c, u)'
      BY <2>2, <2>4, <2>5 DEF Holds
    <3>2. CASE ch \in Copies(c)
      <4>1. /\ ch.name \in DOMAIN Chars /\ Chars[ch.name].Inuse = 1
            /\ Holds(c, Chars[ch.name].Name)
        BY <3>2 DEF CharacterHeld, HeldBy
      <4>2. Chars[ch.name].Name = username[c]
        BY <1>1, <3>1, <4>1, OneAccountEach
      <4> QED BY <2>3, <3>1, <4>1, <4>2 DEF MarkedRowsStay, HeldBy
    <3>3. CASE ch \notin Copies(c)
      BY <2>3, <2>4, <2>5, <3>1, <3>3 DEF SelectedRowIsMarked, HeldBy
    <3> QED BY <3>2, <3>3
  <2> QED BY <2>4, <2>5 DEF CharacterHeld
<1> QED BY <1>1, <1>2, <1>3, <1>4 DEF ClientCall

LEMMA OwnStepCharacters ==
  ASSUME RestartInvariant, RestartInvariant', RestartExperience, RestartCharacters,
         NEW c \in Clients, OwnStep(c)
  PROVE  RestartCharacters'
PROOF
<1> SUFFICES ASSUME ~freed', NEW d \in Fresh', Copies(d)' # {}
             PROVE  CharacterHeld(d)'
  BY DEF RestartCharacters, CharacterHeld
<1>1. Observe /\ UNCHANGED cut /\ ~freed
  BY DEF OwnStep, processVars, Observe
<1>2. d \in Fresh
  BY <1>1, CopyWasFresh
<1>3. CharacterHeld(d)
  BY <1>1, <1>2 DEF RestartCharacters
<1> QED BY <1>2, <1>3, OwnCharacter, OthersKeepCharacter

\* Nor does a fault that leaves the tables.
LEMMA FaultCharacters ==
  ASSUME RestartInvariant, RestartInvariant', RestartCharacters, NothingIsGranted,
         NoAnswerIsLost, UNCHANGED <<clientVars, dbVars, cut>>, Observe
  PROVE  RestartCharacters'
PROOF
<1> SUFFICES ASSUME ~freed', NEW d \in Fresh', Copies(d)' # {}
             PROVE  CharacterHeld(d)'
  BY DEF RestartCharacters, CharacterHeld
<1>1. d \in Fresh /\ d \in Clients \ cut /\ ~freed
  BY CopyWasFresh DEF Fresh, Observe
<1>2. CharacterHeld(d) /\ ClientCall(d) /\ TypeInvariant /\ DBTypeOK
  BY <1>1, TypeInvariantParts
     DEF RestartCharacters, RestartInvariant, RestartTypes, RestartCalls
<1>3. UNCHANGED <<cpc, session_state, username, character, Chars, cut>>
  BY DEF clientVars, dbVars
<1>4. Copies(d)' \subseteq Copies(d)
  BY <1>1, <1>3 DEF NothingIsGranted, NoAnswerIsLost, Copies, Playing, LoggedIn,
     LogoutServed, GrantedSelections, Saves
<1>5. CopiesHaveSomeHolder'
  BY CopyNeedsHolder, PTL
<1>6. PICK v \in Usernames : Holds(d, v)'
  BY <1>1, <1>5 DEF CopiesHaveSomeHolder, HoldsSome
<1>7. Holds(d, v)
  <2>1. Keeps(d, v)'
    BY <1>1, <1>3, <1>6 DEF Keeps
  <2> QED BY <1>1, <1>3, <2>1, KeepsNothingNew DEF NoAnswerIsLost, Keeps
<1>8. ASSUME NEW ch \in Copies(d)'
      PROVE  HeldBy(d, ch.name)'
  <2>1. HeldBy(d, ch.name) /\ Chars[ch.name].Name \in Usernames
    BY <1>2, <1>4, <1>8 DEF CharacterHeld, HeldBy, DBTypeOK, CharRow
  <2>2. v = Chars[ch.name].Name
    BY <1>1, <1>2, <1>7, <2>1, OneAccountEach DEF HeldBy
  <2> QED BY <1>3, <1>6, <2>1, <2>2 DEF HeldBy
<1> QED BY <1>2, <1>4, <1>8 DEF CharacterHeld

\* After Ctrl-C, and when the tables have been emptied, no fresh client has a copy.
LEMMA NewRunCharacters ==
  ASSUME RestartInvariant', srv_sigRutine \/ start_database, NEW d \in Fresh'
  PROVE  Copies(d)' = {}
PROOF
<1>1. CASE start_database
  <2>1. CopiesHaveSomeHolder'
    BY CopyNeedsHolder, PTL
  <2> QED BY <1>1, <2>1 DEF start_database, CopiesHaveSomeHolder, Fresh
<1>2. CASE srv_sigRutine
  <2>1. /\ d \in Clients /\ cpc'[d] \in {"off", "gone"}
        /\ PendingRequests(d)' = {}
    BY <1>2, InterruptRecords DEF srv_sigRutine, Fresh, Alive, clientVars
  <2>2. StateFollowsCall(d)'
    BY <2>1 DEF RestartInvariant, RestartCalls, ClientCall
  <2>3. session_state'[d] # "PLAY_GAME"
    BY <2>1, <2>2 DEF StateFollowsCall
  <2> QED BY <2>1, <2>3 DEF Copies, Playing, GrantedSelections, Saves
<1> QED BY <1>1, <1>2

LEMMA CharactersStep ==
  ASSUME RestartInvariant, RestartInvariant', RestartExperience, RestartCharacters,
         [RestartNext]_allVars
  PROVE  RestartCharacters'
PROOF
<1>1. ASSUME NEW c \in Clients, ReadsEnd(c)
      PROVE  RestartCharacters'
  <2>1. NothingIsGranted /\ NoAnswerIsLost
    BY <1>1, ReadsEndRecords
       DEF RestartInvariant, RestartTypes, RestartCalls, ClientCall, ReadsEnd
  <2> QED BY <1>1, <2>1, FaultCharacters DEF ReadsEnd, processVars
<1>2. CASE kill_database
  <2>1. PICK outcome \in [Connecting -> Outcomes] : GoOn(outcome)
    BY <1>2 DEF kill_database, Outcomes
  <2> QED BY <1>2, <2>1, GoOnRecords, FaultCharacters DEF GoOn, kill_database
<1>3. CASE start_server \/ UNCHANGED allVars
  <2>1. UNCHANGED <<cpc, session_state, username, character, spc, data_from_client,
                    data_to_client, c2s, s2c, Chars, cut, stale, freed>>
    BY <1>3 DEF start_server, allVars, processVars, historyVars, vars, clientVars,
       serverVars, dbVars
  <2>2. \A d \in Clients : /\ Copies(d)' = Copies(d)
                           /\ \A u : Holds(d, u)' <=> Holds(d, u)
    BY <2>1 DEF Copies, GrantedSelections, Saves, Playing, Holds, LoggedIn,
       LogoutServed, Granted, PendingRequests, PendingReplies
  <2> QED BY <2>1, <2>2 DEF RestartCharacters, Fresh, CharacterHeld, HeldBy
<1>4. CASE srv_sigRutine \/ start_database
  BY <1>4, NewRunCharacters DEF RestartCharacters, CharacterHeld
<1> QED BY <1>1, <1>2, <1>3, <1>4, RestartStepIs, OwnStepCharacters DEF Fault

\* Nobody deletes, unmarks or takes over the character that a client of this run of the
\* database plays, is given or has sent to be saved, while it has both ends of its
\* connection: until a client of earlier tables frees an account of the new ones.
THEOREM RestartCharactersHold == RestartSpec => []RestartCharacters
PROOF
<1>1. RestartInit => RestartCharacters
  BY CharacterInit DEF RestartInit, CharacterInvariant, CopiesHeld, CopiesAgree,
     RestartCharacters, Fresh, CharacterHeld, HeldBy
<1>2. /\ RestartInvariant /\ RestartInvariant' /\ RestartExperience /\ RestartCharacters
      /\ [RestartNext]_allVars
      => RestartCharacters'
  BY CharactersStep
<1> QED BY <1>1, <1>2, RestartInvariantHolds, RestartExperienceHolds, PTL DEF RestartSpec

-----------------------------------------------------------------------------
(* Progress: how much of it is unsaved while the database runs.             *)

\* The point that is gained at the level cap and not counted.
OverCap(ch) ==
  IF ch.lvl = LEVEL_MAX /\ ch.currentExp > levelsExp[LEVEL_MAX] THEN 1 ELSE 0

Synced(ch) == Saved(ch.name) = Gained(ch)

SaveAnswered(c) == cpc[c] \in SaveCalls /\ PendingReplies(c) # {}

\* No copy is behind its row; what it is ahead has been counted; and a save that is
\* answered has been done.
SavedSoFar(c, ch) ==
  /\ Saved(ch.name) <= Gained(ch)
  /\ cpc[c] = "prompt" => Gained(ch) <= Saved(ch.name) + counter[c] + OverCap(ch)
  /\ SaveAnswered(c) \/ cpc[c] \in {"selectchar", "quit", "logout"} => Synced(ch)

RestartSaves ==
  "database" \in running /\ ~freed =>
    \A c \in Fresh : \A ch \in Copies(c) :
      ch.name \notin overwritten => SavedSoFar(c, ch)

LEMMA SavedIsNat ==
  ASSUME DBTypeOK, NEW k \in DOMAIN Chars, ExperienceRow(k)
  PROVE  Saved(k) \in Nat
BY PointsBelowNext DEF DBTypeOK, CharRow, ExperienceRow, Consistent, Saved

\* A point at the level cap is allowed for, and no point takes the allowance back.
LEMMA PointAllowance ==
  ASSUME NEW ch \in Character, ConsistentCopy(ch)
  PROVE  /\ OverCap(ch) \in {0, 1} /\ OverCap(AfterPoint(ch)) \in {0, 1}
         /\ OverCap(ch) <= OverCap(AfterPoint(ch))
         /\ AtCap(ch) => OverCap(AfterPoint(ch)) = OverCap(ch) + 1
PROOF
<1>1. /\ ch.lvl \in 1..LEVEL_MAX /\ ch.totalExp = levelsExp[ch.lvl]
      /\ ch.currentExp \in Nat /\ LEVEL_MAX \in Nat
  BY GameAssumption DEF ConsistentCopy, Consistent, Character
<1>2. CASE ch.lvl = LEVEL_MAX
  <2>1. /\ AfterPoint(ch).lvl = LEVEL_MAX
        /\ AfterPoint(ch).currentExp = ch.currentExp + 1
    BY <1>1, <1>2 DEF AfterPoint, Character
  <2>2. levelsExp[LEVEL_MAX] \in Nat
    BY <1>1, GameAssumption
  <2> QED BY <1>1, <1>2, <2>1, <2>2 DEF OverCap, AtCap
<1>3. CASE ch.lvl # LEVEL_MAX
  BY <1>1, <1>3 DEF OverCap, AtCap
<1> QED BY <1>2, <1>3

\* How the call of a client with a copy moves on, other than by a point or by a turn of
\* the database.
LEMMA CallMovesOn ==
  ASSUME TypeInvariant, NEW c \in Clients, CallDiscipline(c), StateFollowsCall(c),
         CallInState(c), Step(c), ~communicate_with_database(c), ~point(c),
         Copies(c) # {}
  PROVE  \/ /\ cpc'[c] = cpc[c] /\ counter'[c] = counter[c]
            /\ cpc[c] \in Calls => PendingReplies(c)' = PendingReplies(c)
         \/ SaveAnswered(c) \/ cpc[c] = "selectchar"
         \/ cpc'[c] \in SaveCalls /\ PendingReplies(c)' = {}
         \/ cpc'[c] \notin {"prompt", "selectchar", "quit", "logout"} \cup SaveCalls
PROOF
<1>1. ControlOK
  BY TypeInvariantParts
<1>2. CASE Command(c)
  <2>1. /\ cpc[c] = "prompt" /\ s2c'[c] = << >> /\ spc'[c] \in {"backlog", "recv"}
    BY <1>2, CommandEffect
  <2>2. session_state[c] = "PLAY_GAME"
    BY <2>1, PromptCopies
  <2>3. PICK call \in {"quit_save", "logout_save"} :
          Call(c, call, SaveRequest(username[c], character[c]))
    BY <1>2, <2>2 DEF Command, login_command, createAccount_command,
       selectCharacter_command, createCharacter_command, deleteCharacter_command,
       CharacterCommand, CommandAllowed, quit, logOut
  <2>4. cpc'[c] \in SaveCalls
    BY <1>1, <2>3 DEF Call, ControlOK, SaveCalls
  <2>5. PendingReplies(c)' = {}
    BY <2>1 DEF PendingReplies, Range
  <2> QED BY <2>4, <2>5
<1>3. CASE HandleReply(c)
  <2>1. PICK next : Receive(c, next) /\ cpc[c] \in Calls /\ s2c[c] # << >>
    BY <1>3 DEF HandleReply, login_reply, selectCharacter_reply, report_reply,
       save_reply, quit_reply, logout_reply, Answered, Calls
  <2>2. Replied(c) /\ c2s[c] = << >> /\ spc[c] \in {"recv", "closed"}
    BY <2>1, AnswerIsRead DEF Replied
  <2>3. PendingRequests(c) = {} /\ PendingReplies(c) # {}
    <3>1. s2c[c] \in Seq(Replies) /\ Len(s2c[c]) = 1
      BY <2>2, TypeInvariantParts DEF RecordsWellFormed, Replied
    <3>2. s2c[c][1] \in PendingReplies(c)
      BY <3>1 DEF PendingReplies, Range
    <3> QED BY <2>2, <3>2 DEF PendingRequests, Range
  <2>4. Playing(c) \/ cpc[c] = "selectchar"
    BY <2>3 DEF Copies, GrantedSelections, Saves
  <2>5. Playing(c) => cpc[c] \in SaveCalls
    BY <2>1, <2>3 DEF Playing, LoggedIn, LogoutServed, StateFollowsCall, CallInState,
       Calls, SaveCalls
  <2> QED BY <2>3, <2>4, <2>5 DEF SaveAnswered
<1>4. CASE comm_connect(c)
  <2>1. /\ session_state[c] = "USER_LOGIN" /\ cpc[c] = "off"
        /\ PendingRequests(c) = {}
    BY <1>4 DEF comm_connect, StateFollowsCall, CallDiscipline, PendingRequests, Range
  <2> QED BY <2>1 DEF Copies, GrantedSelections, Saves, Playing
<1>5. CASE disconnect(c) \/ clt_sigRutine(c) \/ connection_lost(c)
  BY <1>5, EndPending DEF SaveCalls
<1>6. CASE Session(c) \/ connect_collision(c)
  <2>1. UNCHANGED <<cpc, counter>>
    BY <1>6 DEF Session, accept, receiveData, server_process_data, sendData,
       connect_collision, communicate_with_database, Goto, clientVars
  <2>2. cpc[c] \in Calls => PendingReplies(c)' = PendingReplies(c)
    BY <1>6, SessionPending DEF Session
  <2> QED BY <2>1, <2>2
<1> QED BY <1>2, <1>3, <1>4, <1>5, <1>6 DEF Step

\* Every step of a client or its session but the database's turn counts what it adds,
\* and goes on to the next call when the one before is answered.
LEMMA OwnStepSaves ==
  ASSUME TypeInvariant, TypeInvariant', NEW c \in Clients, CallDiscipline(c),
         StateFollowsCall(c), CallInState(c), Step(c), ~communicate_with_database(c),
         NEW ch \in Copies(c)',
         \A dh \in Copies(c) :
           /\ dh \in Character /\ ConsistentCopy(dh) /\ Saved(dh.name) \in Nat
           /\ dh.name = ch.name => SavedSoFar(c, dh)
  PROVE  SavedSoFar(c, ch)'
PROOF
<1>1. KeepsCopies(c) /\ ControlOK
  BY StepCopies, TypeInvariantParts
<1>2. \A k : Saved(k)' = Saved(k)
  BY <1>1 DEF KeepsCopies, dbVars, Saved
<1>3. CASE point(c)
  <2>1. cpc[c] = "prompt" /\ s2c'[c] = << >> /\ spc'[c] \in {"backlog", "recv"}
    BY <1>3, CommandEffect DEF Command
  <2>2. PICK dh : dh = character[c]
    OBVIOUS
  <2>3. /\ ch = dh \/ ch = AfterPoint(dh)
        /\ dh \in Copies(c)
    BY <1>1, <1>3, <2>1, <2>2, PromptCopies DEF KeepsCopies, point, CommandAllowed
  <2>4. /\ dh \in Character /\ ConsistentCopy(dh) /\ Saved(dh.name) \in Nat
        /\ Gained(dh) \in Nat /\ Gained(AfterPoint(dh)) = Gained(dh) + 1
        /\ ch.name = dh.name
        /\ SavedSoFar(c, dh)
    BY <2>3, GainedIsNat, PointGainsOne, PointKeepsName
  <2>5. /\ counter[c] \in Nat
        /\ \/ cpc'[c] = "p"
           \/ cpc'[c] = "prompt" /\ counter'[c] = counter[c] + 1
           \/ cpc'[c] = "prompt" /\ counter'[c] = counter[c] /\ AtCap(dh)
    BY <1>1, <1>3, <2>1, <2>2, GameAssumption DEF point, Call, ControlOK
  <2>6. ~SaveAnswered(c)'
    BY <2>1 DEF SaveAnswered, PendingReplies, Range
  <2>7. /\ Saved(ch.name)' = Saved(dh.name)
        /\ Gained(ch) \in {Gained(dh), Gained(dh) + 1}
        /\ Saved(dh.name) <= Gained(dh)
        /\ Gained(dh) <= Saved(dh.name) + counter[c] + OverCap(dh)
    BY <1>2, <2>1, <2>3, <2>4 DEF SavedSoFar
  <2>8. /\ OverCap(dh) \in {0, 1} /\ OverCap(ch) \in {0, 1}
        /\ OverCap(dh) <= OverCap(ch)
        /\ AtCap(dh) /\ ch = AfterPoint(dh) => OverCap(ch) = OverCap(dh) + 1
    BY <2>3, <2>4, PointAllowance
  <2>9. Saved(ch.name)' <= Gained(ch)
    BY <2>4, <2>7
  <2>10. cpc'[c] = "prompt" => Gained(ch) <= Saved(ch.name)' + counter'[c] + OverCap(ch)
    BY <2>3, <2>4, <2>5, <2>7, <2>8
  <2> QED BY <2>5, <2>6, <2>9, <2>10 DEF SavedSoFar, Gained, OverCap
<1>4. CASE ~point(c)
  <2>1. ch \in Copies(c)
    BY <1>1, <1>4 DEF KeepsCopies
  <2>2. /\ SavedSoFar(c, ch) /\ Gained(ch) \in Nat /\ Saved(ch.name) \in Nat
        /\ Saved(ch.name)' = Saved(ch.name)
    BY <1>2, <2>1, GainedIsNat
  <2>3. OverCap(ch) \in {0, 1} /\ counter'[c] \in Nat
    <3>1. counter' \in [Clients -> 0..LIMIT_TOSAVE]
      BY DEF TypeInvariant, TypeOK
    <3> QED BY <3>1, GameAssumption DEF OverCap
  <2>4. SaveCalls \subseteq Calls /\ {"selectchar", "quit", "logout"} \subseteq Calls
    BY DEF SaveCalls, Calls
  <2>5. CASE SaveAnswered(c) \/ cpc[c] = "selectchar"
    <3>1. Saved(ch.name)' = Gained(ch)
      BY <2>2, <2>5 DEF SavedSoFar, Synced
    <3> QED BY <2>2, <2>3, <3>1 DEF SavedSoFar, Synced, Gained, OverCap
  <2>6. CASE /\ cpc'[c] = cpc[c] /\ counter'[c] = counter[c]
             /\ cpc[c] \in Calls => PendingReplies(c)' = PendingReplies(c)
    BY <2>2, <2>4, <2>6 DEF SavedSoFar, SaveAnswered, Synced, Gained, OverCap
  <2>7. CASE cpc'[c] \in SaveCalls /\ PendingReplies(c)' = {}
    BY <2>2, <2>7 DEF SavedSoFar, SaveAnswered, SaveCalls, Gained
  <2>8. CASE cpc'[c] \notin {"prompt", "selectchar", "quit", "logout"} \cup SaveCalls
    BY <2>2, <2>8 DEF SavedSoFar, SaveAnswered, Gained
  <2> QED BY <1>4, <2>1, <2>5, <2>6, <2>7, <2>8, CallMovesOn
<1> QED BY <1>3, <1>4

\* The rows that a turn leaves, and the one that a save writes (char_exp_up).
LEMMA SaveIsDone ==
  ASSUME NEW req \in Requests, process_data(req), req.opcode = "EXP_UP",
         NEW k \in DOMAIN Chars, k = req.character.name, Chars[k] \in CharRow
  PROVE  Saved(k)' = Gained(req.character)
PROOF
<1>1. char_exp_up(req)
  BY DEF process_data, login, create_account, select_char, create_char, delete_char,
     logout, unhandled, HandledOpcodes
<1>2. /\ Chars'[k].Level = req.character.lvl
      /\ Chars'[k].CurrentExp = req.character.currentExp
  BY <1>1 DEF char_exp_up, CharRow
<1> QED BY <1>2 DEF Saved, Gained

\* The database's turn for a fresh client: the save is done, or the row is copied.
LEMMA OwnTurnSaves ==
  ASSUME TypeInvariant, NEW c \in Clients, CallDiscipline(c), StateFollowsCall(c),
         CallInState(c), communicate_with_database(c), CharacterHeld(c),
         CharacterHeld(c)', counter[c] \in Nat, NEW ch \in Copies(c)',
         ch \in Character, ConsistentCopy(ch),
         ch \in Copies(c) => SavedSoFar(c, ch)
  PROVE  SavedSoFar(c, ch)'
PROOF
<1>1. PICK req : req = data_from_client[c]
  OBVIOUS
<1>2. /\ req \in Requests /\ process_data(req) /\ req \in PendingRequests(c)
      /\ UNCHANGED <<cpc, session_state, username>>
      /\ cpc[c] \in Calls => Matches(c, req)
      /\ cpc[c] \notin Calls => ~LoggedIn(c) /\ ~LoggedIn(c)'
  BY <1>1, DatabaseTurn
<1>3. /\ LoggedIn(c)'
      /\ \/ ch \in Copies(c)
         \/ SelectionGranted(req) /\ ch = Reply(req).character
  BY <1>1, TurnCopies
<1>4. cpc[c] \in Calls /\ Matches(c, req) /\ DBTypeOK
  BY <1>2, <1>3, TypeInvariantParts
<1>5. ch.name \in DOMAIN Chars' /\ Gained(ch) \in Nat
  BY GainedIsNat DEF CharacterHeld, HeldBy
<1>6. UNCHANGED counter
  BY DEF communicate_with_database, clientVars
<1>7. ASSUME Saved(ch.name)' = Gained(ch) PROVE SavedSoFar(c, ch)'
  <2>1. OverCap(ch) \in {0, 1}
    BY DEF OverCap
  <2> QED BY <1>5, <1>6, <1>7, <2>1 DEF SavedSoFar, Synced, Gained, OverCap
<1>8. CASE ch \notin Copies(c)
  <2>1. /\ req.opcode = "SELECT_CHARACTER" /\ Outcome(req) = CharOutcome(req)
        /\ ch = CharacterOf(ch.name) /\ ch.name = req.character.name
        /\ CharOutcome(req) = "NO_ERROR"
    BY <1>2, <1>3, <1>4, <1>8, HandlersKeepCharacters
       DEF SelectionGranted, Outcome, SelectedRowIsMarked
  <2>2. ch.name \in DOMAIN Chars
    BY <2>1 DEF CharOutcome
  <2>3. /\ Chars'[ch.name].Level = Chars[ch.name].Level
        /\ Chars'[ch.name].CurrentExp = Chars[ch.name].CurrentExp
    BY <1>2, <1>4, <1>5, <2>1, <2>2, HandlersWriteProgress
  <2>4. ch.lvl = Chars[ch.name].Level /\ ch.currentExp = Chars[ch.name].CurrentExp
    BY <2>1 DEF CharacterOf
  <2>5. Saved(ch.name)' = Gained(ch)
    BY <2>3, <2>4 DEF Saved, Gained
  <2> QED BY <1>7, <2>5
<1>9. CASE ch \in Copies(c)
  <2>1. ch.name \in DOMAIN Chars /\ Chars[ch.name] \in CharRow /\ SavedSoFar(c, ch)
    BY <1>4, <1>9 DEF CharacterHeld, HeldBy, DBTypeOK
  <2>2. ASSUME req.opcode = "EXP_UP" PROVE SavedSoFar(c, ch)'
    <3>1. req.character \in Copies(c)
      BY <1>2, <2>2 DEF Copies, Saves
    <3>2. ch = req.character
      BY <1>9, <3>1 DEF CharacterHeld
    <3> QED BY <1>2, <1>7, <2>1, <2>2, <3>2, SaveIsDone
  <2>3. ASSUME req.opcode # "EXP_UP" PROVE SavedSoFar(c, ch)'
    <3>1. /\ Chars'[ch.name].Level = Chars[ch.name].Level
          /\ Chars'[ch.name].CurrentExp = Chars[ch.name].CurrentExp
      BY <1>2, <1>4, <1>5, <2>1, <2>3, HandlersWriteProgress
    <3>2. Saved(ch.name)' = Saved(ch.name)
      BY <3>1 DEF Saved
    <3>3. cpc[c] \notin SaveCalls \cup {"prompt"}
      BY <1>4, <2>3 DEF Matches, CallOpcodes, SaveCalls
    <3> QED BY <1>2, <2>1, <3>2, <3>3
            DEF SavedSoFar, SaveAnswered, Synced, Gained
  <2> QED BY <2>2, <2>3
<1> QED BY <1>8, <1>9

\* What others do to the row of a fresh client's character is remembered, if it is a
\* client of earlier tables that does it; another fresh client does not.
LEMMA OthersKeepSaves ==
  ASSUME RestartInvariant, RestartExperience, RestartCharacters, ~freed', NEW c \in Clients,
         OwnStep(c), NEW d \in Fresh, d # c, CharacterHeld(d)', NEW ch \in Copies(d)',
         ch.name \notin overwritten', SavedSoFar(d, ch)
  PROVE  SavedSoFar(d, ch)'
PROOF
<1>1. /\ TypeInvariant /\ DBTypeOK /\ ClientCall(c) /\ Step(c) /\ UnchangedOthers(c)
      /\ CallInState(c) /\ Observe /\ ~freed /\ d \in Clients \ {c}
  BY StepIsLocal, TypeInvariantParts
     DEF RestartInvariant, RestartTypes, RestartCalls, RestartExperience, CallsInState,
         OwnStep, Observe, Fresh
<1>2. /\ cpc'[d] = cpc[d] /\ counter'[d] = counter[d] /\ Copies(d)' = Copies(d)
      /\ PendingReplies(d)' = PendingReplies(d)
  BY <1>1, OthersCopyTheSame DEF UnchangedOthers, PendingReplies
<1>3. CharacterHeld(d) /\ HeldBy(d, ch.name) /\ ch.name \in DOMAIN Chars'
  BY <1>1, <1>2 DEF RestartCharacters, CharacterHeld, HeldBy
<1>4. Saved(ch.name)' = Saved(ch.name)
  <2>1. CASE ~communicate_with_database(c)
    BY <1>1, <2>1, OwnStepKnows DEF dbVars, Saved
  <2>2. CASE communicate_with_database(c)
    <3> SUFFICES ASSUME Saved(ch.name)' # Saved(ch.name) PROVE FALSE
      OBVIOUS
    <3>1. PICK req : req = data_from_client[c]
      OBVIOUS
    <3>2. /\ c \notin cut /\ req \in Requests /\ req \in PendingRequests(c)
          /\ process_data(req)
      BY <1>1, <2>2, <3>1, ServedIsDisciplined, DatabaseTurn
         DEF communicate_with_database
    <3>3. req.opcode = "EXP_UP" /\ req.character.name = ch.name
      BY <1>1, <1>3, <3>2, HandlersWriteProgress DEF HeldBy, Saved
    <3>4. c \notin stale
      <4>1. spc[c] = "db" /\ spc'[c] = "send"
        BY <1>1, <2>2 DEF communicate_with_database, TypeInvariant, TypeOK
      <4> QED BY <1>1, <1>3, <4>1 DEF Observe, ServesStale, HeldBy
    <3>5. c \in Fresh
      BY <3>2, <3>4 DEF Fresh
    <3>6. req.character \in Copies(c)
      BY <3>2, <3>3 DEF Copies, Saves
    <3>7. HeldBy(c, ch.name)
      BY <1>1, <3>3, <3>5, <3>6 DEF RestartCharacters, CharacterHeld
    <3>8. Chars[ch.name].Name \in Usernames
      BY <1>1, <1>3 DEF HeldBy, DBTypeOK, CharRow
    <3> QED BY <1>3, <2>2, <3>1, <3>5, <3>7, <3>8, TurnSparesFresh DEF HeldBy
  <2> QED BY <2>1, <2>2
<1> QED BY <1>2, <1>4 DEF SavedSoFar, SaveAnswered, Synced, Gained, OverCap

LEMMA OwnStepKeepsSaves ==
  ASSUME RestartInvariant, RestartInvariant', RestartExperience, RestartExperience',
         RestartCharacters, RestartCharacters', RestartSaves,
         NEW c \in Clients, OwnStep(c)
  PROVE  RestartSaves'
PROOF
<1> SUFFICES ASSUME "database" \in running', ~freed', NEW d \in Fresh',
                    NEW ch \in Copies(d)', ch.name \notin overwritten'
             PROVE  SavedSoFar(d, ch)'
  BY DEF RestartSaves
<1>1. /\ Observe /\ UNCHANGED cut /\ ~freed /\ "database" \in running
      /\ overwritten \subseteq overwritten' /\ TypeInvariant /\ TypeInvariant' /\ DBTypeOK
  BY TypeInvariantParts
     DEF OwnStep, processVars, Observe, RestartInvariant, RestartTypes
<1>2. d \in Fresh /\ d \in Clients \ cut /\ CharacterHeld(d) /\ CharacterHeld(d)'
  <2>1. d \in Fresh
    BY <1>1, CopyWasFresh
  <2> QED BY <1>1, <2>1 DEF RestartCharacters, Fresh
<1>3. /\ ClientCall(d) /\ ClientCall(d)' /\ CallInState(d)
      /\ KnownTo(d) \subseteq Character /\ ConsistentCopy(ch)
  <2>1. ClientCall(d) /\ ClientCall(d)' /\ CallInState(d) /\ ConsistentCopy(ch)
    BY <1>2 DEF RestartInvariant, RestartCalls, RestartExperience, CallsInState, Copies,
       KnownTo, Playing, ConsistentCopy
  <2> QED BY <1>1, <1>2, <2>1, KnownIsCharacter
<1>4. \A dh \in Copies(d) :
        /\ dh \in Character /\ ConsistentCopy(dh) /\ Saved(dh.name) \in Nat
        /\ dh.name \notin overwritten => SavedSoFar(d, dh)
  <2> SUFFICES ASSUME NEW dh \in Copies(d)
               PROVE  /\ dh \in Character /\ ConsistentCopy(dh)
                      /\ Saved(dh.name) \in Nat
                      /\ dh.name \notin overwritten => SavedSoFar(d, dh)
    OBVIOUS
  <2>1. dh \in KnownTo(d)
    BY DEF Copies, KnownTo, Playing
  <2>2. dh.name \in DOMAIN Chars
    BY <1>2 DEF CharacterHeld, HeldBy
  <2>3. ExperienceRow(dh.name) /\ ConsistentCopy(dh)
    BY <1>2, <2>1, <2>2 DEF RestartExperience
  <2> QED BY <1>1, <1>2, <1>3, <2>1, <2>2, <2>3, SavedIsNat DEF RestartSaves
<1>5. CASE d # c
  <2>1. Copies(d)' = Copies(d)
    BY <1>1, <1>2, <1>5, StepIsLocal, OthersCopyTheSame DEF OwnStep
  <2> QED BY <1>1, <1>2, <1>4, <1>5, <2>1, OthersKeepSaves
<1>6. CASE d = c /\ Orphaned(c)
  <2>1. KnownTo(c)' \subseteq {}
    BY <1>1, <1>6, OrphanKnows DEF OwnStep
  <2> QED BY <1>6, <2>1 DEF Copies, KnownTo, Playing
<1>7. CASE d = c /\ CallDiscipline(c) /\ ~communicate_with_database(c)
  <2>1. /\ StateFollowsCall(c) /\ Step(c) /\ CallInState(c)
    BY <1>3, <1>7 DEF ClientCall, OwnStep
  <2>2. \A dh \in Copies(c) :
          /\ dh \in Character /\ ConsistentCopy(dh) /\ Saved(dh.name) \in Nat
          /\ dh.name = ch.name => SavedSoFar(c, dh)
    BY <1>1, <1>4, <1>7
  <2> QED BY <1>1, <1>7, <2>1, <2>2, OwnStepSaves
<1>8. CASE d = c /\ CallDiscipline(c) /\ communicate_with_database(c)
  <2>1. counter[c] \in Nat
    BY <1>1, GameAssumption DEF TypeInvariant, TypeOK
  <2>2. ch \in Character
    <3>1. KnownAreCharacters'
      BY AllKnownAreCharacters, PTL
    <3> QED BY <1>8, <3>1 DEF KnownAreCharacters, Copies, KnownTo, Playing
  <2> QED BY <1>1, <1>2, <1>3, <1>4, <1>8, <2>1, <2>2, OwnTurnSaves DEF ClientCall
<1> QED BY <1>2, <1>3, <1>5, <1>6, <1>7, <1>8 DEF ClientCall

LEMMA SavesStep ==
  ASSUME RestartInvariant, RestartInvariant', RestartExperience, RestartExperience',
         RestartCharacters, RestartCharacters', RestartSaves, [RestartNext]_allVars
  PROVE  RestartSaves'
PROOF
<1>1. ASSUME NEW c \in Clients, ReadsEnd(c)
      PROVE  RestartSaves'
  <2> SUFFICES ASSUME "database" \in running', ~freed', NEW d \in Fresh',
                      NEW ch \in Copies(d)', ch.name \notin overwritten'
               PROVE  SavedSoFar(d, ch)'
    BY DEF RestartSaves
  <2>1. /\ Observe /\ c \in cut /\ ~freed /\ "database" \in running /\ UNCHANGED cut
        /\ overwritten \subseteq overwritten' /\ UNCHANGED Chars
        /\ TypeInvariant
    BY <1>1 DEF ReadsEnd, processVars, dbVars, Observe, RestartInvariant, RestartTypes
  <2>2. d \in Fresh
    BY <2>1, CopyWasFresh
  <2>3. UnchangedOthers(c) /\ d \in Clients \ {c}
    BY <1>1, <2>1, <2>2, ReadsEndIsLocal DEF Fresh
  <2>4. /\ cpc'[d] = cpc[d] /\ counter'[d] = counter[d] /\ Copies(d)' = Copies(d)
        /\ PendingReplies(d)' = PendingReplies(d)
    BY <2>3, OthersCopyTheSame DEF UnchangedOthers, PendingReplies
  <2>5. SavedSoFar(d, ch)
    BY <2>1, <2>2, <2>4 DEF RestartSaves
  <2> QED BY <2>1, <2>4, <2>5 DEF SavedSoFar, SaveAnswered, Synced, Saved, Gained, OverCap
<1>2. CASE kill_database
  BY <1>2 DEF kill_database, RestartSaves
<1>3. CASE srv_sigRutine \/ start_database
  BY <1>3, NewRunCharacters DEF RestartSaves
<1>4. CASE start_server \/ UNCHANGED allVars
  <2>1. /\ UNCHANGED <<cpc, session_state, counter, character, spc, data_from_client,
                       data_to_client, c2s, s2c, Chars, cut, stale, freed, overwritten>>
        /\ "database" \in running' => "database" \in running
    BY <1>4 DEF start_server, allVars, processVars, historyVars, vars, clientVars,
       serverVars, dbVars
  <2>2. \A d \in Clients : /\ Copies(d)' = Copies(d)
                           /\ PendingReplies(d)' = PendingReplies(d)
    BY <2>1 DEF Copies, GrantedSelections, Saves, Playing, LoggedIn,
       LogoutServed, PendingRequests, PendingReplies
  <2> QED BY <2>1, <2>2 DEF RestartSaves, Fresh, SavedSoFar, SaveAnswered, Synced, Saved,
             Gained, OverCap
<1> QED BY <1>1, <1>2, <1>3, <1>4, RestartStepIs, OwnStepKeepsSaves DEF Fault

\* While the database runs, what a fresh client has not saved has been counted, and none
\* is left when its save is answered, however clients, sessions and faults interleave.
THEOREM RestartSavesHold == RestartSpec => []RestartSaves
PROOF
<1>1. RestartInit => RestartSaves
  <2> SUFFICES ASSUME RestartInit, NEW c \in Clients PROVE Copies(c) = {}
    BY DEF RestartSaves, Fresh
  <2>1. PendingRequests(c) = {} /\ PendingReplies(c) = {}
    BY DEF RestartInit, Init, PendingRequests, PendingReplies, Range
  <2> QED BY <2>1 DEF RestartInit, Init, Copies, GrantedSelections, Saves, Playing
<1>2. /\ RestartInvariant /\ RestartInvariant' /\ RestartExperience /\ RestartExperience'
      /\ RestartCharacters /\ RestartCharacters' /\ RestartSaves /\ [RestartNext]_allVars
      => RestartSaves'
  BY SavesStep
<1> QED BY <1>1, <1>2, RestartInvariantHolds, RestartExperienceHolds,
           RestartCharactersHold, PTL DEF RestartSpec

\* While the database runs, a player of its tables has at most LIMIT_TOSAVE unsaved points
\* at the prompt, one more at the level cap, and none once its last save is answered.
THEOREM UnsavedStaysBounded == RestartSpec => []UnsavedBoundedWhileUp
PROOF
<1>1. RestartInvariant /\ RestartExperience /\ RestartCharacters /\ RestartSaves
      => UnsavedBoundedWhileUp
  <2> SUFFICES ASSUME RestartInvariant, RestartExperience, RestartCharacters,
                      RestartSaves, "database" \in running, ~freed,
                      NEW c \in Clients \ (cut \cup stale), Playing(c),
                      NEW ch, ch = character[c], ch.name \notin overwritten
               PROVE  /\ ch.name \in DOMAIN Chars
                      /\ Unsaved(c) >= 0
                      /\ cpc[c] = "prompt" => Unsaved(c) <= LIMIT_TOSAVE + 1
                      /\ cpc[c] \in {"quit", "logout"} => Unsaved(c) = 0
    BY DEF UnsavedBoundedWhileUp
  <2>1. c \in Fresh /\ ch \in Copies(c) /\ ch \in KnownTo(c)
    BY DEF Fresh, Copies, KnownTo, Playing
  <2>2. ch.name \in DOMAIN Chars /\ SavedSoFar(c, ch)
    BY <2>1 DEF RestartCharacters, RestartSaves, CharacterHeld, HeldBy
  <2>3. TypeInvariant /\ DBTypeOK /\ ClientCall(c)
    BY TypeInvariantParts DEF RestartInvariant, RestartTypes, RestartCalls
  <2>4. Saved(ch.name) \in Nat /\ Gained(ch) \in Nat
    <3>1. ExperienceRow(ch.name) /\ ConsistentCopy(ch)
      BY <2>1, <2>2 DEF RestartExperience
    <3>2. ch \in Character
      BY <2>1, <2>3, KnownIsCharacter
    <3> QED BY <2>2, <2>3, <3>1, <3>2, SavedIsNat, GainedIsNat
  <2>5. /\ counter[c] \in Nat /\ counter[c] <= LIMIT_TOSAVE /\ LIMIT_TOSAVE \in Nat
        /\ OverCap(ch) \in {0, 1}
    BY <2>3, GameAssumption DEF TypeInvariant, TypeOK, OverCap
  <2>6. Unsaved(c) = Gained(ch) - Saved(ch.name)
    BY DEF Unsaved
  <2> QED BY <2>2, <2>4, <2>5, <2>6 DEF SavedSoFar, Synced
<1> QED BY <1>1, RestartInvariantHolds, RestartExperienceHolds, RestartCharactersHold,
           RestartSavesHold, PTL

-----------------------------------------------------------------------------
(* Progress that is saved goes back only where a client of earlier tables    *)
(* has saved over it.                                                        *)

ProgressKept ==
  ~freed' => \A k \in DOMAIN Chars \cap DOMAIN Chars' :
               k \notin overwritten' => Saved(k) <= Saved(k)'

\* Only a turn of a running database and its start change a row.
LEMMA WhoChangesRows ==
  ASSUME RestartNext, Chars' # Chars
  PROVE  \/ start_database
         \/ /\ "database" \in running
            /\ \E c \in Clients : OwnStep(c) /\ communicate_with_database(c)
PROOF
<1>1. ASSUME NEW c \in Clients, Client(c) \/ Reply_or_leave(c)
      PROVE  FALSE
  BY <1>1 DEF Client, Reply_or_leave, comm_connect, Command, login_command,
     createAccount_command, selectCharacter_command, createCharacter_command,
     deleteCharacter_command, CharacterCommand, point, quit, logOut, Call,
     clt_sigRutine, connection_lost, disconnect, Terminate, HandleReply, login_reply,
     selectCharacter_reply, report_reply, save_reply, quit_reply, logout_reply,
     Receive, dbVars
<1>2. ASSUME NEW c \in Clients, Collision(c) \/ receive_eof(c) \/ send_sigpipe(c)
      PROVE  FALSE
  BY <1>2 DEF Collision, connect_collision, Goto, receive_eof, send_sigpipe, Terminate,
     dbVars
<1>3. ASSUME NEW c \in Clients, SessionStep(c)
      PROVE  /\ OwnStep(c) /\ communicate_with_database(c)
             /\ "database" \in running
  <2>1. communicate_with_database(c)
    BY <1>3 DEF SessionStep, Session, accept, receiveData, server_process_data, sendData,
       Goto, dbVars
  <2> QED BY <1>3, <2>1 DEF SessionStep, OwnStep, Step, communicate_with_database
<1>4. ~kill_database /\ ~srv_sigRutine /\ ~start_server
  BY DEF kill_database, srv_sigRutine, start_server, vars, dbVars
<1> QED BY <1>1, <1>2, <1>3, <1>4 DEF RestartNext

LEMMA TurnKeepsSaves ==
  ASSUME RestartInvariant, RestartExperience, RestartCharacters, RestartSaves,
         "database" \in running, ~freed', NEW c \in Clients, OwnStep(c),
         communicate_with_database(c), NEW k \in DOMAIN Chars \cap DOMAIN Chars',
         k \notin overwritten'
  PROVE  Saved(k) <= Saved(k)'
PROOF
<1>1. /\ TypeInvariant /\ DBTypeOK /\ ClientCall(c) /\ Observe /\ ~freed
      /\ overwritten \subseteq overwritten'
  BY TypeInvariantParts
     DEF RestartInvariant, RestartTypes, RestartCalls, OwnStep, Observe
<1>2. PICK req : req = data_from_client[c]
  OBVIOUS
<1>3. /\ c \notin cut /\ req \in Requests /\ req \in PendingRequests(c)
      /\ process_data(req)
  BY <1>1, <1>2, ServedIsDisciplined, DatabaseTurn DEF communicate_with_database
<1>4. Saved(k) \in Nat
  BY <1>1, SavedIsNat DEF RestartExperience
<1>5. ASSUME Saved(k)' # Saved(k)
      PROVE  Saved(k) <= Saved(k)'
  <2>1. req.opcode = "EXP_UP" /\ req.character.name = k
    BY <1>1, <1>3, <1>5, HandlersWriteProgress DEF Saved
  <2>2. c \notin stale
    <3>1. spc[c] = "db" /\ spc'[c] = "send"
      BY <1>1 DEF communicate_with_database, TypeInvariant, TypeOK
    <3> QED BY <1>1, <1>5, <3>1 DEF Observe, ServesStale
  <2>3. c \in Fresh /\ req.character \in Copies(c)
    BY <1>3, <2>1, <2>2 DEF Fresh, Copies, Saves
  <2>4. Saved(k) <= Gained(req.character)
    BY <1>1, <2>1, <2>3 DEF RestartSaves, SavedSoFar
  <2>5. Saved(k)' = Gained(req.character)
    BY <1>1, <1>3, <2>1, SaveIsDone DEF DBTypeOK
  <2> QED BY <2>4, <2>5
<1> QED BY <1>4, <1>5

\* Saved progress goes back only if a client of earlier tables saves its own character
\* of that name over the new one, or frees an account (char_exp_up, logout).
THEOREM SavedProgressStaysUnderRestarts == RestartSpec => [][ProgressKept]_allVars
PROOF
<1>1. /\ RestartInvariant /\ RestartExperience /\ RestartCharacters /\ RestartSaves
      /\ [RestartNext]_allVars
      => [ProgressKept]_allVars
  <2> SUFFICES ASSUME RestartInvariant, RestartExperience, RestartCharacters,
                      RestartSaves, RestartNext, ~freed',
                      NEW k \in DOMAIN Chars \cap DOMAIN Chars', k \notin overwritten'
               PROVE  Saved(k) <= Saved(k)'
    BY DEF ProgressKept
  <2>1. CASE Chars' = Chars
    <3>1. Saved(k) \in Nat
      BY SavedIsNat, TypeInvariantParts
         DEF RestartInvariant, RestartTypes, RestartExperience
    <3> QED BY <2>1, <3>1 DEF Saved
  <2>2. CASE start_database
    BY <2>2 DEF start_database, initialize_tables
  <2> QED BY <2>1, <2>2, WhoChangesRows, TurnKeepsSaves
<1> QED BY <1>1, RestartInvariantHolds, RestartExperienceHolds, RestartCharactersHold,
           RestartSavesHold, PTL DEF RestartSpec
=============================================================================

------------------------------ MODULE QueueLog ------------------------------
(***************************************************************************)
(* Logging over message queues: initLogin, sndMessage, rcvMessage and      *)
(* printMessage of daemonqueues.c, as the server's processes and the       *)
(* daemon (daemonserver.c) call them.  A process fills its global msg and  *)
(* msgsnd copies it; msgsnd waits while the queue is full.  The queues     *)
(* belong to the system: they outlive every process.                       *)
(*                                                                         *)
(* The server's handler for Ctrl-C (server.c) logs a last message, through *)
(* the same msg and the same queue, and exits.                             *)
(***************************************************************************)
EXTENDS Integers, Sequences

CONSTANTS
  Loggers,        \* the server's main process and its sessions
  NoLogger,       \* a process of an earlier run
  Capacity,       \* messages a queue holds
  MaxMessages,    \* bound: messages a process logs
  MaxKills        \* bound: times the daemon is killed

ASSUME QueueAssumption ==
  /\ NoLogger \notin Loggers
  /\ Capacity \in Nat \ {0} /\ MaxMessages \in Nat /\ MaxKills \in Nat

INFO_TYPE == 1
WARNING_TYPE == 2
ERROR_TYPE == 3

\* mdata is the number of the message among its sender's.
Message ==
  [mtype : {INFO_TYPE, WARNING_TYPE, ERROR_TYPE},
   svpid : Loggers \cup {NoLogger},
   mdata : 0..MaxMessages + 1]

\* A message left by an earlier run; it also stands for a msg nobody has filled yet,
\* which is never sent or printed.
OldMessage == [mtype |-> INFO_TYPE, svpid |-> NoLogger, mdata |-> 0]

\* initLogin crosses the two queues: what the daemon reads is what the others write.
qmessage_in(is_dSrv) == IF is_dSrv THEN "Q1" ELSE "Q2"
qmessage_out(is_dSrv) == IF is_dSrv THEN "Q2" ELSE "Q1"

VARIABLES
  queue,      \* the two message queues
  msg,        \* the global msg of each process
  sent,       \* how many messages each process has got into the queue
  ppc,        \* what each process is doing
  caught,     \* processes in the handler for Ctrl-C
  dpc,        \* what the daemon is doing
  dmsg,       \* the daemon's msg
  printed,    \* what it printed last
  kills       \* how often it was killed

loggerVars == <<msg, sent, ppc, caught>>
daemonVars == <<dpc, dmsg, printed, kills>>
vars == <<queue, loggerVars, daemonVars>>

TypeOK ==
  /\ queue \in [{"Q1", "Q2"} -> Seq(Message)]
  /\ \A q \in {"Q1", "Q2"} : Len(queue[q]) <= Capacity
  /\ msg \in [Loggers -> Message]
  /\ sent \in [Loggers -> 0..MaxMessages + 1]
  /\ ppc \in [Loggers -> {"run", "msgsnd", "exit"}]
  /\ caught \in SUBSET Loggers
  /\ dpc \in {"down", "rcvMessage", "printMessage"}
  /\ dmsg \in Message
  /\ printed \in Seq(Message)
  /\ kills \in 0..MaxKills

\* Messages of an earlier run may still be in the queue.
Init ==
  /\ \E n \in 0..Capacity :
       queue = [q \in {"Q1", "Q2"} |->
                  IF q = qmessage_in(TRUE) THEN [i \in 1..n |-> OldMessage] ELSE << >>]
  /\ msg = [p \in Loggers |-> OldMessage]
  /\ sent = [p \in Loggers |-> 0]
  /\ ppc = [p \in Loggers |-> "run"]
  /\ caught = {}
  /\ dpc = "down"
  /\ dmsg = OldMessage
  /\ printed = << >>
  /\ kills = 0

-----------------------------------------------------------------------------
(* The server's processes.                                                  *)

\* sndMessage up to msgsnd.
Fill(p, type) ==
  /\ msg' = [msg EXCEPT ![p] = [mtype |-> type, svpid |-> p, mdata |-> sent[p] + 1]]
  /\ ppc' = [ppc EXCEPT ![p] = "msgsnd"]

sndMessage(p) ==
  /\ ppc[p] = "run"
  /\ sent[p] < MaxMessages
  /\ \E type \in {INFO_TYPE, WARNING_TYPE, ERROR_TYPE} : Fill(p, type)
  /\ UNCHANGED <<queue, sent, caught, daemonVars>>

\* The handler calls exit(1) after its message.
msgsnd(p) ==
  LET out == qmessage_out(FALSE) IN
  /\ ppc[p] = "msgsnd"
  /\ Len(queue[out]) < Capacity
  /\ queue' = [queue EXCEPT ![out] = Append(@, msg[p])]
  /\ sent' = [sent EXCEPT ![p] = @ + 1]
  /\ ppc' = [ppc EXCEPT ![p] = IF p \in caught THEN "exit" ELSE "run"]
  /\ UNCHANGED <<msg, caught, daemonVars>>

\* Ctrl-C, also inside sndMessage: the handler's message replaces the one that was
\* being sent.  A second Ctrl-C has to wait for the handler.
srv_sigRutine(p) ==
  /\ ppc[p] # "exit"
  /\ p \notin caught
  /\ caught' = caught \cup {p}
  /\ Fill(p, WARNING_TYPE)
  /\ UNCHANGED <<queue, sent, daemonVars>>

-----------------------------------------------------------------------------
(* The daemon.                                                              *)

\* initLogin: the queues are created unless they are there.
start_daemon ==
  /\ dpc = "down"
  /\ dpc' = "rcvMessage"
  /\ dmsg' = OldMessage
  /\ UNCHANGED <<queue, loggerVars, printed, kills>>

\* Mutation: the last message first.
rcvMessage_last ==
  LET in == qmessage_in(TRUE) IN
  /\ dpc = "rcvMessage"
  /\ queue[in] # << >>
  /\ dmsg' = queue[in][Len(queue[in])]
  /\ queue' = [queue EXCEPT ![in] = SubSeq(@, 1, Len(@) - 1)]
  /\ dpc' = "printMessage"
  /\ UNCHANGED <<loggerVars, printed, kills>>

\* Mutation: rcvMessage(INFO_TYPE), which leaves the other types in the queue.
rcvMessage_infoOnly ==
  LET in == qmessage_in(TRUE) IN
  /\ dpc = "rcvMessage"
  /\ queue[in] # << >> /\ Head(queue[in]).mtype = INFO_TYPE
  /\ dmsg' = Head(queue[in])
  /\ queue' = [queue EXCEPT ![in] = Tail(@)]
  /\ dpc' = "printMessage"
  /\ UNCHANGED <<loggerVars, printed, kills>>

\* rcvMessage(0): the first message of any type.
rcvMessage ==
  LET in == qmessage_in(TRUE) IN
  /\ dpc = "rcvMessage"
  /\ queue[in] # << >>
  /\ dmsg' = Head(queue[in])
  /\ queue' = [queue EXCEPT ![in] = Tail(@)]
  /\ dpc' = "printMessage"
  /\ UNCHANGED <<loggerVars, printed, kills>>

printMessage ==
  /\ dpc = "printMessage"
  /\ printed' = <<dmsg>>
  /\ dpc' = "rcvMessage"
  /\ UNCHANGED <<queue, loggerVars, dmsg, kills>>

kill_daemon ==
  /\ dpc # "down"
  /\ kills < MaxKills
  /\ kills' = kills + 1
  /\ dpc' = "down"
  /\ UNCHANGED <<queue, loggerVars, dmsg, printed>>

-----------------------------------------------------------------------------
Next ==
  \/ \E p \in Loggers : sndMessage(p) \/ msgsnd(p) \/ srv_sigRutine(p)
  \/ start_daemon
  \/ rcvMessage
  \/ printMessage
  \/ kill_daemon

Spec == Init /\ [][Next]_vars

\* The system runs the processes, and lets those that wait in msgsnd in one after
\* the other.  Nobody has to start the daemon or to press Ctrl-C.
FairSpec ==
  /\ Spec
  /\ \A p \in Loggers : SF_vars(msgsnd(p))
  /\ WF_vars(rcvMessage) /\ WF_vars(printMessage)

-----------------------------------------------------------------------------
(* What logging over queues guarantees.                                     *)

Abstract == INSTANCE Log
  WITH Messages <- Message,
       pending <- IF dpc = "printMessage" THEN <<dmsg>> \o queue["Q1"]
                                          ELSE queue["Q1"],
       running <- dpc # "down"

\* The daemon prints what was logged, each message once and in order; one is lost
\* at most each time it is killed (rcvMessage before printMessage), and a restart
\* finds what the queue still holds.
ImplementsLog == Abstract!Spec

\* A process that logs goes on as long as a daemon runs; without one it stops at
\* its next message once the queue is full (daemonqueues.c:89).
SendReturns ==
  \A p \in Loggers : ppc[p] = "msgsnd" ~> ppc[p] # "msgsnd" \/ dpc = "down"

\* Ctrl-C ends a server process that is stuck in a full queue only once a daemon
\* runs: the handler sends a message as well (server.c:202).
InterruptEnds ==
  \A p \in Loggers : p \in caught ~> ppc[p] = "exit" \/ dpc = "down"
=============================================================================

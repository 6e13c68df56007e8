------------------------------ MODULE MCLogging ------------------------------
(***************************************************************************)
(* The two ways in which the processes of server.c log: the sessions over  *)
(* message queues, and main over shared memory.  The Makefile builds one   *)
(* of them; a behaviour is one of the build that its first state chooses.  *)
(* MCThreads adds the third build and has the instance.                    *)
(***************************************************************************)
EXTENDS QueueLog

CONSTANT MaxSem

VARIABLES
  build,                                                    \* "socketsq" or "socketsm"
  sem, segment, mutex, mpc, sending, posted, daemon, sizes, read, shown    \* of SharedMemLog

SharedMem == INSTANCE SharedMemLog WITH dpc <- daemon, msg <- read, printed <- shown

ASSUME SharedMemAssumption == SharedMem!SemParameters

sharedMemVars == <<sem, segment, mutex, mpc, sending, posted, daemon, sizes, read, shown>>
allVars == <<build, vars, sharedMemVars>>

\* The variables of the other builds keep one of their initial values.
MCInit ==
  /\ build \in {"socketsq", "socketsm"}
  /\ Init /\ (build # "socketsq" => queue[qmessage_in(TRUE)] = << >>)
  /\ SharedMem!Init

Queues(A) == build = "socketsq" /\ A /\ UNCHANGED <<build, sharedMemVars>>
Memory(A) == build = "socketsm" /\ A /\ UNCHANGED <<build, vars>>

MCNext == Queues(Next) \/ Memory(SharedMem!Next)

\* The fairness of each module's FairSpec.
MCFairness ==
  /\ \A p \in Loggers : SF_allVars(Queues(msgsnd(p)))
  /\ WF_allVars(Queues(rcvMessage)) /\ WF_allVars(Queues(printMessage))
  /\ WF_allVars(Memory(SharedMem!MainStep)) /\ WF_allVars(Memory(SharedMem!DaemonStep))

MCSpec == MCInit /\ [][MCNext]_allVars /\ MCFairness

-----------------------------------------------------------------------------
(* SharedMemLog's properties, stated and explained there.                   *)

\* Ctrl-C ends the server only if it has not started to log there (server.c:202).
InterruptEndsOnlyBeforeLogging == SharedMem!InterruptEndsOnlyBeforeLogging

\* Whatever the daemon prints with a type is a message as main sent it, although it may
\* read while main writes (daemonSharedmem.c:138-200).
TypedMessageIsWhole == SharedMem!TypedMessageIsWhole

\* The daemon prints what was posted, unless a message that nobody wrote ends it
\* (daemonSharedmem.c:83).
MessageReachesDaemon == SharedMem!MessageReachesDaemon
=============================================================================

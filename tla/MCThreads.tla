------------------------------ MODULE MCThreads ------------------------------
(***************************************************************************)
(* Small instances of everything that logs: the two builds of MCLogging,   *)
(* whose server forks, and the server with threads, which logs over        *)
(* queues.  Again a behaviour is one of the program that its first state   *)
(* chooses.                                                                *)
(***************************************************************************)
EXTENDS MCLogging

CONSTANTS Clients, Main, ThreadCapacity, MAX_THREADS

VARIABLES
  program,                                            \* "server" or "serverThread"
  session, backlog, accepted, pc, text, shared, toDaemon, up      \* of ThreadedServer

Threads == INSTANCE ThreadedServer
  WITH Capacity <- ThreadCapacity, msg <- shared, queue <- toDaemon, running <- up

ASSUME ThreadAssumption == Threads!ThreadParameters

threadVars == <<session, backlog, accepted, pc, text, shared, toDaemon, up>>
programVars == <<program, allVars, threadVars>>

\* The variables of the other program keep one of their initial values: there is
\* nothing in them to log or to receive.
ProgramsInit ==
  /\ program \in {"server", "serverThread"}
  /\ MCInit /\ (program = "serverThread" =>
                  build = "socketsq" /\ queue[qmessage_in(TRUE)] = << >>)
  /\ Threads!Init /\ (program = "server" => ~up)

Forks(A) == program = "server" /\ A /\ UNCHANGED <<program, threadVars>>
Spawns(A) == program = "serverThread" /\ A /\ UNCHANGED <<program, allVars>>

ProgramsNext == Forks(MCNext) \/ Spawns(Threads!Next)

\* The fairness of either: MCSpec's, and that of ThreadedServer's FairSpec.
ProgramsSpec ==
  /\ ProgramsInit /\ [][ProgramsNext]_programVars
  /\ MCFairness
  /\ \A t \in Threads!Threads : /\ WF_programVars(Spawns(Threads!ThreadStep(t)))
                                /\ SF_programVars(Spawns(Threads!msgsnd(t)))
  /\ WF_programVars(Spawns(Threads!accept)) /\ WF_programVars(Spawns(Threads!rcvMessage))

-----------------------------------------------------------------------------
(* ThreadedServer's properties, stated and explained there.                 *)

\* Two threads that log at once can mix their messages, and nobody else can
\* (serverThread.c:61-109, daemonqueues.c:83-95).
MixturesNeedTwoLoggers == Threads!MixturesNeedTwoLoggers

\* The sessions, which log without end, keep main neither from its clients, until one
\* overruns thread_id, nor from its end by Ctrl-C (serverThread.c:76-109 and 201).
MainGetsThrough == Threads!MainGetsThrough
=============================================================================

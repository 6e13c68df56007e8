--------------------------- MODULE ThreadedServer ---------------------------
(***************************************************************************)
(* The server with threads (serverThread.c) on message queues: main and    *)
(* newSession, with sndMessage of daemonqueues.c.  The threads share one   *)
(* msg, so that what a thread sends is what the process's threads have     *)
(* left there.  main is a thread like the others, and takes the signals.   *)
(*                                                                         *)
(* newSession never leaves its inner loop: the calls of receiveData,       *)
(* server_process_data and sendData behind it are never reached and not    *)
(* modelled; the number that it logs is only text, and left out.  Nothing  *)
(* bounds the sessions by MAX_THREADS, the size of thread_id: one more     *)
(* overruns it.                                                            *)
(***************************************************************************)
EXTENDS Integers, Sequences

CONSTANTS
  Clients,        \* each is also the name of its thread
  Main,           \* the thread that runs main
  Capacity,       \* messages the queue holds
  MAX_THREADS

ThreadParameters ==
  /\ Main \notin Clients
  /\ Capacity \in Nat \ {0} /\ MAX_THREADS \in Nat \ {0}

VARIABLES
  session,    \* the global counter
  backlog,    \* clients whose connect has succeeded, not accepted yet
  accepted,   \* history: the clients that main has accepted
  pc, text,   \* what each thread is doing, and the text it logs
  msg,        \* the global msg: its first and its second part
  queue,      \* the queue to the daemon
  running     \* whether the daemon runs

threadVars == <<session, accepted, pc, text, msg>>
vars == <<threadVars, backlog, queue, running>>

Threads == Clients \cup {Main}

Blank == "blank"
Texts == {"initialized", "ready", "new", "GG", "killed"}

TypeOK ==
  /\ session \in Nat
  /\ backlog \in Seq(Clients)
  /\ accepted \subseteq Clients
  /\ pc \in [Threads -> {"off", "first", "second", "msgsnd", "accept", "exit", "sigsegv"}]
  /\ text \in [Threads -> Texts]
  /\ msg \in (Texts \cup {Blank}) \X (Texts \cup {Blank})
  /\ queue \in Seq(Texts \X Texts) /\ Len(queue) <= Capacity
  /\ running \in BOOLEAN

Init ==
  /\ session = 0
  /\ backlog = << >>
  /\ accepted = {}
  /\ pc = [t \in Threads |-> IF t = Main THEN "first" ELSE "off"]
  /\ text = [t \in Threads |-> IF t = Main THEN "initialized" ELSE "new"]
  /\ msg = <<Blank, Blank>>
  /\ queue = << >>
  /\ running \in BOOLEAN

ProcessRuns == pc[Main] \notin {"exit", "sigsegv"}

-----------------------------------------------------------------------------
(* sndMessage, in any thread.                                               *)

Goto(t, step) == pc' = [pc EXCEPT ![t] = step]

write_first(t) ==
  /\ ProcessRuns /\ pc[t] = "first" /\ Goto(t, "second")
  /\ msg' = [msg EXCEPT ![1] = text[t]]
  /\ UNCHANGED <<session, accepted, text, backlog, queue, running>>

write_second(t) ==
  /\ ProcessRuns /\ pc[t] = "second" /\ Goto(t, "msgsnd")
  /\ msg' = [msg EXCEPT ![2] = text[t]]
  /\ UNCHANGED <<session, accepted, text, backlog, queue, running>>

\* Mutation: the handler of Ctrl-C returns instead of exiting.
after_sndMessage_returns(t) ==
  CASE text[t] = "initialized" -> Goto(t, "first") /\ text' = [text EXCEPT ![t] = "ready"]
    [] text[t] \in {"ready", "killed"} -> Goto(t, "accept") /\ UNCHANGED text
    [] OTHER -> Goto(t, "first") /\ text' = [text EXCEPT ![t] = "GG"]

\* What follows the message: main accepts, the handler exits, a session says GG.
after_sndMessage(t) ==
  CASE text[t] = "initialized" -> Goto(t, "first") /\ text' = [text EXCEPT ![t] = "ready"]
    [] text[t] = "ready" -> Goto(t, "accept") /\ UNCHANGED text
    [] text[t] = "killed" -> Goto(t, "exit") /\ UNCHANGED text
    [] OTHER -> Goto(t, "first") /\ text' = [text EXCEPT ![t] = "GG"]

msgsnd(t) ==
  /\ ProcessRuns /\ pc[t] = "msgsnd"
  /\ Len(queue) < Capacity
  /\ queue' = Append(queue, msg)
  /\ after_sndMessage(t)
  /\ UNCHANGED <<session, accepted, msg, backlog, running>>

-----------------------------------------------------------------------------
(* main and newSession.                                                     *)

\* Mutation: main logs every client it has accepted.
accept_logs ==
  /\ pc[Main] = "accept" /\ backlog # << >>
  /\ LET c == Head(backlog) IN
       /\ accepted' = accepted \cup {c}
       /\ pc' = [pc EXCEPT ![c] = "first", ![Main] = "first"]
  /\ session' = session + 1
  /\ backlog' = Tail(backlog)
  /\ UNCHANGED <<text, msg, queue, running>>

\* comm_accept and pthread_create, whose arguments increment the counter first.  Nobody
\* tests whether there is a place in thread_id, or whether the thread was created.
accept ==
  /\ pc[Main] = "accept" /\ backlog # << >>
  /\ LET c == Head(backlog) IN
       /\ accepted' = accepted \cup {c}
       /\ Goto(c, "first") \/ UNCHANGED pc
  /\ session' = session + 1
  /\ backlog' = Tail(backlog)
  /\ UNCHANGED <<text, msg, queue, running>>

\* The session after the last place wrote its thread over the pointers behind thread_id,
\* listener and db_connection among them: the process may end as soon as one is used.
overrun ==
  /\ ProcessRuns /\ session > MAX_THREADS
  /\ Goto(Main, "sigsegv")
  /\ UNCHANGED <<session, accepted, text, msg, backlog, queue, running>>

\* Ctrl-C, on top of what main does.
srv_sigRutine ==
  /\ ProcessRuns /\ text[Main] # "killed"
  /\ Goto(Main, "first")
  /\ text' = [text EXCEPT ![Main] = "killed"]
  /\ UNCHANGED <<session, accepted, msg, backlog, queue, running>>

-----------------------------------------------------------------------------
(* The clients and the daemon.                                              *)

\* The system completes connect as soon as the server listens.
connect(c) ==
  /\ ProcessRuns /\ text[Main] # "initialized"
  /\ c \notin accepted /\ \A i \in 1..Len(backlog) : backlog[i] # c
  /\ backlog' = Append(backlog, c)
  /\ UNCHANGED <<threadVars, queue, running>>

rcvMessage ==
  /\ running /\ queue # << >>
  /\ queue' = Tail(queue)
  /\ UNCHANGED <<threadVars, backlog, running>>

start_or_kill_daemon ==
  /\ running' = ~running
  /\ UNCHANGED <<threadVars, backlog, queue>>

-----------------------------------------------------------------------------
ThreadStep(t) == write_first(t) \/ write_second(t)

Next ==
  \/ \E t \in Threads : ThreadStep(t) \/ msgsnd(t)
  \/ accept
  \/ overrun
  \/ srv_sigRutine
  \/ \E c \in Clients : connect(c)
  \/ rcvMessage
  \/ start_or_kill_daemon

Spec == Init /\ [][Next]_vars

\* The system runs the threads, and lets those that wait in msgsnd in one after the
\* other.  Nobody has to start the daemon, to connect or to press Ctrl-C.
FairSpec ==
  /\ Spec
  /\ \A t \in Threads : WF_vars(ThreadStep(t)) /\ SF_vars(msgsnd(t))
  /\ WF_vars(accept) /\ WF_vars(rcvMessage)

-----------------------------------------------------------------------------
(* What holds of the threaded server.                                       *)

\* msg has no lock, yet the daemon gets a mixture of two messages only from two threads
\* that log at once: two sessions, or a session and main's handler for Ctrl-C.  One
\* session and main never mix theirs, and the handler, alone with what it interrupts,
\* fills all of msg and does not come back (serverThread.c:61-109, daemonqueues.c:83-95).
MixturesNeedTwoLoggers ==
  \A i \in 1..Len(queue) :
    queue[i][1] # queue[i][2] => session > 1 \/ (session = 1 /\ text[Main] = "killed")

\* Sessions that wait for room in the queue, even for ever, do not keep main from
\* accepting clients: it logs nothing between two of them.  Only Ctrl-C does, or a
\* session too many (serverThread.c:76-89).
AcceptorServes ==
  \A c \in Clients :
    (pc[Main] = "accept" /\ \E i \in 1..Len(backlog) : backlog[i] = c)
      ~> c \in accepted \/ text[Main] = "killed" \/ session > MAX_THREADS

\* Ctrl-C ends the server although the sessions fill the queue all the time, unless
\* the daemon stops (serverThread.c:201).
InterruptEnds == text[Main] = "killed" ~> ~ProcessRuns \/ ~running

\* The sessions, which log without end, keep main neither from its clients nor from its
\* end.
MainGetsThrough == AcceptorServes /\ InterruptEnds
=============================================================================

---------------------------- MODULE SharedMemLog ----------------------------
(***************************************************************************)
(* Logging over shared memory: initLogin, sndMessage, rcvMessage and       *)
(* printMessage of daemonSharedmem.c, as the server's main process and the *)
(* daemon (daemonserver.c) call them, on a system without a segment or a   *)
(* semaphore of an earlier run.                                            *)
(*                                                                         *)
(* Each process allocates a mutex of its own.  sndMessage locks it and     *)
(* does not unlock it; rcvMessage unlocks the daemon's.  main logs two     *)
(* messages before its first accept, so no session exists yet.  The memory *)
(* for the mutex has the size of a pointer: what pthread_mutex_init writes *)
(* behind it ends the process or does no harm.                             *)
(***************************************************************************)
EXTENDS Integers, Sequences

CONSTANT MaxSem       \* bound: values of a semaphore opened without one

SemParameters == MaxSem \in Nat \ {0}

INFO_TYPE == 1
WARNING_TYPE == 2
ERROR_TYPE == 3

\* The messages of main and of its handler for Ctrl-C, and text nobody wrote.
Texts == {"initializing", "ready", "interrupted"}
Blank == "blank"
TypeOf == [initializing |-> INFO_TYPE, ready |-> INFO_TYPE, interrupted |-> WARNING_TYPE]

Absent == -1          \* the value of a semaphore that does not exist

VARIABLES
  sem,          \* mySemprobando
  segment,      \* the shared memory: its four fields, zero at first
  mutex,        \* the mutex of main and that of the daemon
  mpc,          \* where main is, outside sndMessage
  sending,      \* the calls of sndMessage main is in: the handler's on top
  posted,       \* the messages main has posted
  dpc,          \* what the daemon is doing
  sizes,        \* the args_size the daemon has read
  msg,          \* what the daemon has read: its global message, zero at first
  printed       \* history: the messages the daemon has printed

segmentVars == <<sem, segment>>
mainVars == <<mpc, sending, posted>>
daemonVars == <<dpc, sizes, msg, printed>>
vars == <<segmentVars, mutex, mainVars, daemonVars>>

Message == [tosay : Texts \cup {Blank}, type : 0..ERROR_TYPE]

\* A message as it was sent.
Sent(text) == [tosay |-> text, type |-> TypeOf[text]]

Calls == [text : Texts, step : {"lock", "tosay", "type", "sizes", "post"}]

TypeOK ==
  /\ sem \in Absent..MaxSem + 2
  /\ segment \in [tosay : Texts \cup {Blank}, type : 0..ERROR_TYPE, sizes : BOOLEAN]
  /\ mutex \in [{"main", "daemon"} -> {"none", "unlocked", "locked"}]
  /\ mpc \in {"start", "initialized", "listen", "accept", "failed", "sigsegv", "exit"}
  /\ sending \in Seq(Calls) /\ Len(sending) <= 2
  /\ posted \in Seq(Texts) /\ Len(posted) <= 2
  /\ dpc \in {"start", "sem_wait", "sizes", "tosay", "type", "printMessage",
               "failed", "sigsegv"}
  /\ sizes \in BOOLEAN
  /\ msg \in Message
  /\ printed \subseteq Message

Init ==
  /\ sem = Absent
  /\ segment = [tosay |-> Blank, type |-> 0, sizes |-> FALSE]
  /\ mutex = [p \in {"main", "daemon"} |-> "none"]
  /\ mpc = "start"
  /\ sending = << >>
  /\ posted = << >>
  /\ dpc = "start"
  /\ sizes = FALSE
  /\ msg = [tosay |-> Blank, type |-> 0]
  /\ printed = {}

-----------------------------------------------------------------------------
(* The server's main process.                                               *)

Running == mpc \notin {"failed", "sigsegv", "exit"}

\* initLogin(false): sem_open without the arguments that say the mode and the value,
\* so a new semaphore gets whatever is there, or sem_open fails.
other_initLogin ==
  /\ mpc = "start" /\ sending = << >>
  /\ \/ /\ sem' \in IF sem = Absent THEN 0..MaxSem ELSE {sem}
        /\ mutex' = [mutex EXCEPT !["main"] = "unlocked"]
        /\ mpc' = "initialized"
     \/ /\ sem' \in IF sem = Absent THEN Absent..MaxSem ELSE {sem}
        /\ mpc' = "failed"
        /\ UNCHANGED mutex
  /\ UNCHANGED <<segment, sending, posted, daemonVars>>

\* main's calls: one before listen, one after.
call_sndMessage ==
  /\ sending = << >>
  /\ \/ /\ mpc = "initialized" /\ mpc' = "listen"
        /\ sending' = <<[text |-> "initializing", step |-> "lock"]>>
     \/ /\ mpc = "listen" /\ mpc' = "accept"
        /\ sending' = <<[text |-> "ready", step |-> "lock"]>>
  /\ UNCHANGED <<segmentVars, mutex, posted, daemonVars>>

Top == sending[Len(sending)]

Advance(step, next) ==
  /\ Running /\ sending # << >> /\ Top.step = step
  /\ sending' = [sending EXCEPT ![Len(sending)].step = next]
  /\ UNCHANGED <<mpc, posted, daemonVars>>

lock ==
  /\ Advance("lock", "tosay")
  /\ mutex["main"] = "unlocked"
  /\ mutex' = [mutex EXCEPT !["main"] = "locked"]
  /\ UNCHANGED segmentVars

write_tosay ==
  /\ Advance("tosay", "type")
  /\ segment' = [segment EXCEPT !.tosay = Top.text]
  /\ UNCHANGED <<sem, mutex>>

write_type ==
  /\ Advance("type", "sizes")
  /\ segment' = [segment EXCEPT !.type = TypeOf[Top.text]]
  /\ UNCHANGED <<sem, mutex>>

write_sizes ==
  /\ Advance("sizes", "post")
  /\ segment' = [segment EXCEPT !.sizes = TRUE]
  /\ UNCHANGED <<sem, mutex>>

\* Mutation: sndMessage unlocks its mutex before it returns.
post_unlocks ==
  /\ Running /\ sending # << >> /\ Top.step = "post"
  /\ sem' = sem + 1
  /\ mutex' = [mutex EXCEPT !["main"] = "unlocked"]
  /\ posted' = Append(posted, Top.text)
  /\ sending' = << >>
  /\ mpc' = IF Top.text = "interrupted" THEN "exit" ELSE mpc
  /\ UNCHANGED <<segment, daemonVars>>

\* Mutation: sndMessage does not post the semaphore.
post_withoutSemPost ==
  /\ Running /\ sending # << >> /\ Top.step = "post"
  /\ posted' = Append(posted, Top.text)
  /\ sending' = << >>
  /\ mpc' = IF Top.text = "interrupted" THEN "exit" ELSE mpc
  /\ UNCHANGED <<sem, segment, mutex, daemonVars>>

\* sem_post, and the return of sndMessage; the handler goes on to exit(1).
post ==
  /\ Running /\ sending # << >> /\ Top.step = "post"
  /\ sem' = sem + 1
  /\ posted' = Append(posted, Top.text)
  /\ sending' = << >>
  /\ mpc' = IF Top.text = "interrupted" THEN "exit" ELSE mpc
  /\ UNCHANGED <<segment, mutex, daemonVars>>

\* Ctrl-C at any moment: the handler calls sndMessage on top of what main does, with a
\* null mutex if that was before initLogin.
srv_sigRutine ==
  /\ Running
  /\ \A i \in 1..Len(sending) : sending[i].text # "interrupted"
  /\ IF mutex["main"] = "none"
       THEN mpc' = "sigsegv" /\ UNCHANGED sending
       ELSE /\ sending' = Append(sending, [text |-> "interrupted", step |-> "lock"])
            /\ UNCHANGED mpc
  /\ UNCHANGED <<segmentVars, mutex, posted, daemonVars>>

-----------------------------------------------------------------------------
(* The daemon.                                                              *)

\* initLogin(true).  It fails when the semaphore that the server made has a mode that
\* keeps the daemon out, or on the memory of the mutex.
dSrv_initLogin ==
  /\ dpc = "start"
  /\ \/ /\ sem' = IF sem = Absent THEN 1 ELSE sem
        /\ mutex' = [mutex EXCEPT !["daemon"] = "unlocked"]
        /\ dpc' = "sem_wait"
     \/ /\ sem' \in IF sem = Absent THEN {1} ELSE {sem}
        /\ dpc' = "failed"
        /\ UNCHANGED mutex
  /\ UNCHANGED <<segment, mainVars, sizes, msg, printed>>

sem_wait ==
  /\ dpc = "sem_wait" /\ sem > 0
  /\ sem' = sem - 1
  /\ dpc' = "sizes"
  /\ UNCHANGED <<segment, mutex, mainVars, sizes, msg, printed>>

read_sizes ==
  /\ dpc = "sizes" /\ dpc' = "tosay"
  /\ sizes' = segment.sizes
  /\ UNCHANGED <<segmentVars, mutex, mainVars, msg, printed>>

read_tosay ==
  /\ dpc = "tosay" /\ dpc' = "type"
  /\ msg' = [msg EXCEPT !.tosay = segment.tosay]
  /\ UNCHANGED <<segmentVars, mutex, mainVars, sizes, printed>>

\* Mutation: the sizes are read again where they are used.
read_type_sizesAgain ==
  /\ dpc = "type" /\ dpc' = "printMessage"
  /\ msg' = [msg EXCEPT !.type = IF segment.sizes THEN segment.type ELSE 0]
  /\ mutex' = [mutex EXCEPT !["daemon"] = "unlocked"]
  /\ UNCHANGED <<segmentVars, mainVars, sizes, printed>>

\* With sizes of zero the three fields start at one place, that of the text: atoi
\* makes a type of 0 out of it.  At the end rcvMessage unlocks the daemon's mutex.
read_type ==
  /\ dpc = "type" /\ dpc' = "printMessage"
  /\ msg' = [msg EXCEPT !.type = IF sizes THEN segment.type ELSE 0]
  /\ mutex' = [mutex EXCEPT !["daemon"] = "unlocked"]
  /\ UNCHANGED <<segmentVars, mainVars, sizes, printed>>

\* typetoString indexes its table with type - 1: what lies before the table may print
\* as a string or end the process.
printMessage ==
  /\ dpc = "printMessage"
  /\ \/ /\ dpc' = "sem_wait"
        /\ printed' = printed \cup {msg}
     \/ /\ msg.type = 0 /\ dpc' = "sigsegv"
        /\ UNCHANGED printed
  /\ UNCHANGED <<segmentVars, mutex, mainVars, sizes, msg>>

-----------------------------------------------------------------------------
MainStep ==
  \/ other_initLogin
  \/ call_sndMessage
  \/ lock
  \/ write_tosay
  \/ write_type
  \/ write_sizes
  \/ post

DaemonStep ==
  \/ dSrv_initLogin
  \/ sem_wait
  \/ read_sizes
  \/ read_tosay
  \/ read_type
  \/ printMessage

Next == MainStep \/ srv_sigRutine \/ DaemonStep

Spec == Init /\ [][Next]_vars

\* Both processes are started and run; nobody has to press Ctrl-C.
FairSpec == Spec /\ WF_vars(MainStep) /\ WF_vars(DaemonStep)

-----------------------------------------------------------------------------
(* What is left of logging over shared memory.                              *)

\* Ctrl-C ends the server only if it has not started to log: otherwise the handler
\* waits for the mutex that the interrupted process holds (server.c:202).
InterruptEndsOnlyBeforeLogging ==
  mpc = "exit" => posted = <<"interrupted">>

\* What main has written and posted, or is about to post.
Written(text) ==
  \/ \E i \in 1..Len(posted) : posted[i] = text
  \/ \E i \in 1..Len(sending) : sending[i] = [text |-> text, step |-> "post"]

\* Whatever the daemon prints with a type is a message as main sent it, although nothing
\* keeps the daemon from reading while main writes: its first turn needs no post, and the
\* two lock different mutexes.  What it reads too early it prints with a type of 0, for
\* main writes the sizes last and the daemon reads them first (daemonSharedmem.c:138-200).
TypedMessageIsWhole ==
  \A m \in printed :
    m.type # 0 => \E text \in Texts : m = Sent(text) /\ Written(text)

\* The daemon prints the message, unless one that nobody wrote ends it.
MessageReachesDaemon ==
  posted # << >> ~> \/ posted # << >> /\ Sent(posted[1]) \in printed
                    \/ dpc \in {"failed", "sigsegv"}

-----------------------------------------------------------------------------
(* What the program says of it, and does not keep.                          *)

\* "there are two options [...] between server and Daemon (SharedMem or Queues)"
\* (Makefile:1-2): left alone, a server whose log opened comes to accept clients.
ServerGetsToAccept ==
  mpc = "initialized" ~>
    \/ mpc = "accept" /\ sending = << >>
    \/ \E i \in 1..Len(sending) : sending[i].text = "interrupted"
=============================================================================

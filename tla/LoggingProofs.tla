---------------------------- MODULE LoggingProofs ----------------------------
(***************************************************************************)
(* Proofs about the two ways in which the processes of server.c log, for   *)
(* any number of processes, any capacity of the queues and any number of   *)
(* messages and of kills: over shared memory a message that the daemon     *)
(* prints with a type is one that main wrote, whatever the order in which  *)
(* the two run (SharedMemLog); over message queues the daemon prints what  *)
(* was logged, once and in order (QueueLog implements Log).                *)
(***************************************************************************)
EXTENDS MCLogging, SequenceTheorems, TLAPS

\* A step of the specification is one of the build that its first state chose.
LEMMA MCStep ==
  ASSUME [MCNext]_allVars
  PROVE  \/ Next /\ UNCHANGED sharedMemVars
         \/ SharedMem!Next /\ UNCHANGED vars
         \/ UNCHANGED <<vars, sharedMemVars>>
BY DEF MCNext, Queues, Memory, allVars

-----------------------------------------------------------------------------
(* Shared memory: the invariant.                                            *)

CallIds == 1..Len(sending)
Past(i) == sending[i].step # "lock"

\* The calls of sndMessage: main's below, the handler's on top.  One of them at most
\* has ever got past the mutex, and it leaves the mutex locked.
CallsOrder ==
  /\ \A i \in CallIds : i > 1 => sending[i].text = "interrupted"
  /\ \A i \in CallIds : Past(i) => posted = << >> /\ mutex["main"] = "locked"
  /\ \A i, j \in CallIds : Past(i) /\ Past(j) => i = j
  /\ posted # << >> => Len(posted) = 1 /\ mutex["main"] = "locked"

\* What a call has written is still in the segment.
CallsWritten ==
  \A i \in CallIds :
    /\ sending[i].step \in {"type", "sizes", "post"} => segment.tosay = sending[i].text
    /\ sending[i].step \in {"sizes", "post"} =>
         segment.type = SharedMem!TypeOf[sending[i].text]
    /\ sending[i].step = "post" => segment.sizes

\* The sizes are the last thing that main writes: then a whole message is there.
SegmentIsWhole ==
  segment.sizes => \E words \in SharedMem!Texts :
                     /\ segment.tosay = words /\ segment.type = SharedMem!TypeOf[words]
                     /\ SharedMem!Written(words)

\* The sizes are the first thing that the daemon reads: what it reads behind them is of
\* that message, and without them it gets a type of 0.
ReadIsWhole ==
  /\ sizes => segment.sizes
  /\ daemon = "type" /\ sizes => read.tosay = segment.tosay
  /\ daemon = "printMessage" /\ read.type # 0 =>
       \E words \in SharedMem!Texts : read = SharedMem!Sent(words) /\ SharedMem!Written(words)

\* A semaphore that nobody gave a value has one up to MaxSem, and one post on top.
SharedMemInvariant ==
  /\ SharedMem!TypeOK
  /\ sem <= MaxSem + Len(posted)
  /\ mpc = "start" => mutex["main"] = "none"
  /\ CallsOrder
  /\ CallsWritten
  /\ SegmentIsWhole
  /\ ReadIsWhole
  /\ TypedMessageIsWhole
  /\ InterruptEndsOnlyBeforeLogging

-----------------------------------------------------------------------------
(* Message queues: the invariant.                                           *)

\* A process logs up to MaxMessages messages and its handler one more, then it exits.
Quota(p) ==
  /\ p \in caught => ppc[p] # "run"
  /\ sent[p] <= MaxMessages + IF p \in caught /\ ppc[p] = "exit" THEN 1 ELSE 0
  /\ ppc[p] = "msgsnd" /\ p \notin caught => sent[p] < MaxMessages

QueueInvariant == TypeOK /\ Len(printed) <= 1 /\ \A p \in Loggers : Quota(p)

-----------------------------------------------------------------------------
(* Shared memory: every step keeps the invariant.                           *)

\* Every message has one of the daemon's three types.
LEMMA MessageTypes ==
  \A m \in SharedMem!Texts : SharedMem!TypeOf[m] \in 0..SharedMem!ERROR_TYPE
PROOF
<1>1. /\ SharedMem!TypeOf["initializing"] = 1
      /\ SharedMem!TypeOf["ready"] = 1
      /\ SharedMem!TypeOf["interrupted"] = 2
  BY DEF SharedMem!TypeOf, SharedMem!INFO_TYPE, SharedMem!WARNING_TYPE
<1> QED BY <1>1 DEF SharedMem!Texts, SharedMem!ERROR_TYPE

\* Nothing is being sent, and nothing has been posted.
LEMMA SharedMemInit == MCInit => SharedMemInvariant
PROOF
<1> SUFFICES ASSUME MCInit
             PROVE  SharedMemInvariant
  OBVIOUS
<1>1. SharedMem!Init
  BY DEF MCInit
<1>2. sending = << >> /\ posted = << >> /\ Len(sending) = 0 /\ Len(posted) = 0
  BY <1>1 DEF SharedMem!Init
<1>5. sending \in Seq(SharedMem!Calls) /\ posted \in Seq(SharedMem!Texts)
  BY <1>2
<1>6. /\ mutex \in [{"main", "daemon"} -> {"none", "unlocked", "locked"}]
      /\ segment \in [tosay : SharedMem!Texts \cup {SharedMem!Blank},
                      type : 0..SharedMem!ERROR_TYPE, sizes : BOOLEAN]
  BY <1>1 DEF SharedMem!Init, SharedMem!ERROR_TYPE
<1>7. /\ sem \in SharedMem!Absent..MaxSem + 2 /\ shown = {}
      /\ read \in SharedMem!Message
  BY <1>1, SharedMemAssumption
     DEF SharedMem!Init, SharedMem!SemParameters, SharedMem!Absent, SharedMem!Message,
         SharedMem!ERROR_TYPE
<1>3. SharedMem!TypeOK
  <2>1. mpc = "start" /\ daemon = "start" /\ sizes = FALSE
    BY <1>1 DEF SharedMem!Init
  <2>2. Len(sending) <= 2 /\ Len(posted) <= 2
    BY <1>2
  <2> QED BY <1>5, <1>6, <1>7, <2>1, <2>2 DEF SharedMem!TypeOK
<1>4. CallsOrder /\ CallsWritten
  BY <1>2 DEF CallsOrder, CallsWritten, CallIds
<1>8. SegmentIsWhole /\ ReadIsWhole /\ TypedMessageIsWhole
  BY <1>1, <1>7
     DEF SharedMem!Init, SegmentIsWhole, ReadIsWhole, TypedMessageIsWhole,
         SharedMem!TypedMessageIsWhole
<1> QED BY <1>1, <1>2, <1>3, <1>4, <1>8, SharedMemAssumption
        DEF SharedMemInvariant, SharedMem!Init, SharedMem!SemParameters, SharedMem!Absent,
            InterruptEndsOnlyBeforeLogging, SharedMem!InterruptEndsOnlyBeforeLogging

\* A semaphore and a mutex of the daemon's do not touch what main does.
LEMMA SharedMemKept ==
  ASSUME SharedMemInvariant, SharedMem!TypeOK', sem' <= MaxSem + Len(posted'),
         UNCHANGED <<segment, sending, posted>>,
         mutex'["main"] = mutex["main"], mpc' = mpc \/ mpc' = "sigsegv",
         ReadIsWhole', TypedMessageIsWhole'
  PROVE  SharedMemInvariant'
PROOF
<1>1. CallsOrder' /\ CallsWritten' /\ SegmentIsWhole'
  BY DEF SharedMemInvariant, CallsOrder, CallsWritten, CallIds, Past, SegmentIsWhole,
         SharedMem!Written
<1>2. InterruptEndsOnlyBeforeLogging'
  BY DEF SharedMemInvariant, InterruptEndsOnlyBeforeLogging,
         SharedMem!InterruptEndsOnlyBeforeLogging
<1> QED BY <1>1, <1>2 DEF SharedMemInvariant

\* main's steps leave a whole message where it is, and what was written stays written:
\* so what the daemon has read of it is still right.
LEMMA ReadKept ==
  ASSUME SharedMemInvariant, UNCHANGED <<sizes, read, shown, daemon>>,
         segment.sizes => segment' = segment,
         \A words \in SharedMem!Texts : SharedMem!Written(words) => SharedMem!Written(words)'
  PROVE  /\ ReadIsWhole' /\ TypedMessageIsWhole'
         /\ segment.sizes => SegmentIsWhole'
PROOF
<1>1. SegmentIsWhole /\ ReadIsWhole /\ TypedMessageIsWhole
  BY DEF SharedMemInvariant
<1>2. ReadIsWhole'
  BY <1>1 DEF ReadIsWhole
<1>3. TypedMessageIsWhole'
  BY <1>1 DEF TypedMessageIsWhole, SharedMem!TypedMessageIsWhole
<1>4. segment.sizes => SegmentIsWhole'
  BY <1>1 DEF SegmentIsWhole
<1> QED BY <1>2, <1>3, <1>4

\* The daemon's steps.
LEMMA DaemonStepKeeps ==
  ASSUME SharedMemInvariant, SharedMem!DaemonStep
  PROVE  SharedMemInvariant'
PROOF
<1> USE SharedMemAssumption DEF SharedMem!SemParameters, SharedMem!Absent
<1>0. /\ SharedMem!TypeOK /\ sem <= MaxSem + Len(posted)
      /\ Len(posted) \in Nat
      /\ SegmentIsWhole /\ ReadIsWhole /\ TypedMessageIsWhole
  BY DEF SharedMemInvariant, SharedMem!TypeOK
<1>1. ASSUME UNCHANGED <<segment, sending, posted, sizes, read, shown>>,
             daemon' # "printMessage", daemon' # "type"
      PROVE  ReadIsWhole' /\ TypedMessageIsWhole'
  BY <1>0, <1>1
     DEF ReadIsWhole, TypedMessageIsWhole, SharedMem!TypedMessageIsWhole, SharedMem!Written
<1>2. CASE SharedMem!dSrv_initLogin \/ SharedMem!sem_wait
  <2>1. /\ UNCHANGED <<segment, sending, posted, mpc, sizes, read, shown>>
        /\ mutex' \in [{"main", "daemon"} -> {"none", "unlocked", "locked"}]
        /\ mutex'["main"] = mutex["main"]
        /\ daemon' \in {"sem_wait", "sizes", "failed"}
        /\ sem' \in SharedMem!Absent..MaxSem + 2 /\ sem' <= MaxSem + Len(posted)
    BY <1>0, <1>2
       DEF SharedMem!dSrv_initLogin, SharedMem!sem_wait, SharedMem!TypeOK,
           SharedMem!mainVars
  <2>2. SharedMem!TypeOK'
    BY <1>0, <2>1 DEF SharedMem!TypeOK
  <2> QED BY <1>1, <2>1, <2>2, SharedMemKept
<1>3. CASE SharedMem!read_sizes
  <2>1. /\ UNCHANGED <<sem, segment, mutex, sending, posted, mpc, read, shown>>
        /\ daemon' = "tosay" /\ sizes' = segment.sizes
    BY <1>3 DEF SharedMem!read_sizes, SharedMem!mainVars, SharedMem!segmentVars
  <2>2. SharedMem!TypeOK'
    BY <1>0, <2>1 DEF SharedMem!TypeOK
  <2>3. ReadIsWhole' /\ TypedMessageIsWhole'
    BY <1>0, <2>1
       DEF ReadIsWhole, TypedMessageIsWhole, SharedMem!TypedMessageIsWhole,
           SharedMem!Written
  <2> QED BY <1>0, <2>1, <2>2, <2>3, SharedMemKept
<1>4. CASE SharedMem!read_tosay
  <2>1. /\ UNCHANGED <<sem, segment, mutex, sending, posted, mpc, sizes, shown>>
        /\ daemon' = "type" /\ read' = [read EXCEPT !.tosay = segment.tosay]
    BY <1>4 DEF SharedMem!read_tosay, SharedMem!mainVars, SharedMem!segmentVars
  <2>2. read' \in SharedMem!Message /\ read'.tosay = segment.tosay
    BY <1>0, <2>1 DEF SharedMem!TypeOK, SharedMem!Message
  <2>3. SharedMem!TypeOK'
    BY <1>0, <2>1, <2>2 DEF SharedMem!TypeOK
  <2>4. ReadIsWhole' /\ TypedMessageIsWhole'
    BY <1>0, <2>1, <2>2
       DEF ReadIsWhole, TypedMessageIsWhole, SharedMem!TypedMessageIsWhole,
           SharedMem!Written
  <2> QED BY <1>0, <2>1, <2>3, <2>4, SharedMemKept
<1>5. CASE SharedMem!read_type
  <2>1. /\ UNCHANGED <<sem, segment, sending, posted, mpc, sizes, shown>>
        /\ daemon = "type" /\ daemon' = "printMessage"
        /\ mutex' = [mutex EXCEPT !["daemon"] = "unlocked"]
        /\ read' = [read EXCEPT !.type = IF sizes THEN segment.type ELSE 0]
    BY <1>5 DEF SharedMem!read_type, SharedMem!mainVars, SharedMem!segmentVars
  <2>2. /\ mutex'["main"] = mutex["main"]
        /\ mutex' \in [{"main", "daemon"} -> {"none", "unlocked", "locked"}]
    BY <1>0, <2>1 DEF SharedMem!TypeOK
  <2>3. /\ read' \in SharedMem!Message /\ read'.tosay = read.tosay
        /\ read'.type = IF sizes THEN segment.type ELSE 0
    BY <1>0, <2>1 DEF SharedMem!TypeOK, SharedMem!Message, SharedMem!ERROR_TYPE
  <2>4. SharedMem!TypeOK'
    BY <1>0, <2>1, <2>2, <2>3 DEF SharedMem!TypeOK
  <2>5. ASSUME read'.type # 0
        PROVE  \E words \in SharedMem!Texts :
                 read' = SharedMem!Sent(words) /\ SharedMem!Written(words)'
    <3>1. sizes /\ read'.tosay = segment.tosay /\ read'.type = segment.type
      BY <1>0, <2>1, <2>3, <2>5 DEF ReadIsWhole
    <3>2. PICK words \in SharedMem!Texts :
            /\ segment.tosay = words /\ segment.type = SharedMem!TypeOf[words]
            /\ SharedMem!Written(words)
      BY <1>0, <3>1 DEF ReadIsWhole, SegmentIsWhole
    <3>3. read' = SharedMem!Sent(words)
      BY <2>3, <3>1, <3>2 DEF SharedMem!Sent, SharedMem!Message
    <3> QED BY <2>1, <3>2, <3>3 DEF SharedMem!Written
  <2>6. ReadIsWhole'
    BY <1>0, <2>1, <2>5 DEF ReadIsWhole
  <2>7. TypedMessageIsWhole'
    BY <1>0, <2>1 DEF TypedMessageIsWhole, SharedMem!TypedMessageIsWhole, SharedMem!Written
  <2> QED BY <1>0, <2>1, <2>2, <2>4, <2>6, <2>7, SharedMemKept
<1>6. CASE SharedMem!printMessage
  <2>1. /\ UNCHANGED <<sem, segment, mutex, sending, posted, mpc, sizes, read>>
        /\ daemon = "printMessage" /\ daemon' \in {"sem_wait", "sigsegv"}
        /\ shown' \subseteq shown \cup {read}
    BY <1>6 DEF SharedMem!printMessage, SharedMem!mainVars, SharedMem!segmentVars
  <2>2. SharedMem!TypeOK'
    BY <1>0, <2>1 DEF SharedMem!TypeOK
  <2>3. ReadIsWhole'
    BY <1>0, <2>1 DEF ReadIsWhole
  <2>4. TypedMessageIsWhole'
    <3>1. \A m \in shown' : m.type # 0 =>
            \E words \in SharedMem!Texts :
              m = SharedMem!Sent(words) /\ SharedMem!Written(words)
      BY <1>0, <2>1
         DEF ReadIsWhole, TypedMessageIsWhole, SharedMem!TypedMessageIsWhole
    <3> QED BY <2>1, <3>1
            DEF TypedMessageIsWhole, SharedMem!TypedMessageIsWhole, SharedMem!Written
  <2> QED BY <1>0, <2>1, <2>2, <2>3, <2>4, SharedMemKept
<1> QED BY <1>2, <1>3, <1>4, <1>5, <1>6 DEF SharedMem!DaemonStep

\* main before and between its messages, and Ctrl-C at any moment: a new call waits
\* for the mutex.
LEMMA CallKeeps ==
  ASSUME SharedMemInvariant, SharedMem!call_sndMessage \/ SharedMem!srv_sigRutine
  PROVE  SharedMemInvariant'
PROOF
<1>1. /\ SharedMem!TypeOK /\ Len(posted) \in Nat /\ Len(sending) \in Nat
      /\ sending \in Seq(SharedMem!Calls)
  BY DEF SharedMemInvariant, SharedMem!TypeOK
<1>2. ASSUME NEW call \in SharedMem!Calls, call.step = "lock",
             sending = << >> \/ call.text = "interrupted",
             sending' = Append(sending, call), Len(sending') <= 2,
             UNCHANGED <<sem, segment, mutex, posted, sizes, read, shown, daemon>>,
             mpc' = mpc \/ mpc' \in {"listen", "accept"}
      PROVE  SharedMemInvariant'
  <2>1. /\ CallIds' = CallIds \cup {Len(sending) + 1}
        /\ \A i \in CallIds : sending'[i] = sending[i] /\ Len(sending) + 1 # i
        /\ sending'[Len(sending) + 1] = call
        /\ sending' \in Seq(SharedMem!Calls)
    BY <1>1, <1>2 DEF CallIds
  <2>2. Len(sending) + 1 > 1 => call.text = "interrupted"
    BY <1>1, <1>2
  <2>3. CallsOrder'
    BY <1>2, <2>1, <2>2 DEF SharedMemInvariant, CallsOrder, Past
  <2>4. CallsWritten'
    <3>1. \A i \in CallIds' : \/ sending'[i].step = "lock"
                              \/ i \in CallIds /\ sending'[i] = sending[i]
      BY <1>2, <2>1
    <3>2. CallsWritten /\ segment' = segment
      BY <1>2 DEF SharedMemInvariant
    <3> QED BY <3>1, <3>2 DEF CallsWritten
  <2>5. SharedMem!TypeOK'
    BY <1>1, <1>2, <2>1 DEF SharedMem!TypeOK
  <2>6. /\ InterruptEndsOnlyBeforeLogging' /\ sem' <= MaxSem + Len(posted')
        /\ mpc' = "start" => mutex'["main"] = "none"
    BY <1>2
       DEF SharedMemInvariant, InterruptEndsOnlyBeforeLogging,
           SharedMem!InterruptEndsOnlyBeforeLogging
  <2>7. ASSUME NEW words \in SharedMem!Texts, SharedMem!Written(words)
        PROVE  SharedMem!Written(words)'
    BY <1>2, <2>1, <2>7 DEF SharedMem!Written, CallIds
  <2>8. ReadIsWhole' /\ TypedMessageIsWhole' /\ SegmentIsWhole'
    BY <1>2, <2>7, ReadKept DEF SegmentIsWhole
  <2> QED BY <2>3, <2>4, <2>5, <2>6, <2>8 DEF SharedMemInvariant
<1>3. CASE SharedMem!call_sndMessage
  <2>1. PICK words \in SharedMem!Texts :
               /\ sending = << >> /\ mpc' \in {"listen", "accept"}
               /\ sending' = <<[text |-> words, step |-> "lock"]>>
    BY <1>3 DEF SharedMem!call_sndMessage, SharedMem!Texts
  <2>2. /\ sending' = Append(sending, [text |-> words, step |-> "lock"])
        /\ Len(sending') <= 2
    BY <2>1
  <2>3. UNCHANGED <<sem, segment, mutex, posted, sizes, read, shown, daemon>>
    BY <1>3 DEF SharedMem!call_sndMessage, SharedMem!segmentVars, SharedMem!daemonVars
  <2> QED BY <1>2, <2>1, <2>2, <2>3 DEF SharedMem!Calls
<1>4. CASE SharedMem!srv_sigRutine
  <2>1. UNCHANGED <<sem, segment, mutex, posted, sizes, read, shown, daemon>>
    BY <1>4 DEF SharedMem!srv_sigRutine, SharedMem!segmentVars, SharedMem!daemonVars
  <2>2. CASE mutex["main"] = "none"
    <3>1. mpc' = "sigsegv" /\ UNCHANGED sending
      BY <1>4, <2>2 DEF SharedMem!srv_sigRutine
    <3>2. ReadIsWhole' /\ TypedMessageIsWhole'
      BY <2>1, <3>1, ReadKept DEF SharedMem!Written
    <3> QED BY <1>1, <2>1, <3>1, <3>2, SharedMemKept
            DEF SharedMem!TypeOK, SharedMemInvariant
  <2>3. CASE mutex["main"] # "none"
    <3>1. /\ sending' = Append(sending, [text |-> "interrupted", step |-> "lock"])
          /\ UNCHANGED mpc
          /\ \A i \in CallIds : sending[i].text # "interrupted"
      BY <1>4, <2>3 DEF SharedMem!srv_sigRutine, CallIds
    <3>2. Len(sending) <= 1
      BY <1>1, <3>1 DEF SharedMemInvariant, CallsOrder, CallIds
    <3> QED BY <1>1, <1>2, <2>1, <3>1, <3>2 DEF SharedMem!Calls, SharedMem!Texts
  <2> QED BY <2>2, <2>3
<1> QED BY <1>3, <1>4

\* initLogin makes main's mutex, before anything has been sent.
LEMMA InitLoginKeeps ==
  ASSUME SharedMemInvariant, SharedMem!other_initLogin
  PROVE  SharedMemInvariant'
PROOF
<1>1. /\ SharedMem!TypeOK /\ sem <= MaxSem + Len(posted) /\ sending = << >>
      /\ posted = << >> /\ mutex["main"] = "none" /\ Len(posted) = 0
  BY DEF SharedMemInvariant, CallsOrder, SharedMem!other_initLogin
<1>2. /\ UNCHANGED <<segment, sending, posted, daemon, sizes, read, shown>>
      /\ mutex' \in [{"main", "daemon"} -> {"none", "unlocked", "locked"}]
      /\ mpc' \in {"initialized", "failed"} /\ sem' \in SharedMem!Absent..MaxSem
  BY <1>1, SharedMemAssumption
     DEF SharedMem!other_initLogin, SharedMem!daemonVars, SharedMem!TypeOK, SharedMem!Absent,
         SharedMem!SemParameters
<1>3. SharedMem!TypeOK' /\ sem' <= MaxSem + Len(posted')
  BY <1>1, <1>2, SharedMemAssumption
     DEF SharedMem!TypeOK, SharedMem!Absent, SharedMem!SemParameters
<1>4. CallsOrder' /\ CallsWritten'
  BY <1>1, <1>2 DEF CallsOrder, CallsWritten, CallIds
<1>5. ReadIsWhole' /\ TypedMessageIsWhole' /\ SegmentIsWhole'
  BY <1>2, ReadKept DEF SharedMem!Written, SegmentIsWhole
<1> QED BY <1>1, <1>2, <1>3, <1>4, <1>5
        DEF SharedMemInvariant, InterruptEndsOnlyBeforeLogging,
            SharedMem!InterruptEndsOnlyBeforeLogging

\* One step of the call on top: nothing of what the other calls have written is lost,
\* for they have written nothing yet.
LEMMA TopStepKeeps ==
  ASSUME SharedMemInvariant, sending # << >>,
         NEW next \in {"tosay", "type", "sizes", "post"},
         sending' = [sending EXCEPT ![Len(sending)].step = next],
         UNCHANGED <<sem, mpc, posted, sizes, read, shown, daemon>>,
         SharedMem!TypeOK', mutex'["main"] = "locked", mpc # "start",
         posted = << >>,
         \A i \in CallIds : Past(i) => i = Len(sending),
         next # "tosay" => segment'.tosay = SharedMem!Top.text,
         next \in {"sizes", "post"} => segment'.type = SharedMem!TypeOf[SharedMem!Top.text],
         segment'.sizes = (segment.sizes \/ next = "post"),
         sending[Len(sending)].step # "post"
  PROVE  SharedMemInvariant'
PROOF
<1>1. sending \in Seq(SharedMem!Calls) /\ Len(sending) \in CallIds
  BY DEF SharedMemInvariant, SharedMem!TypeOK, CallIds
<1>2. /\ CallIds' = CallIds
      /\ \A i \in CallIds : sending'[i].text = sending[i].text
      /\ \A i \in CallIds \ {Len(sending)} : sending'[i].step = "lock"
      /\ sending'[Len(sending)].step = next
  BY <1>1 DEF CallIds, Past, SharedMem!Calls
<1>3. CallsOrder'
  BY <1>1, <1>2 DEF SharedMemInvariant, CallsOrder, Past
<1>4. CallsWritten'
  <2>1. \A i \in CallIds : sending'[i].step \in {"type", "sizes", "post"} => i = Len(sending)
    BY <1>2
  <2> QED BY <1>1, <1>2, <2>1 DEF CallsWritten, SharedMem!Top
<1>5. /\ InterruptEndsOnlyBeforeLogging' /\ sem' <= MaxSem + Len(posted')
      /\ mpc' = "start" => mutex'["main"] = "none"
  BY DEF SharedMemInvariant, InterruptEndsOnlyBeforeLogging,
         SharedMem!InterruptEndsOnlyBeforeLogging
<1>6. \A words \in SharedMem!Texts : ~SharedMem!Written(words)
  <2>1. \A i \in CallIds : sending[i].step # "post"
    BY DEF Past
  <2> QED BY <2>1 DEF SharedMem!Written, CallIds
<1>7. ~segment.sizes
  BY <1>6 DEF SharedMemInvariant, SegmentIsWhole
<1>8. ReadIsWhole' /\ TypedMessageIsWhole'
  BY <1>6, <1>7, ReadKept
<1>9. SegmentIsWhole'
  <2> SUFFICES ASSUME segment'.sizes
               PROVE  \E words \in SharedMem!Texts :
                        /\ segment'.tosay = words /\ segment'.type = SharedMem!TypeOf[words]
                        /\ SharedMem!Written(words)'
    BY DEF SegmentIsWhole
  <2>1. next = "post"
    BY <1>7
  <2>2. SharedMem!Top \in SharedMem!Calls
    BY <1>1 DEF CallIds, SharedMem!Top
  <2>3. PICK words \in SharedMem!Texts : SharedMem!Top.text = words
    BY <2>2 DEF SharedMem!Calls
  <2>4. sending'[Len(sending)] = [SharedMem!Top EXCEPT !.step = "post"]
    BY <1>1, <2>1 DEF SharedMem!Top, CallIds
  <2>5. sending'[Len(sending)] = [text |-> words, step |-> "post"]
    BY <2>2, <2>3, <2>4 DEF SharedMem!Calls
  <2>6. Len(sending) \in 1..Len(sending')
    BY <1>1, <1>2 DEF CallIds
  <2>7. SharedMem!Written(words)'
    BY <2>5, <2>6 DEF SharedMem!Written
  <2>8. segment'.tosay = words /\ segment'.type = SharedMem!TypeOf[words]
    BY <2>1, <2>3
  <2> QED BY <2>7, <2>8
<1> QED BY <1>3, <1>4, <1>5, <1>8, <1>9 DEF SharedMemInvariant

\* sndMessage up to the post: the mutex, and the three fields one by one.
LEMMA WriteKeeps ==
  ASSUME SharedMemInvariant,
         \/ SharedMem!lock \/ SharedMem!write_tosay
         \/ SharedMem!write_type \/ SharedMem!write_sizes
  PROVE  SharedMemInvariant'
PROOF
<1>1. PICK step \in {"lock", "tosay", "type", "sizes"},
           next \in {"tosay", "type", "sizes", "post"} :
        /\ SharedMem!Advance(step, next)
        /\ step = "lock" => SharedMem!lock /\ next = "tosay"
        /\ step = "tosay" => SharedMem!write_tosay /\ next = "type"
        /\ step = "type" => SharedMem!write_type /\ next = "sizes"
        /\ step = "sizes" => SharedMem!write_sizes /\ next = "post"
  BY DEF SharedMem!lock, SharedMem!write_tosay, SharedMem!write_type, SharedMem!write_sizes
<1>2. /\ sending # << >> /\ SharedMem!Top.step = step
      /\ sending' = [sending EXCEPT ![Len(sending)].step = next]
      /\ UNCHANGED <<mpc, posted, sizes, read, shown, daemon>>
  BY <1>1 DEF SharedMem!Advance, SharedMem!daemonVars
<1>3. /\ SharedMem!TypeOK /\ CallsOrder /\ CallsWritten
      /\ sending \in Seq(SharedMem!Calls) /\ Len(sending) \in CallIds
      /\ mpc = "start" => mutex["main"] = "none"
  BY <1>2 DEF SharedMemInvariant, SharedMem!TypeOK, CallIds
<1>4. /\ step = "lock" => mutex["main"] = "unlocked"
      /\ step # "lock" => Past(Len(sending))
  BY <1>1, <1>2 DEF SharedMem!lock, Past, SharedMem!Top
<1>5. /\ posted = << >> /\ mpc # "start"
      /\ \A i \in CallIds : Past(i) => i = Len(sending)
  BY <1>3, <1>4 DEF CallsOrder
<1>6. /\ sem' = sem
      /\ step = "lock" => mutex' = [mutex EXCEPT !["main"] = "locked"]
      /\ step # "lock" => UNCHANGED mutex
  BY <1>1
     DEF SharedMem!lock, SharedMem!write_tosay, SharedMem!write_type, SharedMem!write_sizes,
         SharedMem!segmentVars
<1>7. mutex'["main"] = "locked"
  BY <1>3, <1>4, <1>6 DEF CallsOrder, SharedMem!TypeOK
<1>8. /\ SharedMem!Top \in SharedMem!Calls /\ SharedMem!Top.text \in SharedMem!Texts
      /\ SharedMem!TypeOf[SharedMem!Top.text] \in 0..SharedMem!ERROR_TYPE
  <2>1. SharedMem!Top \in SharedMem!Calls
    BY <1>3 DEF SharedMem!Top, CallIds
  <2>2. SharedMem!Top.text \in SharedMem!Texts
    BY <2>1 DEF SharedMem!Calls
  <2> QED BY <2>1, <2>2, MessageTypes
<1>9. /\ segment'.tosay = IF step = "tosay" THEN SharedMem!Top.text ELSE segment.tosay
      /\ segment'.type = IF step = "type" THEN SharedMem!TypeOf[SharedMem!Top.text]
                                          ELSE segment.type
      /\ segment'.sizes = IF step = "sizes" THEN TRUE ELSE segment.sizes
      /\ segment' \in [tosay : SharedMem!Texts \cup {SharedMem!Blank},
                       type : 0..SharedMem!ERROR_TYPE, sizes : BOOLEAN]
  BY <1>1, <1>3, <1>8
     DEF SharedMem!lock, SharedMem!write_tosay, SharedMem!write_type, SharedMem!write_sizes,
         SharedMem!segmentVars, SharedMem!TypeOK
<1>10. /\ next # "tosay" => segment'.tosay = SharedMem!Top.text
       /\ next \in {"sizes", "post"} => segment'.type = SharedMem!TypeOf[SharedMem!Top.text]
       /\ segment'.sizes = (segment.sizes \/ next = "post")
       /\ sending[Len(sending)].step # "post"
  BY <1>1, <1>2, <1>3, <1>9 DEF CallsWritten, SharedMem!Top, SharedMem!TypeOK
<1>11. SharedMem!TypeOK'
  <2>1. sending' \in Seq(SharedMem!Calls) /\ Len(sending') = Len(sending)
    <3>1. sending[Len(sending)] \in SharedMem!Calls
      BY <1>3 DEF CallIds
    <3>2. [sending[Len(sending)] EXCEPT !.step = next] \in SharedMem!Calls
      BY <3>1 DEF SharedMem!Calls
    <3> QED BY <1>2, <1>3, <3>2 DEF CallIds
  <2>2. mutex' \in [{"main", "daemon"} -> {"none", "unlocked", "locked"}]
    BY <1>3, <1>6 DEF SharedMem!TypeOK
  <2> QED BY <1>2, <1>3, <1>6, <1>9, <2>1, <2>2 DEF SharedMem!TypeOK
<1> QED BY <1>2, <1>5, <1>6, <1>7, <1>10, <1>11, TopStepKeeps

\* The post: what the call on top has written is what has been posted.
LEMMA PostKeeps ==
  ASSUME SharedMemInvariant, SharedMem!post
  PROVE  SharedMemInvariant'
PROOF
<1>1. /\ sending # << >> /\ SharedMem!Top.step = "post" /\ sem' = sem + 1
      /\ posted' = Append(posted, SharedMem!Top.text) /\ sending' = << >>
      /\ mpc' = IF SharedMem!Top.text = "interrupted" THEN "exit" ELSE mpc
      /\ UNCHANGED <<segment, mutex, daemon, sizes, read, shown>> /\ mpc # "exit"
  BY DEF SharedMem!post, SharedMem!daemonVars, SharedMem!Running
<1>2. /\ SharedMem!TypeOK /\ CallsOrder /\ CallsWritten
      /\ Len(sending) \in CallIds /\ Past(Len(sending))
      /\ SharedMem!Top = sending[Len(sending)] /\ SharedMem!Top \in SharedMem!Calls
      /\ mpc = "start" => mutex["main"] = "none" /\ sem <= MaxSem + Len(posted)
  BY <1>1 DEF SharedMemInvariant, SharedMem!TypeOK, CallIds, Past, SharedMem!Top
<1>3. /\ posted = << >> /\ Len(posted) = 0 /\ mutex["main"] = "locked" /\ mpc # "start"
      /\ SharedMem!Top.text \in SharedMem!Texts
  BY <1>2 DEF CallsOrder, SharedMem!Calls
<1>4. posted' = <<SharedMem!Top.text>> /\ Len(posted') = 1 /\ Len(sending') = 0
  BY <1>1, <1>3
<1>5. sem <= MaxSem /\ sem' <= MaxSem + Len(posted')
  BY <1>1, <1>3, <1>4, SharedMemAssumption
     DEF SharedMemInvariant, SharedMem!SemParameters, SharedMem!TypeOK, SharedMem!Absent
<1>6. SharedMem!TypeOK'
  <2>1. sending' \in Seq(SharedMem!Calls) /\ posted' \in Seq(SharedMem!Texts)
    BY <1>1, <1>3, <1>4
  <2>2. sem' \in SharedMem!Absent..MaxSem + 2
    BY <1>1, <1>2, <1>5, SharedMemAssumption
       DEF SharedMem!TypeOK, SharedMem!Absent, SharedMem!SemParameters
  <2> QED BY <1>1, <1>2, <1>4, <2>1, <2>2 DEF SharedMem!TypeOK
<1>7. CallsOrder' /\ CallsWritten'
  BY <1>1, <1>3, <1>4 DEF CallsOrder, CallsWritten, CallIds
<1>8. ReadIsWhole' /\ TypedMessageIsWhole' /\ SegmentIsWhole'
  <2>1. ASSUME NEW words \in SharedMem!Texts, SharedMem!Written(words)
        PROVE  SharedMem!Written(words)'
    <3>1. PICK i \in CallIds : sending[i] = [text |-> words, step |-> "post"]
      BY <1>3, <2>1 DEF SharedMem!Written, CallIds
    <3>2. i = Len(sending) /\ posted'[1] = words /\ Len(posted') = 1
      BY <1>2, <1>4, <3>1 DEF CallsOrder, Past
    <3> QED BY <3>2 DEF SharedMem!Written
  <2> QED BY <1>1, <2>1, ReadKept DEF SegmentIsWhole
<1>9. InterruptEndsOnlyBeforeLogging'
  BY <1>1, <1>4
     DEF InterruptEndsOnlyBeforeLogging, SharedMem!InterruptEndsOnlyBeforeLogging
<1> QED BY <1>1, <1>3, <1>5, <1>6, <1>7, <1>8, <1>9 DEF SharedMemInvariant

\* Every step of main, of its handler and of the daemon keeps the invariant.
LEMMA SharedMemStep ==
  ASSUME SharedMemInvariant, [MCNext]_allVars
  PROVE  SharedMemInvariant'
PROOF
<1>1. CASE UNCHANGED sharedMemVars
  <2>1. SharedMem!TypeOK' /\ UNCHANGED sharedMemVars
    BY <1>1 DEF sharedMemVars, SharedMemInvariant, SharedMem!TypeOK
  <2>2. ReadIsWhole' /\ TypedMessageIsWhole'
    BY <2>1, ReadKept DEF sharedMemVars, SharedMem!Written
  <2> QED BY <2>1, <2>2, SharedMemKept DEF sharedMemVars, SharedMemInvariant
<1>2. CASE SharedMem!Next
  BY <1>2, DaemonStepKeeps, CallKeeps, InitLoginKeeps, WriteKeeps, PostKeeps
     DEF SharedMem!Next, SharedMem!MainStep
<1> QED BY <1>1, <1>2, MCStep

\* One call of sndMessage at most gets past the mutex; it writes the three fields and
\* posts (daemonSharedmem.c:138-159).
THEOREM SharedMemInvariantHolds == MCSpec => []SharedMemInvariant
BY SharedMemInit, SharedMemStep, PTL DEF MCSpec

\* Whatever the daemon prints with a type is a message that main had written, whole, for
\* every value that a semaphore opened without one may have: no lock keeps the two apart,
\* only the order in which they handle the sizes (daemonSharedmem.c:138-200).
THEOREM TypedIsWhole == MCSpec => []TypedMessageIsWhole
PROOF
<1>1. SharedMemInvariant => TypedMessageIsWhole
  BY DEF SharedMemInvariant
<1> QED BY <1>1, SharedMemInvariantHolds, PTL

\* A server that Ctrl-C has ended had logged nothing but its end (server.c:202).
THEOREM InterruptEndsBeforeLogging == MCSpec => []InterruptEndsOnlyBeforeLogging
PROOF
<1>1. SharedMemInvariant => InterruptEndsOnlyBeforeLogging
  BY DEF SharedMemInvariant
<1> QED BY <1>1, SharedMemInvariantHolds, PTL

-----------------------------------------------------------------------------
(* Message queues: every step keeps the invariant.                          *)

\* A process may hold a message of an earlier run, or its own one.
LEMMA OldMessageIsMessage == OldMessage \in Message
BY QueueAssumption DEF OldMessage, Message, INFO_TYPE

\* The queue may hold messages of an earlier run.
LEMMA QueueInit == MCInit => QueueInvariant
PROOF
<1> SUFFICES ASSUME Init
             PROVE  QueueInvariant
  BY DEF MCInit
<1>1. PICK n \in 0..Capacity :
        queue = [q \in {"Q1", "Q2"} |->
                   IF q = qmessage_in(TRUE) THEN [i \in 1..n |-> OldMessage] ELSE << >>]
  BY DEF Init
<1>2. [i \in 1..n |-> OldMessage] \in Seq(Message) /\ Len([i \in 1..n |-> OldMessage]) = n
  BY OldMessageIsMessage, QueueAssumption
<1>3. << >> \in Seq(Message) /\ Len(<< >>) = 0
  OBVIOUS
<1>4. /\ queue \in [{"Q1", "Q2"} -> Seq(Message)]
      /\ \A q \in {"Q1", "Q2"} : Len(queue[q]) <= Capacity
  <2>1. queue["Q1"] = [i \in 1..n |-> OldMessage] /\ queue["Q2"] = << >>
    BY <1>1 DEF qmessage_in
  <2>2. \A q \in {"Q1", "Q2"} : queue[q] \in Seq(Message)
    BY <1>2, <1>3, <2>1
  <2>3. \A q \in {"Q1", "Q2"} : Len(queue[q]) <= Capacity
    BY <1>2, <1>3, <2>1, QueueAssumption
  <2> QED BY <1>1, <2>2, <2>3
<1>6. /\ msg = [p \in Loggers |-> OldMessage] /\ sent = [p \in Loggers |-> 0]
      /\ ppc = [p \in Loggers |-> "run"] /\ caught = {} /\ dpc = "down"
      /\ dmsg = OldMessage /\ kills = 0
  BY DEF Init
<1>7. printed \in Seq(Message)
  BY <1>3 DEF Init
<1>5. TypeOK
  BY <1>4, <1>6, <1>7, OldMessageIsMessage, QueueAssumption DEF TypeOK
<1> QED BY <1>3, <1>5, QueueAssumption DEF Init, QueueInvariant, Quota

\* What a process fills in is a message.
LEMMA FillType ==
  ASSUME TypeOK, NEW p \in Loggers, NEW type \in {INFO_TYPE, WARNING_TYPE, ERROR_TYPE},
         Fill(p, type), sent[p] <= MaxMessages
  PROVE  /\ msg' \in [Loggers -> Message]
         /\ ppc' \in [Loggers -> {"run", "msgsnd", "exit"}]
         /\ ppc'[p] = "msgsnd" /\ \A q \in Loggers \ {p} : ppc'[q] = ppc[q]
PROOF
<1>1. [mtype |-> type, svpid |-> p, mdata |-> sent[p] + 1] \in Message
  BY QueueAssumption DEF Message, TypeOK
<1> QED BY <1>1 DEF Fill, TypeOK

\* Each step of the server's processes.
LEMMA LoggerKeeps ==
  ASSUME QueueInvariant, NEW p \in Loggers,
         sndMessage(p) \/ msgsnd(p) \/ srv_sigRutine(p)
  PROVE  QueueInvariant'
PROOF
<1> USE QueueAssumption
<1>1. /\ TypeOK /\ \A q \in Loggers : Quota(q)
      /\ sent[p] \in Nat /\ ppc[p] \in {"run", "msgsnd", "exit"}
  BY DEF QueueInvariant, TypeOK
<1>2. CASE sndMessage(p)
  <2>1. PICK type \in {INFO_TYPE, WARNING_TYPE, ERROR_TYPE} : Fill(p, type)
    BY <1>2 DEF sndMessage
  <2>2. /\ ppc[p] = "run" /\ sent[p] < MaxMessages
        /\ UNCHANGED <<queue, sent, caught, dpc, dmsg, printed, kills>>
    BY <1>2 DEF sndMessage, daemonVars
  <2>3. /\ msg' \in [Loggers -> Message]
        /\ ppc' \in [Loggers -> {"run", "msgsnd", "exit"}]
        /\ ppc'[p] = "msgsnd" /\ \A q \in Loggers \ {p} : ppc'[q] = ppc[q]
    BY <1>1, <2>1, <2>2, FillType
  <2>4. TypeOK'
    BY <1>1, <2>2, <2>3 DEF TypeOK
  <2>5. \A q \in Loggers : Quota(q)'
    BY <1>1, <2>2, <2>3 DEF Quota
  <2> QED BY <2>2, <2>4, <2>5 DEF QueueInvariant
<1>3. CASE msgsnd(p)
  <2>1. /\ ppc[p] = "msgsnd" /\ Len(queue["Q1"]) < Capacity
        /\ queue' = [queue EXCEPT !["Q1"] = Append(@, msg[p])]
        /\ sent' = [sent EXCEPT ![p] = @ + 1]
        /\ ppc' = [ppc EXCEPT ![p] = IF p \in caught THEN "exit" ELSE "run"]
        /\ UNCHANGED <<msg, caught, dpc, dmsg, printed, kills>>
    BY <1>3 DEF msgsnd, qmessage_out, daemonVars
  <2>2. /\ Append(queue["Q1"], msg[p]) \in Seq(Message)
        /\ Len(Append(queue["Q1"], msg[p])) <= Capacity
    BY <1>1, <2>1 DEF TypeOK
  <2>3. sent[p] <= MaxMessages /\ (p \notin caught => sent[p] < MaxMessages)
    BY <1>1, <2>1 DEF Quota
  <2>4. TypeOK'
    BY <1>1, <2>1, <2>2, <2>3 DEF TypeOK
  <2>5. \A q \in Loggers : Quota(q)'
    BY <1>1, <2>1, <2>3 DEF Quota, TypeOK
  <2> QED BY <2>1, <2>4, <2>5 DEF QueueInvariant
<1>4. CASE srv_sigRutine(p)
  <2>1. /\ ppc[p] # "exit" /\ p \notin caught /\ caught' = caught \cup {p}
        /\ Fill(p, WARNING_TYPE)
        /\ UNCHANGED <<queue, sent, dpc, dmsg, printed, kills>>
    BY <1>4 DEF srv_sigRutine, daemonVars
  <2>2. sent[p] <= MaxMessages
    BY <1>1, <2>1 DEF Quota
  <2>3. /\ msg' \in [Loggers -> Message]
        /\ ppc' \in [Loggers -> {"run", "msgsnd", "exit"}]
        /\ ppc'[p] = "msgsnd" /\ \A q \in Loggers \ {p} : ppc'[q] = ppc[q]
    BY <1>1, <2>1, <2>2, FillType
  <2>4. TypeOK'
    BY <1>1, <2>1, <2>3 DEF TypeOK
  <2>5. \A q \in Loggers : Quota(q)'
    BY <1>1, <2>1, <2>2, <2>3 DEF Quota
  <2> QED BY <2>1, <2>4, <2>5 DEF QueueInvariant
<1> QED BY <1>2, <1>3, <1>4

\* Each step of the daemon.
LEMMA DaemonKeeps ==
  ASSUME QueueInvariant, start_daemon \/ rcvMessage \/ printMessage \/ kill_daemon
  PROVE  QueueInvariant'
PROOF
<1> USE QueueAssumption
<1>1. /\ UNCHANGED <<msg, sent, ppc, caught>> /\ TypeOK /\ Len(printed) <= 1
      /\ OldMessage \in Message
  BY OldMessageIsMessage
     DEF start_daemon, rcvMessage, printMessage, kill_daemon, loggerVars, QueueInvariant
<1>2. \A p \in Loggers : Quota(p)'
  BY <1>1 DEF QueueInvariant, Quota
<1>3. /\ queue' \in [{"Q1", "Q2"} -> Seq(Message)]
      /\ \A q \in {"Q1", "Q2"} : Len(queue'[q]) <= Capacity
      /\ dmsg' \in Message
  <2>1. CASE rcvMessage
    <3>1. /\ queue["Q1"] # << >> /\ dmsg' = Head(queue["Q1"])
          /\ queue' = [queue EXCEPT !["Q1"] = Tail(@)]
      BY <2>1 DEF rcvMessage, qmessage_in
    <3>2. /\ Head(queue["Q1"]) \in Message /\ Tail(queue["Q1"]) \in Seq(Message)
          /\ Len(Tail(queue["Q1"])) <= Capacity
      BY <1>1, <3>1 DEF TypeOK
    <3> QED BY <1>1, <3>1, <3>2 DEF TypeOK
  <2>2. CASE ~rcvMessage
    BY <1>1, <2>2 DEF start_daemon, printMessage, kill_daemon, TypeOK
  <2> QED BY <2>1, <2>2
<1>7. /\ printed' \in {printed, <<dmsg>>}
      /\ dpc' \in {"down", "rcvMessage", "printMessage"}
      /\ kills' = kills \/ (kills < MaxKills /\ kills' = kills + 1)
  BY DEF start_daemon, rcvMessage, printMessage, kill_daemon
<1>4. printed' \in Seq(Message) /\ Len(printed') <= 1
  <2>1. <<dmsg>> \in Seq(Message) /\ Len(<<dmsg>>) = 1
    BY <1>1 DEF TypeOK
  <2>2. printed \in Seq(Message)
    BY <1>1 DEF TypeOK
  <2>3. CASE printed' = printed
    BY <1>1, <2>2, <2>3
  <2>4. CASE printed' = <<dmsg>>
    BY <2>1, <2>4
  <2> QED BY <1>7, <2>3, <2>4
<1>5. dpc' \in {"down", "rcvMessage", "printMessage"} /\ kills' \in 0..MaxKills
  BY <1>1, <1>7 DEF TypeOK
<1>6. TypeOK'
  BY <1>1, <1>3, <1>4, <1>5 DEF TypeOK
<1> QED BY <1>2, <1>4, <1>6 DEF QueueInvariant

\* Every step keeps it.
LEMMA QueueStep ==
  ASSUME QueueInvariant, [MCNext]_allVars
  PROVE  QueueInvariant'
PROOF
<1>1. CASE UNCHANGED vars
  BY <1>1 DEF vars, loggerVars, daemonVars, QueueInvariant, TypeOK, Quota
<1>2. CASE Next
  BY <1>2, LoggerKeeps, DaemonKeeps DEF Next
<1> QED BY <1>1, <1>2, MCStep

\* The queues never hold more than they can, and a process that waits in msgsnd still
\* has a message to its name.
THEOREM QueueInvariantHolds == MCSpec => []QueueInvariant
BY QueueInit, QueueStep, PTL DEF MCSpec

-----------------------------------------------------------------------------
(* Message queues: the daemon prints what was logged (Log).                 *)

\* The message that the daemon has received goes before those in the queue.
LEMMA InHand ==
  ASSUME NEW S, NEW d \in S, NEW q \in Seq(S)
  PROVE  /\ <<d>> \o q \in Seq(S) /\ <<d>> \o q # << >>
         /\ Head(<<d>> \o q) = d /\ Tail(<<d>> \o q) = q
         /\ \A m \in S : <<d>> \o Append(q, m) = Append(<<d>> \o q, m)
         /\ q # << >> => <<Head(q)>> \o Tail(q) = q
PROOF
<1>1. /\ <<d>> \in Seq(S) /\ Len(<<d>>) = 1 /\ <<d>>[1] = d
      /\ Len(q) \in Nat /\ q \in [1..Len(q) -> S]
  OBVIOUS
<1>2. /\ <<d>> \o q \in Seq(S) /\ Len(<<d>> \o q) = 1 + Len(q)
      /\ (<<d>> \o q)[1] = d
      /\ \A i \in 1..Len(q) : (<<d>> \o q)[i + 1] = q[i]
  BY <1>1, ConcatProperties
<1>3. <<d>> \o q # << >> /\ Head(<<d>> \o q) = d
  BY <1>2
<1>4. Tail(<<d>> \o q) = q
  <2>1. /\ Tail(<<d>> \o q) \in Seq(S) /\ Len(Tail(<<d>> \o q)) = Len(q)
        /\ \A i \in 1..Len(q) : Tail(<<d>> \o q)[i] = q[i]
    BY <1>1, <1>2, <1>3
  <2> QED BY <2>1, SeqEqual
<1>5. ASSUME NEW m \in S
      PROVE  <<d>> \o Append(q, m) = Append(<<d>> \o q, m)
  <2>1. <<m>> \in Seq(S)
    OBVIOUS
  <2>2. Append(q, m) = q \o <<m>> /\ Append(<<d>> \o q, m) = (<<d>> \o q) \o <<m>>
    BY <1>2, AppendIsConcat
  <2> QED BY <1>1, <2>1, <2>2, ConcatAssociative
<1>6. ASSUME q # << >>
      PROVE  <<Head(q)>> \o Tail(q) = q
  <2>1. /\ Head(q) \in S /\ Tail(q) \in Seq(S) /\ Len(Tail(q)) = Len(q) - 1
        /\ Head(q) = q[1] /\ \A i \in 1..(Len(q) - 1) : Tail(q)[i] = q[i + 1]
        /\ Len(q) >= 1
    BY <1>6
  <2>2. <<Head(q)>> \in Seq(S) /\ Len(<<Head(q)>>) = 1 /\ <<Head(q)>>[1] = q[1]
    BY <2>1
  <2>3. /\ <<Head(q)>> \o Tail(q) \in Seq(S)
        /\ Len(<<Head(q)>> \o Tail(q)) = 1 + Len(Tail(q))
        /\ \A i \in 1..(1 + Len(Tail(q))) :
             (<<Head(q)>> \o Tail(q))[i] = IF i <= 1 THEN <<Head(q)>>[i] ELSE Tail(q)[i - 1]
    BY <2>1, <2>2, ConcatProperties
  <2>4. \A i \in 1..Len(q) : (<<Head(q)>> \o Tail(q))[i] = q[i]
    BY <2>1, <2>2, <2>3
  <2> QED BY <2>1, <2>3, <2>4, SeqEqual
<1> QED BY <1>2, <1>3, <1>4, <1>5, <1>6

\* One step is one step of the log, or changes nothing that it shows.
LEMMA LogStep ==
  ASSUME QueueInvariant, [MCNext]_allVars
  PROVE  [Abstract!Next]_Abstract!vars
PROOF
<1> DEFINE hand == dpc = "printMessage"
           pending == IF hand THEN <<dmsg>> \o queue["Q1"] ELSE queue["Q1"]
<1>1. /\ queue["Q1"] \in Seq(Message) /\ dmsg \in Message
      /\ \A p \in Loggers : msg[p] \in Message
      /\ dpc \in {"down", "rcvMessage", "printMessage"}
  BY DEF QueueInvariant, TypeOK
<1>2. ASSUME UNCHANGED <<queue["Q1"], dpc, dmsg, printed>>
      PROVE  UNCHANGED Abstract!vars
  BY <1>2 DEF Abstract!vars
<1>3. ASSUME NEW p \in Loggers, sndMessage(p) \/ srv_sigRutine(p)
      PROVE  UNCHANGED Abstract!vars
  BY <1>2, <1>3 DEF sndMessage, srv_sigRutine, daemonVars
<1>4. ASSUME NEW p \in Loggers, msgsnd(p)
      PROVE  Abstract!Log(msg[p])
  <2>1. /\ queue'["Q1"] = Append(queue["Q1"], msg[p])
        /\ UNCHANGED <<dpc, dmsg, printed>>
    BY <1>4 DEF msgsnd, qmessage_out, daemonVars, QueueInvariant, TypeOK
  <2>2. pending' = Append(pending, msg[p])
    BY <1>1, <2>1, InHand
  <2> QED BY <2>1, <2>2 DEF Abstract!Log
<1>5. ASSUME start_daemon
      PROVE  Abstract!Start
  BY <1>5 DEF start_daemon, Abstract!Start
<1>6. ASSUME rcvMessage
      PROVE  UNCHANGED Abstract!vars
  <2>1. /\ queue["Q1"] # << >> /\ dmsg' = Head(queue["Q1"])
        /\ queue'["Q1"] = Tail(queue["Q1"])
        /\ dpc = "rcvMessage" /\ dpc' = "printMessage" /\ UNCHANGED printed
    BY <1>6 DEF rcvMessage, qmessage_in, QueueInvariant, TypeOK
  <2>2. pending' = pending
    BY <1>1, <2>1, InHand
  <2> QED BY <2>1, <2>2 DEF Abstract!vars
<1>7. ASSUME printMessage
      PROVE  Abstract!PrintOne
  <2>1. /\ dpc = "printMessage" /\ dpc' = "rcvMessage" /\ printed' = <<dmsg>>
        /\ UNCHANGED <<queue, dmsg>>
    BY <1>7 DEF printMessage
  <2>2. /\ pending # << >> /\ Head(pending) = dmsg /\ Tail(pending) = queue["Q1"]
        /\ pending' = queue["Q1"]
    BY <1>1, <2>1, InHand
  <2> QED BY <2>1, <2>2 DEF Abstract!PrintOne
<1>8. ASSUME kill_daemon
      PROVE  Abstract!Kill
  <2>1. /\ dpc # "down" /\ dpc' = "down" /\ UNCHANGED <<queue, dmsg, printed>>
    BY <1>8 DEF kill_daemon
  <2>2. /\ pending' = queue["Q1"]
        /\ pending' = pending \/ (pending # << >> /\ pending' = Tail(pending))
    BY <1>1, <2>1, InHand
  <2> QED BY <2>1, <2>2 DEF Abstract!Kill
<1>9. CASE UNCHANGED vars
  BY <1>2, <1>9 DEF vars, daemonVars
<1>10. CASE Next
  BY <1>1, <1>3, <1>4, <1>5, <1>6, <1>7, <1>8, <1>10 DEF Next, Abstract!Next
<1> QED BY <1>9, <1>10, MCStep

\* The daemon prints what was logged, each message once and in order, and loses one at
\* most each time it is killed (daemonqueues.c:86-122).
THEOREM QueuesImplementLog == MCSpec => ImplementsLog
PROOF
<1>1. MCInit => Abstract!Init
  <2> SUFFICES ASSUME MCInit
               PROVE  Abstract!Init
    OBVIOUS
  <2>1. QueueInvariant /\ dpc = "down" /\ printed = << >>
    BY QueueInit DEF MCInit, Init
  <2>2. queue["Q1"] \in Seq(Message)
    BY <2>1 DEF QueueInvariant, TypeOK
  <2> QED BY <2>1, <2>2 DEF Abstract!Init
<1>2. QueueInvariant /\ [MCNext]_allVars => [Abstract!Next]_Abstract!vars
  BY LogStep
<1> QED BY <1>1, <1>2, QueueInvariantHolds, PTL DEF MCSpec, ImplementsLog, Abstract!Spec
=============================================================================

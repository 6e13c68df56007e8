-------------------------------- MODULE Fifo --------------------------------
(***************************************************************************)
(* A FIFO of the operating system, as databasecomm.c and commfifos.c use   *)
(* it.  open() waits until the other end has been opened.  A process that  *)
(* waits in open() already counts as a user of the FIFO, and a waiting     *)
(* process goes on as soon as a partner has arrived, even if that partner  *)
(* has left again.  What nobody has read is lost when the last user        *)
(* leaves.  unlink and mknod put a new FIFO under the name: who opened the *)
(* old one stays with it.                                                  *)
(***************************************************************************)
EXTENDS Sequences, FiniteSets

FifoType(Processes, Messages) ==
  [readers : SUBSET Processes,    \* have the reading end, or wait for it
   writers : SUBSET Processes,    \* have the writing end, or wait for it
   waiting : SUBSET Processes,    \* are still in open()
   data    : Seq(Messages)]

NewFifo == [readers |-> {}, writers |-> {}, waiting |-> {}, data |-> << >>]

Users(f) == f.readers \cup f.writers

\* open(O_RDONLY) and open(O_WRONLY): arrive, wake the other end, perhaps wait.
OpenReader(f, p) ==
  [f EXCEPT !.readers = @ \cup {p},
            !.waiting = (@ \ f.writers) \cup IF f.writers = {} THEN {p} ELSE {}]

OpenWriter(f, p) ==
  [f EXCEPT !.writers = @ \cup {p},
            !.waiting = (@ \ f.readers) \cup IF f.readers = {} THEN {p} ELSE {}]

\* The open() of process p has returned.
Opened(f, p) == p \in Users(f) \ f.waiting

\* close(), or the end of the process.
Close(f, p) ==
  LET rest == Users(f) \ {p} IN
  [f EXCEPT !.readers = @ \ {p}, !.writers = @ \ {p}, !.waiting = @ \ {p},
            !.data = IF rest = {} THEN << >> ELSE @]

\* A write without a reader raises SIGPIPE.  The writer of a FIFO that is gone
\* from its name is not among f.writers: its readers are gone as well.
WriteBreaks(f, p) == p \notin f.writers \/ f.readers = {}

Write(f, m) == [f EXCEPT !.data = Append(@, m)]

\* read() waits for data or for end-of-file.
HasData(f) == f.data # << >>
AtEnd(f) == f.data = << >> /\ f.writers = {}
Consume(f) == [f EXCEPT !.data = Tail(@)]
=============================================================================

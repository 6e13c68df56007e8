# A verification project for the SO-IPC game

The program is a small multi-player game made of separate processes that talk
over FIFOs, sockets, message queues or shared memory. Players type commands in a
`client`; a `server` forks one session process per client; every session asks one
`database` process, which keeps accounts and characters in SQLite; the server
logs to a `daemonserver`.

This directory holds TLA+ models of it, the TLC configurations that check small
instances, and proofs that hold for every instance. Line numbers below are those
of the files under `src/`.

## 1. The system

| Part | Source | State | Operations |
|---|---|---|---|
| client | `client.c`, `APIclient.c` | `session_state`, `username`, `character`, `counter` | the commands `login`, `createaccount`, `selectchar`, `createchar`, `deletechar`, `p`, `logout`, `quit`; Ctrl-C |
| server | `server.c` | per forked session: last request, last reply, `session_ended` | accept and fork; receive - process - send; Ctrl-C |
| database | `database.c` | tables `User` and `Chars`, the record being served | one handler per opcode |
| records | `types.h`, `constants.h`, `marshalling.c`, `databasemarshalling.c` | none | `newData`, `sendData`, `receiveData` |
| session to database connection | `databasecomm.c` | one listening FIFO, two FIFOs per connection | connect, listen, accept, read, write, disconnect |
| client to server connection | `commfifos.c` or `commsockets.c` | the same over FIFOs, or a listening socket | the same |
| threaded server | `serverThread.c` | one set of globals shared by all threads | the server's, with threads |
| logging daemon | `daemonserver.c` with `daemonqueues.c` or `daemonSharedmem.c` | two message queues, or a segment, a mutex and a semaphore | `sndMessage`, `rcvMessage` |
| configuration | `commlib.c`, `commconfig.txt` | none | `getaddress`, `getkey` |

How the parts interact. A command sends one `Data` record and blocks in
`communicate()` until a record comes back. The session reads it, dispatches on
its opcode, opens a fresh connection to the database, sends the record on, waits
for it to come back changed, closes that connection, and sends the record to the
client. The database serves one connection at a time. The server's processes also
write log messages, which the daemon reads.

What is hard about it, part by part:

* **client**: two calls in a row for `quit` and `logOut` (save, then log out);
  Ctrl-C at any moment, inside a call too; the save counter and the level cap.
  Correct when: what it reads is the answer to what it asked; a lost connection
  costs a bounded number of points; saved progress is never overwritten by less.
* **server session**: it tests the previous reply instead of the request in one
  place (139), resends the last reply when it did not ask the database (103),
  takes end-of-file for a record (`marshalling.c:56`). Correct when: none of this
  reaches a waiting client, and the process ends when its client is gone.
* **database**: an account lock made of a check and an update, and a busy mark per
  character. Correct when: one client at a time holds an account; a played
  character is neither deleted nor given away; the quota is kept.
* **connections**: two processes may connect to a listening FIFO at once, and the
  acceptor reads one process id and closes the FIFO. Either side may end in the
  middle. Correct when: a request is lost only to another one that overlapped with
  it, a collision has a winner, nobody gets another's answer, and the acceptor comes
  back. Over sockets: whoever waits in the backlog gets in.
* **faults of whole processes**: the database starts with empty tables under clients
  that are logged in; Ctrl-C at the server's terminal reaches main and all sessions.
* **descriptors**: main keeps those of every client, and `getaddress` leaks one per
  call, until an `open` in the middle of a handshake fails.
* **threaded server**: request, reply, end flag and log message are shared by all
  threads, which log without end.
* **logging**: a blocking `msgsnd`; a mutex that another process is meant to
  unlock, but that each process allocates for itself; a semaphore that starts at
  one; a Ctrl-C handler that logs in the middle of logging.
* **text**: buffers that keep what the read before left in them, at the prompt and in
  the scan of the configuration file.

`PROJECT.json` lists every hazard with its line and the properties that cover it.

## 2. Modules

The running system, where a connection is a stream:

| Module | What it is |
|---|---|
| `GameTypes` | opcodes, game states, the `Data` record, the experience arithmetic of `point()` |
| `Database` | the two tables and the handlers of `database.c` |
| `DatabaseService` | the database alone, serving an arbitrary set of requests |
| `GameSystem` | clients, connections, sessions and the database together |
| `AccountLock` | the abstract account lock |
| `RestartLock` | what is left of it when whoever keeps it may end and start again |
| `GameProperties` | what the running system guarantees; the refinement mapping to `AccountLock` |
| `GameInvariants` | the inductive invariants, in five layers |
| `GameRestart` | `GameSystem` with a database and a server that end and start again; the refinement mapping to `RestartLock` |
| `GameProofs` | the theorems about `GameSystem`, layer by layer, and the refinement of `AccountLock` |
| `GameRestartProofs` | the theorems about `GameRestart` |
| `DatabaseProofs` | the theorems about the database alone and their lemmas |
| `MCDatabase`, `MCGameSystem`, `MCGameRestart` | small instances for TLC |

How the streams come about, and what surrounds them:

| Module | What it is |
|---|---|
| `Fifo` | a FIFO of the operating system: who has it open, what it holds, when `open` returns and when a write breaks |
| `Rendezvous` | what a listening FIFO promises, abstractly |
| `DBRendezvous` | sessions and database meeting over FIFOs, one step per system call of `databasecomm.c`; implements `Rendezvous` |
| `FifoServer` | clients and server the same way over `commfifos.c`; implements `Rendezvous` |
| `SocketServer` | clients and server over `commsockets.c`, with a backlog and a second server |
| `Descriptors` | the descriptors of main and its sessions, and what a call leaks |
| `Log` | what a logging daemon promises, abstractly |
| `QueueLog` | logging over message queues (`daemonqueues.c`, `daemonserver.c`); implements `Log` |
| `SharedMemLog` | logging over shared memory (`daemonSharedmem.c`) |
| `ThreadedServer` | `serverThread.c` up to its endless loop, on message queues |
| `CommandLine` | `run_session`, `parser`, `splitArgs`, `strCpy` on what a user types, a step per turn of the splitting loop |
| `ConfigLookup` | `getaddress` and `getkey` on every small configuration file |
| `MCRendezvous`, `MCConnect`, `MCLogging`, `MCText` | small instances for TLC |
| `MCThreads` | the instance of `MCLogging` with `ThreadedServer` beside it |
| `FifoProofs` | lemmas about the operators of `Fifo` |
| `RendezvousProofs` | the theorems about `DBRendezvous` and `Descriptors` |
| `ConnectProofs` | the theorems about `FifoServer` and `SocketServer` |
| `LoggingProofs` | the theorems about `QueueLog` and `SharedMemLog` |
| `TextProofs` | the theorems about `CommandLine` and `ConfigLookup` |

`GameTypes` is extended by `Database`, and that by `DatabaseService` and by
`GameSystem`; `GameProperties` follows on `GameSystem`, and on it both `GameRestart`
and the line `GameInvariants`, `GameProofs`. `GameRestartProofs` extends `GameRestart`
and `GameProofs`, and `DatabaseProofs` extends `DatabaseService`. `RendezvousProofs`,
`ConnectProofs`, `LoggingProofs` and `TextProofs` extend the MC module whose
specification they are about; its constants are as arbitrary there as everywhere.

The second group is not composed with the first step by step: a session's turn would
grow from five steps to some thirty. `GameSystem` uses its results instead.
`connect_collision` is what `DBRendezvous` shows of overlapping sessions (the loser
blocks in `open` or dies of SIGPIPE, and only if another one overlapped), and the ways
a session goes on in `GameRestart` when the database ends or starts under it are the
outcomes that `DBRendezvous` reaches with `kill_database` and `unlink_listener`.

Each MC module of the second group puts modules next to each other that answer one
question about alternatives: the Makefile links FIFOs or sockets, queues or shared
memory, forks or threads. Their first state chooses the build (`build`, `program`,
`view`, `place`), and the variables of the others keep their initial values. So a
behaviour is a behaviour of one module under its own name, and properties of the others
hold of their initial states.

### State and actions against the code

*Tables.* A table is a function from its primary key to its rows: `User` and
`Chars` of the two `CREATE TABLE` statements. `ExecRcOfCallback` is the one fact
about SQLite that matters: a callback that returns non-zero makes `sqlite3_exec`
return `SQLITE_ABORT`. A request is one step of the database, because its main
loop serves one connection at a time. `process_data(req)` is the change of the
tables, `Reply(req)` the record that goes back.

*Clients.* `session_state`, `username`, `character` and `counter` are the globals
of `client.c`. `cpc[c]` says where the process is: not started, at the prompt,
blocked in a named call, leaving, gone. A command is an action `..._command`
(or `point`, `quit`, `logOut`) that ends by sending a request, and a `..._reply`
action that handles the answer. Its guard is the parser's `actionOnState` table
(115-182, 197).

*Sessions.* `spc[s]` is the next step of a session: accept, receive, process,
ask the database, send; or the way it ended: a return, `exit(1)`, a bad pointer,
SIGPIPE, or a lost race at the database. `NextStep` is the chain of tests of
`server_process_data`, in the code's order, with its null-pointer dereference.
`data_to_client` stays from one turn to the next, as in the code.

*Connections.* `c2s` and `s2c` are the bytes in flight. End-of-file is an empty
`c2s` with the client gone. `receiveData` does not recognise it, so the session
handles a record in uninitialized memory: one of `Garbage`, all zero bytes (which
reads as LOGIN with empty names) or bytes that mean nothing. A write to a closed
peer raises SIGPIPE. The server's main process keeps its copies of the descriptors
(`server.c:78-86`), so a client never sees the end of its session.

*Failures.* `clt_sigRutine` is Ctrl-C at any moment; `connection_lost` is the
death of a client without a word; `connect_collision` is the lost race of
`databasecomm.c:61-75` and `121-135`, whose loser is blocked in `open()` for ever
or killed by SIGPIPE.

*Restarts.* `GameRestart` adds who runs (`running`) and the clients whose connection
has lost its other end (`cut`). `start_database` empties the tables, as
`initialize_table` does. `srv_sigRutine` ends main and all sessions in one step; a
client that waits then reads end-of-file, which `communicate` takes for a record
(`receive_eof`), and one that sends dies of SIGPIPE. `stale`, `freed` and
`overwritten` are history: who holds an account of tables that are gone, whether such
a client has freed an account of the new ones, and which new characters it has saved
its own over.

*Handshakes.* `Fifo` has what the operating system does: `open` for reading waits for
a writer and the other way round, the bytes go when the last descriptor is closed, a
read without a writer is end-of-file, a write without a reader raises SIGPIPE. A
program counter per process (`spc`, `cpc`, `mpc`, `dpc`) names the next system call.
`requester` (`connectionRequest` in the code) is not cleared between two accepts and
keeps its old value when the read meets end-of-file. In `FifoServer` and `SocketServer`
the fork of a session may fail: main does not look (`server.c:78`), and `forkless`
remembers whose it was. `srv_sigRutine` ends main, there with its descriptors or its
backlog, at any step.

*Descriptors.* Only their numbers: `used` of main, `inherited` and `sused` of each
session. The handshake is one step that waits while the database serves another.

*Logs.* `QueueLog` fills the process's global message in one step and sends it in
another, so that the handler for Ctrl-C can come between. `SharedMemLog` has every
assignment to the segment and every read from it as a step; `printed` is history, and
gets what `printMessage` prints. The queues of
`QueueLog` outlive all processes and may hold messages of an earlier run.

*Threads.* `ThreadedServer` fills the message that all threads share in two steps.
`accept` is `comm_accept` and `pthread_create`, which may fail unnoticed. It counts on
behind the `MAX_THREADS` places of `thread_id`: the session after the last place writes
over `listener` and `db_connection`, and from then on `overrun` may end the process at
any time. The number that a session logs is text, and left out.

*Text.* A character is a letter that some command begins with, a space or a newline;
`user_input` and the two buffers of the scan keep their contents. `position` and `args`
are the `i` and the table of `splitArgs`, which takes a step for each word
(`splitArgs` the first, `splitArgs_loop` the others); `parser` is what follows.

### Abstractions and bounds

* User, password and character names are compared and nothing else, so they are
  model values. The SQL texts, the widths of the string fields and the log
  messages are left out.
* `LEVEL_MAX`, `levelsExp` and `LIMIT_TOSAVE` are constants. The `10` that
  `create_char` writes is `levelsExp[1]` (`lvl1` in `constants.h:7`).
* `MaxExp` bounds how long a client keeps typing `p` at the highest level.
* A client process connects once, so sessions are named by their clients.
* `MaxFaults`, `MaxInterrupts`, `MaxStarts`, `MaxKills` bound how often something
  ends or starts; `MaxSessions`, `MaxMessages`, `MaxInput`, `MaxPoints`, `MaxLines` how
  long a behaviour can be. `OpenMax`, `Capacity`, `MAXQ_SIZE`, `BUFFERSIZE` and
  `CANT_ARGS` are the program's or the system's limits, made small to be reached.
  `Bases` are the descriptors that main may have before its first client, and
  `MaxSem` the values of a semaphore that `sem_open` reads from no argument.

## 3. The runs

| Run | Instance | What it shows |
|---|---|---|
| `database` | 2 accounts, 1 password, 2 characters, every request | owners never change, busy characters stay |
| `game` | 2 clients, 1 account, 1 character, 2 levels | the first two layers of the inductive invariant; the played character is held; answers match calls; the ends of sessions strand nobody; progress never goes back |
| `calls` | 2 clients, 1 account, fairness | exclusive logins and `AccountLock`; every call returns or its session lost the race at the database; session processes end |
| `restart` | 2 clients, 1 account, 2 faults | the system implements `RestartLock`: accounts stay exclusive until a client of emptied tables logs out |
| `player` | 1 client, 3 levels, saves every 3rd point, 2 faults, fairness | unsaved points are bounded, levels and experience agree; which calls return under faults; Ctrl-C at the server frees every waiting client |
| `rendezvous` | 2 sessions, 1 interrupted, 2 starts of the database; 4 clients on 7 descriptors | the handshake implements `Rendezvous`; own answers; winners; a database that comes back; what the leaks lead to |
| `connect` | 3 clients, 1 Ctrl-C, at a client or the server; 2 servers, backlog 1 | the same over `commfifos.c`; who gets a session, and how many, over FIFOs and sockets, with forks that fail; nobody gets lost in a backlog |
| `logging` | 2 processes on a queue of 2; main and daemon; 2 threads on a queue of 1, with 1 place in `thread_id` | the queue log implements `Log`, and neither a sender nor the handler for Ctrl-C waits for ever while a daemon runs; on shared memory the daemon prints the first message, and no message by half with a type; the threaded server accepts clients and ends by Ctrl-C although its sessions log without end, until a session overruns the table, and only threads that log at once mix messages |
| `text` | lines of up to 5 characters, input of 6; files of 4 lines | the parser against the words of a line; lookups return the first entry |
| `quota` | 1 client, 6 characters | *violated*: the sixth character is created |
| `user_busy` | 2 clients, 1 account | *violated*: "already logged" with nobody logged in |
| `shared_mem_accept` | main and daemon | *violated*: the server does not get to its first accept |

Why these bounds are enough to be interesting. Two clients are the number it takes
for a race, for a collision at the database and for a stranded account, and one
account and one character make them meet on it. The two levels of `game` need no
experience, so that saving, playing unsaved at the cap and losing the connection all
happen in few steps. The three levels of `player` have different needs, one of them
zero, so that the level test, the save counter and the cap meet in every phase. Two
faults let the database end and come back between a login and a logout, or the server
end under a client that a database restart has stranded. Characters are left out of
`calls`, `restart` and `user_busy`, where no property looks at one: the lock and the
calls are the same for every opcode, and `game` has them.

In `rendezvous` two sessions collide in every way two can, with a fault before, inside
and after; a third one could only collide with one of them. Seven descriptors let a
session make two calls at most before it gives up, with the 1 or 2 that main starts
with. In `connect` the third client makes the interrupted one and a collision happen
together, and with a backlog of one it has to wait in `connect`; after one Ctrl-C the
handshakes are out of step for good, and a second one would only add a dead process.
The queue of `logging` is full after one message of each process, and the handler for
Ctrl-C has another to send. One session of the threaded server is enough to keep a
queue full, and the second already overruns a `thread_id` of one place; the server was
also checked with two places and three clients (129 762 states).

Symmetry over clients is used in `game`, `restart` and `user_busy`, over names in
`quota`; no run with fairness uses it. Deadlock is not checked where the system may
stop: when the clients are gone, when processes hang in `open` or on a mutex, when the
daemon is down and the queue full. The database run checks it.

`UnsavedBoundedWhileUp` deserves a word. `counter == LIMIT_TOSAVE` is tested before the
increment, so the save happens at the eleventh point with the program's ten. At
the level cap `point()` returns before the counter is touched, which adds the
`+ 1`. A client that has seen its last save answered has nothing unsaved. None of this
holds for a client without a server: it takes end-of-file for the answer to its save.
Nor does it for a character of new tables over which a client of earlier ones saves
its own of that name; that takes a second client, so the property was also checked
with two clients, one character and one fault (54.5 million states), an instance too
large to be a run.

### Fairness

`FairSpec` of `GameSystem` assumes that the operating system runs every process that
can run: weak fairness of each client's handling of an answer, of its final
disconnect, and of each session's steps. The last includes the database's step, which
is enabled as long as the session waits for it. Nobody is assumed to type a command,
to press Ctrl-C, to lose a connection, to collide, or to start what has ended.

The other modules do the same for the steps of their processes. Strong fairness is
assumed of two waits that others can overtake: `msgsnd` into a full queue, and
`connect` to a full backlog. The system wakes whoever waits there when there is room,
so a process that finds room again and again gets in.

## 4. What the runs found

* **The quota of five characters is never applied** (`database.c:262`). The
  callback returns the count; `sqlite3_exec` turns it into `SQLITE_ABORT`, which
  is 4; the code compares that with 5. The stored count goes 0, 1, 5 and stays
  there. `client.c:389` says "You can not have more characters than five."
* **An interrupted client locks its account for ever** (`server.c:173`,
  `client.c:563`). The session exits without a logout, and the account's `Inuse`
  mark stays. `client.c:299` then says "This user is already logged."
* **With the shared-memory log the server never accepts a client**
  (`daemonSharedmem.c:140`). `sndMessage` locks the process's own mutex and nobody
  unlocks it, so the second message of main blocks. `Makefile:1-2` offers shared
  memory as one of two options.

What holds although it looks wrong: the null pointer of `server.c:139` and the
resent reply of `server.c:103` are never met by a client that waits for an answer
(`SessionEndStrandsNobody`, `AnswersMatchCalls`), because a client that sends
anything but a login first has had a reply.

What the properties have to leave room for, because the code behaves that way:

* A session that asks after another's id was read can be lost although nobody else
  asks any more (`databasecomm.c:135`): `Rendezvous` counts a requester that was
  taken already as a rival.
* A session that Ctrl-C ends inside the handshake can leave the database in `open`
  for ever (`databasecomm.c:140`), and so does a session that has run out of
  descriptors (`commlib.c:22`): then nobody is served again.
* After a client is interrupted while it connects over FIFOs, the server can fork a
  second session for another client, because `connectionRequest` keeps its value
  (`commfifos.c:118`), or hang.
* A client of emptied tables that logs out frees the account under the client that
  holds it now (`database.c:360`, `freed` in `GameRestart`). One that saves does so
  by name, over a new character of the name of its own (`database.c:376`,
  `overwritten`).
* A client that has lost its server takes end-of-file for an answer: a player goes on
  with points that nobody saved (`APIclient.c:165`).
* The daemon on shared memory starts with a turn that nobody posted
  (`daemonSharedmem.c:83`): it prints a message that nobody wrote, or half a one, of
  type 0, which may end it. `TypedMessageIsWhole` is about the others.
* A client whose fork failed, or whose session died, stays connected to nobody: main
  still has its descriptors, and its calls are never answered (`server.c:78`).
* The session after the last place of `thread_id` overwrites the pointers behind it
  (`serverThread.c:88`): no promise of the threaded server reaches further.
* A thread's log message can be a mixture of two (`daemonqueues.c:85`), and no call of a
  client of the threaded server is ever answered (`serverThread.c:105`).
* At end-of-file the client runs its last command again and again (`client.c:104`):
  `PointsWereTyped` holds up to there.
* A line without a value keeps the value of an earlier line or call
  (`commlib.c:40`): `ReturnsFirstEntry` is about well-formed files.

## 5. The proofs

`tlapm` on each of the eight modules below proves, for every value of the constants
that the named assumptions allow:

| Module | Theorem | Statement |
|---|---|---|
| `GameProofs` | `TypeInvariantHolds`, `TypeCorrect` | `Spec => []TypeInvariant`, `Spec => []TypeOK` |
| | `CallInvariantHolds` | `Spec => []CallInvariant` |
| | `SessionEndIsHarmless` | `Spec => []SessionEndStrandsNobody` |
| | `AccountInvariantHolds` | `Spec => []AccountInvariant` |
| | `LoginIsExclusive` | `Spec => []ExclusiveLogin` |
| | `SystemImplementsLock` | `Spec => ImplementsAccountLock` |
| | `CharacterInvariantHolds` | `Spec => []CharacterInvariant` |
| | `CharacterHeldWhilePlayed` | `Spec => []PlayedCharacterHeld` |
| | `AnswersAreToCalls` | `Spec => []AnswersMatchCalls` |
| | `ExperienceInvariantHolds` | `Spec => []ExperienceInvariant` |
| | `ExperienceIsConsistent` | `Spec => []ExperienceConsistent` |
| | `SavedProgressStays` | `Spec => ProgressNeverLost` |
| `GameRestartProofs` | `RestartInvariantHolds`, `RestartTypeCorrect` | the inductive invariant under restarts; `RestartSpec => []RestartTypeOK` |
| | `ExclusiveSinceRestartHolds` | `RestartSpec => []ExclusiveSinceRestart` |
| | `RestartImplementsLock` | `RestartSpec => ImplementsRestartLock` |
| | `RestartExperienceHolds`, `RestartCharactersHold`, `RestartSavesHold` | the inductive invariants of characters and progress under restarts |
| | `ExperienceStaysConsistent` | `RestartSpec => []ExperienceConsistent` |
| | `UnsavedStaysBounded` | `RestartSpec => []UnsavedBoundedWhileUp` |
| | `SavedProgressStaysUnderRestarts` | `RestartSpec => [][ProgressKept]_allVars` |
| `DatabaseProofs` | `OwnersNeverChangeHolds` | `ServiceSpec => OwnersNeverChange` |
| | `BusyCharacterIsKept` | `ServiceSpec => BusyCharacterKept` |
| `RendezvousProofs` | `HandshakeInvariantHolds`, `RaceInvariantHolds` | the inductive invariants of the handshake |
| | `AnswersAreOwnAnswers` | `MCSpec => []AnswerIsOwn` |
| | `HandshakeImplementsRendezvous` | `MCSpec => ImplementsRendezvous` |
| | `TablesInvariantHolds` | the inductive invariant of the descriptors |
| | `CallsUntilExhaustion` | `MCSpec => []CallsBeforeGivingUp` |
| | `ExhaustionHangsDatabase` | `MCSpec => []GivingUpHangsDatabase` |
| `ConnectProofs` | `ConnectInvariantHolds`, `RaceInvariantHolds` | the inductive invariants of the connection |
| | `OneSession` | `MCSpec => []OneSessionPerClient` |
| | `ConnectImplementsRendezvous` | `MCSpec => ImplementsRendezvous` |
| | `SocketInvariantHolds` | the inductive invariant of the connection over sockets |
| | `SocketClientsAreKept` | `MCSpec => []ConnectedIsKept` |
| | `OneSessionEach` | `MCSpec => []ClientsGetOneSession`, the two together |
| `LoggingProofs` | `SharedMemInvariantHolds`, `QueueInvariantHolds` | the inductive invariants of the two logs |
| | `TypedIsWhole` | `MCSpec => []TypedMessageIsWhole` |
| | `InterruptEndsBeforeLogging` | `MCSpec => []InterruptEndsOnlyBeforeLogging` |
| | `QueuesImplementLog` | `MCSpec => ImplementsLog` |
| `TextProofs` | `PromptInvariantHolds` | the inductive invariant of the prompt |
| | `ParserIsExactHolds` | `MCSpec => ParserIsExact` |
| | `QuitWasTyped` | `MCSpec => []LeavesOnQuitOnly` |
| | `PointsComeFromInput` | `MCSpec => []PointsWereTyped` |
| | `LookupReturnsFirst` | `MCSpec => []ReturnsFirstEntry` |

`FifoProofs` is the eighth and has lemmas only. Every inductive invariant was checked
by TLC before it was proved: the layers of the game on the instance of `game`, those of
the other modules on the instances of their runs, those of the logs on larger ones and
that of the prompt on one with a buffer of 4 and a table of 3.
Where the runs state fairness the theorems need none.

### Assumptions

| Assumption | Says | Used for |
|---|---|---|
| `GameAssumption`, `NullAssumption` | the sentinels are no inputs, there is a level, the table has natural numbers | all of the game |
| `LockAssumption` | `Free` and `Abandoned` are no clients | the refinement of `AccountLock` |
| `RequestSetAssumption` | the database is served records of the request's type | the database alone |
| `RendezvousAssumption`, `FifoServerAssumption` | the acceptor and the sentinels are no requesters | the handshakes |
| `DescriptorAssumption` | the sentinels are no clients; the table and what main starts with are natural numbers | the descriptors |
| `SocketAssumption` | no server and an earlier run's server are no servers; `MAXQ_SIZE` is a natural number | the connection over sockets |
| `QueueAssumption`, `SharedMemAssumption` | `NoLogger` is no process; capacity and bounds are natural numbers | the logs |
| `ThreadAssumption` | main is no session; the queue and the table have room for one | the threaded server |
| `CommandLineAssumption` | the buffer has room for two characters, the table for a name and two parameters | the prompt |

TLC evaluates them in every run of a module that extends theirs.

### The running system

The argument has five layers, each inductive with those before it.

1. *Records* (`TypeInvariant`). `TypeOK` is not inductive: `create_account` puts
   the request's name into a table, so what requests carry must be known.
   `RecordsWellFormed` says that a request has the fields its handler reads, that
   a granted reply names a user, and that a client in a logged-in state has a name.
2. *Calls* (`CallInvariant`). At the prompt nothing of a client is in flight; in a
   call exactly one record is, on its way there or back, about the call the client
   waits in. With it: a logged-in client's session has had a reply. Without the
   second part the null pointer would be reachable; without the first a reply
   could be read by another call than its own.
3. *Accounts* (`AccountInvariant`). Two logged-in clients with one name must be
   excluded, but a client *becomes* logged in by reading a reply that the database
   gave long before. So "holds" must cover a granted login on its way back, and
   requests of a client that are still on their way, those of an interrupted
   client included: a late LOGOUT must not free an account that somebody else has
   been given. Every account held in this sense is marked in use, and no two
   clients hold one. The database step is the only one that creates or removes a
   mark (`HandlersKeepMarks`, `DatabaseEffect`).
4. *Characters* (`CharacterInvariant`). A client plays a copy of a row, and saves
   the copy. The copy exists in three places, one after the other or two at a time:
   in the granted selection on its way to the client, in the client, and in a save on
   its way to the database (`Copies`). The row of every copy is there, is marked, and
   belongs to an account that the copy's client holds; so by layer 3 no other client
   can delete it, select it or log its account out. All copies of one client are
   equal. What is needed besides: no character is marked in an account whose holder
   has yet to select one (`MarkedWithin`), or the reply to a selection would be one
   for a row that somebody plays.
5. *Answers and progress* (`AnswerInvariant`, `ExperienceInvariant`). What is on
   its way back answers the call. Level, total and current experience of every row and
   copy fit together (`Consistent`), and no copy is behind its row, so a save never
   puts the row back.

A step belongs to one client and its session (`StepIsLocal`), so every layer has a
lemma per group of actions for that client, and one that the others keep theirs.
For the accounts the lemmas meet in `StepEffect`: a step of `c` gives up what `c`
held, or grants a free account to `c`, which held none, or returns the account of
`c`. `EffectKeepsAccounts` draws the third layer from it, and `EffectRefines` the
step of `AccountLock`: abandon, acquire (or waste, when `c` was interrupted while it
waited), release. The refinement also needs that a client holds one account at most
(`OneAccount`), which follows from the call discipline. For the characters
`StepCopies` has the same role: copies that a step of a client leaves are old ones, or
the one that `point()` has moved on by a point.

The points of the levels below, `PointsBelow`, are a recursive function, of which the
prover only has a `CHOOSE`. `PointsBelowUnfolds` shows that a function with the recursion
equation exists, from a counterexample with the least argument (`LeastElement`, an
instance of well-foundedness of the natural numbers, which needs no operator as
a parameter). From there `PointGainsOne` is arithmetic: one `p` is one point,
also across a level.

The two theorems about the database alone hold for every set of requests. Their
invariant, `TablesHaveRows`, is weaker than `DBTypeOK`: a request may carry the
name of an account nobody created, and `DBTypeOK` is not inductive then. Each
handler is shown to keep owners (`HandlersKeepOwners`) and busy characters
(`HandlersKeepBusy`) on rows of this type.

### Restarts

`RestartInvariant` says the layers on records, calls and accounts of one client at a
time, so that what a fault does to one client does not spoil them for another. A client
with both ends of its connection is strictly call - return, or `Orphaned`: its session
came to a database that was just starting and exited. A client that Ctrl-C has `cut` off
has no session and nothing on its way there (`CutOff`), but may still read an answer it
had got, so `Keeps` leaves out one account only, that of a client that waits for the
answer to its logout. The accounts are exclusive among the clients that are not `stale`,
until one that is has `freed` one. A step of a client with both ends is one of
`GameSystem`, and the lemmas of `GameProofs` (`SessionCalls`, `StepEffect`) apply as
they are; a lemma for each fault says what is left: `KillAccounts`,
`InterruptAccounts`, `StartAccounts`.

What this leaves of the account lock is a refinement. `RestartLock` is `AccountLock`
with three things more: a start frees every account, several accounts may be abandoned
in one step, and an outsider may break the lock, after which anything goes until the
next start. The mapping (`HolderSince`) is that of `AccountLock` without the stale
clients, and the lock is broken when `freed` is true. Its lemmas go by what a step
does to the clients that keep an account: a fault makes them give theirs up at most
(`OnlyGivesUp`, from which `FewerKeepersRefine` draws `AbandonAll`), a step of one
client is one of the five of `StepEffect` (`EffectRefinesSince`), and of a stale client
either nothing or a break. An account granted to a client that is stale is granted in
vain, like one granted to an interrupted client. `ExclusiveSinceRestart` says the same
of the state alone: no two clients are logged in to one account of one run of the
database unless it is broken.

Three more invariants stand on it.

* `RestartExperience`: rows and copies are consistent. It needs no owner of a row, but
  it must not forget a character while its player waits for the answer to a logout: the
  answer may be end-of-file, and the player goes on to play. `KnownTo` is `Copies`
  with that character in it. No fault tells anybody of a character (`FaultTellsNothing`).
* `RestartCharacters`: the characters of the clients that are `Fresh`, neither cut off nor
  stale, are held as in layer 4, and a client has one. `freed` and `stale` are all that
  is left out: a logout that frees an account under a fresh client is a stale client's
  (`TurnSparesFresh`), and a client that has a copy holds an account
  (`CopyNeedsHolder`), so that it was fresh before a step if it is fresh after it
  (`CopyWasFresh`).
* `RestartSaves`: while the database runs, the copy of a fresh client is not behind its
  row, it is ahead by what `counter` has counted and the one point at the level cap
  (`OverCap`), and not ahead at all once a save is answered. The last part is what makes
  the counter's reset right, and what fails when the database ends: a session then takes
  end-of-file for the answer. `CallMovesOn` says how a call of a client that plays can
  go on; a turn of the database for another client that writes the row is a stale
  client's, and `overwritten` remembers it (`OthersKeepSaves`).

`UnsavedBoundedWhileUp` follows from the four, with `counter <= LIMIT_TOSAVE`. So does
`ProgressKept`: in a step after which nobody of earlier tables has freed an account or
saved over the row, its progress does not go back.

TLC checked `RestartInvariant` on the instances of `restart` (2.0 million states),
`player` and `restart` with a character and one fault (12.6 million), and the other
three on the instance of `player` (535 274 states) and on one with two clients, one
character, one level and one fault (32.3 million).

### The handshakes

`AnswerIsOwn` and `ImplementsRendezvous` are about a handshake without faults, but the
first also says that an end-of-file is taken for an answer only after a fault. So the
invariant of `DBRendezvous` has two parts. `AnswersAreOwn` holds whatever faults there
are: what is in the two FIFOs of a session is its request and its answer, or the
`Garbage` of an end-of-file. `Orderly` holds until the first fault: the listening FIFO
is open for writing by exactly the sessions between their `open` and `close`, with
each process id at most once (`ListenerOrder`); the database and the session it serves are
within one step of each other (`InStep`); each end of the pair is open in exactly
the steps in between (`PairOrder`); the pair holds one request or one answer
(`DataOrder`). A lemma per group of steps shows that other sessions keep theirs.

The refinement needs one thing more, `RaceOrder`: two sessions that are asking or taken
know that they raced, and so does one that is let into the listening FIFO and finds
nobody there any more. That one is the case that decides whether a lost request is allowed
by `Rendezvous`. Every step is then one of `Ask`, `Take`, `Finish`, `Leave`, `Lose`, or a
stutter; a lemma for each group of steps of the code says which.

`FifoServer` has the same argument with the differences of `commfifos.c`: a client's
FIFOs are used once, and the server's ends of them stay open until it ends; a client
may come while the server replaces the FIFO under its address, and waits in the old one;
a client that was served has one session or its fork has failed (`AcceptedOnce`). The
last is `OneSessionPerClient`, and outlives Ctrl-C at the server, which accepts nobody
after it; so it is a part of the invariant of its own, up to the first interrupted
client.

Over sockets the system keeps the connections, so there are no races and no
faults to leave out. A backlog holds, once each, the clients that have reached its server
and were not accepted (`BacklogOrder`), and whoever has reached a server has its session
there, or has none because the fork failed, or is in its backlog, unless Ctrl-C took
the backlog away (`ClientReached`).
`ConnectedIsKept` follows, whoever has taken the address since.

The lemmas that the two over FIFOs need are in `FifoProofs`: what `open` and `close` do to each field,
that each operation keeps the type, and when a queue of distinct ids stays one.

Of the descriptors the invariant is an equation: what a session uses is what it
inherited, one for every call it has made and what the present call has taken.

### The logs

In `SharedMemLog` main may be inside `sndMessage` when the handler for Ctrl-C calls it
again, so its state is a stack of calls. At most one call on it is ever past the
mutex, which nobody unlocks (`CallsOrder`), and what that call wrote is still in the
segment (`CallsWritten`). The daemon may read at any time, for its first turn needs no
post and the two lock different mutexes. What saves it is the order of the fields:
main writes the sizes last, so a segment with sizes is whole (`SegmentIsWhole`), and
nobody writes to it again; the daemon reads the sizes first, so what it reads after it
has seen them is that segment (`ReadIsWhole`). Without sizes it prints a type of 0.

For `QueueLog` the refinement mapping takes the message that the daemon has received and
not yet printed as the head of what is still to come; a killed daemon loses
that one and no other. The invariant bounds how many messages a process sends: its
quota, and one more from the handler.

### The text

What a line's words are is defined from its cuts: the two ends and every space.
`splitArgs` is a loop, and what it has done after each turn is an invariant of the loop:
the words so far are the first ones of the line, and `position` is the cut behind them
(`WordsUpTo`). The number of cuts up to it, its `Rank`, is one more than the number of
words; the next turn ends at the next cut (`WordToCut`), whose rank is one more
(`RankOfNext`), and at the end of the line all cuts are counted (`LineIsSplit`). So no
induction over the line is needed. A line that is given up, for a space in front or for
too many words, is none of a command (`SpaceFirst`, `TooManyWords`).

For the two properties about what was typed the invariant says where in the input the
buffer is from (`BufferIsPiece`): the buffer is a piece that begins a whole number of
buffers behind the beginning of a line, or, at the end of the input, a piece that was
read before. Each word of one letter was therefore typed (`LetterWasTyped`), and a point
that is counted is a `p` behind those of the earlier pieces.

The scan of the configuration file has the same kind of invariant (`LookupScans`): no
line that has been read defines the name, and the word in the first buffer is that of a
line that has been read, whatever the buffer held before.

### Only model-checked

* Liveness under fairness, which is out of the prover's reach: `CallsReturn`,
  `SessionsEnd`, `CallsReturnOrStranded`, `InterruptFreesClients`, `RaceHasAWinner`,
  `DatabaseComesBack`, `ConnectedClientsServed`, `FifosKeepAccepting`, `WaiterGetsIn`,
  `SendReturns`, `InterruptEnds`, `MessageReachesDaemon`, `MainGetsThrough`.
* `ThreadedServer` as a whole, `MixturesNeedTwoLoggers` included.

All other safety properties that the runs check are proved. The `TypeOK` of the modules
without theorems says what their variables range over.

## 6. Not modelled, and the plan

Not modelled:

* `sqlite3.h`, a third-party header of 10 342 lines, of which the program uses a few
  result codes. It is three quarters of the lines under `src/`.
* `semaphores.c`, which is linked but never called.
* What stands behind the inner loop of `serverThread.c:105`: the threads' receiving,
  processing and answering cannot be reached.
* SQL texts, the layout of records, the width of string fields and of the buffers of
  `commlib.c` (whose addresses are longer than `BUFF_SIZE`), the wording of messages.
* What undefined writes do in detail: `ThreadedServer` lets a session too many, which
  overwrites the pointers behind `thread_id`, end the process at any time or do no harm,
  and `SharedMemLog` says the same of what `pthread_mutex_init` writes behind an
  allocation of a pointer's size.
* A `fork` that fails, in the running system: every session of `GameSystem` starts.
  `FifoServer` and `SocketServer` have the failure, whose client is connected to nobody;
  none of its calls would return.
* A `commconfig.txt` that cannot be opened: `ConfigLookup` starts behind `fopen`.
  `Descriptors` has the one failure that is not a matter of installation.
* Descriptors in the running system: `GameSystem`'s sessions are short enough not to
  run out of them, and its database never hangs; `Descriptors` has both.
* In `GameRestart` a client that is still connecting when the server ends: over FIFOs
  its handshake and Ctrl-C at the server are `FifoServer`'s matter, over sockets it is in
  the backlog that `srv_sigRutine` of `SocketServer` empties.

What the plan has left: `ProgressKept` as an action property of a run. It is proved for
`GameRestart` (`SavedProgressStaysUnderRestarts`), and was left out of the runs because a
client of earlier tables and a player make the instance too large.

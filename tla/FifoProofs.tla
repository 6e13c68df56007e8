----------------------------- MODULE FifoProofs -----------------------------
(***************************************************************************)
(* What the operations on a FIFO do to its parts, for any set of processes *)
(* and of messages (Fifo): the lemmas that the proofs about the database's *)
(* handshake and about the server's rest on.                               *)
(***************************************************************************)
EXTENDS Fifo, Integers, Functions, TLAPS

\* open(2) of either end: the two lists of users, who waits, the bytes.
LEMMA OpenFields ==
  ASSUME NEW P, NEW M, NEW f \in FifoType(P, M), NEW p
  PROVE  /\ OpenReader(f, p).readers = f.readers \cup {p}
         /\ OpenReader(f, p).writers = f.writers
         /\ OpenReader(f, p).waiting =
              (f.waiting \ f.writers) \cup IF f.writers = {} THEN {p} ELSE {}
         /\ OpenReader(f, p).data = f.data
         /\ OpenWriter(f, p).readers = f.readers
         /\ OpenWriter(f, p).writers = f.writers \cup {p}
         /\ OpenWriter(f, p).waiting =
              (f.waiting \ f.readers) \cup IF f.readers = {} THEN {p} ELSE {}
         /\ OpenWriter(f, p).data = f.data
BY DEF FifoType, OpenReader, OpenWriter

\* close(2): the bytes are lost with the last user.
LEMMA CloseFields ==
  ASSUME NEW P, NEW M, NEW f \in FifoType(P, M), NEW p
  PROVE  /\ Close(f, p).readers = f.readers \ {p}
         /\ Close(f, p).writers = f.writers \ {p}
         /\ Close(f, p).waiting = f.waiting \ {p}
         /\ Close(f, p).data =
              IF (f.readers \cup f.writers) \ {p} = {} THEN << >> ELSE f.data
BY DEF FifoType, Close, Users

\* write(2) and read(2) change the bytes and nothing else.
LEMMA DataFields ==
  ASSUME NEW P, NEW M, NEW f \in FifoType(P, M), NEW m
  PROVE  /\ Write(f, m).readers = f.readers
         /\ Write(f, m).writers = f.writers
         /\ Write(f, m).waiting = f.waiting
         /\ Write(f, m).data = Append(f.data, m)
         /\ Consume(f).readers = f.readers
         /\ Consume(f).writers = f.writers
         /\ Consume(f).waiting = f.waiting
         /\ Consume(f).data = Tail(f.data)
BY DEF FifoType, Write, Consume

\* Every operation gives a FIFO of the same processes and messages.
LEMMA FifoTypes ==
  ASSUME NEW P, NEW M, NEW f \in FifoType(P, M), NEW p \in P
  PROVE  /\ NewFifo \in FifoType(P, M)
         /\ OpenReader(f, p) \in FifoType(P, M)
         /\ OpenWriter(f, p) \in FifoType(P, M)
         /\ Close(f, p) \in FifoType(P, M)
         /\ \A m \in M : Write(f, m) \in FifoType(P, M)
         /\ HasData(f) => Consume(f) \in FifoType(P, M) /\ Head(f.data) \in M
PROOF
<1>1. << >> \in Seq(M)
  OBVIOUS
<1>6. NewFifo \in FifoType(P, M) /\ Close(f, p) \in FifoType(P, M)
  BY <1>1 DEF FifoType, NewFifo, Close
<1>7. OpenReader(f, p) \in FifoType(P, M) /\ OpenWriter(f, p) \in FifoType(P, M)
  BY DEF FifoType, OpenReader, OpenWriter
<1>2. \A m \in M : Append(f.data, m) \in Seq(M)
  BY DEF FifoType
<1>3. \A m \in M : Write(f, m) \in FifoType(P, M)
  BY <1>2 DEF FifoType, Write
<1>4. HasData(f) => Tail(f.data) \in Seq(M) /\ Head(f.data) \in M
  BY DEF FifoType, HasData
<1>5. HasData(f) => Consume(f) \in FifoType(P, M)
  BY <1>4 DEF FifoType, Consume
<1> QED BY <1>6, <1>7, <1>3, <1>4, <1>5

\* Process ids are appended to the listening FIFO and taken from its head.
LEMMA Queue ==
  ASSUME NEW S, NEW q \in Seq(S), NEW m \in S
  PROVE  /\ Range(Append(q, m)) = Range(q) \cup {m}
         /\ IsInjective(q) /\ m \notin Range(q) => IsInjective(Append(q, m))
         /\ Append(q, m) # << >>
         /\ q # << >> => /\ Range(q) = Range(Tail(q)) \cup {Head(q)}
                         /\ IsInjective(q) => /\ IsInjective(Tail(q))
                                              /\ Head(q) \notin Range(Tail(q))
         /\ Range(<< >>) = {} /\ IsInjective(<< >>)
         /\ q = << >> <=> Range(q) = {}
PROOF
<1>1. /\ Range(Append(q, m)) = Range(q) \cup {m}
      /\ IsInjective(q) /\ m \notin Range(q) => IsInjective(Append(q, m))
      /\ Append(q, m) # << >>
  BY DEF Range, IsInjective
<1>2. ASSUME q # << >>
      PROVE  /\ Range(q) = Range(Tail(q)) \cup {Head(q)}
             /\ IsInjective(q) => /\ IsInjective(Tail(q))
                                  /\ Head(q) \notin Range(Tail(q))
  <2>1. /\ Len(q) \in Nat \ {0} /\ DOMAIN q = 1..Len(q) /\ Head(q) = q[1]
        /\ DOMAIN Tail(q) = 1..(Len(q) - 1)
        /\ \A i \in 1..(Len(q) - 1) : Tail(q)[i] = q[i + 1]
    BY <1>2
  <2>2. \A i \in DOMAIN q : i = 1 \/ (i - 1 \in DOMAIN Tail(q) /\ Tail(q)[i - 1] = q[i])
    BY <2>1
  <2> QED BY <2>1, <2>2 DEF Range, IsInjective
<1>3. Range(<< >>) = {} /\ IsInjective(<< >>)
  BY DEF Range, IsInjective
<1>4. q # << >> => Head(q) \in Range(q)
  BY <1>2
<1> QED BY <1>1, <1>2, <1>3, <1>4

\* Who has no end of a FIFO closes nothing.
LEMMA CloseStranger ==
  ASSUME NEW P, NEW M, NEW f \in FifoType(P, M), NEW p,
         p \notin f.readers, p \notin f.writers, p \notin f.waiting,
         Users(f) = {} => f.data = << >>
  PROVE  Close(f, p) = f
PROOF
<1>1. /\ Users(f) \ {p} = Users(f) /\ f.readers \ {p} = f.readers
      /\ f.writers \ {p} = f.writers /\ f.waiting \ {p} = f.waiting
  BY DEF Users
<1>2. (IF Users(f) \ {p} = {} THEN << >> ELSE f.data) = f.data
  BY <1>1
<1>3. f = [readers |-> f.readers, writers |-> f.writers, waiting |-> f.waiting,
           data |-> f.data]
  BY DEF FifoType
<1> QED BY <1>1, <1>2, <1>3 DEF Close
=============================================================================

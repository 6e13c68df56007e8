-------------------------------- MODULE Log --------------------------------
(***************************************************************************)
(* What a logging daemon promises: it prints the messages that were logged,*)
(* each once and in their order.  A daemon that is killed may take one     *)
(* message with it.                                                        *)
(***************************************************************************)
EXTENDS Naturals, Sequences

CONSTANT Messages

VARIABLES
  pending,    \* logged and not printed
  printed,    \* the messages printed last: at most one, none at first
  running     \* whether the daemon runs

vars == <<pending, printed, running>>

TypeOK ==
  /\ pending \in Seq(Messages)
  /\ printed \in Seq(Messages) /\ Len(printed) <= 1
  /\ running \in BOOLEAN

Init ==
  /\ pending \in Seq(Messages)
  /\ printed = << >>
  /\ running = FALSE

Log(m) ==
  /\ pending' = Append(pending, m)
  /\ UNCHANGED <<printed, running>>

PrintOne ==
  /\ running /\ pending # << >>
  /\ printed' = <<Head(pending)>>
  /\ pending' = Tail(pending)
  /\ UNCHANGED running

Start ==
  /\ ~running /\ running'
  /\ UNCHANGED <<pending, printed>>

Kill ==
  /\ running /\ ~running'
  /\ \/ UNCHANGED pending
     \/ pending # << >> /\ pending' = Tail(pending)
  /\ UNCHANGED printed

Next == (\E m \in Messages : Log(m)) \/ PrintOne \/ Start \/ Kill

Spec == Init /\ [][Next]_vars
=============================================================================

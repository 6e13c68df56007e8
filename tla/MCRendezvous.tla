---------------------------- MODULE MCRendezvous ----------------------------
(***************************************************************************)
(* Small instances of the sessions' connection to the database: its        *)
(* handshake, step by step (DBRendezvous), and the descriptors that a      *)
(* session has for it (Descriptors, where the handshake is one step).  A   *)
(* behaviour is one of the module that its first state chooses.            *)
(***************************************************************************)
EXTENDS DBRendezvous

CONSTANTS Clients, OpenMax, Bases, PerClient, Hung

VARIABLES
  view,                                                   \* "handshake" or "descriptors"
  mpc, base, used, state, sused, inherited, calls, serves   \* of Descriptors

Tables == INSTANCE Descriptors WITH spc <- state, database <- serves

ASSUME DescriptorAssumption == Tables!DescriptorParameters

tableVars == <<mpc, base, used, state, sused, inherited, calls, serves>>
allVars == <<view, vars, tableVars>>

\* The variables of the other view keep one of their initial values.
MCInit ==
  /\ view \in {"handshake", "descriptors"}
  /\ Init
  /\ Tables!Init /\ (view = "handshake" => base = 1)

Handshake(A) == view = "handshake" /\ A /\ UNCHANGED <<view, tableVars>>
Descriptors(A) == view = "descriptors" /\ A /\ UNCHANGED <<view, vars>>

MCNext == Handshake(Next) \/ Descriptors(Tables!Next)

\* FairSpec of DBRendezvous; nothing is said of what the descriptors' steps must do.
MCSpec ==
  /\ MCInit /\ [][MCNext]_allVars
  /\ \A s \in Sessions : WF_allVars(Handshake(SessionStep(s)))
  /\ WF_allVars(Handshake(DatabaseStep))

-----------------------------------------------------------------------------
(* Descriptors' properties, stated and explained there.                     *)

\* A session that gives up has made as many calls as its table had room for
\* (commlib.c:22).
CallsBeforeGivingUp == Tables!CallsBeforeGivingUp

\* It leaves the database waiting for it for ever (databasecomm.c:80 and 141).
GivingUpHangsDatabase == Tables!GivingUpHangsDatabase
=============================================================================

-------------------------------- MODULE MCText --------------------------------
(***************************************************************************)
(* Small instances of the two places where the program takes text apart    *)
(* with buffers that outlive a read: the client's prompt and the scan of   *)
(* commconfig.txt.  They do not meet: a behaviour is one of the place that *)
(* its first state chooses.                                                *)
(***************************************************************************)
EXTENDS CommandLine

CONSTANTS AddressNames, KeyNames, Keys, Addresses, None, Junk, MaxLines

VARIABLES
  place,                                                  \* "prompt" or "lookup"
  file, next, caller, name, buffer1, buffer2, lookup      \* of ConfigLookup

Lookup == INSTANCE ConfigLookup WITH pc <- lookup

ASSUME LookupAssumption == Lookup!LookupParameters

lookupVars == <<file, next, caller, name, buffer1, buffer2, lookup>>
allVars == <<place, vars, lookupVars>>

\* The variables of the other place keep one of their initial values.
MCInit ==
  \/ /\ place = "prompt" /\ file = << >> /\ caller = "getkey" /\ buffer1 = Junk
     /\ Lookup!Init /\ Init
  \/ /\ place = "lookup" /\ typed = << >> /\ session_state = "USER_LOGIN"
     /\ Init /\ Lookup!Init

MCNext ==
  \/ place = "prompt" /\ Next /\ UNCHANGED <<place, lookupVars>>
  \/ place = "lookup" /\ Lookup!Next /\ UNCHANGED <<place, vars>>

MCSpec == MCInit /\ [][MCNext]_allVars

-----------------------------------------------------------------------------
\* A lookup in a well-formed file returns the first entry of the name, and nothing
\* only if it has none (commlib.c:36-47, 89-95).
ReturnsFirstEntry == Lookup!ReturnsFirstEntry
=============================================================================

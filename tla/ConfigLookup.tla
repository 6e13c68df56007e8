---------------------------- MODULE ConfigLookup ----------------------------
(***************************************************************************)
(* getaddress and getkey of commlib.c: the lines of commconfig.txt are     *)
(* scanned one after the other into two buffers, "%s : %s" or "%s : %x",   *)
(* until the first buffer holds the name that is looked for.  What a line  *)
(* does not fill keeps what the line before has put there.  Every process  *)
(* finds the others this way: the names are AddressSV, KeyQ1 and so on.    *)
(* The file can be opened: otherwise the process exits before the first    *)
(* line, as Descriptors has it.                                            *)
(***************************************************************************)
EXTENDS Integers, Sequences

CONSTANTS
  AddressNames, \* first words of lines: what getaddress looks for,
  KeyNames,     \* and what getkey looks for
  Keys,         \* values that are hexadecimal numbers
  Addresses,    \* values that are not
  None,         \* no word, or no value behind a colon
  Junk,         \* what an uninitialized buffer holds
  MaxLines      \* bound: lines of the file

Names == AddressNames \cup KeyNames

LookupParameters ==
  /\ Keys \cap Addresses = {}
  /\ None \notin Names \cup Keys \cup Addresses
  /\ Junk \notin Names \cup Keys \cup Addresses \cup {None}
  /\ MaxLines \in Nat

Values == Keys \cup Addresses

\* An empty line has no word; text that goes on without a colon has no value.
Lines == [word : Names, value : Values \cup {None}] \cup {[word |-> None, value |-> None]}

VARIABLES
  file,         \* the lines of commconfig.txt
  next,         \* the line to be read
  caller,       \* "getaddress" or "getkey"
  name,         \* aux: the name looked for
  buffer1,      \* the word and the value scanned last
  buffer2,
  pc            \* "getline", "return", "exit", or "end" of the function

vars == <<file, next, caller, name, buffer1, buffer2, pc>>

TypeOK ==
  /\ file \in Seq(Lines)
  /\ next \in 1..Len(file) + 1
  /\ caller \in {"getaddress", "getkey"}
  /\ name \in Names
  /\ buffer1 \in Names \cup {Junk}
  /\ buffer2 \in Values \cup {Junk}
  /\ pc \in {"getline", "return", "exit", "end"}

\* The stack may hold the first buffer of an earlier call.
Init ==
  /\ file \in UNION {[1..n -> Lines] : n \in 0..MaxLines}
  /\ next = 1
  /\ \/ caller = "getaddress" /\ name \in AddressNames
     \/ caller = "getkey" /\ name \in KeyNames
  /\ buffer1 \in Names \cup {Junk}
  /\ buffer2 = Junk
  /\ pc = "getline"

-----------------------------------------------------------------------------
\* Whether the conversion of the value succeeds.
Converts(value) == value \in IF caller = "getkey" THEN Keys ELSE Values

\* Mutation: the comparison comes before the scan.
getline_comparesFirst ==
  /\ pc = "getline" /\ next <= Len(file)
  /\ buffer1' = IF file[next].word = None THEN buffer1 ELSE file[next].word
  /\ buffer2' = IF Converts(file[next].value) THEN file[next].value ELSE buffer2
  /\ pc' = IF buffer1 = name THEN "return" ELSE "getline"
  /\ next' = next + 1
  /\ UNCHANGED <<file, caller, name>>

\* getline, sscanf and strcmp.
getline ==
  /\ pc = "getline" /\ next <= Len(file)
  /\ buffer1' = IF file[next].word = None THEN buffer1 ELSE file[next].word
  /\ buffer2' = IF Converts(file[next].value) THEN file[next].value ELSE buffer2
  /\ pc' = IF buffer1' = name THEN "return" ELSE "getline"
  /\ next' = next + 1
  /\ UNCHANGED <<file, caller, name>>

\* The end of the file: getkey exits, getaddress falls off its end and returns
\* whatever is in the register.
not_found ==
  /\ pc = "getline" /\ next > Len(file)
  /\ pc' = IF caller = "getkey" THEN "exit" ELSE "end"
  /\ UNCHANGED <<file, next, caller, name, buffer1, buffer2>>

Next == getline \/ not_found

Spec == Init /\ [][Next]_vars

-----------------------------------------------------------------------------
(* What a lookup returns.                                                   *)

\* The lines that define the name, in the format the file's first line asks for.
Entries == {i \in 1..Len(file) : file[i].word = name /\ Converts(file[i].value)}

\* Files whose lines for this name all have a value of its kind, and that do not
\* begin with an empty line.
WellFormed ==
  /\ \A i \in 1..Len(file) : file[i].word = name => Converts(file[i].value)
  /\ file # << >> => file[1].word # None

\* In a well-formed file a lookup returns the value of the first line that defines
\* the name, whatever stands in the lines for other names, and returns nothing only
\* if there is none (commlib.c:36-47, 89-95).
ReturnsFirstEntry ==
  WellFormed =>
    /\ pc = "return" => /\ Entries # {}
                        /\ \E i \in Entries : /\ \A j \in Entries : i <= j
                                              /\ buffer2 = file[i].value
    /\ pc \in {"exit", "end"} => Entries = {}
=============================================================================

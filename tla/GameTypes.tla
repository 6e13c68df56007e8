------------------------------ MODULE GameTypes ------------------------------
(***************************************************************************)
(* The vocabulary shared by the client, the server sessions and the        *)
(* database: opcodes, game states, the Data record that travels on every   *)
(* connection, and the experience arithmetic of a character.               *)
(*                                                                         *)
(* Names, passwords and account names are abstract values: the program     *)
(* only compares them.  Numbers are naturals; the levels table, the number *)
(* of levels and the save interval are constants so that a small instance  *)
(* reaches the level cap.                                                  *)
(***************************************************************************)
EXTENDS Integers, Sequences, FiniteSets

CONSTANTS
  Usernames,      \* account names a user may type
  Passwords,      \* passwords a user may type
  Names,          \* character names a user may type
  NoUser,         \* the contents of a username field nobody wrote
  NoPassword,     \* the contents of a password field nobody wrote
  NoName,         \* the contents of a name field nobody wrote
  NULL,           \* the null pointer
  LEVEL_MAX,      \* the highest level (10 in constants.h)
  levelsExp,      \* experience needed at each level, 1-based here
  LIMIT_TOSAVE    \* points between two saves (10 in constants.h)

\* The sentinels are not legal inputs, and there are no fewer levels than one.
ASSUME GameAssumption ==
  /\ NoUser \notin Usernames
  /\ NoPassword \notin Passwords
  /\ NoName \notin Names
  /\ LEVEL_MAX \in Nat \ {0}
  /\ levelsExp \in [1..LEVEL_MAX -> Nat]
  /\ LIMIT_TOSAVE \in Nat

-----------------------------------------------------------------------------
(* Opcodes.  "OTHER" stands for every integer that is no opcode.            *)

RequestOpcodes ==
  {"LOGIN", "CREATE_ACCOUNT", "SELECT_CHARACTER", "CREATE_CHARACTER",
   "DELETE_CHARACTER", "SHOW_CHARACTER", "EXP_UP", "EXIT",
   "EXIT_AND_LOGOUT", "LOGOUT", "CONNECTION_INTERRUMPED"}

ReplyOpcodes ==
  {"CHAR_ALREADY_EXISTS", "CHAR_DOESNT_EXIST", "CHAR_BUSY",
   "USER_DOESNT_EXIST", "USER_BUSY", "USER_ALREADY_EXISTS",
   "TOO_MANY_CHARS", "NO_ERROR"}

Opcodes == RequestOpcodes \cup ReplyOpcodes \cup {"OTHER"}

MAX_CHARACTERS == 5

GameStates == {"USER_LOGIN", "CHAR_SELECTION", "PLAY_GAME", "EXIT_GAME"}

-----------------------------------------------------------------------------
(* Records.                                                                 *)

Character == [name : Names \cup {NoName},
              lvl : Nat, totalExp : Nat, currentExp : Nat]

NoCharacter == [name |-> NoName, lvl |-> 0, totalExp |-> 0, currentExp |-> 0]

\* The fields of struct Data that the program reads: sender_pid is only
\* printed, characters[] and cantChars are used by commented-out code alone.
Data == [opcode : Opcodes,
         username : Usernames \cup {NoUser},
         password : Passwords \cup {NoPassword},
         character : Character]

ASSUME NullAssumption == NULL \notin Data

\* newData allocates a record and sets its opcode.  No handler reads a field
\* that the sender left unset, so one canonical value stands for its contents.
newData(opcode) ==
  [opcode |-> opcode, username |-> NoUser,
   password |-> NoPassword, character |-> NoCharacter]

-----------------------------------------------------------------------------
(* Experience.                                                              *)

\* The command "p" at the level cap: point() returns before it counts or saves.
AtCap(ch) == ch.currentExp = ch.totalExp /\ ch.lvl >= LEVEL_MAX

\* Mutation: the table is read one level too low.
LevelUp_readsOwnLevel(ch) ==
  [name |-> ch.name, lvl |-> ch.lvl + 1,
   totalExp |-> levelsExp[ch.lvl], currentExp |-> 0]

LevelUp(ch) ==
  [name |-> ch.name, lvl |-> ch.lvl + 1,
   totalExp |-> levelsExp[ch.lvl + 1], currentExp |-> 0]

AfterPoint(ch) ==
  IF ch.currentExp = ch.totalExp /\ ch.lvl < LEVEL_MAX
    THEN LevelUp(ch)
    ELSE [ch EXCEPT !.currentExp = @ + 1]
=============================================================================

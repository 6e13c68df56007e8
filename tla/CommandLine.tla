----------------------------- MODULE CommandLine -----------------------------
(***************************************************************************)
(* The client's prompt: run_session, parser, splitArgs and strCpy of       *)
(* client.c, on what a user may type until the terminal's end-of-file.     *)
(* GameSystem starts where this module ends: at the command that runs.     *)
(*                                                                         *)
(* The commands stand for the ten of loadCommands: one for each number of  *)
(* parameters and game state, and quit.                                    *)
(***************************************************************************)
EXTENDS Integers, Sequences, SequencesExt, FiniteSets

CONSTANTS
  BUFFERSIZE,   \* of user_input: a line and its terminating zero
  CANT_ARGS,    \* the size of splitArgs' table
  MaxInput,     \* bound: characters the user types
  MaxPoints     \* bound: points gained

ASSUME CommandLineAssumption ==
  /\ BUFFERSIZE \in Nat \ 0..2
  /\ CANT_ARGS \in Nat \ 0..2     \* a name and the parameters of any command
  /\ MaxInput \in Nat /\ MaxPoints \in Nat

NUL == "zero"
NEWLINE == "newline"
SPACE == "space"
Letters == {"l", "p", "q"}
Chars == Letters \cup {SPACE, NEWLINE}

GameStates == {"USER_LOGIN", "CHAR_SELECTION", "PLAY_GAME"}

\* login, selectchar, p and quit.
commands ==
  <<[name |-> <<"l">>, cantArgs |-> 2, actionOnState |-> {"USER_LOGIN"}],
    [name |-> <<"l", "p">>, cantArgs |-> 1, actionOnState |-> {"CHAR_SELECTION"}],
    [name |-> <<"p">>, cantArgs |-> 0, actionOnState |-> {"PLAY_GAME"}],
    [name |-> <<"q">>, cantArgs |-> 0, actionOnState |-> GameStates]>>

COMM_SIZE == Len(commands)

VARIABLES
  typed,          \* what the user types, up to end-of-file
  taken,          \* how much of it fgets has taken
  user_input,     \* the buffer, its terminating zero included
  session_state,
  pc,             \* "fgets", "splitArgs", "loop" of splitArgs, or "done"
  position,       \* where in the buffer splitArgs is: behind its last word
  args,           \* its table: the words so far
  result,         \* what parser made of the last line
  points          \* how often the command p has run

vars == <<typed, taken, user_input, session_state, pc, position, args, result, points>>

Errors == {"incorrect", "state", "amount"}
Nothing == [error |-> "none", name |-> << >>, args |-> << >>]
Failed(error) == [Nothing EXCEPT !.error = error]

TypeOK ==
  /\ typed \in Seq(Chars)
  /\ taken \in 0..Len(typed)
  /\ user_input \in Seq(Chars \cup {NUL}) /\ Len(user_input) \in 1..BUFFERSIZE
  /\ user_input[Len(user_input)] = NUL
  /\ session_state \in GameStates
  /\ pc \in {"fgets", "splitArgs", "loop", "done"}
  /\ position \in 1..Len(user_input)
  /\ args \in Seq(Seq(Letters)) /\ Len(args) \in 0..CANT_ARGS
  /\ result \in [error : Errors \cup {"none"}, name : Seq(Letters), args : Seq(Seq(Letters))]
  /\ points \in 0..MaxPoints

\* At any prompt of a session, user_input being fresh.
Init ==
  /\ typed \in UNION {[1..n -> Chars] : n \in 0..MaxInput}
  /\ taken = 0
  /\ user_input = <<NUL>>
  /\ session_state \in GameStates
  /\ pc = "fgets"
  /\ position = 1
  /\ args = << >>
  /\ result = Nothing
  /\ points = 0

-----------------------------------------------------------------------------

\* The characters fgets takes: up to a newline, and not more than fit.
fgets(text) ==
  LET line == SelectInSeq(text, LAMBDA ch : ch = NEWLINE)
      n == IF line = 0 THEN Len(text) ELSE line
  IN  SubSeq(text, 1, IF n < BUFFERSIZE THEN n ELSE BUFFERSIZE - 1)

EndOfInput == taken = Len(typed)

\* Mutation: an empty line leaves the buffer alone too.
read_line_repeats ==
  /\ pc = "fgets"
  /\ pc' = "splitArgs" /\ position' = 1 /\ args' = << >>
  /\ LET chunk == fgets(SubSeq(typed, taken + 1, Len(typed))) IN
       /\ taken' = taken + Len(chunk)
       /\ user_input' = IF EndOfInput \/ chunk = <<NEWLINE>>
                          THEN user_input ELSE Append(chunk, NUL)
  /\ UNCHANGED <<typed, session_state, result, points>>

\* fgets at end-of-file leaves the buffer alone, and run_session does not look.
read_line ==
  /\ pc = "fgets"
  /\ pc' = "splitArgs" /\ position' = 1 /\ args' = << >>
  /\ LET chunk == fgets(SubSeq(typed, taken + 1, Len(typed))) IN
       /\ taken' = taken + Len(chunk)
       /\ user_input' = IF EndOfInput THEN user_input ELSE Append(chunk, NUL)
  /\ UNCHANGED <<typed, session_state, result, points>>

\* The first character at or behind i that ends a word.
WordEnd(buffer, i) ==
  CHOOSE j \in i..Len(buffer) :
    /\ buffer[j] \in {NUL, SPACE, NEWLINE}
    /\ \A k \in i..j-1 : buffer[k] \notin {NUL, SPACE, NEWLINE}

strCpy(buffer, i) == SubSeq(buffer, i, WordEnd(buffer, i) - 1)

\* parser says what is wrong with the line and returns to the prompt.
Complain(error) ==
  /\ result' = Failed(error)
  /\ pc' = "fgets"
  /\ UNCHANGED <<position, args, session_state, points>>

\* A word of splitArgs, and what ends it.
TakeWord(i) ==
  LET word == strCpy(user_input, i) IN
    /\ args' = Append(args, word)
    /\ position' = i + Len(word)
    /\ pc' = "loop"
    /\ UNCHANGED <<result, session_state, points>>

\* Mutation: a space at the beginning of the line is skipped.
splitArgs_skipsSpace ==
  /\ pc = "splitArgs"
  /\ TakeWord(IF user_input[1] = SPACE THEN 2 ELSE 1)
  /\ UNCHANGED <<typed, taken, user_input>>

\* The first word.
splitArgs ==
  /\ pc = "splitArgs"
  /\ IF user_input[1] = SPACE THEN Complain("incorrect") ELSE TakeWord(1)
  /\ UNCHANGED <<typed, taken, user_input>>

EndOfLine == user_input[position] \in {NUL, NEWLINE}

\* A turn of the loop: whatever has ended the last word is taken for a space.
splitArgs_loop ==
  /\ pc = "loop" /\ ~EndOfLine
  /\ IF Len(args) = CANT_ARGS THEN Complain("incorrect") ELSE TakeWord(position + 1)
  /\ UNCHANGED <<typed, taken, user_input>>

\* Mutation: the name of a command may be followed by more (strncmp).
Parsed_prefix(words, state) ==
  LET i == SelectInSeq(commands, LAMBDA command : IsPrefix(command.name, words[1]))
  IN  IF i = 0 THEN Failed("incorrect")
      ELSE IF state \notin commands[i].actionOnState THEN Failed("state")
      ELSE IF Len(words) - 1 # commands[i].cantArgs THEN Failed("amount")
      ELSE [error |-> "none", name |-> commands[i].name, args |-> Tail(words)]

\* The first command of that name decides.
Parsed(words, state) ==
  LET i == SelectInSeq(commands, LAMBDA command : command.name = words[1])
  IN  IF i = 0 THEN Failed("incorrect")
      ELSE IF state \notin commands[i].actionOnState THEN Failed("state")
      ELSE IF Len(words) - 1 # commands[i].cantArgs THEN Failed("amount")
      ELSE [error |-> "none", name |-> commands[i].name, args |-> Tail(words)]

Runs(name) == result'.error = "none" /\ result'.name = name

\* parser behind splitArgs, and what the commands make of the state; run_session ends
\* after quit.
parser ==
  /\ pc = "loop" /\ EndOfLine
  /\ points < MaxPoints
  /\ result' = Parsed(args, session_state)
  /\ session_state' \in
       {session_state} \cup (IF Runs(<<"l">>) THEN {"CHAR_SELECTION"} ELSE {})
                       \cup (IF Runs(<<"l", "p">>) THEN {"PLAY_GAME"} ELSE {})
  /\ points' = IF Runs(<<"p">>) THEN points + 1 ELSE points
  /\ pc' = IF Runs(<<"q">>) THEN "done" ELSE "fgets"
  /\ UNCHANGED <<typed, taken, user_input, position, args>>

Next == read_line \/ splitArgs \/ splitArgs_loop \/ parser

Spec == Init /\ [][Next]_vars

-----------------------------------------------------------------------------
(* What the prompt does.                                                    *)

\* The text up to its first newline or zero.
LineOf(buffer) == SubSeq(buffer, 1, SelectInSeq(buffer, LAMBDA ch : ch \in {NUL, NEWLINE}) - 1)

\* Where words begin and end: before and behind the line, and at each space.
Cuts(line) == {0, Len(line) + 1} \cup {i \in 1..Len(line) : line[i] = SPACE}

Cut(line, k) == CHOOSE i \in Cuts(line) : Cardinality({j \in Cuts(line) : j <= i}) = k

\* The words between single spaces.
Words(line) ==
  [k \in 1..Cardinality(Cuts(line)) - 1 |->
     SubSeq(line, Cut(line, k) + 1, Cut(line, k + 1) - 1)]

\* The line is the name and the parameters of a command that the state allows.
Calls(line, state, command) ==
  /\ Words(line)[1] = command.name
  /\ Len(Words(line)) = command.cantArgs + 1
  /\ state \in command.actionOnState

ExactOn(line) ==
  LET called == {i \in 1..COMM_SIZE : Calls(line, session_state, commands[i])}
  IN  /\ called # {} <=> result'.error = "none"
      /\ \A i \in called : /\ result'.name = commands[i].name
                           /\ result'.args = Tail(Words(line))

EndsParse == pc \in {"splitArgs", "loop"} /\ pc' \in {"fgets", "done"}

\* A line makes a command run, with its parameters, exactly if it is the name and the
\* parameters of one that is allowed in the state, with one space before each
\* (client.c:184-279).
ParserIsExact == [][EndsParse => ExactOn(LineOf(user_input))]_vars

\* The place of the line in which character i stands.
LineStart(i) ==
  CHOOSE j \in 1..i : /\ j = 1 \/ typed[j - 1] = NEWLINE
                      /\ \A k \in j..i-1 : typed[k] # NEWLINE

\* The client leaves only if the user typed quit and nothing else up to the end of
\* the line or of the input; a line longer than the buffer is cut, though, and its
\* last piece counts as a line (client.c:104).
LeavesOnQuitOnly ==
  pc = "done" =>
    \E i \in 1..Len(typed) :
      /\ typed[i] = "q"
      /\ i = Len(typed) \/ typed[i + 1] = NEWLINE
      /\ \E n \in 0..i : i - LineStart(i) = n * (BUFFERSIZE - 1)

\* Up to the end of the input a point is a p that was typed; from there on the client
\* may run its last command again and again (client.c:104).
PointsWereTyped ==
  ~EndOfInput => points <= Cardinality({i \in 1..taken : typed[i] = "p"})
=============================================================================

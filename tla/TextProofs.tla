------------------------------ MODULE TextProofs ------------------------------
(***************************************************************************)
(* Proofs about the text that the program takes apart, for lines, buffers, *)
(* files and inputs of any size: the prompt's words are the words of the   *)
(* line, the client leaves only when it is told to and a point is a p that *)
(* was typed (CommandLine); a lookup in a well-formed file returns the     *)
(* first entry of the name (ConfigLookup).                                 *)
(*                                                                         *)
(* What a loop has done so far is an invariant of the loop, and so no      *)
(* induction over a sequence is needed.                                    *)
(***************************************************************************)
EXTENDS MCText, FiniteSetTheorems, SequenceTheorems, WellFoundedInduction, TLAPS

-----------------------------------------------------------------------------
(* The scan of commconfig.txt.                                              *)

\* The lines that have been read do not define the name, and the first buffer holds
\* the word of one of them; a lookup ends with the entry it has just read, or behind
\* the last line.
LookupScans ==
  Lookup!WellFormed =>
    /\ lookup # "return" => \A i \in 1..next - 1 : file[i].word # name
    /\ lookup = "getline" /\ next > 1 => \E i \in 1..next - 1 : buffer1 = file[i].word
    /\ lookup = "return" =>
         /\ next > 1 /\ file[next - 1].word = name /\ buffer2 = file[next - 1].value
         /\ \A i \in 1..next - 2 : file[i].word # name
    /\ lookup \in {"exit", "end"} => next = Len(file) + 1

LookupInvariant == Lookup!TypeOK /\ LookupScans

-----------------------------------------------------------------------------
(* The prompt.                                                              *)

\* How many cuts of the line there are up to i.
Rank(line, i) == Cardinality({j \in Cuts(line) : j <= i})

\* The words are the first ones of the line, up to the cut i.
WordsUpTo(line, words, i) ==
  /\ i \in Cuts(line) /\ Rank(line, i) = Len(words) + 1
  /\ \A k \in 1..Len(words) :
       words[k] = SubSeq(line, Cut(line, k) + 1, Cut(line, k + 1) - 1)

\* In the loop of splitArgs the words so far are the first words of the line, and
\* what has ended the last of them stands at the position.
WordsSoFar ==
  /\ pc = "splitArgs" => args = << >>
  /\ pc = "loop" => /\ WordsUpTo(LineOf(user_input), args, position)
                    /\ Len(args) > 0

\* The first word is the beginning of the buffer, and if it is the only one so far the
\* position is behind it.
FirstWord ==
  pc = "loop" => /\ args[1] = SubSeq(user_input, 1, Len(args[1]))
                 /\ Len(args) = 1 => position = Len(args[1]) + 1

\* Line j begins at j and goes on up to i at least.
BeginsLine(j, i) ==
  /\ j \in 1..i /\ (j = 1 \/ typed[j - 1] = NEWLINE)
  /\ \A k \in j..i - 1 : typed[k] # NEWLINE

\* Character i is a whole number of buffers behind the beginning of its line.
BeginsPiece(i) == \E j \in 1..i, n \in 0..i : BeginsLine(j, i) /\ i - j = n * (BUFFERSIZE - 1)

\* How many of the first i characters are a p.
Typed(i) == Cardinality({j \in 1..i : typed[j] = "p"})

\* The buffer holds what fgets has taken behind the first i characters.
Holds(i) ==
  /\ user_input = Append(SubSeq(typed, i + 1, taken), NUL)
  /\ taken - i < BUFFERSIZE
  /\ \A k \in i + 1..taken - 1 : typed[k] # NEWLINE
  /\ taken = Len(typed) \/ typed[taken] = NEWLINE \/ taken - i = BUFFERSIZE - 1
  /\ BeginsPiece(i + 1)
  /\ ~EndOfInput /\ pc \in {"splitArgs", "loop"} => points <= Typed(i)

\* The buffer is fresh or holds the last piece of the input; the points were typed.
BufferIsPiece ==
  /\ \/ user_input = <<NUL>> /\ taken = 0 /\ (pc # "fgets" => EndOfInput)
     \/ \E i \in 0..taken - 1 : Holds(i)
  /\ EndOfInput \/ points <= Typed(taken)

PromptInvariant == TypeOK /\ WordsSoFar /\ FirstWord /\ BufferIsPiece /\ LeavesOnQuitOnly

TextInvariant == LookupInvariant /\ PromptInvariant

\* A step of the specification is one of the prompt, one of a lookup, or none.
LEMMA MCStep ==
  ASSUME [MCNext]_allVars
  PROVE  \/ Next /\ UNCHANGED lookupVars
         \/ Lookup!Next /\ UNCHANGED vars
         \/ UNCHANGED <<vars, lookupVars>>
BY DEF MCNext, allVars

-----------------------------------------------------------------------------
(* A lookup.                                                                *)

\* The function that is asked for does not change during a lookup, nor does the file.
LEMMA LookupUnchanged ==
  ASSUME UNCHANGED lookupVars, LookupInvariant
  PROVE  LookupInvariant'
BY DEF lookupVars, LookupInvariant, Lookup!TypeOK, LookupScans, Lookup!WellFormed,
       Lookup!Converts

LEMMA LookupInit ==
  ASSUME Lookup!Init
  PROVE  LookupInvariant
PROOF
<1>1. file \in Seq(Lookup!Lines)
  <2>1. PICK n \in 0..MaxLines : file \in [1..n -> Lookup!Lines]
    BY DEF Lookup!Init
  <2> QED BY <2>1, LookupAssumption, SeqDef DEF Lookup!LookupParameters
<1>2. Lookup!TypeOK
  BY <1>1 DEF Lookup!Init, Lookup!TypeOK, Lookup!Names, Lookup!Values
<1>3. LookupScans
  BY DEF Lookup!Init, LookupScans
<1> QED BY <1>2, <1>3 DEF LookupInvariant

\* What a lookup has read is what the invariant says of it, one line later.
LEMMA LookupStep ==
  ASSUME Lookup!Next, LookupInvariant
  PROVE  LookupInvariant'
PROOF
<1> USE DEF LookupInvariant
<1>1. CASE Lookup!getline
  <2>1. /\ lookup = "getline" /\ next \in 1..Len(file) /\ next' = next + 1
        /\ next \in Nat
        /\ UNCHANGED <<file, caller, name>>
        /\ buffer1' = IF file[next].word = None THEN buffer1 ELSE file[next].word
        /\ buffer2' = IF Lookup!Converts(file[next].value) THEN file[next].value ELSE buffer2
        /\ lookup' = IF buffer1' = name THEN "return" ELSE "getline"
    BY <1>1 DEF Lookup!getline, Lookup!TypeOK
  <2>2. file[next] \in Lookup!Lines
    BY <2>1 DEF Lookup!TypeOK
  <2>3. /\ file[next].word = None \/ file[next].word \in Lookup!Names
        /\ file[next].value = None \/ file[next].value \in Lookup!Values
    BY <2>2 DEF Lookup!Lines
  <2>4. Lookup!TypeOK'
    <3>1. None \notin Lookup!Values
      BY LookupAssumption DEF Lookup!LookupParameters, Lookup!Values
    <3>2. buffer1' \in Lookup!Names \cup {Junk} /\ buffer2' \in Lookup!Values \cup {Junk}
      BY <2>1, <2>3, <3>1 DEF Lookup!TypeOK, Lookup!Converts, Lookup!Values
    <3> QED BY <2>1, <3>2 DEF Lookup!TypeOK
  <2>5. ASSUME Lookup!WellFormed' PROVE LookupScans'
    <3>1. Lookup!WellFormed
      BY <2>1, <2>5 DEF Lookup!WellFormed, Lookup!Converts
    <3>2. \A i \in 1..next - 1 : file[i].word # name
      BY <2>1, <3>1 DEF LookupScans
    <3>3. PICK i \in 1..next : buffer1' = file[i].word
      <4>1. CASE file[next].word # None
        BY <2>1, <4>1
      <4>2. CASE file[next].word = None
        <5>1. next > 1
          BY <2>1, <3>1, <4>2 DEF Lookup!WellFormed, Lookup!TypeOK
        <5> QED BY <2>1, <3>1, <4>2, <5>1 DEF LookupScans
      <4> QED BY <4>1, <4>2
    <3>4. CASE buffer1' = name
      <4>0. file[i].word = name
        BY <3>3, <3>4
      <4>1. i = next
        BY <2>1, <3>2, <4>0
      <4>2. buffer2' = file[next].value
        BY <2>1, <3>1, <3>3, <3>4, <4>1 DEF Lookup!WellFormed
      <4>3. lookup' = "return" /\ file'[next' - 1].word = name' /\ next' > 1
            /\ buffer2' = file'[next' - 1].value
        <5>1. lookup' = "return"
          BY <2>1, <3>4
        <5>2. next' - 1 = next /\ next' > 1
          BY <2>1
        <5> QED BY <2>1, <4>0, <4>1, <4>2, <5>1, <5>2
      <4>4. \A j \in 1..next' - 2 : file'[j].word # name'
        BY <2>1, <3>2
      <4> QED BY <4>3, <4>4 DEF LookupScans
    <3>5. CASE buffer1' # name
      <4>1. file[next].word # name
        BY <2>1, <3>5, LookupAssumption DEF Lookup!LookupParameters, Lookup!TypeOK
      <4>2. \A j \in 1..next' - 1 : file'[j].word # name'
        BY <2>1, <3>2, <4>1
      <4>3. \E j \in 1..next' - 1 : buffer1' = file'[j].word
        BY <2>1, <3>3
      <4>4. lookup' = "getline"
        BY <2>1, <3>5
      <4> QED BY <4>2, <4>3, <4>4 DEF LookupScans
    <3> QED BY <3>4, <3>5
  <2> QED BY <2>4, <2>5 DEF LookupScans
<1>2. CASE Lookup!not_found
  <2>1. /\ lookup = "getline" /\ next > Len(file) /\ lookup' \in {"exit", "end"}
        /\ UNCHANGED <<file, next, caller, name, buffer1, buffer2>>
    BY <1>2 DEF Lookup!not_found
  <2>2. Lookup!TypeOK'
    BY <2>1 DEF Lookup!TypeOK
  <2>3. Lookup!WellFormed' = Lookup!WellFormed
    BY <2>1 DEF Lookup!WellFormed, Lookup!Converts
  <2>4. LookupScans'
    BY <2>1, <2>3 DEF LookupScans, Lookup!TypeOK
  <2> QED BY <2>2, <2>4
<1> QED BY <1>1, <1>2 DEF Lookup!Next

\* Of the lines that have been read none but the last defines the name.
LEMMA ScansFindFirst ==
  ASSUME LookupInvariant
  PROVE  ReturnsFirstEntry
PROOF
<1> SUFFICES ASSUME Lookup!WellFormed
             PROVE  /\ lookup = "return" =>
                         /\ Lookup!Entries # {}
                         /\ \E i \in Lookup!Entries : /\ \A j \in Lookup!Entries : i <= j
                                                     /\ buffer2 = file[i].value
                    /\ lookup \in {"exit", "end"} => Lookup!Entries = {}
  BY DEF ReturnsFirstEntry, Lookup!ReturnsFirstEntry
<1>1. CASE lookup = "return"
  <2>1. /\ next \in 2..Len(file) + 1 /\ file[next - 1].word = name
        /\ buffer2 = file[next - 1].value /\ \A i \in 1..next - 2 : file[i].word # name
    BY <1>1 DEF LookupInvariant, LookupScans, Lookup!TypeOK
  <2>2. next - 1 \in Lookup!Entries
    BY <2>1 DEF Lookup!Entries, Lookup!WellFormed, LookupInvariant, Lookup!TypeOK
  <2>3. \A j \in Lookup!Entries : next - 1 <= j
    BY <2>1 DEF Lookup!Entries, LookupInvariant, Lookup!TypeOK
  <2> QED BY <1>1, <2>1, <2>2, <2>3
<1>2. CASE lookup \in {"exit", "end"}
  BY <1>2 DEF LookupInvariant, LookupScans, Lookup!Entries
<1> QED BY <1>1, <1>2

\* A lookup in a well-formed file of any length returns the value of the first line that
\* defines the name, and nothing only if there is none (commlib.c:36-47, 89-95).
THEOREM LookupReturnsFirst == MCSpec => []ReturnsFirstEntry
PROOF
<1>1. MCInit => LookupInvariant
  BY LookupInit DEF MCInit
<1>2. LookupInvariant /\ [MCNext]_allVars => LookupInvariant'
  BY MCStep, LookupStep, LookupUnchanged
<1>3. LookupInvariant => ReturnsFirstEntry
  BY ScansFindFirst
<1> QED BY <1>1, <1>2, <1>3, PTL DEF MCSpec

-----------------------------------------------------------------------------
(* Lines, words and cuts.                                                   *)

\* A set of numbers that is not empty has a least element.
LEMMA LeastElement ==
  ASSUME NEW S \in SUBSET Nat, S # {}
  PROVE  Min(S) \in S /\ \A k \in S : Min(S) <= k
PROOF
<1> DEFINE R == OpToRel(<, Nat)
<1>1. PICK m \in S : \A k \in S : <<k, m>> \notin R
  <2>1. IsWellFoundedOn(R, Nat)
    BY NatLessThanWellFounded
  <2> HIDE DEF R
  <2> QED BY <2>1, WFMin
<1>2. \A k, l \in S : <<k, l>> \notin R => l <= k
  BY DEF OpToRel
<1> HIDE DEF R
<1> QED BY <1>1, <1>2 DEF Min

\* What fgets leaves in the buffer, and what a fresh buffer holds.
Buffers == {buffer \in Seq(Chars \cup {NUL}) : Len(buffer) > 0 /\ buffer[Len(buffer)] = NUL}

\* The line is the buffer up to the first newline or zero.
LEMMA LineFacts ==
  ASSUME NEW buffer \in Buffers
  PROVE  LET line == LineOf(buffer) IN
           /\ line \in Seq(Chars) /\ Len(line) \in 0..Len(buffer) - 1
           /\ \A i \in 1..Len(line) : line[i] = buffer[i] /\ buffer[i] \notin {NUL, NEWLINE}
           /\ buffer[Len(line) + 1] \in {NUL, NEWLINE}
PROOF
<1> DEFINE ends == {i \in 1..Len(buffer) : buffer[i] \in {NUL, NEWLINE}}
           first == Min(ends)
<1>1. /\ buffer \in Seq(Chars \cup {NUL}) /\ Len(buffer) \in Nat \ {0}
      /\ buffer[Len(buffer)] = NUL
  BY DEF Buffers
<1>2. Len(buffer) \in ends
  BY <1>1
<1>3. /\ first \in 1..Len(buffer) /\ buffer[first] \in {NUL, NEWLINE}
      /\ \A i \in ends : first <= i
  <2>1. ends \in SUBSET Nat /\ ends # {}
    BY <1>1, <1>2
  <2> QED BY <2>1, LeastElement
<1>4. LineOf(buffer) = SubSeq(buffer, 1, first - 1)
  BY <1>2 DEF LineOf, SelectInSeq
<1> HIDE DEF ends, first
<1>5. Len(LineOf(buffer)) = first - 1 /\ \A i \in 1..first - 1 : LineOf(buffer)[i] = buffer[i]
  BY <1>1, <1>3, <1>4
<1>6. \A i \in 1..first - 1 : buffer[i] \notin {NUL, NEWLINE} /\ buffer[i] \in Chars
  BY <1>1, <1>3 DEF ends
<1>7. LineOf(buffer) \in Seq(Chars)
  BY <1>1, <1>3, <1>4, <1>5, <1>6
<1> QED BY <1>1, <1>3, <1>5, <1>6, <1>7

\* A word ends at the first space, newline or zero, and has letters only.
LEMMA WordFacts ==
  ASSUME NEW buffer \in Buffers, NEW i \in 1..Len(buffer)
  PROVE  LET word == strCpy(buffer, i) IN
           /\ word \in Seq(Letters)
           /\ i + Len(word) \in i..Len(buffer)
           /\ buffer[i + Len(word)] \in {NUL, SPACE, NEWLINE}
           /\ \A k \in i..i + Len(word) - 1 : buffer[k] \notin {NUL, SPACE, NEWLINE}
           /\ word = SubSeq(buffer, i, i + Len(word) - 1)
PROOF
<1> DEFINE ends == {j \in i..Len(buffer) : buffer[j] \in {NUL, SPACE, NEWLINE}}
           first == Min(ends)
           end == WordEnd(buffer, i)
<1>1. /\ buffer \in Seq(Chars \cup {NUL}) /\ Len(buffer) \in Nat \ {0}
      /\ buffer[Len(buffer)] = NUL
  BY DEF Buffers
<1>2. Len(buffer) \in ends
  BY <1>1
<1>3. /\ first \in i..Len(buffer) /\ buffer[first] \in {NUL, SPACE, NEWLINE}
      /\ \A j \in ends : first <= j
  <2>1. ends \in SUBSET Nat /\ ends # {}
    BY <1>1, <1>2
  <2> QED BY <2>1, LeastElement
<1>4. \A k \in i..first - 1 : buffer[k] \notin {NUL, SPACE, NEWLINE}
  <2> HIDE DEF first
  <2> QED BY <1>1, <1>3
<1> HIDE DEF ends, first
<1>5. /\ end \in i..Len(buffer) /\ buffer[end] \in {NUL, SPACE, NEWLINE}
      /\ \A k \in i..end - 1 : buffer[k] \notin {NUL, SPACE, NEWLINE}
  BY <1>3, <1>4 DEF WordEnd
<1> HIDE DEF end
<1>6. strCpy(buffer, i) = SubSeq(buffer, i, end - 1)
  BY DEF strCpy, end
<1>7. Len(SubSeq(buffer, i, end - 1)) = end - i
  BY <1>1, <1>5
<1>8. SubSeq(buffer, i, end - 1) \in Seq(Letters)
  <2>1. \A k \in i..end - 1 : buffer[k] \in Letters
    BY <1>1, <1>5 DEF Chars
  <2>2. \A k \in 1..end - i : SubSeq(buffer, i, end - 1)[k] = buffer[i + k - 1]
    BY <1>1, <1>5
  <2>3. \A k \in 1..end - i : SubSeq(buffer, i, end - 1)[k] \in Letters
    BY <1>5, <2>1, <2>2
  <2>4. SubSeq(buffer, i, end - 1) = [k \in 1..end - i |-> SubSeq(buffer, i, end - 1)[k]]
    BY <1>1, <1>5, <1>7
  <2>5. SubSeq(buffer, i, end - 1) \in [1..end - i -> Letters]
    BY <2>3, <2>4
  <2>6. end - i \in Nat
    BY <1>1, <1>5
  <2> DEFINE n == end - i
  <2>7. SubSeq(buffer, i, end - 1) \in UNION {[1..m -> Letters] : m \in Nat}
    <3> HIDE DEF n
    <3>1. n \in Nat /\ SubSeq(buffer, i, end - 1) \in [1..n -> Letters]
      BY <2>5, <2>6 DEF n
    <3> QED BY <3>1, Zenon
  <2> QED BY <2>7, SeqDef, Zenon
<1> QED BY <1>1, <1>5, <1>6, <1>7, <1>8

LEMMA CutsFinite ==
  ASSUME NEW line \in Seq(Chars)
  PROVE  /\ Cuts(line) \in SUBSET (0..Len(line) + 1)
         /\ 0 \in Cuts(line) /\ Len(line) + 1 \in Cuts(line)
         /\ IsFiniteSet(Cuts(line)) /\ Cardinality(Cuts(line)) \in Nat
         /\ \A i \in Int : /\ IsFiniteSet({j \in Cuts(line) : j <= i})
                           /\ Rank(line, i) \in Nat
PROOF
<1>1. Len(line) \in Nat
  OBVIOUS
<1>2. /\ Cuts(line) \in SUBSET (0..Len(line) + 1)
      /\ 0 \in Cuts(line) /\ Len(line) + 1 \in Cuts(line)
  BY <1>1 DEF Cuts
<1>3. IsFiniteSet(Cuts(line))
  <2>1. IsFiniteSet(0..Len(line) + 1)
    <3>1. Len(line) + 1 \in Int
      BY <1>1
    <3> QED BY <3>1, FS_Interval
  <2> QED BY <1>2, <2>1, FS_Subset
<1>4. \A i \in Int : IsFiniteSet({j \in Cuts(line) : j <= i})
  BY <1>3, FS_Subset
<1> QED BY <1>2, <1>3, <1>4, FS_CardinalityType DEF Rank

\* Two cuts have different ranks, so that a cut is the one of its rank.
LEMMA CutOfRank ==
  ASSUME NEW line \in Seq(Chars), NEW i \in Cuts(line)
  PROVE  Cut(line, Rank(line, i)) = i
PROOF
<1>1. \A a, b \in Cuts(line) : a < b => Rank(line, a) # Rank(line, b)
  <2> SUFFICES ASSUME NEW a \in Cuts(line), NEW b \in Cuts(line), a < b,
                      Rank(line, a) = Rank(line, b)
               PROVE  FALSE
    OBVIOUS
  <2> DEFINE A == {j \in Cuts(line) : j <= a}
             B == {j \in Cuts(line) : j <= b}
  <2>1. a \in Int /\ b \in Int
    BY CutsFinite
  <2>2. IsFiniteSet(B) /\ A \in SUBSET B /\ b \in B /\ b \notin A
    BY <2>1, CutsFinite
  <2>3. Cardinality(A) = Cardinality(B)
    BY DEF Rank
  <2> HIDE DEF A, B
  <2> QED BY <2>2, <2>3, FS_Subset
<1>2. \A a, b \in Cuts(line) : Rank(line, a) = Rank(line, b) => a = b
  BY <1>1, CutsFinite
<1> QED BY <1>2 DEF Cut, Rank

\* The next cut has the next rank.
LEMMA RankOfNext ==
  ASSUME NEW line \in Seq(Chars), NEW i \in Cuts(line), NEW n \in Cuts(line), i < n,
         \A k \in i + 1..n - 1 : k \notin Cuts(line)
  PROVE  Rank(line, n) = Rank(line, i) + 1
PROOF
<1> DEFINE I == {j \in Cuts(line) : j <= i}
           N == {j \in Cuts(line) : j <= n}
<1>1. i \in Int /\ n \in Int /\ Cuts(line) \in SUBSET Int
  BY CutsFinite
<1>2. N = I \cup {n} /\ n \notin I /\ IsFiniteSet(I)
  BY <1>1, CutsFinite
<1>3. Cardinality(N) = Cardinality(I) + 1
  <2> HIDE DEF I, N
  <2> QED BY <1>2, FS_AddElement
<1> QED BY <1>3 DEF Rank

\* The first cut is before the line, the last one behind it.
LEMMA RankOfEnds ==
  ASSUME NEW line \in Seq(Chars)
  PROVE  /\ Rank(line, 0) = 1
         /\ Rank(line, Len(line) + 1) = Cardinality(Cuts(line))
         /\ \A i \in 0..Len(line) : Rank(line, i) < Cardinality(Cuts(line))
PROOF
<1>1. Cuts(line) \in SUBSET (0..Len(line) + 1) /\ Len(line) \in Nat
  BY CutsFinite
<1>2. {j \in Cuts(line) : j <= 0} = {0}
  BY <1>1, CutsFinite
<1>3. Rank(line, 0) = 1
  BY <1>2, FS_Singleton DEF Rank
<1>4. {j \in Cuts(line) : j <= Len(line) + 1} = Cuts(line)
  BY <1>1
<1>5. ASSUME NEW i \in 0..Len(line) PROVE Rank(line, i) < Cardinality(Cuts(line))
  <2> DEFINE I == {j \in Cuts(line) : j <= i}
  <2>1. I \in SUBSET Cuts(line) /\ Len(line) + 1 \notin I
    BY <1>1
  <2>2. /\ IsFiniteSet(Cuts(line)) /\ Len(line) + 1 \in Cuts(line)
        /\ Rank(line, i) \in Nat /\ Cardinality(Cuts(line)) \in Nat
    <3>1. i \in Int
      BY <1>1
    <3> QED BY <3>1, CutsFinite
  <2>3. Cardinality(I) <= Cardinality(Cuts(line)) /\ Cardinality(I) # Cardinality(Cuts(line))
    <3> HIDE DEF I
    <3> QED BY <2>1, <2>2, FS_Subset
  <2> QED BY <2>2, <2>3 DEF Rank
<1> QED BY <1>3, <1>4, <1>5 DEF Rank

\* A word that goes from one cut to the next is the next word of the line.
LEMMA NextWord ==
  ASSUME NEW line \in Seq(Chars), NEW words \in Seq(Seq(Letters)), NEW i, NEW n \in Cuts(line),
         WordsUpTo(line, words, i), i < n, \A k \in i + 1..n - 1 : k \notin Cuts(line),
         SubSeq(line, i + 1, n - 1) \in Seq(Letters)
  PROVE  WordsUpTo(line, Append(words, SubSeq(line, i + 1, n - 1)), n)
PROOF
<1> DEFINE word == SubSeq(line, i + 1, n - 1)
           more == Append(words, word)
<1>1. Len(words) \in Nat /\ Len(more) = Len(words) + 1 /\ more[Len(words) + 1] = word
      /\ \A k \in 1..Len(words) : more[k] = words[k]
  OBVIOUS
<1>2. i \in Cuts(line) /\ Rank(line, i) = Len(words) + 1
  BY DEF WordsUpTo
<1>3. Rank(line, n) = Len(words) + 2
  BY <1>1, <1>2, RankOfNext
<1>4. Cut(line, Len(words) + 1) = i /\ Cut(line, Len(words) + 2) = n
  BY <1>2, <1>3, CutOfRank
<1> HIDE DEF word, more
<1>5. ASSUME NEW k \in 1..Len(more)
      PROVE  more[k] = SubSeq(line, Cut(line, k) + 1, Cut(line, k + 1) - 1)
  <2>1. CASE k = Len(words) + 1
    <3>1. k + 1 = Len(words) + 2
      BY <1>1, <2>1
    <3> QED BY <1>1, <1>4, <2>1, <3>1 DEF word
  <2>2. CASE k # Len(words) + 1
    <3>1. k \in 1..Len(words)
      BY <1>1, <2>2
    <3>2. words[k] = SubSeq(line, Cut(line, k) + 1, Cut(line, k + 1) - 1)
      BY <3>1 DEF WordsUpTo
    <3> QED BY <1>1, <3>1, <3>2
  <2> QED BY <2>1, <2>2
<1>6. Rank(line, n) = Len(more) + 1
  BY <1>1, <1>3
<1>7. WordsUpTo(line, more, n)
  BY <1>5, <1>6 DEF WordsUpTo
<1> QED BY <1>7 DEF more, word

\* At the end of the line the words so far are the words of the line; before it the
\* line has more.
LEMMA AllWords ==
  ASSUME NEW line \in Seq(Chars), NEW words \in Seq(Seq(Letters)), NEW i,
         WordsUpTo(line, words, i)
  PROVE  /\ Len(Words(line)) = Cardinality(Cuts(line)) - 1 /\ Len(Words(line)) \in Nat
         /\ i = Len(line) + 1 => Words(line) = words
         /\ i # Len(line) + 1 => Len(words) < Len(Words(line))
PROOF
<1>1. /\ i \in Cuts(line) /\ Rank(line, i) = Len(words) + 1
      /\ Len(words) \in Nat /\ Len(line) \in Nat
  BY DEF WordsUpTo
<1>2. i \in 0..Len(line) + 1 /\ Cardinality(Cuts(line)) \in Nat
  BY <1>1, CutsFinite
<1>3. 1 <= Cardinality(Cuts(line))
  BY <1>1, <1>2, RankOfEnds
<1>4. Len(Words(line)) = Cardinality(Cuts(line)) - 1 /\ Len(Words(line)) \in Nat
  BY <1>2, <1>3 DEF Words
<1>5. ASSUME i = Len(line) + 1 PROVE Words(line) = words
  <2>1. Cardinality(Cuts(line)) - 1 = Len(words)
    BY <1>1, <1>2, <1>5, RankOfEnds
  <2>2. words = [k \in 1..Len(words) |-> words[k]]
    OBVIOUS
  <2>3. \A k \in 1..Len(words) :
          words[k] = SubSeq(line, Cut(line, k) + 1, Cut(line, k + 1) - 1)
    BY DEF WordsUpTo
  <2> QED BY <2>1, <2>2, <2>3 DEF Words
<1>6. ASSUME i # Len(line) + 1 PROVE Len(words) < Len(Words(line))
  BY <1>1, <1>2, <1>4, <1>6, RankOfEnds
<1> QED BY <1>4, <1>5, <1>6

\* From a cut before the end of the line strCpy copies up to the next cut.
LEMMA WordToCut ==
  ASSUME NEW buffer \in Buffers, NEW i \in 0..Len(LineOf(buffer))
  PROVE  LET line == LineOf(buffer)
             word == strCpy(buffer, i + 1)
             n == i + 1 + Len(word)
         IN  /\ word \in Seq(Letters) /\ word = SubSeq(line, i + 1, n - 1)
             /\ n \in Cuts(line) /\ n \in i + 1..Len(line) + 1 /\ n \in 1..Len(buffer)
             /\ \A k \in i + 1..n - 1 : k \notin Cuts(line)
PROOF
<1> DEFINE line == LineOf(buffer)
           word == strCpy(buffer, i + 1)
           n == i + 1 + Len(word)
<1>1. /\ line \in Seq(Chars) /\ Len(line) \in 0..Len(buffer) - 1
      /\ \A k \in 1..Len(line) : line[k] = buffer[k] /\ buffer[k] \notin {NUL, NEWLINE}
      /\ buffer[Len(line) + 1] \in {NUL, NEWLINE}
  BY LineFacts
<1>2. Len(buffer) \in Nat /\ Len(line) \in Nat /\ i \in Nat /\ buffer \in Seq(Chars \cup {NUL})
  BY <1>1 DEF Buffers
<1>3. /\ word \in Seq(Letters) /\ n \in i + 1..Len(buffer)
      /\ buffer[n] \in {NUL, SPACE, NEWLINE}
      /\ \A k \in i + 1..n - 1 : buffer[k] \notin {NUL, SPACE, NEWLINE}
      /\ word = SubSeq(buffer, i + 1, n - 1)
  <2>1. i + 1 \in 1..Len(buffer)
    BY <1>1, <1>2
  <2> QED BY <2>1, WordFacts
<1> HIDE DEF line, word, n
<1>4. n <= Len(line) + 1
  <2> SUFFICES ASSUME n > Len(line) + 1 PROVE FALSE
    BY <1>2, <1>3
  <2>1. i <= Len(line)
    BY DEF line
  <2>2. Len(line) + 1 \in i + 1..n - 1
    BY <1>2, <1>3, <2>1
  <2> QED BY <1>1, <1>3, <2>2
<1>5. n \in Cuts(line)
  BY <1>1, <1>2, <1>3, <1>4 DEF Cuts
<1>6. \A k \in i + 1..n - 1 : k \notin Cuts(line)
  <2> SUFFICES ASSUME NEW k \in i + 1..n - 1 PROVE k \notin Cuts(line)
    OBVIOUS
  <2>1. k \in 1..Len(line)
    BY <1>2, <1>3, <1>4
  <2>2. line[k] # SPACE
    BY <1>1, <1>3, <2>1
  <2>3. k # 0 /\ k # Len(line) + 1
    BY <1>2, <2>1
  <2> QED BY <2>2, <2>3 DEF Cuts
<1>7. SubSeq(buffer, i + 1, n - 1) = SubSeq(line, i + 1, n - 1)
  <2> DEFINE b == SubSeq(buffer, i + 1, n - 1)
             l == SubSeq(line, i + 1, n - 1)
  <2>1. /\ b \in Seq(Chars \cup {NUL}) /\ Len(b) = n - (i + 1)
        /\ \A k \in 1..n - (i + 1) : b[k] = buffer[i + k]
    BY <1>2, <1>3
  <2>2. /\ l \in Seq(Chars) /\ Len(l) = n - (i + 1)
        /\ \A k \in 1..n - (i + 1) : l[k] = line[i + k]
    BY <1>1, <1>2, <1>3, <1>4
  <2>3. \A k \in 1..n - (i + 1) : line[i + k] = buffer[i + k]
    <3>1. \A k \in 1..n - (i + 1) : i + k \in 1..Len(line)
      BY <1>2, <1>3, <1>4
    <3> QED BY <1>1, <3>1
  <2> HIDE DEF b, l
  <2>4. Len(b) = Len(l) /\ \A k \in 1..Len(b) : b[k] = l[k]
    BY <2>1, <2>2, <2>3
  <2>5. b = l
    BY <2>1, <2>2, <2>4, SeqEqual
  <2> QED BY <2>5 DEF b, l
<1>8. n \in i + 1..Len(line) + 1 /\ n \in 1..Len(buffer)
  BY <1>2, <1>3, <1>4
<1> QED BY <1>3, <1>5, <1>6, <1>7, <1>8 DEF line, word, n

\* The names of the commands are different, and no command has more than two parameters.
LEMMA CommandFacts ==
  /\ COMM_SIZE = 4 /\ Len(commands) = 4
  /\ \A i \in 1..4 : /\ commands[i].name \in Seq(Letters) \ {<< >>}
                     /\ commands[i].cantArgs \in 0..2
  /\ \A i, j \in 1..4 : commands[i].name = commands[j].name => i = j
PROOF
<1>1. COMM_SIZE = 4 /\ Len(commands) = 4
  BY DEF COMM_SIZE, commands
<1>2. /\ commands[1].name = <<"l">> /\ commands[1].cantArgs = 2
      /\ commands[2].name = <<"l", "p">> /\ commands[2].cantArgs = 1
      /\ commands[3].name = <<"p">> /\ commands[3].cantArgs = 0
      /\ commands[4].name = <<"q">> /\ commands[4].cantArgs = 0
  BY DEF commands
<1>3. /\ <<"l">> \in Seq(Letters) /\ <<"l", "p">> \in Seq(Letters)
      /\ <<"p">> \in Seq(Letters) /\ <<"q">> \in Seq(Letters)
  BY DEF Letters
<1>4. \A i \in 1..4 : i = 1 \/ i = 2 \/ i = 3 \/ i = 4
  OBVIOUS
<1>5. \A i \in 1..4 : commands[i].name \in Seq(Letters) \ {<< >>}
  <2>1. \A i \in 1..4 : commands[i].name \in Seq(Letters)
    BY <1>2, <1>3, <1>4, Zenon
  <2>2. \A i \in 1..4 : commands[i].name # << >>
    BY <1>2, <1>4
  <2> QED BY <2>1, <2>2
<1>6. \A i \in 1..4 : commands[i].cantArgs \in 0..2
  BY <1>2, <1>4
<1>7. \A i, j \in 1..4 : commands[i].name = commands[j].name => i = j
  BY <1>2, <1>4
<1> QED BY <1>1, <1>5, <1>6, <1>7

\* The words are the name and the parameters of the i-th command, in a state that has it.
Fits(words, state, i) ==
  /\ commands[i].name = words[1] /\ commands[i].cantArgs + 1 = Len(words)
  /\ state \in commands[i].actionOnState

ResultTypes == [error : Errors \cup {"none"}, name : Seq(Letters), args : Seq(Seq(Letters))]

LEMMA FailedFacts ==
  ASSUME NEW error \in Errors
  PROVE  Failed(error) \in ResultTypes /\ Failed(error).error # "none"
PROOF
<1>1. << >> \in Seq(Letters) /\ << >> \in Seq(Seq(Letters))
  OBVIOUS
<1>2. Failed(error) = [error |-> error, name |-> << >>, args |-> << >>]
  BY DEF Failed, Nothing
<1> QED BY <1>1, <1>2 DEF Errors, ResultTypes

\* parser takes the command of the first word's name, if there is one.
LEMMA ParsedFacts ==
  ASSUME NEW words \in Seq(Seq(Letters)), Len(words) > 0, NEW state
  PROVE  LET p == Parsed(words, state)
         IN  /\ p \in ResultTypes
             /\ p.error = "none" => \E i \in 1..4 : Fits(words, state, i)
             /\ \A i \in 1..4 : Fits(words, state, i) =>
                  p.error = "none" /\ p.name = commands[i].name /\ p.args = Tail(words)
PROOF
<1> DEFINE named == {k \in 1..Len(commands) : commands[k].name = words[1]}
           p == Parsed(words, state)
<1>1. PICK i : i = IF named # {} THEN Min(named) ELSE 0
  OBVIOUS
<1>2. p = IF i = 0 THEN Failed("incorrect")
          ELSE IF state \notin commands[i].actionOnState THEN Failed("state")
          ELSE IF Len(words) - 1 # commands[i].cantArgs THEN Failed("amount")
          ELSE [error |-> "none", name |-> commands[i].name, args |-> Tail(words)]
  BY <1>1 DEF Parsed, SelectInSeq
<1>3. named # {} => Min(named) \in named
  <2>1. named \in SUBSET Nat
    BY CommandFacts
  <2> HIDE DEF named
  <2> QED BY <2>1, LeastElement
<1>4. i # 0 => i \in 1..4 /\ commands[i].name = words[1]
  BY <1>1, <1>3, CommandFacts
<1>5. \A k \in 1..4 : commands[k].name = words[1] => k = i
  BY <1>1, <1>3, CommandFacts
<1> HIDE DEF named, p
<1>6. Tail(words) \in Seq(Seq(Letters)) /\ Len(words) \in Nat
  OBVIOUS
<1>7. i # 0 => commands[i].name \in Seq(Letters) /\ commands[i].cantArgs \in Nat
  BY <1>4, CommandFacts
<1>8. \A k \in 1..4 : Fits(words, state, k) =>
        /\ k = i /\ i # 0 /\ state \in commands[i].actionOnState
        /\ Len(words) - 1 = commands[i].cantArgs
  <2> SUFFICES ASSUME NEW k \in 1..4, Fits(words, state, k)
               PROVE  /\ k = i /\ i # 0 /\ state \in commands[i].actionOnState
                      /\ Len(words) - 1 = commands[i].cantArgs
    OBVIOUS
  <2>1. k = i /\ i # 0
    BY <1>5 DEF Fits
  <2> QED BY <1>6, <1>7, <2>1 DEF Fits
<1>9. CASE \E error \in Errors : p = Failed(error)
  <2>1. p \in ResultTypes /\ p.error # "none"
    BY <1>9, FailedFacts
  <2>2. ASSUME NEW k \in 1..4, Fits(words, state, k) PROVE FALSE
    BY <1>2, <1>8, <2>1, <2>2
  <2> QED BY <2>1, <2>2 DEF p
<1>10. CASE /\ i # 0 /\ state \in commands[i].actionOnState
            /\ Len(words) - 1 = commands[i].cantArgs
  <2>1. p = [error |-> "none", name |-> commands[i].name, args |-> Tail(words)]
    BY <1>2, <1>10
  <2>2. i \in 1..4 /\ Fits(words, state, i)
    BY <1>4, <1>6, <1>7, <1>10 DEF Fits
  <2>3. p \in ResultTypes
    BY <1>6, <1>7, <1>10, <2>1 DEF ResultTypes
  <2> QED BY <1>8, <2>1, <2>2, <2>3 DEF p
<1>11. \/ \E error \in Errors : p = Failed(error)
       \/ /\ i # 0 /\ state \in commands[i].actionOnState
          /\ Len(words) - 1 = commands[i].cantArgs
  BY <1>2 DEF Errors
<1> QED BY <1>9, <1>10, <1>11

-----------------------------------------------------------------------------
(* The prompt: splitArgs and its loop.                                      *)

LEMMA UserInputIsBuffer ==
  ASSUME TypeOK
  PROVE  /\ user_input \in Buffers /\ Len(user_input) \in 1..BUFFERSIZE
         /\ LineOf(user_input) \in Seq(Chars)
         /\ Len(LineOf(user_input)) \in 0..Len(user_input) - 1
         /\ user_input \in Seq(Chars \cup {NUL}) /\ Len(user_input) \in Nat
BY LineFacts DEF TypeOK, Buffers

\* What the position says of the end of the line.
LEMMA EndOfLineIsLastCut ==
  ASSUME TypeOK, WordsSoFar, pc = "loop"
  PROVE  /\ position \in 0..Len(LineOf(user_input)) + 1
         /\ EndOfLine <=> position = Len(LineOf(user_input)) + 1
PROOF
<1> DEFINE line == LineOf(user_input)
<1>1. position \in Cuts(line) /\ user_input \in Buffers /\ line \in Seq(Chars)
  BY UserInputIsBuffer DEF WordsSoFar, WordsUpTo
<1>2. position \in 0..Len(line) + 1 /\ position \in Nat \ {0} /\ Len(line) \in Nat
  BY <1>1, CutsFinite DEF TypeOK
<1>3. /\ user_input[Len(line) + 1] \in {NUL, NEWLINE}
      /\ \A i \in 1..Len(line) : user_input[i] \notin {NUL, NEWLINE}
  BY <1>1, LineFacts
<1> QED BY <1>2, <1>3 DEF EndOfLine

\* splitArgs takes the next word, from a cut i of the line.
LEMMA TakeWordFacts ==
  ASSUME TypeOK, NEW i \in 0..Len(LineOf(user_input)), TakeWord(i + 1),
         WordsUpTo(LineOf(user_input), args, i), Len(args) < CANT_ARGS
  PROVE  /\ WordsUpTo(LineOf(user_input), args', position') /\ pc' = "loop"
         /\ position' \in 1..Len(user_input) /\ args' \in Seq(Seq(Letters))
         /\ Len(args') = Len(args) + 1 /\ Len(args') \in 1..CANT_ARGS
         /\ args' = Append(args, strCpy(user_input, i + 1))
         /\ position' = i + 1 + Len(strCpy(user_input, i + 1))
PROOF
<1> DEFINE line == LineOf(user_input)
           word == strCpy(user_input, i + 1)
           n == i + 1 + Len(word)
<1>1. /\ word \in Seq(Letters) /\ word = SubSeq(line, i + 1, n - 1)
      /\ n \in Cuts(line) /\ n \in i + 1..Len(line) + 1 /\ n \in 1..Len(user_input)
      /\ \A k \in i + 1..n - 1 : k \notin Cuts(line)
  BY UserInputIsBuffer, WordToCut
<1>2. /\ args' = Append(args, word) /\ position' = n /\ pc' = "loop"
  BY DEF TakeWord
<1>3. /\ args \in Seq(Seq(Letters)) /\ Len(args) \in Nat /\ CANT_ARGS \in Nat
      /\ line \in Seq(Chars) /\ Len(line) \in Nat
  BY UserInputIsBuffer, CommandLineAssumption DEF TypeOK
<1> HIDE DEF line, word, n
<1>4. i < n
  BY <1>1, <1>3 DEF line
<1>5. WordsUpTo(line, Append(args, SubSeq(line, i + 1, n - 1)), n)
  <2>1. WordsUpTo(line, args, i) /\ SubSeq(line, i + 1, n - 1) \in Seq(Letters)
    BY <1>1 DEF line
  <2> QED BY <1>1, <1>3, <1>4, <2>1, NextWord
<1>6. Append(args, word) \in Seq(Seq(Letters)) /\ Len(Append(args, word)) = Len(args) + 1
  BY <1>1, <1>3
<1>7. WordsUpTo(line, args', position')
  BY <1>1, <1>2, <1>5
<1>8. Len(args') = Len(args) + 1 /\ Len(args') \in 1..CANT_ARGS
  BY <1>2, <1>3, <1>6
<1> QED BY <1>1, <1>2, <1>6, <1>7, <1>8 DEF line, word, n

\* A line that begins with a space has an empty first word, and no command that name.
LEMMA SpaceFirst ==
  ASSUME TypeOK, user_input[1] = SPACE, NEW i \in 1..COMM_SIZE
  PROVE  ~Calls(LineOf(user_input), session_state, commands[i])
PROOF
<1> DEFINE line == LineOf(user_input)
<1>1. line \in Seq(Chars) /\ Len(line) \in Nat /\ user_input \in Buffers
  BY UserInputIsBuffer
<1>2. Len(line) # 0 /\ line[1] = SPACE
  BY <1>1, LineFacts DEF NUL, NEWLINE, SPACE
<1> HIDE DEF line
<1>3. 0 \in Cuts(line) /\ 1 \in Cuts(line)
  BY <1>1, <1>2 DEF Cuts
<1>4. Rank(line, 0) = 1 /\ Rank(line, 1) = 2
  <2>1. \A k \in 0 + 1..1 - 1 : k \notin Cuts(line)
    OBVIOUS
  <2>2. Rank(line, 1) = Rank(line, 0) + 1
    BY <1>1, <1>3, <2>1, RankOfNext
  <2> QED BY <1>1, <2>2, RankOfEnds
<1>5. Cut(line, 1) = 0 /\ Cut(line, 2) = 1
  BY <1>1, <1>3, <1>4, CutOfRank
<1>6. Rank(line, 1) < Cardinality(Cuts(line)) /\ Cardinality(Cuts(line)) \in Nat
  <2>1. 1 \in 0..Len(line)
    BY <1>1, <1>2
  <2> QED BY <1>1, <2>1, RankOfEnds, CutsFinite
<1>7. Words(line)[1] = SubSeq(line, Cut(line, 1) + 1, Cut(line, 1 + 1) - 1)
  <2>1. 1 \in 1..Cardinality(Cuts(line)) - 1
    BY <1>4, <1>6
  <2> QED BY <2>1 DEF Words
<1>8. Words(line)[1] = << >>
  BY <1>1, <1>5, <1>7
<1>9. commands[i].name # << >>
  BY CommandFacts
<1> QED BY <1>8, <1>9 DEF Calls, line

\* A line with more words than the table has room for calls no command.
LEMMA TooManyWords ==
  ASSUME TypeOK, WordsSoFar, pc = "loop", ~EndOfLine, Len(args) = CANT_ARGS,
         NEW i \in 1..COMM_SIZE
  PROVE  ~Calls(LineOf(user_input), session_state, commands[i])
PROOF
<1> DEFINE line == LineOf(user_input)
<1>1. /\ line \in Seq(Chars) /\ args \in Seq(Seq(Letters)) /\ WordsUpTo(line, args, position)
      /\ position # Len(line) + 1
  BY UserInputIsBuffer, EndOfLineIsLastCut DEF WordsSoFar, TypeOK
<1> HIDE DEF line
<1>2. Len(args) < Len(Words(line)) /\ Len(Words(line)) \in Nat
  BY <1>1, AllWords
<1>3. commands[i].cantArgs \in 0..2
  BY CommandFacts
<1>4. Len(Words(line)) # commands[i].cantArgs + 1
  BY <1>2, <1>3, CommandLineAssumption
<1> QED BY <1>4 DEF Calls, line

\* At the end of the line the table holds its words.
LEMMA LineIsSplit ==
  ASSUME TypeOK, WordsSoFar, pc = "loop", EndOfLine
  PROVE  Words(LineOf(user_input)) = args
PROOF
<1> DEFINE line == LineOf(user_input)
<1>1. /\ line \in Seq(Chars) /\ args \in Seq(Seq(Letters)) /\ WordsUpTo(line, args, position)
      /\ position = Len(line) + 1
  BY UserInputIsBuffer, EndOfLineIsLastCut DEF WordsSoFar, TypeOK
<1> HIDE DEF line
<1>2. Words(line) = args
  BY <1>1, AllWords
<1> QED BY <1>2 DEF line

-----------------------------------------------------------------------------
(* The prompt: what fgets takes.                                            *)

\* A piece ends with a newline, with the text, or where the buffer is full.
LEMMA FgetsFacts ==
  ASSUME NEW text \in Seq(Chars)
  PROVE  LET n == Len(fgets(text)) IN
           /\ fgets(text) = SubSeq(text, 1, n) /\ n \in 0..Len(text) /\ n < BUFFERSIZE
           /\ text # << >> => n > 0
           /\ \A k \in 1..n - 1 : text[k] # NEWLINE
           /\ n = Len(text) \/ text[n] = NEWLINE \/ n = BUFFERSIZE - 1
PROOF
<1> DEFINE newlines == {k \in 1..Len(text) : text[k] = NEWLINE}
           m == IF newlines = {} THEN Len(text) ELSE Min(newlines)
           n == IF m < BUFFERSIZE THEN m ELSE BUFFERSIZE - 1
<1>1. Len(text) \in Nat /\ BUFFERSIZE \in Nat /\ BUFFERSIZE > 2 /\ text \in Seq(Chars)
  BY CommandLineAssumption
<1>2. newlines # {} => /\ Min(newlines) \in newlines
                       /\ \A k \in newlines : Min(newlines) <= k
  <2>1. newlines \in SUBSET Nat
    BY <1>1
  <2> HIDE DEF newlines
  <2> QED BY <2>1, LeastElement
<1>3. fgets(text) = SubSeq(text, 1, n)
  <2>1. newlines # {} => Min(newlines) # 0
    BY <1>1, <1>2
  <2> HIDE DEF newlines
  <2>2. SelectInSeq(text, LAMBDA ch : ch = NEWLINE) =
          IF newlines # {} THEN Min(newlines) ELSE 0
    BY DEF SelectInSeq, newlines
  <2> QED BY <2>1, <2>2 DEF fgets
<1>4. /\ m \in 0..Len(text)
      /\ text # << >> => m > 0
      /\ \A k \in 1..m - 1 : text[k] # NEWLINE
      /\ m = Len(text) \/ text[m] = NEWLINE
  <2>1. CASE newlines = {}
    <3>1. m = Len(text) /\ \A k \in 1..Len(text) : text[k] # NEWLINE
      BY <2>1
    <3>2. text # << >> => Len(text) > 0
      BY <1>1
    <3> HIDE DEF m
    <3> QED BY <1>1, <3>1, <3>2
  <2>2. CASE newlines # {}
    <3>1. m \in newlines /\ \A k \in newlines : m <= k
      BY <1>2, <2>2
    <3> HIDE DEF m
    <3>2. m \in 1..Len(text) /\ text[m] = NEWLINE
      BY <3>1
    <3>3. \A k \in 1..m - 1 : text[k] # NEWLINE
      BY <1>1, <3>1, <3>2
    <3> QED BY <1>1, <3>2, <3>3
  <2> QED BY <2>1, <2>2
<1> HIDE DEF m, newlines
<1>5. /\ n \in 0..Len(text) /\ n < BUFFERSIZE
      /\ text # << >> => n > 0
      /\ \A k \in 1..n - 1 : text[k] # NEWLINE
      /\ n = Len(text) \/ text[n] = NEWLINE \/ n = BUFFERSIZE - 1
  BY <1>1, <1>4
<1> HIDE DEF n
<1>6. Len(fgets(text)) = n
  BY <1>1, <1>3, <1>5
<1> QED BY <1>3, <1>5, <1>6

\* How many characters are typed is a number that grows with the input.
LEMMA TypedGrows ==
  ASSUME NEW i \in Nat, NEW j \in Nat, i <= j
  PROVE  /\ Typed(i) \in Nat /\ Typed(i) <= Typed(j)
         /\ i < j /\ typed[i + 1] = "p" => Typed(i) + 1 <= Typed(j)
PROOF
<1> DEFINE I == {k \in 1..i : typed[k] = "p"}
           J == {k \in 1..j : typed[k] = "p"}
<1>1. IsFiniteSet(J) /\ I \in SUBSET J
  <2>1. IsFiniteSet(1..j)
    BY FS_Interval
  <2>2. J \in SUBSET (1..j) /\ I \in SUBSET J
    OBVIOUS
  <2> HIDE DEF I, J
  <2> QED BY <2>1, <2>2, FS_Subset
<1>2. i < j /\ typed[i + 1] = "p" => i + 1 \notin I /\ I \cup {i + 1} \in SUBSET J
  OBVIOUS
<1> HIDE DEF I, J
<1>3. IsFiniteSet(I) /\ Cardinality(I) \in Nat /\ Cardinality(J) \in Nat
      /\ Cardinality(I) <= Cardinality(J)
  BY <1>1, FS_Subset, FS_CardinalityType
<1>4. ASSUME i < j /\ typed[i + 1] = "p" PROVE Cardinality(I) + 1 <= Cardinality(J)
  <2>1. IsFiniteSet(I \cup {i + 1}) /\ Cardinality(I \cup {i + 1}) = Cardinality(I) + 1
    BY <1>2, <1>3, <1>4, FS_AddElement
  <2> QED BY <1>1, <1>2, <1>4, <2>1, FS_Subset
<1> QED BY <1>3, <1>4 DEF I, J, Typed

\* The input goes on at the beginning of a line, or a whole number of buffers behind it.
LEMMA NextPiece ==
  ASSUME TypeOK, BufferIsPiece, ~EndOfInput
  PROVE  BeginsPiece(taken + 1)
PROOF
<1>1. taken \in Nat /\ Len(typed) \in Nat /\ taken < Len(typed)
      /\ BUFFERSIZE \in Nat /\ BUFFERSIZE > 2
  BY CommandLineAssumption DEF TypeOK, EndOfInput
<1>2. CASE taken = 0
  <2>1. BeginsLine(1, taken + 1) /\ (taken + 1) - 1 = 0 * (BUFFERSIZE - 1)
    BY <1>1, <1>2 DEF BeginsLine
  <2> QED BY <1>1, <1>2, <2>1 DEF BeginsPiece
<1>3. CASE taken # 0
  <2>1. PICK i \in 0..taken - 1 : Holds(i)
    BY <1>3 DEF BufferIsPiece
  <2>2. CASE typed[taken] = NEWLINE
    <3>1. BeginsLine(taken + 1, taken + 1) /\ (taken + 1) - (taken + 1) = 0 * (BUFFERSIZE - 1)
      BY <1>1, <2>2 DEF BeginsLine
    <3> QED BY <1>1, <3>1 DEF BeginsPiece
  <2>3. CASE typed[taken] # NEWLINE
    <3>1. /\ taken - i = BUFFERSIZE - 1 /\ \A k \in i + 1..taken - 1 : typed[k] # NEWLINE
      BY <1>1, <2>1, <2>3 DEF Holds
    <3>2. PICK j \in 1..i + 1, n \in 0..i + 1 :
            BeginsLine(j, i + 1) /\ (i + 1) - j = n * (BUFFERSIZE - 1)
      BY <2>1 DEF Holds, BeginsPiece
    <3>3. BeginsLine(j, taken + 1)
      BY <1>1, <2>1, <2>3, <3>1, <3>2 DEF BeginsLine
    <3>4. (n + 1) * (BUFFERSIZE - 1) = n * (BUFFERSIZE - 1) + (BUFFERSIZE - 1)
      BY <1>1, <3>2
    <3>5. (taken + 1) - j = (n + 1) * (BUFFERSIZE - 1)
      <4> DEFINE a == n * (BUFFERSIZE - 1)
                 b == (n + 1) * (BUFFERSIZE - 1)
      <4>1. a \in Int /\ b \in Int /\ b = a + (BUFFERSIZE - 1) /\ (i + 1) - j = a
        BY <1>1, <3>2, <3>4
      <4> HIDE DEF a, b
      <4>2. (taken + 1) - j = b
        BY <1>1, <2>1, <3>1, <3>2, <4>1
      <4> QED BY <4>2 DEF b
    <3>6. j \in 1..taken + 1 /\ n + 1 \in 0..taken + 1
      BY <1>1, <2>1, <3>2
    <3> QED BY <3>3, <3>5, <3>6 DEF BeginsPiece
  <2> QED BY <2>2, <2>3
<1> QED BY <1>2, <1>3

-----------------------------------------------------------------------------
(* The prompt: the steps.                                                   *)

LEMMA PromptInit ==
  ASSUME Init
  PROVE  PromptInvariant
PROOF
<1>1. typed \in Seq(Chars)
  <2>1. PICK n \in 0..MaxInput : typed \in [1..n -> Chars]
    BY DEF Init
  <2>2. n \in Nat
    BY CommandLineAssumption
  <2>3. typed \in UNION {[1..m -> Chars] : m \in Nat}
    BY <2>1, <2>2, Zenon
  <2> QED BY <2>3, SeqDef, Zenon
<1>2. TypeOK
  <2>1. << >> \in Seq(Letters) /\ << >> \in Seq(Seq(Letters))
    OBVIOUS
  <2>2. Nothing \in [error : Errors \cup {"none"}, name : Seq(Letters), args : Seq(Seq(Letters))]
    BY <2>1 DEF Nothing
  <2>3. <<NUL>> \in Seq(Chars \cup {NUL}) /\ Len(<<NUL>>) \in 1..BUFFERSIZE
        /\ <<NUL>>[Len(<<NUL>>)] = NUL
    BY CommandLineAssumption
  <2> QED BY <1>1, <2>1, <2>2, <2>3, CommandLineAssumption DEF Init, TypeOK
<1>3. WordsSoFar /\ FirstWord /\ LeavesOnQuitOnly
  BY DEF Init, WordsSoFar, FirstWord, LeavesOnQuitOnly
<1>4. BufferIsPiece
  <2>1. Typed(0) \in Nat
    BY TypedGrows
  <2> QED BY <2>1 DEF Init, BufferIsPiece
<1> QED BY <1>2, <1>3, <1>4 DEF PromptInvariant

LEMMA PromptUnchanged ==
  ASSUME UNCHANGED vars, PromptInvariant
  PROVE  PromptInvariant'
PROOF
<1>1. TypeOK'
  BY DEF vars, PromptInvariant, TypeOK
<1>2. WordsSoFar' /\ FirstWord'
  BY DEF vars, PromptInvariant, WordsSoFar, FirstWord
<1>3. LeavesOnQuitOnly'
  BY DEF vars, PromptInvariant, LeavesOnQuitOnly, LineStart
<1>4. BufferIsPiece'
  BY DEF vars, PromptInvariant, BufferIsPiece, Holds, BeginsPiece, BeginsLine, EndOfInput,
         Typed
<1> QED BY <1>1, <1>2, <1>3, <1>4 DEF PromptInvariant

\* What is said of the input alone stays, and more of it says no less.
LEMMA ReadStep ==
  ASSUME read_line, PromptInvariant
  PROVE  PromptInvariant'
PROOF
<1> DEFINE text == SubSeq(typed, taken + 1, Len(typed))
           chunk == fgets(text)
           n == Len(chunk)
<1>1. TypeOK /\ BufferIsPiece
  BY DEF PromptInvariant
<1>2. /\ pc = "fgets" /\ pc' = "splitArgs" /\ position' = 1 /\ args' = << >>
      /\ taken' = taken + n
      /\ user_input' = IF EndOfInput THEN user_input ELSE Append(chunk, NUL)
      /\ UNCHANGED <<typed, session_state, result, points>>
  BY DEF read_line
<1>3. typed \in Seq(Chars) /\ Len(typed) \in Nat /\ taken \in 0..Len(typed)
  BY <1>1 DEF TypeOK
<1>4. text \in Seq(Chars) /\ Len(text) = Len(typed) - taken
      /\ \A k \in 1..Len(text) : text[k] = typed[taken + k]
  BY <1>3
<1>5. /\ chunk = SubSeq(text, 1, n) /\ n \in 0..Len(text) /\ n < BUFFERSIZE
      /\ text # << >> => n > 0
      /\ \A k \in 1..n - 1 : text[k] # NEWLINE
      /\ n = Len(text) \/ text[n] = NEWLINE \/ n = BUFFERSIZE - 1
  <2> HIDE DEF text
  <2> QED BY <1>4, FgetsFacts
<1> HIDE DEF chunk, n
<1>6. /\ chunk = SubSeq(typed, taken + 1, taken + n)
      /\ taken + n \in 0..Len(typed) /\ n \in Nat
      /\ ~EndOfInput => n > 0
      /\ \A k \in taken + 1..taken + n - 1 : typed[k] # NEWLINE
      /\ taken + n = Len(typed) \/ typed[taken + n] = NEWLINE \/ n = BUFFERSIZE - 1
  <2>1. \A k \in taken + 1..taken + n - 1 : k - taken \in 1..n - 1 /\ typed[k] = text[k - taken]
    BY <1>3, <1>4, <1>5
  <2>2. \A k \in taken + 1..taken + n - 1 : typed[k] # NEWLINE
    BY <1>5, <2>1
  <2>3. /\ taken + n \in 0..Len(typed) /\ n \in Nat
        /\ n = Len(text) => taken + n = Len(typed)
    BY <1>3, <1>4, <1>5
  <2>4. ~EndOfInput => n > 0
    <3>1. ASSUME ~EndOfInput PROVE text # << >>
      <4>1. Len(text) > 0
        BY <1>3, <1>4, <3>1 DEF EndOfInput
      <4> HIDE DEF text
      <4> QED BY <4>1
    <3> QED BY <1>5, <3>1
  <2>5. n > 0 => text[n] = typed[taken + n]
    BY <1>3, <1>4, <1>5
  <2>7. n = 0 => text = << >>
    BY <1>5
  <2>8. chunk = SubSeq(typed, taken + 1, taken + n)
    BY <1>3, <1>4, <1>5
  <2>9. taken + n = Len(typed) \/ typed[taken + n] = NEWLINE \/ n = BUFFERSIZE - 1
    <3>1. CASE n = 0
      BY <1>3, <1>4, <2>7, <3>1
    <3>2. CASE n # 0
      <4>1. n > 0
        BY <2>3, <3>2
      <4> QED BY <1>5, <2>3, <2>5, <4>1
    <3> QED BY <3>1, <3>2
  <2> QED BY <2>2, <2>3, <2>4, <2>8, <2>9
<1>7. chunk \in Seq(Chars) /\ Len(chunk) = n /\ n < BUFFERSIZE
  <2>1. chunk \in Seq(Chars)
    <3> HIDE DEF text
    <3> QED BY <1>4, <1>5
  <2> QED BY <1>5, <2>1 DEF n
<1> HIDE DEF text
<1>8. TypeOK'
  <2>1. /\ user_input' \in Seq(Chars \cup {NUL}) /\ Len(user_input') \in 1..BUFFERSIZE
        /\ user_input'[Len(user_input')] = NUL
    <3>1. CASE EndOfInput
      BY <1>1, <1>2, <3>1 DEF TypeOK
    <3>2. CASE ~EndOfInput
      <4>1. user_input' = Append(chunk, NUL)
        BY <1>2, <3>2
      <4>2. /\ Append(chunk, NUL) \in Seq(Chars \cup {NUL})
            /\ Len(Append(chunk, NUL)) = n + 1 /\ Append(chunk, NUL)[n + 1] = NUL
        BY <1>7
      <4> QED BY <1>6, <1>7, <4>1, <4>2, CommandLineAssumption
    <3> QED BY <3>1, <3>2
  <2>2. position' \in 1..Len(user_input')
    BY <1>2, <2>1
  <2>3. args' \in Seq(Seq(Letters)) /\ Len(args') \in 0..CANT_ARGS
    BY <1>2, CommandLineAssumption
  <2>4. taken' \in 0..Len(typed')
    BY <1>2, <1>6
  <2> QED BY <1>1, <1>2, <2>1, <2>2, <2>3, <2>4 DEF TypeOK
<1>9. WordsSoFar' /\ FirstWord' /\ LeavesOnQuitOnly'
  BY <1>2 DEF WordsSoFar, FirstWord, LeavesOnQuitOnly
<1>10. \A i : Typed(i)' = Typed(i) /\ BeginsPiece(i)' = BeginsPiece(i)
  BY <1>2 DEF Typed, BeginsPiece, BeginsLine
<1>11. BufferIsPiece'
  <2>1. CASE EndOfInput
    <3>1. taken' = taken /\ user_input' = user_input /\ EndOfInput'
      BY <1>2, <1>3, <1>6, <2>1 DEF EndOfInput
    <3>2. \A i : Holds(i) => Holds(i)'
      BY <1>2, <1>10, <3>1 DEF Holds
    <3> QED BY <1>1, <3>1, <3>2 DEF BufferIsPiece
  <2>2. CASE ~EndOfInput
    <3>1. PICK i : i = taken
      OBVIOUS
    <3>2. /\ Typed(i) \in Nat /\ Typed(i) <= Typed(taken + n)
          /\ Typed(taken + n) \in Nat
      BY <1>3, <1>6, <3>1, TypedGrows
    <3>3. points <= Typed(i) /\ points \in Nat /\ BeginsPiece(i + 1)
      BY <1>1, <2>2, <3>1, NextPiece DEF BufferIsPiece, TypeOK
    <3>4. Holds(i)'
      <4>1. user_input' = Append(SubSeq(typed, i + 1, taken'), NUL)
        BY <1>2, <1>6, <2>2, <3>1
      <4>2. taken' - i = n
        BY <1>2, <1>3, <1>6, <3>1
      <4>3. Typed(i)' = Typed(i) /\ BeginsPiece(i + 1)'
        BY <1>10, <3>3
      <4>4. \A k \in i + 1..taken' - 1 : typed'[k] # NEWLINE
        <5>1. typed' = typed /\ taken' = taken + n /\ i = taken
          BY <1>2, <3>1
        <5>2. i + 1..taken' - 1 = taken + 1..taken + n - 1
          BY <1>3, <1>6, <5>1
        <5> QED BY <1>6, <5>1, <5>2, Zenon
      <4>5. taken' = Len(typed') \/ typed'[taken'] = NEWLINE \/ taken' - i = BUFFERSIZE - 1
        BY <1>2, <1>6, <4>2
      <4> QED BY <1>2, <1>7, <3>3, <4>1, <4>2, <4>3, <4>4, <4>5 DEF Holds
    <3>5. i \in 0..taken' - 1
      BY <1>2, <1>3, <1>6, <2>2, <3>1
    <3>6. points' <= Typed(taken)'
      <4>1. Typed(taken)' = Typed(taken + n)
        BY <1>2 DEF Typed
      <4> QED BY <1>2, <3>2, <3>3, <4>1
    <3> QED BY <3>4, <3>5, <3>6 DEF BufferIsPiece
  <2> QED BY <2>1, <2>2
<1> QED BY <1>8, <1>9, <1>11 DEF PromptInvariant

\* The buffer and the input stay while a line is split and parsed.
LEMMA PieceStays ==
  ASSUME PromptInvariant, UNCHANGED <<typed, taken, user_input>>, pc \in {"splitArgs", "loop"},
         points' = points \/ pc' \in {"fgets", "done"},
         points' = points \/ EndOfInput \/ points' <= Typed(taken)
  PROVE  BufferIsPiece'
PROOF
<1>1. \A i : /\ Typed(i)' = Typed(i)
             /\ BeginsPiece(i) => BeginsPiece(i)'
  BY DEF Typed, BeginsPiece, BeginsLine
<1>2. EndOfInput' = EndOfInput /\ BufferIsPiece
  BY DEF EndOfInput, PromptInvariant
<1>3. EndOfInput' \/ points' <= Typed(taken)'
  <2>1. Typed(taken)' = Typed(taken)
    BY DEF Typed
  <2> QED BY <1>2, <2>1 DEF BufferIsPiece
<1>4. ASSUME NEW i, Holds(i) PROVE Holds(i)'
  BY <1>1, <1>2, <1>4 DEF Holds
<1>5. \/ user_input' = <<NUL>> /\ taken' = 0 /\ (pc' # "fgets" => EndOfInput')
      \/ \E i \in 0..taken' - 1 : Holds(i)'
  <2>1. CASE user_input = <<NUL>> /\ taken = 0 /\ EndOfInput
    BY <1>2, <2>1
  <2>2. CASE \E i \in 0..taken - 1 : Holds(i)
    BY <1>4, <2>2
  <2> QED BY <1>2, <2>1, <2>2 DEF BufferIsPiece
<1> QED BY <1>3, <1>5 DEF BufferIsPiece

LEMMA ComplainStep ==
  ASSUME PromptInvariant, pc \in {"splitArgs", "loop"}, NEW error \in Errors, Complain(error),
         UNCHANGED <<typed, taken, user_input>>
  PROVE  PromptInvariant'
PROOF
<1>1. /\ pc' = "fgets" /\ result' = Failed(error)
      /\ UNCHANGED <<position, args, session_state, points>>
  BY DEF Complain
<1>2. TypeOK'
  BY <1>1, FailedFacts DEF PromptInvariant, TypeOK, ResultTypes
<1>3. WordsSoFar' /\ FirstWord' /\ LeavesOnQuitOnly'
  BY <1>1 DEF WordsSoFar, FirstWord, LeavesOnQuitOnly
<1> QED BY <1>1, <1>2, <1>3, PieceStays DEF PromptInvariant

LEMMA SplitFirstStep ==
  ASSUME splitArgs, PromptInvariant
  PROVE  PromptInvariant'
PROOF
<1>1. pc = "splitArgs" /\ UNCHANGED <<typed, taken, user_input>> /\ TypeOK /\ args = << >>
  BY DEF splitArgs, PromptInvariant, WordsSoFar
<1>2. CASE user_input[1] = SPACE
  BY <1>1, <1>2, ComplainStep DEF splitArgs, Errors
<1>3. CASE user_input[1] # SPACE
  <2> DEFINE line == LineOf(user_input)
             word == strCpy(user_input, 1)
  <2>1. TakeWord(0 + 1) /\ UNCHANGED <<result, session_state, points>>
    BY <1>1, <1>3 DEF splitArgs, TakeWord
  <2>2. line \in Seq(Chars) /\ 0 \in 0..Len(line)
    BY <1>1, UserInputIsBuffer
  <2>3. WordsUpTo(line, args, 0)
    BY <1>1, <2>2, CutsFinite, RankOfEnds DEF WordsUpTo
  <2>4. /\ WordsUpTo(line, args', position') /\ pc' = "loop"
        /\ position' \in 1..Len(user_input) /\ args' \in Seq(Seq(Letters))
        /\ Len(args') \in 1..CANT_ARGS
        /\ args' = Append(args, strCpy(user_input, 0 + 1))
        /\ position' = 0 + 1 + Len(strCpy(user_input, 0 + 1))
        /\ Len(args') = Len(args) + 1
    <3>1. Len(args) < CANT_ARGS
      BY <1>1, CommandLineAssumption
    <3> QED BY <1>1, <2>1, <2>2, <2>3, <3>1, TakeWordFacts
  <2>5. TypeOK'
    BY <1>1, <2>1, <2>4, CommandLineAssumption DEF TypeOK
  <2>6. WordsSoFar' /\ LeavesOnQuitOnly'
    BY <1>1, <2>4 DEF WordsSoFar, LeavesOnQuitOnly
  <2>7. FirstWord'
    <3>1. word \in Seq(Letters) /\ word = SubSeq(user_input, 1, Len(word))
      <4>1. user_input \in Buffers /\ 1 \in 1..Len(user_input)
        BY <1>1, UserInputIsBuffer
      <4>2. word \in Seq(Letters) /\ word = SubSeq(user_input, 1, 1 + Len(word) - 1)
        BY <4>1, WordFacts
      <4> HIDE DEF word
      <4>3. 1 + Len(word) - 1 = Len(word)
        BY <4>2
      <4> QED BY <4>2, <4>3
    <3>2. args' = <<word>> /\ position' = 1 + Len(word)
      BY <1>1, <2>4
    <3> HIDE DEF word
    <3> QED BY <1>1, <3>1, <3>2 DEF FirstWord
  <2>8. BufferIsPiece'
    BY <1>1, <2>1, PieceStays
  <2> QED BY <2>5, <2>6, <2>7, <2>8 DEF PromptInvariant
<1> QED BY <1>2, <1>3

LEMMA SplitLoopStep ==
  ASSUME splitArgs_loop, PromptInvariant
  PROVE  PromptInvariant'
PROOF
<1>1. /\ pc = "loop" /\ ~EndOfLine /\ UNCHANGED <<typed, taken, user_input>>
      /\ TypeOK /\ WordsSoFar
  BY DEF splitArgs_loop, PromptInvariant
<1>2. CASE Len(args) = CANT_ARGS
  BY <1>1, <1>2, ComplainStep DEF splitArgs_loop, Errors
<1>3. CASE Len(args) # CANT_ARGS
  <2> DEFINE line == LineOf(user_input)
  <2>1. TakeWord(position + 1) /\ UNCHANGED <<result, session_state, points>>
    BY <1>1, <1>3 DEF splitArgs_loop, TakeWord
  <2>2. position \in 0..Len(line) /\ WordsUpTo(line, args, position)
    BY <1>1, EndOfLineIsLastCut, UserInputIsBuffer DEF WordsSoFar
  <2>3. /\ WordsUpTo(line, args', position') /\ pc' = "loop"
        /\ position' \in 1..Len(user_input) /\ args' \in Seq(Seq(Letters))
        /\ Len(args') \in 1..CANT_ARGS /\ Len(args') = Len(args) + 1
        /\ args' = Append(args, strCpy(user_input, position + 1))
    <3>1. Len(args) < CANT_ARGS
      BY <1>1, <1>3, CommandLineAssumption DEF TypeOK
    <3> QED BY <1>1, <2>1, <2>2, <3>1, TakeWordFacts
  <2>4. TypeOK'
    BY <1>1, <2>1, <2>3, CommandLineAssumption DEF TypeOK
  <2>5. WordsSoFar' /\ LeavesOnQuitOnly'
    BY <1>1, <2>3 DEF WordsSoFar, LeavesOnQuitOnly
  <2>6. FirstWord'
    <3>1. args \in Seq(Seq(Letters)) /\ Len(args) > 0 /\ Len(args) \in Nat
      BY <1>1 DEF WordsSoFar, TypeOK
    <3>2. args'[1] = args[1] /\ Len(args') # 1
      BY <2>3, <3>1
    <3>3. args[1] = SubSeq(user_input, 1, Len(args[1]))
      BY <1>1 DEF PromptInvariant, FirstWord
    <3> QED BY <1>1, <3>2, <3>3 DEF FirstWord
  <2>7. BufferIsPiece'
    BY <1>1, <2>1, PieceStays
  <2> QED BY <2>4, <2>5, <2>6, <2>7 DEF PromptInvariant
<1> QED BY <1>2, <1>3

\* A line that is one letter was typed as that letter, and then the line or the input
\* ended.
LEMMA LetterWasTyped ==
  ASSUME PromptInvariant, pc = "loop", EndOfLine, Len(args) = 1,
         NEW letter \in Letters, args[1] = <<letter>>
  PROVE  \E i \in 0..taken - 1 :
           /\ Holds(i) /\ typed[i + 1] = letter
           /\ i + 1 = Len(typed) \/ typed[i + 2] = NEWLINE
PROOF
<1>1. /\ TypeOK /\ position = 2 /\ <<letter>> = SubSeq(user_input, 1, 1)
  <2>1. Len(<<letter>>) = 1
    OBVIOUS
  <2> QED BY <2>1 DEF PromptInvariant, FirstWord
<1>2. /\ user_input \in Seq(Chars \cup {NUL}) /\ Len(user_input) \in Nat
      /\ 2 <= Len(user_input) /\ typed \in Seq(Chars) /\ taken \in 0..Len(typed)
      /\ Len(typed) \in Nat /\ BUFFERSIZE \in Nat /\ BUFFERSIZE > 2
  BY <1>1, CommandLineAssumption DEF TypeOK
<1>3. user_input[1] = letter /\ user_input[2] \in {NUL, NEWLINE}
  <2>1. SubSeq(user_input, 1, 1)[1] = user_input[1]
    BY <1>2
  <2>2. <<letter>>[1] = letter
    OBVIOUS
  <2> QED BY <1>1, <2>1, <2>2 DEF EndOfLine
<1>4. user_input # <<NUL>>
  <2>1. Len(<<NUL>>) = 1
    OBVIOUS
  <2>2. Len(user_input) # 1
    <3>1. \A n \in Nat : 2 <= n => n # 1
      OBVIOUS
    <3> QED BY <1>2, <3>1, Zenon
  <2> QED BY <2>1, <2>2, Zenon
<1>5. PICK i \in 0..taken - 1 : Holds(i)
  BY <1>4 DEF PromptInvariant, BufferIsPiece
<1> DEFINE piece == SubSeq(typed, i + 1, taken)
<1>6. /\ piece \in Seq(Chars) /\ Len(piece) = taken - i /\ user_input = Append(piece, NUL)
      /\ \A k \in 1..taken - i : piece[k] = typed[i + k]
  BY <1>2, <1>5 DEF Holds
<1> HIDE DEF piece
<1>7. \A k \in 1..taken - i : user_input[k] = typed[i + k]
  BY <1>2, <1>5, <1>6
<1>8. typed[i + 1] = letter
  BY <1>2, <1>3, <1>5, <1>7
<1>9. ASSUME i + 1 # Len(typed) PROVE typed[i + 2] = NEWLINE
  <2>1. CASE taken - i = 1
    <3>1. taken # Len(typed) /\ taken - i # BUFFERSIZE - 1 /\ taken = i + 1
      BY <1>2, <1>5, <1>9, <2>1
    <3>2. typed[taken] # NEWLINE
      BY <1>8, <3>1 DEF Letters, NEWLINE
    <3> QED BY <1>5, <3>1, <3>2 DEF Holds
  <2>2. CASE taken - i # 1
    <3>1. 2 \in 1..taken - i /\ i + 2 \in 1..Len(typed)
      BY <1>2, <1>5, <2>2
    <3>2. user_input[2] = typed[i + 2]
      BY <1>7, <3>1
    <3>3. typed[i + 2] \in Chars /\ NUL \notin Chars
      BY <1>2, <3>1 DEF Chars, Letters, NUL, SPACE, NEWLINE
    <3> QED BY <1>3, <3>2, <3>3
  <2> QED BY <2>1, <2>2
<1> QED BY <1>5, <1>8, <1>9

\* What LineStart chooses is the only place where the line of i begins.
LEMMA LineStartUnique ==
  ASSUME NEW i \in Nat, NEW j \in Nat, BeginsLine(j, i)
  PROVE  LineStart(i) = j
PROOF
<1>1. \A k \in 1..i : BeginsLine(k, i) => k = j
  <2> SUFFICES ASSUME NEW k \in 1..i, BeginsLine(k, i), k # j PROVE FALSE
    OBVIOUS
  <2>1. CASE k < j
    <3>1. j # 1 /\ j - 1 \in k..i - 1
      BY <2>1 DEF BeginsLine
    <3> QED BY <3>1 DEF BeginsLine
  <2>2. CASE j < k
    <3>1. k # 1 /\ k - 1 \in j..i - 1
      BY <2>2 DEF BeginsLine
    <3> QED BY <3>1 DEF BeginsLine
  <2> QED BY <2>1, <2>2
<1>2. \A k \in 1..i : BeginsLine(k, i) <=> /\ k = 1 \/ typed[k - 1] = NEWLINE
                                          /\ \A l \in k..i - 1 : typed[l] # NEWLINE
  BY DEF BeginsLine
<1>3. j \in 1..i
  BY DEF BeginsLine
<1> QED BY <1>1, <1>2, <1>3 DEF LineStart

\* The command that runs is the one of the first word, with as many words behind it.
LEMMA CommandRuns ==
  ASSUME PromptInvariant, parser
  PROVE  /\ result' \in ResultTypes /\ args \in Seq(Seq(Letters))
         /\ Runs(<<"p">>) => Len(args) = 1 /\ args[1] = <<"p">>
         /\ Runs(<<"q">>) => Len(args) = 1 /\ args[1] = <<"q">>
PROOF
<1>1. /\ args \in Seq(Seq(Letters)) /\ Len(args) > 0 /\ result' = Parsed(args, session_state)
  BY DEF parser, PromptInvariant, TypeOK, WordsSoFar
<1>2. /\ result' \in ResultTypes
      /\ result'.error = "none" => \E i \in 1..4 : Fits(args, session_state, i)
      /\ \A i \in 1..4 : Fits(args, session_state, i) => result'.name = commands[i].name
  BY <1>1, ParsedFacts
<1>3. /\ commands[3].name = <<"p">> /\ commands[3].cantArgs = 0
      /\ commands[4].name = <<"q">> /\ commands[4].cantArgs = 0
  BY DEF commands
<1>4. ASSUME NEW i \in 1..4, Fits(args, session_state, i), NEW k \in {3, 4},
             result'.name = commands[k].name
      PROVE  Len(args) = 1 /\ args[1] = commands[k].name
  <2>1. i = k
    <3>1. commands[i].name = commands[k].name /\ k \in 1..4
      BY <1>2, <1>4
    <3> QED BY <3>1, CommandFacts
  <2>2. commands[k].cantArgs = 0
    BY <1>3
  <2>3. Len(args) \in Nat
    BY <1>1
  <2> QED BY <1>4, <2>1, <2>2, <2>3 DEF Fits
<1> QED BY <1>1, <1>2, <1>3, <1>4 DEF Runs

LEMMA ParserStep ==
  ASSUME parser, PromptInvariant
  PROVE  PromptInvariant'
PROOF
<1>1. /\ pc = "loop" /\ EndOfLine /\ points < MaxPoints
      /\ UNCHANGED <<typed, taken, user_input, position, args>>
      /\ points' = IF Runs(<<"p">>) THEN points + 1 ELSE points
      /\ pc' = IF Runs(<<"q">>) THEN "done" ELSE "fgets"
      /\ session_state' \in {session_state, "CHAR_SELECTION", "PLAY_GAME"}
  BY DEF parser
<1>2. TypeOK /\ BufferIsPiece /\ points \in Nat /\ taken \in Nat
  BY DEF PromptInvariant, TypeOK
<1>3. TypeOK'
  <2>1. points' \in 0..MaxPoints
    BY <1>1, CommandLineAssumption DEF PromptInvariant, TypeOK
  <2>2. session_state' \in GameStates /\ pc' \in {"fgets", "splitArgs", "loop", "done"}
    BY <1>1, <1>2 DEF TypeOK, GameStates
  <2>3. result' \in [error : Errors \cup {"none"}, name : Seq(Letters), args : Seq(Seq(Letters))]
    BY CommandRuns DEF ResultTypes
  <2> QED BY <1>1, <1>2, <2>1, <2>2, <2>3 DEF TypeOK
<1>4. WordsSoFar' /\ FirstWord'
  BY <1>1 DEF WordsSoFar, FirstWord
<1>5. BufferIsPiece'
  <2>1. points' = points \/ EndOfInput \/ points' <= Typed(taken)
    <3>1. CASE ~Runs(<<"p">>)
      BY <1>1, <3>1
    <3>2. CASE Runs(<<"p">>)
      <4>1. PICK i \in 0..taken - 1 : Holds(i) /\ typed[i + 1] = "p"
        <5>1. Len(args) = 1 /\ args[1] = <<"p">> /\ "p" \in Letters
          BY <3>2, CommandRuns DEF Letters
        <5> QED BY <1>1, <5>1, LetterWasTyped
      <4>2. Typed(i) \in Nat /\ Typed(i) + 1 <= Typed(taken) /\ Typed(taken) \in Nat
        BY <1>2, <4>1, TypedGrows
      <4>3. EndOfInput \/ points <= Typed(i)
        BY <1>1, <4>1 DEF Holds
      <4> QED BY <1>1, <1>2, <4>2, <4>3
    <3> QED BY <3>1, <3>2
  <2> QED BY <1>1, <2>1, PieceStays
<1>6. LeavesOnQuitOnly'
  <2> SUFFICES ASSUME Runs(<<"q">>) PROVE LeavesOnQuitOnly'
    BY <1>1 DEF LeavesOnQuitOnly
  <2>1. PICK i \in 0..taken - 1 : /\ Holds(i) /\ typed[i + 1] = "q"
                                  /\ i + 1 = Len(typed) \/ typed[i + 2] = NEWLINE
    <3>1. Len(args) = 1 /\ args[1] = <<"q">> /\ "q" \in Letters
      BY CommandRuns DEF Letters
    <3> QED BY <1>1, <3>1, LetterWasTyped
  <2>2. i \in Nat /\ i + 1 \in 1..Len(typed) /\ (i + 1) + 1 = i + 2
    BY <1>2, <2>1 DEF TypeOK
  <2>3. PICK j \in 1..i + 1, n \in 0..i + 1 :
          BeginsLine(j, i + 1) /\ (i + 1) - j = n * (BUFFERSIZE - 1)
    BY <2>1 DEF Holds, BeginsPiece
  <2>4. LineStart(i + 1) = j
    BY <2>2, <2>3, LineStartUnique
  <2>5. LineStart(i + 1)' = LineStart(i + 1)
    BY <1>1 DEF LineStart
  <2>6. /\ typed'[i + 1] = "q"
        /\ i + 1 = Len(typed') \/ typed'[(i + 1) + 1] = NEWLINE
    BY <1>1, <2>1, <2>2
  <2>7. \E m \in 0..i + 1 : (i + 1) - LineStart(i + 1)' = m * (BUFFERSIZE - 1)
    BY <2>3, <2>4, <2>5
  <2>8. i + 1 \in 1..Len(typed')
    BY <1>1, <2>2
  <2> QED BY <2>6, <2>7, <2>8 DEF LeavesOnQuitOnly
<1> QED BY <1>3, <1>4, <1>5, <1>6 DEF PromptInvariant

\* A step that ends a parse makes of the line what the line's words say.
LEMMA ParseIsExact ==
  ASSUME PromptInvariant, Next, EndsParse
  PROVE  ExactOn(LineOf(user_input))
PROOF
<1> DEFINE line == LineOf(user_input)
           called == {i \in 1..COMM_SIZE : Calls(line, session_state, commands[i])}
<1>1. TypeOK /\ WordsSoFar /\ pc \in {"splitArgs", "loop"} /\ pc' \in {"fgets", "done"}
  BY DEF PromptInvariant, EndsParse
<1>2. ASSUME called = {}, NEW error \in Errors, Complain(error)
      PROVE  ExactOn(line)
  BY <1>2, FailedFacts DEF ExactOn, Complain
<1>3. CASE splitArgs
  <2>1. user_input[1] = SPACE /\ Complain("incorrect")
    BY <1>1, <1>3 DEF splitArgs, TakeWord
  <2>2. called = {}
    BY <1>1, <2>1, SpaceFirst
  <2> QED BY <1>2, <2>1, <2>2 DEF Errors
<1>4. CASE splitArgs_loop
  <2>1. pc = "loop" /\ ~EndOfLine /\ Len(args) = CANT_ARGS /\ Complain("incorrect")
    BY <1>1, <1>4 DEF splitArgs_loop, TakeWord
  <2>2. called = {}
    BY <1>1, <2>1, TooManyWords
  <2> QED BY <1>2, <2>1, <2>2 DEF Errors
<1>5. CASE parser
  <2>1. /\ pc = "loop" /\ EndOfLine /\ result' = Parsed(args, session_state)
        /\ args \in Seq(Seq(Letters)) /\ Len(args) > 0
    BY <1>1, <1>5 DEF parser, TypeOK, WordsSoFar
  <2>2. Words(line) = args
    BY <1>1, <2>1, LineIsSplit
  <2>3. /\ result'.error = "none" => \E i \in 1..4 : Fits(args, session_state, i)
        /\ \A i \in 1..4 : Fits(args, session_state, i) =>
             /\ result'.error = "none" /\ result'.name = commands[i].name
             /\ result'.args = Tail(args)
    BY <2>1, ParsedFacts
  <2> HIDE DEF line
  <2>4. \A i \in 1..4 : i \in called <=> Fits(args, session_state, i)
    <3> SUFFICES ASSUME NEW i \in 1..4
                 PROVE  Calls(line, session_state, commands[i]) <=> Fits(args, session_state, i)
      BY CommandFacts
    <3>1. commands[i].cantArgs \in Nat
      BY CommandFacts
    <3> QED BY <2>2, <3>1 DEF Calls, Fits
  <2>5. called \in SUBSET (1..4)
    BY CommandFacts
  <2>6. ExactOn(line)
    <3>1. ExactOn(line) <=> /\ called # {} <=> result'.error = "none"
                            /\ \A i \in called : /\ result'.name = commands[i].name
                                                 /\ result'.args = Tail(args)
      BY <2>2 DEF ExactOn
    <3> HIDE DEF called
    <3> QED BY <2>3, <2>4, <2>5, <3>1
  <2> QED BY <2>6 DEF line
<1>6. ~read_line
  BY <1>1 DEF read_line
<1> QED BY <1>3, <1>4, <1>5, <1>6 DEF Next

LEMMA PromptStep ==
  ASSUME Next, PromptInvariant
  PROVE  PromptInvariant'
BY ReadStep, SplitFirstStep, SplitLoopStep, ParserStep DEF Next

\* At every prompt of any user: the words so far are words of the line, the buffer holds a
\* piece of the input, and the points and a quit were typed (client.c:97-279).
THEOREM PromptInvariantHolds == MCSpec => []PromptInvariant
PROOF
<1>1. MCInit => PromptInvariant
  BY PromptInit DEF MCInit
<1>2. PromptInvariant /\ [MCNext]_allVars => PromptInvariant'
  BY MCStep, PromptStep, PromptUnchanged
<1> QED BY <1>1, <1>2, PTL DEF MCSpec

\* The client leaves only if the user typed quit and nothing else up to the end of the
\* line or of the input, for any size of the buffer; but a longer line is cut, and each
\* piece counts as a line (client.c:104).
THEOREM QuitWasTyped == MCSpec => []LeavesOnQuitOnly
PROOF
<1>1. PromptInvariant => LeavesOnQuitOnly
  BY DEF PromptInvariant
<1> QED BY <1>1, PromptInvariantHolds, PTL

\* Up to the end of the input a point is a p that was typed (client.c:104).
THEOREM PointsComeFromInput == MCSpec => []PointsWereTyped
PROOF
<1>1. PromptInvariant => PointsWereTyped
  BY DEF PromptInvariant, BufferIsPiece, PointsWereTyped, Typed
<1> QED BY <1>1, PromptInvariantHolds, PTL

\* A command runs exactly if the line is its name and its parameters, however long the line
\* is and however many words it has (client.c:184-279).
THEOREM ParserIsExactHolds == MCSpec => ParserIsExact
PROOF
<1>1. PromptInvariant /\ [MCNext]_allVars => [EndsParse => ExactOn(LineOf(user_input))]_vars
  BY MCStep, ParseIsExact
<1> QED BY <1>1, PromptInvariantHolds, PTL DEF MCSpec, ParserIsExact
=============================================================================

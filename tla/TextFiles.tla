----------------------------- MODULE TextFiles -----------------------------
(***************************************************************************)
(* Text_IO on one file (src/runtime/adaio.c), whether it is named or the   *)
(* current one: Put and New_Line while it is written, the Get family and   *)
(* the end tests once it is read.  fgetc moves on by a character, and      *)
(* ungetc puts one back; each operation ends between two characters.       *)
(***************************************************************************)
EXTENDS Integers, Sequences, SequencesExt

CONSTANTS
    Items,          \* The texts that Put and Put_Line write.
    Numbers,        \* What Put writes of integers: [value, width, base].
    Room,           \* How long a string Get_Line and the reading of a word fill.
    Literals,       \* The literals of an enumeration type, as texts.
    First, Final,   \* The bounds of the integer type that Get reads.
    Spacings,       \* How many lines Skip_Line passes over.
    MaxContent      \* Bounds the characters written.

VARIABLES
    mode,       \* "out", then "in"
    content,    \* the characters of the file
    position,   \* how many of them have been read
    lines,      \* what the program wrote, as finished lines and one it is in
    reply      \* of the last operation: [operation, from, to, given, value, raised]

textVars == <<mode, content, position, lines, reply>>

Space == "SP"
EndOfLine == "LF"
Blanks == {Space, EndOfLine}
TextDigits == <<"0", "1", "2", "3", "4", "5", "6", "7", "8", "9">>
DigitNumber(c) == (CHOOSE d \in 1..10 : TextDigits[d] = c) - 1
WithDigit(n, c) == 10 * n + DigitNumber(c)
NumberOf(digits) == FoldLeft(WithDigit, 0, digits)
WordCharacters == {"a", "1", "2", "_"}
Numeric == {TextDigits[d] : d \in 1..10}
\* The characters that the operations tell apart; the # stands in a based number.
Characters == Blanks \cup Numeric \cup WordCharacters \cup {"-", "+", "#"}

\* Bases beyond ten would need the letters.
ASSUME TextAssumption ==
    /\ Items \subseteq Seq(Characters)
    /\ Numbers \subseteq [value : Int, width : Nat, base : 2..10]
    /\ Room \subseteq Nat
    /\ Literals \in Seq(Seq(Characters))
    /\ First \in Int /\ Final \in Int
    /\ Spacings \subseteq Nat \ {0}
    /\ MaxContent \in Nat

At(p) == content[p + 1]
EOF(p) == p = Len(content)
FGetC(p) == p + 1
\* ungetc; forgetting it loses a character.
NotPutBack(p) == p
UngetC(p) == p - 1

\* How far reading goes over characters of a set, and up to one of a set.
Past(p, set) == CHOOSE q \in p..Len(content) :
                    /\ \A i \in p..(q - 1) : At(i) \in set
                    /\ EOF(q) \/ At(q) \notin set
UpTo(p, set) == CHOOSE q \in p..Len(content) :
                    /\ \A i \in p..(q - 1) : At(i) \notin set
                    /\ EOF(q) \/ At(q) \in set
Between(p, q) == SubSeq(content, p + 1, q)

\* One character too many is read to see where something ends, and put back.
Ends(p) == IF EOF(p) THEN p ELSE UngetC(FGetC(p))

Reply(operation, to, given, value, raised) ==
    [operation |-> operation, from |-> position, to |-> to, given |-> given, value |-> value, raised |-> raised]

-----------------------------------------------------------------------------
(* Writing.                                                                *)

\* Padding stands before a number: printf's field width.
DigitsInBase(value, base) ==
    LET digits[n \in Nat] ==
            IF n < base THEN <<TextDigits[n + 1]>> ELSE Append(digits[n \div base], TextDigits[(n % base) + 1])
    IN  digits[value]
Padded(text, width) ==
    [i \in 1..(IF Len(text) < width THEN width - Len(text) ELSE 0) |-> Space] \o text
WriteInteger(value, width, base) ==
    LET sign == IF value < 0 THEN <<"-">> ELSE <<>>
        digits == DigitsInBase(IF value < 0 THEN -value ELSE value, base)
    IN  Padded(IF base = 10 THEN sign \o digits
               ELSE sign \o DigitsInBase(base, 10) \o <<"#">> \o digits \o <<"#">>, width)

\* fputc and fwrite at the end of the file.
Writing(text) ==
    /\ mode = "out" /\ Len(content) + Len(text) <= MaxContent
    /\ content' = content \o text
    /\ UNCHANGED <<mode, position, reply>>

PutText(item) ==
    /\ Writing(item)
    /\ lines' = [lines EXCEPT ![Len(lines)] = @ \o item]
PutLine(item) ==
    /\ Writing(Append(item, EndOfLine))
    /\ lines' = Append([lines EXCEPT ![Len(lines)] = @ \o item], <<>>)
NewLine ==
    /\ Writing(<<EndOfLine>>)
    /\ lines' = Append(lines, <<>>)
PutInteger(number) ==
    LET text == WriteInteger(number.value, number.width, number.base) IN
    /\ Writing(text)
    /\ lines' = [lines EXCEPT ![Len(lines)] = @ \o text]

ResetToRead ==
    /\ mode = "out"
    /\ mode' = "in" /\ position' = 0
    /\ UNCHANGED <<content, lines, reply>>

-----------------------------------------------------------------------------
(* Reading: each operation is where it ends and what it gives.             *)

ReadCharacter ==
    LET c == Past(position, {EndOfLine}) IN
    IF EOF(c) THEN Reply("get", c, <<>>, 0, "END_ERROR")
    ELSE Reply("get", FGetC(c), <<At(c)>>, 0, "none")

\* A line that fits is read with its terminator; the first character of what
\* does not is put back.
ReadLine(length) ==
    LET end == UpTo(position, {EndOfLine}) IN
    CASE EOF(position) -> Reply("line", position, <<>>, length, "END_ERROR")
      [] ~EOF(position) /\ end - position <= length ->
            Reply("line", IF EOF(end) THEN end ELSE FGetC(end), Between(position, end), length, "none")
      [] OTHER ->
            Reply("line", UngetC(FGetC(position + length)), Between(position, position + length), length, "none")

SkipLines(spacing) ==
    LET after[n \in 0..spacing] ==
            IF n = 0 THEN position
            ELSE LET end == UpTo(after[n - 1], {EndOfLine}) IN IF EOF(end) THEN end ELSE FGetC(end)
        terminators == {i \in position..(after[spacing] - 1) : At(i) = EndOfLine}
    IN  Reply("skip", after[spacing], <<>>, spacing,
                 IF Cardinality(terminators) < spacing THEN "END_ERROR" ELSE "none")

AtEndOfLine ==
    Reply("end_of_line", Ends(position), <<>>,
             IF EOF(position) \/ At(position) = EndOfLine THEN 1 ELSE 0, "none")
AtEndOfFile ==
    Reply("end_of_file", Ends(position), <<>>, IF EOF(position) THEN 1 ELSE 0, "none")

\* fscanf of %ld takes a sign even where no digit follows; a number outside the
\* type has been read all the same.
ReadInteger ==
    LET start == Past(position, Blanks)
        signed == ~EOF(start) /\ At(start) \in {"-", "+"}
        digits == IF signed THEN start + 1 ELSE start
        end == Past(digits, Numeric)
        magnitude == NumberOf(Between(digits, end))
        value == IF signed /\ At(start) = "-" THEN -magnitude ELSE magnitude
    IN  CASE end = digits -> Reply("integer", Ends(end), <<>>, 0, IF EOF(end) THEN "END_ERROR" ELSE "DATA_ERROR")
          [] end # digits /\ (value < First \/ value > Final) ->
                Reply("integer", Ends(end), Between(start, end), value, "DATA_ERROR")
          [] OTHER -> Reply("integer", Ends(end), Between(start, end), value, "none")

\* All of a word is read, of which the string holds the beginning.
ReadWord(length) ==
    LET start == Past(position, Blanks)
        end == UpTo(start, Blanks)
        kept == IF end - start < length THEN end ELSE start + length
    IN  IF EOF(start) THEN Reply("word", start, <<>>, length, "END_ERROR")
        ELSE Reply("word", Ends(end), Between(start, kept), length, "none")

ReadEnum ==
    LET start == Past(position, Blanks)
        end == Past(start, WordCharacters)
        named == {i \in DOMAIN Literals : Literals[i] = Between(start, end)}
    IN  CASE EOF(start) -> Reply("enum", start, <<>>, 0, "END_ERROR")
          [] ~EOF(start) /\ named = {} -> Reply("enum", Ends(end), Between(start, end), 0, "DATA_ERROR")
          [] OTHER -> Reply("enum", Ends(end), Between(start, end), CHOOSE i \in named : \A j \in named : i <= j, "none")

Reading ==
    /\ mode = "in"
    /\ reply' \in {ReadCharacter, AtEndOfLine, AtEndOfFile, ReadInteger, ReadEnum}
                   \cup {ReadLine(n) : n \in Room} \cup {ReadWord(n) : n \in Room} \cup {SkipLines(n) : n \in Spacings}
    /\ position' = reply'.to
    /\ UNCHANGED <<mode, content, lines>>

TextInit ==
    /\ mode = "out" /\ content = <<>> /\ position = 0
    /\ lines = <<<<>>>>
    /\ reply = [operation |-> "none", from |-> 0, to |-> 0, given |-> <<>>, value |-> 0, raised |-> "none"]

TextNext ==
    \/ \E item \in Items : PutText(item) \/ PutLine(item)
    \/ NewLine
    \/ \E number \in Numbers : PutInteger(number)
    \/ ResetToRead
    \/ Reading

TextSpec == TextInit /\ [][TextNext]_textVars

-----------------------------------------------------------------------------

\* What a reply passed over, the line ends in it, and that it did not stop in
\* front of a character of a set.
Passed(text, r) == SubSeq(text, r.from + 1, r.to)
LineEnds(passed) == {i \in DOMAIN passed : passed[i] = EndOfLine}
NotBefore(text, r, set) == r.to < Len(text) => text[r.to + 1] \notin set

\* Behind the blanks at its beginning a text has what follows them.
HasBehindBlanks(passed, k) ==
    /\ \A i \in 1..k : passed[i] \in Blanks
    /\ k < Len(passed) => passed[k + 1] \notin Blanks
Behind(passed, k) == SubSeq(passed, k + 1, Len(passed))

\* Get gives a character that ends no line and passes over line ends only.
GaveCharacter(text, r) ==
    LET passed == Passed(text, r) IN
    IF r.raised = "none"
    THEN /\ passed # <<>> /\ r.given = <<passed[Len(passed)]>>
         /\ LineEnds(passed) = 1..(Len(passed) - 1)
    ELSE r.to = Len(text) /\ LineEnds(passed) = DOMAIN passed

\* Get_Line gives all it passes but the end of the line, and stops early only
\* where the string is full.
GaveLine(text, r) ==
    LET passed == Passed(text, r) IN
    /\ passed \in {r.given, Append(r.given, EndOfLine)}
    /\ LineEnds(passed) \subseteq {Len(r.given) + 1}
    /\ LineEnds(passed) = {} => r.to = Len(text) \/ Len(r.given) = r.value
    /\ Len(r.given) <= r.value
    /\ (r.raised = "none") = (r.from # Len(text))

\* Skip_Line passes over as many lines as it is told, or over what there is.
SkippedLines(text, r) ==
    LET passed == Passed(text, r) IN
    IF r.raised = "none"
    THEN Cardinality(LineEnds(passed)) = r.value /\ passed[Len(passed)] = EndOfLine
    ELSE r.to = Len(text) /\ Cardinality(LineEnds(passed)) < r.value

\* Get of a number or a literal gives all it passes behind blanks, and there was
\* no more of it; a sign without a digit is lost.
GaveInteger(text, r) ==
    LET passed == Passed(text, r) IN
    \E k \in 0..Len(passed) :
        /\ HasBehindBlanks(passed, k)
        /\ IF r.given = <<>> THEN r.raised # "none" /\ Len(passed) - k <= 1
           ELSE /\ Behind(passed, k) = r.given
                /\ NotBefore(text, r, Numeric)
                /\ (r.raised = "none") = (First <= r.value /\ r.value <= Final)

GaveEnum(text, r) ==
    LET passed == Passed(text, r) IN
    \E k \in 0..Len(passed) :
        /\ HasBehindBlanks(passed, k)
        /\ Behind(passed, k) = r.given
        /\ NotBefore(text, r, WordCharacters)
        /\ r.raised = "none" => r.given = Literals[r.value]

\* A word is passed over as a whole; the string holds as much as it can.
GaveWord(text, r) ==
    LET passed == Passed(text, r) IN
    \E k \in 0..Len(passed) :
        /\ HasBehindBlanks(passed, k)
        /\ \A i \in (k + 1)..Len(passed) : passed[i] \notin Blanks
        /\ r.to = Len(text) \/ text[r.to + 1] \in Blanks
        /\ r.given = SubSeq(passed, k + 1, k + Len(r.given))
        /\ Len(r.given) = r.value \/ Behind(passed, k) = r.given
        /\ Len(r.given) <= r.value

Faithful(text, r) ==
    /\ r.from \in 0..Len(text) /\ r.to \in r.from..Len(text)
    /\ CASE r.operation \in {"none", "end_of_line", "end_of_file"} -> r.to = r.from
         [] r.operation = "get" -> GaveCharacter(text, r)
         [] r.operation = "line" -> GaveLine(text, r)
         [] r.operation = "skip" -> SkippedLines(text, r)
         [] r.operation = "integer" -> GaveInteger(text, r)
         [] r.operation = "word" -> GaveWord(text, r)
         [] r.operation = "enum" -> GaveEnum(text, r)

\* Lines one after the other, each behind the end of the one before it.
Joined(text, line) == (text \o <<EndOfLine>>) \o line
AllLines(list) == FoldLeft(Joined, <<>>, list)

\* Nothing that was written is lost, invented or read twice: the file is the
\* lines the program wrote, an operation goes on where the one before it
\* stopped, and what it passes over is what it gives, but for blanks before a
\* number or word, the ends of lines, and what does not fit a word's string or
\* is no value.  Lines come back whole: a shorter string gets the next part of
\* the line next time.
TextNothingLost ==
    /\ <<EndOfLine>> \o content = AllLines(lines)
    /\ Faithful(content, reply)
    /\ reply.to = position
=============================================================================

----------------------------- MODULE ScalarText -----------------------------
(***************************************************************************)
(* Scalar values as text (src/runtime/adart.c): 'Value, the comparison of  *)
(* strings, and 'Image, whose results live in a few static buffers per     *)
(* function that are used in turn.  A text is a sequence of characters; a  *)
(* long long goes up to ValueMax and an image buffer holds BufferSize      *)
(* characters, its NUL included.                                           *)
(***************************************************************************)
EXTENDS Integers, Sequences, SequencesExt

CONSTANTS
    Readings,   \* What is read or compared: records with a kind and operands; meant is
                \* the set of what the text denotes, empty where it denotes nothing.
    Imaged,     \* What images are taken of: [maker, value].
    Names,      \* The literals of the enumeration type, as the table spells them.
    ValueMax,   \* LLONG_MAX
    Buffers,    \* IMAGE_BUFFERS
    BufferSize, \* IMAGE_BUFFER_SIZE
    MaxImages   \* Bounds the images taken in a behaviour.

ASSUME ImageAssumption == Buffers \in Nat \ {0} /\ MaxImages \in Nat /\ BufferSize \in Nat \ {0}

VARIABLES
    reading, outcome,   \* one of Readings, and [raised, value] or [pending]
    buffers,            \* the static buffers of each image function, from 0
    nextBuffer,         \* and which one it uses next
    held                \* what was handed out so far: [maker, value, buffer]

readingVars == <<reading, outcome>>
imageVars == <<buffers, nextBuffer, held>>

Fails == [raised |-> TRUE, value |-> 0]
Gives(x) == [raised |-> FALSE, value |-> x]

Blank == " "
Quote == "'"
Separator == "_"

\* Both ends lose their blanks.
Trim(text) ==
    LET ink == {i \in DOMAIN text : text[i] # Blank} IN
    IF ink = {} THEN <<>>
    ELSE SubSeq(text, CHOOSE i \in ink : \A j \in ink : i <= j, CHOOSE i \in ink : \A j \in ink : j <= i)

Numerals == <<"0", "1", "2", "3", "4", "5", "6", "7", "8", "9", "a", "b", "c", "d", "e", "f">>
NumeralOf(c) == IF \E d \in 1..16 : Numerals[d] = c THEN (CHOOSE d \in 1..16 : Numerals[d] = c) - 1 ELSE 16
CharAt(text, p) == IF p \in DOMAIN text THEN text[p] ELSE "NUL"

-----------------------------------------------------------------------------
(* 'Value of an integer type.                                              *)

\* readValueNumeral: digits of the base with single underscores between them,
\* up to the first character that is neither.
NumeralWith(acc, c, base, limit) ==
    CASE acc.state # "reading" -> acc
      [] acc.state = "reading" /\ c = Separator ->
            IF acc.digits = 0 \/ acc.separator THEN [acc EXCEPT !.state = "bad"]
            ELSE [acc EXCEPT !.separator = TRUE, !.end = @ + 1]
      [] acc.state = "reading" /\ c # Separator /\ NumeralOf(c) >= base -> [acc EXCEPT !.state = "stopped"]
      [] OTHER ->
            IF NumeralOf(c) > limit \/ acc.value > (limit - NumeralOf(c)) \div base
            THEN [acc EXCEPT !.state = "bad"]
            ELSE [state |-> "reading", value |-> base * acc.value + NumeralOf(c), digits |-> acc.digits + 1,
                  separator |-> FALSE, end |-> acc.end + 1]
ReadNumeral(text, from, base, limit) ==
    LET nothing == [state |-> "reading", value |-> 0, digits |-> 0, separator |-> FALSE, end |-> from]
        read == FoldLeft(LAMBDA acc, c : NumeralWith(acc, c, base, limit), nothing, SubSeq(text, from, Len(text)))
    IN  [ok |-> read.state # "bad" /\ read.digits > 0 /\ ~read.separator, value |-> read.value, end |-> read.end]

\* The exponent is read to the end of the text and saturates once past 64.
ReadExponent(text, from) ==
    LET step(acc, c) ==
            CASE c = Separator /\ acc.digits > 0 /\ ~acc.separator -> [acc EXCEPT !.separator = TRUE]
              [] c # Separator /\ NumeralOf(c) < 10 ->
                    [acc EXCEPT !.separator = FALSE, !.digits = @ + 1,
                                !.value = IF @ < 64 THEN @ * 10 + NumeralOf(c) ELSE @]
              [] OTHER -> [acc EXCEPT !.ok = FALSE]
        read == FoldLeft(step, [ok |-> TRUE, value |-> 0, digits |-> 0, separator |-> FALSE],
                         SubSeq(text, from, Len(text)))
    IN  [ok |-> read.ok /\ read.digits > 0 /\ ~read.separator, value |-> read.value]

\* The value multiplied by the base exponent times, or -1 once past the limit.
Scaled(value, base, exponent, limit) ==
    LET times[n \in Nat] ==
            IF n = 0 \/ value = 0 THEN value
            ELSE LET before == times[n - 1] IN
                 IF before = -1 \/ before > limit \div base THEN -1 ELSE before * base
    IN  times[exponent]

\* A negative value may be one further from zero.  The form without the
\* allowance would reject the lowest number.
LimitOfPositive(negative) == ValueMax
Limit(negative) == IF negative THEN ValueMax + 1 ELSE ValueMax

\* What is left of the text behind the last numeral: an exponent or nothing.
Powered(text, from, base, value, limit) ==
    LET digits == IF CharAt(text, from + 1) = "+" THEN from + 2 ELSE from + 1
        exponent == ReadExponent(text, digits)
        scaled == Scaled(value, base, exponent.value, limit)
    IN  IF exponent.ok THEN scaled ELSE -1
Ending(text, from, base, value, limit) ==
    CASE CharAt(text, from) = "e" -> Powered(text, from, base, value, limit)
      [] from = Len(text) + 1 -> value
      [] OTHER -> -1

\* The numeral between two #.
BasedNumeral(text, body, base, limit) ==
    IF body.ok /\ CharAt(text, body.end) = "#"
    THEN Ending(text, body.end + 1, base, body.value, limit)
    ELSE -1

\* The magnitude of an unsigned text whose first numeral was read, or -1.
Unsigned(text, first, limit) ==
    CASE ~first.ok -> -1
      [] first.ok /\ CharAt(text, first.end) # "#" -> Ending(text, first.end, 10, first.value, limit)
      [] first.ok /\ CharAt(text, first.end) = "#" ->
            IF first.value \in 2..16
            THEN BasedNumeral(text, ReadNumeral(text, first.end + 1, first.value, limit), first.value, limit)
            ELSE -1

InRange(magnitude, negative, low, high) ==
    LET result == IF negative THEN -magnitude ELSE magnitude IN
    IF magnitude = -1 \/ result < low \/ result > high THEN Fails ELSE Gives(result)

Signed(trimmed, low, high) ==
    LET negative == CharAt(trimmed, 1) = "-"
        magnitude(text, limit) == Unsigned(text, ReadNumeral(text, 1, 10, limit), limit)
    IN  InRange(magnitude(IF CharAt(trimmed, 1) \in {"+", "-"} THEN Tail(trimmed) ELSE trimmed, Limit(negative)),
                negative, low, high)

ValueLongInteger(given, low, high) == Signed(Trim(given), low, high)

-----------------------------------------------------------------------------
(* 'Value of the other scalars, and the order of strings.                  *)

Upper(c) == CASE c = "a" -> "A" [] c = "e" -> "E" [] OTHER -> c
Uppercase(text) == [i \in DOMAIN text |-> Upper(text[i])]

\* The first literal that is the text but for case; literals count from 0.
ValueEnum(text) ==
    LET same == {i \in DOMAIN Names : Uppercase(Names[i]) = Uppercase(Trim(text))} IN
    IF same = {} THEN Fails ELSE Gives((CHOOSE i \in same : \A j \in same : i <= j) - 1)

ValueCharacter(text) ==
    LET quoted == Trim(text) IN
    IF Len(quoted) # 3 \/ CharAt(quoted, 1) # Quote \/ CharAt(quoted, 3) # Quote THEN Fails ELSE Gives(quoted[2])

StringCompare(left, right) ==
    LET shorter == IF Len(left) < Len(right) THEN Len(left) ELSE Len(right)
        differ == {i \in 1..shorter : left[i] # right[i]}
        first == CHOOSE i \in differ : \A j \in differ : i <= j
    IN  CASE differ # {} -> IF left[first] < right[first] THEN -1 ELSE 1
          [] differ = {} /\ Len(left) = Len(right) -> 0
          [] OTHER -> IF Len(left) < Len(right) THEN -1 ELSE 1

Read ==
    /\ "pending" \in DOMAIN outcome
    /\ outcome' =
         CASE reading.kind = "integer" -> ValueLongInteger(reading.text, reading.low, reading.high)
           [] reading.kind = "enum" -> ValueEnum(reading.text)
           [] reading.kind = "character" -> ValueCharacter(reading.text)
           [] reading.kind = "compare" -> Gives(StringCompare(reading.left, reading.right))
    /\ UNCHANGED reading

-----------------------------------------------------------------------------
(* 'Image.                                                                 *)

Makers == {"integer", "enum", "character"}

DecimalDigits(n) ==
    LET d[k \in Nat] == IF k < 10 THEN <<Numerals[k + 1]>> ELSE Append(d[k \div 10], Numerals[(k % 10) + 1])
    IN  d[n]

\* What a function writes; a value outside the table of literals raises and
\* leaves its buffer empty.
ImageText(maker, value) ==
    CASE maker = "integer" ->
            IF value < 0 THEN <<"-">> \o DecimalDigits(-value) ELSE <<Blank>> \o DecimalDigits(value)
      [] maker = "character" -> <<Quote, value, Quote>>
      [] maker = "enum" ->
            IF value \notin 0..(Len(Names) - 1) THEN <<>> ELSE Uppercase(Names[value + 1])

\* The literals of a type are different identifiers.  Every number and character
\* fits a buffer; a literal need not.  A character is no NUL, where a string of C ends.
ASSUME ImagedAssumption ==
    /\ ValueMax \in Nat
    /\ Names \in Seq(Seq(STRING \ {Blank}) \ {<<>>})
    /\ \A m, n \in DOMAIN Names : Uppercase(Names[m]) = Uppercase(Names[n]) => m = n
    /\ \A i \in Imaged :
          /\ \/ i \in [maker : {"integer"}, value : (-ValueMax - 1)..ValueMax]
             \/ i \in [maker : {"enum"}, value : Int]
             \/ i \in [maker : {"character"}, value : STRING \ {"NUL"}]
          /\ i.maker # "enum" => Len(ImageText(i.maker, i.value)) < BufferSize

Stored(text) == IF Len(text) < BufferSize THEN text ELSE SubSeq(text, 1, BufferSize - 1)

\* The buffer after one; a modulus one too small would never use the last.
EarlyWrap(buffer) == (buffer + 1) % (IF Buffers = 1 THEN 1 ELSE Buffers - 1)
BufferAfter(buffer) == (buffer + 1) % Buffers

TakeImage(maker, value) ==
    /\ Len(held) < MaxImages
    /\ buffers' = [buffers EXCEPT ![maker][nextBuffer[maker]] = Stored(ImageText(maker, value))]
    /\ nextBuffer' = [nextBuffer EXCEPT ![maker] = BufferAfter(@)]
    /\ held' = Append(held, [maker |-> maker, value |-> value, buffer |-> nextBuffer[maker]])

-----------------------------------------------------------------------------

ReadingInit == reading \in Readings /\ outcome = [pending |-> TRUE]
ReadingNext == Read /\ UNCHANGED imageVars

ImageInit ==
    /\ buffers = [m \in Makers |-> [b \in 0..(Buffers - 1) |-> <<>>]]
    /\ nextBuffer = [m \in Makers |-> 0]
    /\ held = <<>>
ImageNext == \E i \in Imaged : TakeImage(i.maker, i.value) /\ UNCHANGED readingVars
ImageSpec == ImageInit /\ [][ImageNext]_imageVars

-----------------------------------------------------------------------------
(* What the texts promise.                                                 *)

\* 'Value gives what the text denotes when the type has that value, and raises
\* Constraint_Error for every other text: sign, base, underscores and exponent
\* are honoured up to the last value of long long at both ends.  Strings are
\* ordered by their first difference, a prefix before what extends it.
ValueExact ==
    ("pending" \notin DOMAIN outcome) =>
        CASE reading.kind = "integer" ->
                LET values == {v \in reading.meant : reading.low <= v /\ v <= reading.high} IN
                IF values = {} THEN outcome.raised ELSE ~outcome.raised /\ outcome.value \in values
          [] reading.kind \in {"enum", "character"} ->
                IF reading.meant = {} THEN outcome.raised ELSE ~outcome.raised /\ outcome.value \in reading.meant
          [] reading.kind = "compare" ->
                LET before(l, r) ==
                        \E k \in 0..Len(l) :
                            /\ k < Len(r)
                            /\ \A i \in 1..k : r[i] = l[i]
                            /\ k = Len(l) \/ l[k + 1] < r[k + 1]
                IN  /\ (outcome.value < 0) = before(reading.left, reading.right)
                    /\ (outcome.value > 0) = before(reading.right, reading.left)
                    /\ (outcome.value = 0) = (reading.left = reading.right)

\* The images an expression may combine are the last Buffers of each function:
\* each is still in its buffer and 'Value reads from it the value it was made
\* of, whatever other images, failed ones included, were taken since.  A literal
\* that does not fit its buffer is cut there, and what is left is not read back.
ImagesIntact ==
    \A i \in DOMAIN held :
        LET since == Cardinality({j \in DOMAIN held : j > i /\ held[j].maker = held[i].maker})
            text == buffers[held[i].maker][held[i].buffer]
        IN  (since < Buffers) =>
                CASE held[i].maker = "integer" ->
                        ValueLongInteger(text, -ValueMax - 1, ValueMax) = Gives(held[i].value)
                  [] held[i].maker = "character" -> ValueCharacter(text) = Gives(held[i].value)
                  [] held[i].maker = "enum" ->
                        IF held[i].value \notin 0..(Len(Names) - 1) THEN text = <<>>
                        ELSE Len(Names[held[i].value + 1]) < BufferSize =>
                                ValueEnum(text) = Gives(held[i].value)
=============================================================================

-------------------------------- MODULE Lexer --------------------------------
(***************************************************************************)
(* The scanner of adac (src/adac/Lexer.cpp).  A source text is a sequence  *)
(* of characters; a step of the loop in tokenize skips spacing and         *)
(* comments and then makes one token, reports one illegal character, or    *)
(* meets the end.  An integer literal has its value, kept in the range of  *)
(* long long, whose greatest value is LongMax here.                        *)
(***************************************************************************)
EXTENDS Integers, Sequences, SequencesExt, FiniteSetsExt

CONSTANTS
    Texts,      \* What may be scanned: records of its chars, and what it was written
                \* as: the kinds of its elements, and the value of its integer
                \* literal, with based telling how it is spelt (-1 where there is none);
                \* faulty where it holds something no element is written with.
    LongMax     \* LLONG_MAX.

ASSUME LongMaxAssumption == LongMax \in Nat /\ LongMax >= 16

VARIABLES
    text,       \* what is being scanned, one of Texts
    at,         \* m_position, from 1
    tokens,     \* the tokens made: [kind, value]
    complaints  \* what was reported, as pairs of a position and a message

lexerVars == <<text, at, tokens, complaints>>

Chars == text.chars
Char(p) == IF p \in DOMAIN Chars THEN Chars[p] ELSE "NUL"
AtEnd(p) == p > Len(Chars)

Digits == {"0", "1", "2", "9"}
Letters == {"a", "e", "i", "l", "s", "X"}
Spacing == {" ", "\n"}
Extended == Digits \cup {"a", "e"}
DigitValue(c) ==
    CASE c = "0" -> 0 [] c = "1" -> 1 [] c = "2" -> 2 [] c = "9" -> 9
      [] c = "a" -> 10 [] c = "e" -> 14
Keywords == {<<"i", "s">>, <<"a", "l", "l">>}

\* Where a loop that advances over characters of a set stops.
RunEnd(p, set) == Min({q \in p..(Len(Chars) + 1) : Char(q) \notin set})
Slice(p, q) == SubSeq(Chars, p, q - 1)
DigitsOf(p, q) == SelectSeq(Slice(p, q), LAMBDA c : c # "_")

SkipFrom[p \in 1..(Len(Chars) + 1)] ==
    CASE Char(p) \in Spacing -> SkipFrom[p + 1]
      [] Char(p) = "-" /\ Char(p + 1) = "-" ->
            SkipFrom[Min({q \in p..(Len(Chars) + 1) : Char(q) = "\n" \/ AtEnd(q)})]
      [] OTHER -> p

\* A token from p up to but not including its end.
Made(kind, end, value, messages) ==
    [kind |-> kind, end |-> end, value |-> value, messages |-> messages]

LexIdentifierOrKeyword(p) ==
    LET end == RunEnd(p, Letters \cup Digits \cup {"_"})
        word == Slice(p, end)
        bad == \/ Last(word) = "_"
               \/ \E i \in 1..(Len(word) - 1) : word[i] = "_" /\ word[i + 1] = "_"
        spelling == FoldLeft(LAMBDA s, c : s \o c, "", word)
    IN  Made(IF word \in Keywords THEN spelling ELSE "identifier", end, 0,
             IF bad THEN {"underscore"} ELSE {})

-----------------------------------------------------------------------------
(* Numeric literals.                                                       *)

\* strtoll: the greatest value stands for whatever does not fit.
Saturated(digits) ==
    LET step(value, c) == IF value > LongMax THEN value ELSE value * 10 + DigitValue(c)
        value == FoldLeft(step, 0, digits)
    IN  IF value > LongMax THEN LongMax ELSE value

\* `value *= 10' past the range of long long: the instruction the build makes of
\* it wraps.
Wrapped(x) == ((x + LongMax + 1) % (2 * (LongMax + 1))) - (LongMax + 1)

\* An exponent is read only when digits follow the letter and its sign.
HasExponent(p) ==
    /\ Char(p) = "e"
    /\ \/ Char(p + 1) \in Digits
       \/ Char(p + 1) \in {"+", "-"} /\ Char(p + 2) \in Digits
ExponentDigits(p) == IF Char(p + 1) \in {"+", "-"} THEN p + 2 ELSE p + 1
ExponentEnd(p) == IF HasExponent(p) THEN RunEnd(ExponentDigits(p), Digits \cup {"_"}) ELSE p
ExponentValue(p) ==
    IF HasExponent(p) THEN Saturated(DigitsOf(ExponentDigits(p), ExponentEnd(p))) ELSE 0
NegativeExponent(p) == HasExponent(p) /\ Char(p + 1) = "-"

\* The test before a digit is accumulated.  (A mutant leaves the digit out.)
TooLargeByRadix(value, digit, radix) == value > LongMax \div radix
TooLarge(value, digit, radix) == value > (LongMax - digit) \div radix

BasedLiteral(p, hash) ==
    LET base == Saturated(DigitsOf(p, hash))
        valid == base \in 2..16
        radix == IF valid THEN base ELSE 16
        wholeEnd == RunEnd(hash + 1, Extended \cup {"_"})
        whole == DigitsOf(hash + 1, wholeEnd)
        isReal == Char(wholeEnd) = "."
        bodyEnd == IF isReal THEN RunEnd(wholeEnd + 1, Extended \cup {"_"}) ELSE wholeEnd
        fraction == DigitsOf(wholeEnd + 1, bodyEnd)
        closed == Char(bodyEnd) = "#"
        exponent == IF closed THEN bodyEnd + 1 ELSE bodyEnd
        digit(c) == IF DigitValue(c) < radix THEN DigitValue(c) ELSE 0
        accumulate(acc, c) ==
            IF TooLarge(acc.value, digit(c), radix)
            THEN [acc EXCEPT !.overflowed = TRUE]
            ELSE [acc EXCEPT !.value = acc.value * radix + digit(c)]
        read == FoldLeft(accumulate, [value |-> 0, overflowed |-> FALSE], whole)
        scale[i \in Nat] ==
            IF i = 0 THEN read
            ELSE LET before == scale[i - 1] IN
                 IF before.overflowed THEN before
                 ELSE IF before.value > LongMax \div radix THEN [before EXCEPT !.overflowed = TRUE]
                 ELSE [before EXCEPT !.value = before.value * radix]
        scaled == scale[ExponentValue(exponent)]
        badDigit == valid /\ \E i \in DOMAIN (whole \o fraction) :
                        DigitValue((whole \o fraction)[i]) >= radix
        messages ==
            (IF valid THEN {} ELSE {"base"})
            \cup (IF whole = <<>> THEN {"no digits"} ELSE {})
            \cup (IF badDigit THEN {"digit"} ELSE {})
            \cup (IF isReal /\ fraction = <<>> THEN {"no fraction"} ELSE {})
            \cup (IF closed THEN {} ELSE {"not closed"})
            \cup (IF NegativeExponent(exponent) /\ ~isReal THEN {"negative exponent"} ELSE {})
            \cup (IF ~isReal /\ scaled.overflowed THEN {"too large"} ELSE {})
    IN  Made(IF isReal THEN "real" ELSE "integer", ExponentEnd(exponent),
             IF isReal \/ scaled.overflowed THEN 0 ELSE scaled.value, messages)

LexNumericLiteral(p) ==
    LET wholeEnd == RunEnd(p, Digits \cup {"_"})
        isReal == Char(wholeEnd) = "." /\ Char(wholeEnd + 1) \in Digits
        exponent == IF isReal THEN RunEnd(wholeEnd + 1, Digits \cup {"_"}) ELSE wholeEnd
        whole == Saturated(DigitsOf(p, wholeEnd))
        times[i \in Nat] == IF i = 0 THEN whole ELSE Wrapped(times[i - 1] * 10)
    IN  CASE Char(wholeEnd) = "#" -> BasedLiteral(p, wholeEnd)
          [] isReal -> Made("real", ExponentEnd(exponent), 0, {})
          [] OTHER -> Made("integer", ExponentEnd(exponent), times[ExponentValue(exponent)],
                           IF NegativeExponent(exponent) THEN {"negative exponent"} ELSE {})

-----------------------------------------------------------------------------

\* Two quotes inside a string stand for one, and a line end closes it.
StringEnd[p \in 1..(Len(Chars) + 1)] ==
    CASE AtEnd(p) \/ Char(p) = "\n" -> Made("string", p, 0, {"unterminated string"})
      [] Char(p) = "\"" /\ Char(p + 1) = "\"" -> StringEnd[p + 2]
      [] Char(p) = "\"" /\ Char(p + 1) # "\"" -> Made("string", p + 1, 0, {})
      [] OTHER -> StringEnd[p + 1]

\* After a name or a closing parenthesis a tick introduces an attribute.
\* (A mutant forgets the names that end in `all'.)
TickAfterNamesOnly(p) ==
    /\ Char(p + 2) = "'"
    /\ \/ tokens = <<>>
       \/ Last(tokens).kind \notin {"identifier", ")"}
TickStartsCharacterLiteral(p) ==
    /\ Char(p + 2) = "'"
    /\ \/ tokens = <<>>
       \/ Last(tokens).kind \notin {"identifier", ")", "all", "character", "string"}

LexTick(p) ==
    IF TickStartsCharacterLiteral(p) THEN Made("character", p + 3, 0, {})
    ELSE Made("'", p + 1, 0, {})

Compound == {"**", "..", "/=", ":=", "<=", "<<", "<>", "=>", ">=", ">>"}
Single == {"&", "(", ")", ",", "+", "-", ";", "|", "*", ".", "/", ":", "<", "=", ">"}

LexDelimiter(p) ==
    IF AtEnd(p + 1) \/ (Char(p) \o Char(p + 1)) \notin Compound
    THEN Made(Char(p), p + 1, 0, {})
    ELSE Made(Char(p) \o Char(p + 1), p + 2, 0, {})

\* The token that starts at p.
TokenAt(p) ==
    CASE Char(p) \in Letters -> LexIdentifierOrKeyword(p)
      [] Char(p) \in Digits -> LexNumericLiteral(p)
      [] Char(p) = "\"" -> StringEnd[p + 1]
      [] Char(p) = "'" -> LexTick(p)
      [] OTHER -> LexDelimiter(p)

Illegal(p) == Char(p) \notin Letters \cup Digits \cup Single \cup {"\"", "'"}
Scanned == tokens # <<>> /\ Last(tokens).kind = "eof"

NextToken ==
    LET p == SkipFrom[at]
        token == TokenAt(p)
    IN  /\ ~Scanned /\ ~AtEnd(p) /\ ~Illegal(p)
        /\ at' = token.end
        /\ tokens' = Append(tokens, [kind |-> token.kind, value |-> token.value])
        /\ complaints' = complaints \cup {<<p, m>> : m \in token.messages}
        /\ UNCHANGED text

IllegalCharacter ==
    LET p == SkipFrom[at] IN
    /\ ~Scanned /\ ~AtEnd(p) /\ Illegal(p)
    /\ at' = p + 1
    /\ complaints' = complaints \cup {<<p, "illegal character">>}
    /\ UNCHANGED <<text, tokens>>

EndOfText ==
    LET p == SkipFrom[at] IN
    /\ ~Scanned /\ AtEnd(p)
    /\ at' = p
    /\ tokens' = Append(tokens, [kind |-> "eof", value |-> 0])
    /\ UNCHANGED <<text, complaints>>

LexerInit ==
    /\ text \in Texts
    /\ at = 1
    /\ tokens = <<>>
    /\ complaints = {}

LexerNext == NextToken \/ IllegalCharacter \/ EndOfText

-----------------------------------------------------------------------------
(* What scanning promises.                                                 *)

\* A text written from a sequence of lexical elements, with spacing only where
\* two of them would run together, is read back as those elements: a tick is an
\* attribute after a name and the start of a character literal elsewhere, a
\* number before `..' is an integer, and the longest delimiter wins.
LexerRoundTrip ==
    Scanned => /\ [i \in DOMAIN tokens |-> tokens[i].kind] = Append(text.elements, "eof")
               /\ text.value = -1 => (complaints # {} <=> text.faulty)

\* An integer literal that fits in long long has its exact value, whatever its
\* base, its exponent and its underscores; a based one that does not is reported
\* and never read as another number.
LiteralsExact ==
    (Scanned /\ text.value # -1) =>
        IF text.value <= LongMax THEN complaints = {} /\ tokens[1].value = text.value
        ELSE text.based => complaints # {}
=============================================================================

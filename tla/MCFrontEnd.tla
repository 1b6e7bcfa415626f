----------------------------- MODULE MCFrontEnd -----------------------------
(***************************************************************************)
(* Instances of the parts of adac that work before any code is emitted,    *)
(* and of the driver that runs it.  A behaviour exercises one of them: the *)
(* part named by stage starts, the others stand in a finished state.       *)
(***************************************************************************)
EXTENDS Parser, Lexer, VariantRecords, Scopes, Calls, Driver, FiniteSetsExt, TLC

VARIABLE stage

vars == <<stage, parserVars, lexerVars, variantVars, scopeVars, callVars, driverVars>>

-----------------------------------------------------------------------------
(* The parser: compilations that together use every construct, each with   *)
(* one token damaged in every place, and expressions of three operands     *)
(* with every combination of signs and levels.                             *)

P1 == <<"with", "id", ".", "id2", ";", "use", "id", ";",
        "procedure", "id", ".", "id2", "(", "id", ":", "in", "out", "id", ";", "id2", ":", "id", ":=", "int", ")", "is",
           "id2", ":", "constant", ":=", "int", ";",
        "begin",
           "if", "id", "=", "int", "then", "id", ":=", "(", "id", ")", ";",
           "elsif", "id", "then", "null", ";",
           "else", "id", "(", "id", "=>", "int", ")", ";", "end", "if", ";",
           "while", "id", "loop", "exit", "when", "id", ";", "end", "loop", ";",
        "exception", "when", "id", ":", "others", "=>", "raise", ";", "when", "id", "|", "id2", "=>", "raise", "id", ";",
        "end", "id2", ";", "eof">>
P2 == <<"package", "id", "is",
           "type", "id", "(", "id", ":", "id", ")", "is", "record", "id", ",", "id2", ":", "id", ":=", "int", ";",
               "case", "id", "is", "when", "int", "..", "int", "|", "id", "=>", "null", ";",
               "when", "others", "=>", "id", ":", "id", ";", "end", "case", ";", "end", "record", ";",
           "type", "id2", "is", "limited", "private", ";",
           "function", "pow", "(", "id", ":", "id", ")", "return", "id", ";",
        "private",
           "type", "id2", "is", "array", "(", "id", "range", "<>", ",", "id", "..", "int", ")", "of", "id", ";",
           "subtype", "id", "is", "id", "'", "Base", "range", "int", "..", "int", ";",
           "for", "id", "'", "id", "use", "int", ";",
        "end", "id", ";", "eof">>
P3 == <<"generic", "type", "id", "is", "(", "<>", ")", ";", "id2", ":", "in", "id", ":=", "int", ";",
        "package", "id", "is", "id2", ":", "exception", ";", "end", "id", ";",
        "package", "body", "id", "is", "begin", "null", ";", "end", "id", ";",
        "package", "id2", "is", "new", "id", "(", "id", "=>", "id", ",", "int", ")", ";",
        "eof">>
P4 == <<"function", "id", "return", "id", "is", "separate", ";",
        "package", "body", "id", ".", "id2", "is",
           "pragma", "id", "(", "id", ")", ";",
           "type", "id", "is", "new", "id", ";",
        "begin",
          "id", ":", "for", "id", "in", "reverse", "id", "'", "range", "loop",
              "id2", ".", "all", ":=", "new", "id", "'", "(", "int", ",", "int", ")", ";", "end", "loop", "id", ";",
          "declare", "id", ":", "id", "(", "int", "..", "int", ")", ";", "begin",
              "case", "id", "is", "when", "int", "|", "char", "=>", "return", "id", ";", "when", "others", "=>", "return", ";",
              "end", "case", ";", "end", ";",
          "id", ":=", "(", "int", "..", "int", "=>", "(", "others", "=>", "int", ")", ")", ";",
          "id", "(", "id", "..", "int", ")", ":=", "id", "'", "(", "id", "in", "id", ")", ";",
        "end", "id2", ";", "eof">>

Programs == <<P1, P2, P3, P4>>

Splice(t, i, new) == SubSeq(t, 1, i - 1) \o new \o SubSeq(t, i + 1, Len(t))
Faulty(t, i, fault) ==
    CASE fault = "none" -> t
      [] fault = "delete" -> Splice(t, i, <<>>)
      [] fault = "truncate" -> SubSeq(t, 1, i - 1) \o <<"eof">>
      [] OTHER -> Splice(t, i, <<fault>>)

Damage(k, places, faults) ==
    {[tokens |-> Faulty(Programs[k], i, f), start |-> "Compilation", of |-> k, at |-> i, fault |-> f] :
        i \in places, f \in faults}
Every(n, k) == {i \in 1..(Len(Programs[k]) - 1) : i % n = 0}

Sign == {<<>>, <<"-">>, <<"not">>}
Operator == {"and", "=", "+", "*", "**"}
Assignments ==
    {[tokens |-> <<"id", ":=">> \o first \o <<"id", left>> \o second \o <<"id2", right>>
                    \o third \o <<"int", ";", "eof">>,
      start |-> "Statements", of |-> 0, at |-> 0, fault |-> "none"] :
        first \in Sign, second \in Sign, third \in Sign, left \in Operator, right \in Operator}

MCSources ==
    Assignments \cup
    UNION {Damage(k, {1}, {"none"})
           \cup Damage(k, Every(1, k), {"delete"})
           \cup Damage(k, Every(2, k), {"("})
           \cup Damage(k, Every(4, k), {";", "end"})
           \cup Damage(k, Every(6, k), {"truncate"}) : k \in DOMAIN Programs}

NothingToParse == [tokens |-> <<"eof">>, start |-> "nothing", of |-> 0, at |-> 0, fault |-> "none"]
ParserIdle ==
    /\ source = NothingToParse
    /\ pos = 1 /\ todo = <<>> /\ frames = <<>>
    /\ last = [name |-> <<>>, unit |-> <<>>, isUnit |-> FALSE, kind |-> "other"]
    /\ tree = <<>> /\ reports = {} /\ lost = FALSE

\* Where the simple statements of a text begin and end: those without a
\* statement inside, which is where a fault can be told to lie.
SimpleTokens ==
    Ids \cup {"int", "(", ")", ":=", "=>", "null", "exit", "raise", "return", ".", "..", "all", "'",
             "new", ","}
SimpleEnd(t, a) ==
    LET b == CHOOSE b \in a..Len(t) : t[b] = ";" /\ \A c \in a..(b - 1) : t[c] # ";" IN
    IF \A c \in a..(b - 1) : t[c] \in SimpleTokens THEN b ELSE 0
SimpleStarts(t) ==
    LET begins[a \in 1..Len(t)] ==
            a > 1 /\ \/ t[a - 1] \in {"begin", "then", "else", "loop"}
                     \/ t[a - 1] = ";" /\ \E c \in 1..(a - 1) : begins[c] /\ SimpleEnd(t, c) = a - 1
    IN  {a \in 1..Len(t) : begins[a] /\ t[a] # "end" /\ SimpleEnd(t, a) # 0}

\* A compilation without a fault is accepted, and one wrong token inside a simple
\* statement is reported there if anywhere: recovery goes on behind the statement
\* and reports nothing that is not in it (parseSequenceOfStatements).
LocalFault ==
    (source.start = "Compilation" /\ Finished) =>
        /\ source.fault = "none" => reports = {}
        /\ source.fault \in {"delete", "("} =>
              \A a \in SimpleStarts(Programs[source.of]) :
                  LET b == SimpleEnd(Programs[source.of], a) IN
                  source.at \in a..(b - 1) => reports \subseteq a..b

-----------------------------------------------------------------------------
(* The lexer: texts put together from lexical elements, integer literals   *)
(* around the last value of long long, and texts with something illegal.   *)

Element(kind, chars) == [kind |-> kind, chars |-> chars]
Spell(chars) == FoldLeft(LAMBDA w, c : w \o c, "", chars)
WordKinds == {"identifier", "is", "all", "integer", "real"}
Elements ==
    {Element("identifier", <<"a", "_", "1">>), Element("is", <<"i", "s">>),
     Element("all", <<"a", "l", "l">>),
     Element("integer", <<"1">>), Element("real", <<"1", ".", "2">>),
     Element("string", <<"\"", "a", "\"", "\"", "\"">>),
     Element("character", <<"'", "(", "'">>), Element("character", <<"'", "'", "'">>)}
    \cup {Element(Spell(d), d) : d \in {<<"(">>, <<")">>, <<"'">>, <<".">>, <<".", ".">>, <<"*">>,
            <<"*", "*">>, <<"<">>, <<"=">>, <<"=", ">">>, <<"-">>}}
Ticked ==
    {Element("identifier", <<"a">>), Element("'", <<"'">>), Element("(", <<"(">>),
     Element(")", <<")">>), Element("character", <<"'", "a", "'">>)}

\* Ada writes a tick after a name, and a character literal never.
AfterName == {"identifier", ")", "all", "character", "string"}
Grammatical(s) ==
    \A i \in DOMAIN s :
        /\ s[i].kind = "'" => i > 1 /\ s[i - 1].kind \in AfterName
        /\ s[i].kind = "character" => i = 1 \/ s[i - 1].kind \notin AfterName
Separated(x, y) ==
    \/ x.kind \in WordKinds /\ y.kind \in WordKinds
    \/ x.kind = "integer" /\ y.kind = "."
    \/ x.kind = "string" /\ y.kind = "string"
    \/ /\ Len(x.chars) = 1 /\ x.kind \notin WordKinds
       /\ (x.kind \o Head(y.chars)) \in Compound \cup {"--"}
InText(s, spacing) ==
    FoldLeft(LAMBDA chars, i :
                 chars \o (IF i > 1 /\ Separated(s[i - 1], s[i]) THEN spacing ELSE <<>>) \o s[i].chars,
             <<>>, [i \in DOMAIN s |-> i])
TextsOf(sequences, spacing) ==
    {[chars |-> InText(s, spacing), elements |-> [i \in DOMAIN s |-> s[i].kind],
      value |-> -1, based |-> FALSE, faulty |-> FALSE] : s \in {s \in sequences : Grammatical(s)}}
Blank == <<" ">>
Comment == <<" ", "-", "-", "'", "\n">>
ElementTexts ==
    TextsOf({<<x>> : x \in Elements} \cup (Elements \X Elements), Comment)
    \cup TextsOf(Elements \X Elements \X Elements, Blank)
    \cup TextsOf(Ticked \X Ticked \X Ticked \X Ticked \X Ticked, Blank)

UpToThree(set) == {<<x>> : x \in set} \cup (set \X set) \cup (set \X set \X set)
Exponents == {<<>>, <<"e", "0">>, <<"e", "1">>, <<"e", "+", "2">>}
Integer(chars, digits, base, e, based) ==
    LET exponent == IF e = <<>> THEN 0 ELSE DigitValue(Last(e))
        whole == FoldLeft(LAMBDA v, c : v * base + DigitValue(c), 0, digits)
    IN  [chars |-> chars \o e, elements |-> <<"integer">>,
         value |-> whole * base ^ exponent, based |-> based, faulty |-> FALSE]
LiteralTexts ==
    {Integer(s, s, 10, e, FALSE) : s \in UpToThree({"0", "1", "2", "9"}), e \in Exponents}
    \cup {Integer(<<"1", "_", "2">>, <<"1", "2">>, 10, e, FALSE) : e \in Exponents}
    \cup {Integer(<<"2", "#">> \o s \o <<"#">>, s, 2, e, TRUE) :
              s \in UpToThree({"0", "1"}) \cup {<<"1">> \o x \o y : x, y \in UpToThree({"0", "1"})},
              e \in Exponents}
    \cup {Integer(<<"1", "2", "#">> \o s \o <<"#">>, s, 12, e, TRUE) :
              s \in UpToThree({"0", "1", "9", "a"}), e \in Exponents}

FaultyTexts ==
    {[chars |-> t[1], elements |-> t[2], value |-> -1, based |-> FALSE, faulty |-> TRUE] : t \in
        {<<<<"a", "?", "i", "s">>, <<"identifier", "is">>>>,
         <<<<"\"", "a", "\n", "i", "s">>, <<"string", "is">>>>,
         <<<<"a", "_", "_", "1">>, <<"identifier">>>>,
         <<<<"a", "_", " ", "*">>, <<"identifier", "*">>>>,
         <<<<"1", "e", "-", "1", ")">>, <<"integer", ")">>>>,
         <<<<"2", "#", "9", "#">>, <<"integer">>>>,
         <<<<"2", "#", "#">>, <<"integer">>>>,
         <<<<"2", "#", "1">>, <<"integer">>>>,
         <<<<"1", "#", "1", "#">>, <<"integer">>>>,
         <<<<"2", "#", "1", ".", "#">>, <<"real">>>>}}

MCTexts == ElementTexts \cup LiteralTexts \cup FaultyTexts

NothingToScan ==
    [chars |-> <<>>, elements |-> <<>>, value |-> -1, based |-> FALSE, faulty |-> FALSE]
LexerIdle ==
    /\ text = NothingToScan /\ at = 1 /\ complaints = {}
    /\ tokens = <<[kind |-> "eof", value |-> 0]>>

-----------------------------------------------------------------------------
(* Variant parts and case statements.                                      *)

Span(low, high) == [low |-> low, high |-> high, static |-> TRUE]
Spans ==
    {Span(0, 0), Span(0, 1), Span(1, 2), Span(2, 3), Span(3, 3), Span(2, 1), Span(3, 4),
     [low |-> 1, high |-> 1, static |-> FALSE]}
ChoiceLists == {<<c>> : c \in Spans} \cup {<<c, d>> : c, d \in Spans}
WhenPart(choices, fields) == [isOthers |-> FALSE, choices |-> choices, fields |-> fields]
OthersPart(fields) == [isOthers |-> TRUE, choices |-> <<>>, fields |-> fields]
Field(name, size, alignment) == [name |-> name, size |-> size, alignment |-> alignment]
Discriminant == Field("d", 1, 1)

Branches(lists) == {WhenPart(l, <<>>) : l \in lists} \cup {OthersPart(<<>>)}
ChoiceParts ==
    {[low |-> 0, high |-> 3, common |-> <<Discriminant>>, alternatives |-> a] :
        a \in {<<x>> : x \in Branches(ChoiceLists)}
              \cup {<<x, y>> : x \in Branches(ChoiceLists), y \in Branches({<<c>> : c \in Spans})}
              \cup {<<x, y, z>> : x, y, z \in Branches({<<c>> : c \in Spans})}}
    \cup {[low |-> 4, high |-> 7, common |-> <<Discriminant>>, alternatives |-> a] :
              a \in {<<WhenPart(<<Span(4, 6)>>, <<>>), WhenPart(<<Span(7, 7)>>, <<>>)>>,
                     <<WhenPart(<<Span(7, 7)>>, <<>>)>>}}

Shapes(n, m) ==
    {<<>>, <<Field(n, 3, 1)>>, <<Field(n, 8, 8)>>, <<Field(n, 3, 1), Field(m, 4, 4)>>}
    \cup {<<Field(n, 8, 8), Field(m, s, s)>> : s \in {1, 4}}
LayoutParts ==
    {[low |-> 0, high |-> 3, common |-> <<Discriminant>> \o c,
      alternatives |-> <<WhenPart(<<Span(2, 3)>>, x), WhenPart(<<Span(0, 0)>>, y), OthersPart(z)>>] :
        c \in Shapes("a", "b"), x \in Shapes("e", "f"), y \in Shapes("g", "h"),
        z \in Shapes("i", "d")}
    \cup {[low |-> 0, high |-> 1, common |-> <<Discriminant>>,
           alternatives |-> <<OthersPart(z), WhenPart(<<Span(0, 0)>>, x)>>] :
             x \in Shapes("e", "f"), z \in Shapes("i", "j")}

MCParts == ChoiceParts \cup LayoutParts

NothingDeclared == [low |-> 0, high |-> 0, common |-> <<>>, alternatives |-> <<>>]
VariantIdle ==
    /\ part = NothingDeclared /\ declared = TRUE
    /\ resolved = <<>> /\ covered = <<>> /\ offset = 0 /\ baseOffset = 0 /\ placed = <<>>
    /\ errors = {"uncovered"}
    /\ byteSize = 0 /\ clauses = 0 /\ resized = FALSE

-----------------------------------------------------------------------------
(* Scopes: one name, overloaded in two packages and in what uses them.     *)

Sub(profile, result, origin) ==
    [kind |-> "subprogram", profile |-> profile, result |-> result, bare |-> profile = "none",
     origin |-> origin]
Plain(kind, type, origin) ==
    [kind |-> kind, profile |-> type, result |-> type, bare |-> TRUE, origin |-> origin]
MCSymbols ==
    {Sub("none", "integer", "p"), Sub("none", "color", "p"), Sub("none", "integer", "q")}
    \cup {Sub("integer", "integer", "here"), Sub("none", "integer", "here"), Sub("none", "color", "here")}
    \cup {Plain("literal", "color", "here"), Plain("object", "color", "here"),
         Plain("object", "color", "there")}
MCPackages == {"p", "q"}
MCDeclaredIn ==
    ("p" :> <<Sub("none", "integer", "p"), Sub("none", "color", "p")>>)
    @@ ("q" :> <<Sub("none", "integer", "q")>>)
MCResults == {"any", "integer", "color"}
ScopeIdle == ScopeInit

-----------------------------------------------------------------------------
(* Calls: every choice of up to three profiles for one name, called with   *)
(* one or two arguments that are themselves overloaded, bare, nested, or   *)
(* without a type of their own.                                            *)

Formal(name, type) == [name |-> name, type |-> type, default |-> FALSE]
Optional(name, type) == [name |-> name, type |-> type, default |-> TRUE]
Profile(formals, result) == [kind |-> "subprogram", formals |-> formals, result |-> result]
Valued(kind, type) == [kind |-> kind, formals |-> <<>>, result |-> type]
Profiles ==
    {Profile(<<Formal("x", t)>>, "none") : t \in {"integer", "count", "color", "vector"}}
    \cup {Profile(<<Formal("x", "integer"), Optional("y", "color")>>, "none"),
          Profile(<<Formal("y", "color"), Formal("x", "integer")>>, "none")}
    \cup {Profile(<<Formal("x", "integer")>>, t) : t \in {"integer", "color"}}
Chosen == UNION {kSubset(k, Profiles) : k \in 1..3}
Visible(overloads) ==
    ("p" :> SetToSeq(overloads))
    @@ ("red" :> <<Valued("literal", "color"), Valued("literal", "light")>>)
    @@ ("f" :> <<Profile(<<>>, "integer"), Profile(<<Optional("x", "integer")>>, "color")>>)
    @@ ("do" :> <<Profile(<<>>, "none")>>)
    @@ ("n" :> <<Valued("object", "integer")>>)
    @@ ("g" :> <<Profile(<<Formal("x", "integer")>>, "integer"), Profile(<<Formal("x", "integer")>>, "color"),
                 Profile(<<Formal("x", "color"), Formal("y", "color")>>, "color")>>)

Argument(name, value) == [name |-> name, value |-> value]
Name(name) == [form |-> "name", name |-> name]
CallOf(name, arguments) == [form |-> "call", name |-> name, arguments |-> arguments]
Literal == [form |-> "number"]
Simple == {Literal, [form |-> "aggregate"]} \cup {Name(s) : s \in {"red", "f", "do"}}
Nested == {CallOf("g", <<Argument("", v)>>) : v \in {Literal, Name("f")}}
Associations ==
    {<<Argument(n, v)>> : n \in {"", "x", "y"}, v \in Simple \cup Nested \cup {Name("n")}}
    \cup {<<Argument(n[1], v), Argument(n[2], w)>> :
             n \in {<<"", "">>, <<"", "y">>, <<"y", "x">>, <<"", "x">>, <<"x", "">>, <<"x", "x">>},
             v, w \in Simple}
MCSentences ==
    [visible : {Visible(c) : c \in Chosen}, expression : {CallOf("p", a) : a \in Associations},
     expected : {"void", "integer", "color"}]
CallsIdle ==
    /\ sentence = [visible |-> <<>>, expression |-> Literal, expected |-> "void"]
    /\ understood = [pending |-> TRUE]

-----------------------------------------------------------------------------
(* The driver: every stage it may stop at, over installs that are whole,   *)
(* partial, or not there.                                                  *)

MCCommands ==
    [stage : {"IntermediateLanguage", "Assembly", "Executable"}, keep : BOOLEAN, library : BOOLEAN]
MCInstalls ==
    [include : BOOLEAN, adalib : BOOLEAN, adac : BOOLEAN, qbe : BOOLEAN,
     buildLibrary : BOOLEAN, prefixLibrary : BOOLEAN, prefixRuntime : BOOLEAN,
     environment : {{}, {"library", "include_path"}, {"adac", "qbe", "runtime"}}]
SomeInstall ==
    [include |-> TRUE, adalib |-> TRUE, adac |-> TRUE, qbe |-> TRUE,
     buildLibrary |-> TRUE, prefixLibrary |-> TRUE, prefixRuntime |-> TRUE, environment |-> {}]
DriverIdle ==
    /\ command = [stage |-> "Executable", keep |-> FALSE, library |-> TRUE]
    /\ install = SomeInstall
    /\ phase = "done" /\ exit = 1
    /\ files = [ir |-> "none", assembly |-> "none", program |-> "none"]
    /\ searched = <<>> /\ shortWrite = FALSE

-----------------------------------------------------------------------------

Init ==
    /\ stage \in {"scan", "parse", "declare", "scope", "call", "drive"}
    /\ IF stage = "scan" THEN LexerInit ELSE LexerIdle
    /\ IF stage = "parse" THEN ParserInit ELSE ParserIdle
    /\ IF stage = "declare" THEN VariantInit ELSE VariantIdle
    /\ IF stage = "scope" THEN ScopeInit ELSE ScopeIdle
    /\ IF stage = "call" THEN CallsInit ELSE CallsIdle
    /\ IF stage = "drive" THEN DriverInit ELSE DriverIdle

Scan ==
    /\ stage = "scan" /\ LexerNext
    /\ UNCHANGED <<stage, parserVars, variantVars, scopeVars, callVars, driverVars>>
Parse ==
    /\ stage = "parse" /\ ParserNext
    /\ UNCHANGED <<stage, lexerVars, variantVars, scopeVars, callVars, driverVars>>
DeclareVariants ==
    /\ stage = "declare" /\ VariantNext
    /\ UNCHANGED <<stage, parserVars, lexerVars, scopeVars, callVars, driverVars>>
ChangeScope ==
    /\ stage = "scope" /\ ScopeNext
    /\ UNCHANGED <<stage, parserVars, lexerVars, variantVars, callVars, driverVars>>
Call ==
    /\ stage = "call" /\ CallsNext
    /\ UNCHANGED <<stage, parserVars, lexerVars, variantVars, scopeVars, driverVars>>
Drive ==
    /\ stage = "drive" /\ DriverNext
    /\ UNCHANGED <<stage, parserVars, lexerVars, variantVars, scopeVars, callVars>>

\* What has run to its end stays there; scopes come and go for ever.
Done ==
    /\ \/ stage = "scan" /\ Scanned
       \/ stage = "parse" /\ Finished
       \/ stage = "declare" /\ declared
       \/ stage = "call" /\ "pending" \notin DOMAIN understood
       \/ stage = "drive" /\ phase = "done"
    /\ UNCHANGED vars

Next == Scan \/ Parse \/ DeclareVariants \/ ChangeScope \/ Call \/ Drive \/ Done

\* The parser is a sequential program that nothing interrupts.
Spec == Init /\ [][Next]_vars /\ WF_vars(Parse)
=============================================================================

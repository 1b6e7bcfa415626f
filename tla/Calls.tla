-------------------------------- MODULE Calls --------------------------------
(***************************************************************************)
(* What a call means (src/adac/sema/SemaCalls.cpp, and for a name without  *)
(* arguments SemaNames.cpp).  The candidates are what Scopes finds for the *)
(* name.  The type expected of the result drops some of them, each         *)
(* argument is read on its own with the type of its formal where all agree *)
(* on it, and then exactly one profile must take the arguments.  Nothing   *)
(* goes back: a reading is never tried again with another type.            *)
(* Conversions, slices and indexing look like calls; they are left out,    *)
(* and so are strings as arguments and whether an out argument may be      *)
(* assigned, which is looked at when the profile is chosen.                *)
(***************************************************************************)
EXTENDS Integers, Sequences, SequencesExt, FiniteSets

CONSTANT Sentences  \* What may be asked: [visible, expression, expected], where visible gives
                    \* the candidates of every name.

\* A symbol is [kind, formals, result], a formal [name, type, default].  A type
\* is named; "none" is no type: of a procedure, or expected where anything may
\* stand.  "void" is expected of a statement.
IntegerTypes == {"integer", "count"}
Composite == {"vector"}

VARIABLES sentence, understood   \* understood: [accepted, type, meaning], or [pending]

callVars == <<sentence, understood>>

\* A meaning is a symbol with the meanings of what its formals get.
Meaning(symbol, arguments) == [symbol |-> symbol, arguments |-> arguments]
Plainly(kind, type) == Meaning([kind |-> kind, formals |-> <<>>, result |-> type], <<>>)
Number == Plainly("number", "universal")
OfAggregate == Plainly("aggregate", "none")
Default == Plainly("default", "none")

Understood(meaning) ==
    [accepted |-> TRUE, type |-> meaning.symbol.result, meaning |-> meaning]
\* An error was reported; what is made of the rest no longer matters.
Refused == [accepted |-> FALSE, type |-> "none", meaning |-> Default]

Compatible(target, source) ==
    \/ "none" \in {target, source} \/ target = source
    \/ \E t \in IntegerTypes : {target, source} = {"universal", t}

MatchesResult(symbol, expected) ==
    CASE expected = "none" -> TRUE
      [] expected = "void" -> symbol.result = "none"
      [] OTHER -> symbol.result # "none" /\ Compatible(expected, symbol.result)

MayBeBare(symbol) == \A p \in DOMAIN symbol.formals : symbol.formals[p].default
Bare(symbol) == Meaning(symbol, [p \in DOMAIN symbol.formals |-> Default])

ReadName(found, expected) ==
    LET objects == SelectSeq(found, LAMBDA s : s.kind = "object")
        fits == SelectSeq(found, LAMBDA s : MatchesResult(s, expected) /\ MayBeBare(s))
    IN  CASE objects # <<>> -> Understood(Bare(Head(objects)))
          [] objects = <<>> /\ Len(fits) = 1 -> Understood(Bare(Head(fits)))
          [] OTHER -> Refused

-----------------------------------------------------------------------------

\* Where argument i of a call goes in a profile: at most one place.
FormalFor(symbol, arguments, i) ==
    {p \in DOMAIN symbol.formals :
        IF arguments[i].name = "" THEN p = i ELSE symbol.formals[p].name = arguments[i].name}
FormalTypes(candidates, arguments, i) ==
    UNION {{s.formals[p].type : p \in FormalFor(s, arguments, i)} : s \in Range(candidates)}

\* The type an argument is read with: none where the profiles differ, and none
\* for what has its type from within.  (AnyFormal is a mutant.)
AnyFormal(types, value) ==
    IF types # {} /\ value.form \in {"name", "call"} THEN CHOOSE t \in types : TRUE ELSE "none"
Context(types, value) ==
    IF Cardinality(types) = 1 /\ value.form \in {"name", "call"}
    THEN CHOOSE t \in types : TRUE ELSE "none"

\* Reported before any profile is looked at.
Malformed(arguments) ==
    \E i, j \in DOMAIN arguments :
        i < j /\ arguments[i].name # "" /\ arguments[j].name \in {"", arguments[i].name}

Associates(symbol, arguments) ==
    /\ Len(arguments) <= Len(symbol.formals)
    /\ \A i \in DOMAIN arguments : FormalFor(symbol, arguments, i) # {}
    /\ \A i, j \in DOMAIN arguments :
           i # j => FormalFor(symbol, arguments, i) # FormalFor(symbol, arguments, j)
    /\ \A p \in DOMAIN symbol.formals :
           symbol.formals[p].default \/ \E i \in DOMAIN arguments : p \in FormalFor(symbol, arguments, i)

\* For each formal what it gets of given, which has one entry per argument.
Placed(symbol, arguments, given, otherwise) ==
    [p \in DOMAIN symbol.formals |->
        LET at == {i \in DOMAIN arguments : p \in FormalFor(symbol, arguments, i)} IN
        IF at = {} THEN otherwise ELSE given[CHOOSE i \in at : TRUE]]

RECURSIVE Read(_, _, _)

\* analyzeCall.  An aggregate has no type until the profile is chosen.
ReadCall(visible, call, expected) ==
    LET found == visible[call.name]
        candidates == SelectSeq(found, LAMBDA s : s.kind = "subprogram" /\ MatchesResult(s, expected))
        arguments == call.arguments
        read == [i \in DOMAIN arguments |->
                    Read(visible, arguments[i].value,
                         Context(FormalTypes(candidates, arguments, i), arguments[i].value))]
        takes(s) == \A i \in DOMAIN arguments : \A p \in FormalFor(s, arguments, i) :
                        Compatible(s.formals[p].type, read[i].type)
        fits == SelectSeq(candidates, LAMBDA s : Associates(s, arguments) /\ takes(s))
        misplaced(s) == \E i \in DOMAIN arguments : \E p \in FormalFor(s, arguments, i) :
                            arguments[i].value.form = "aggregate" /\ s.formals[p].type \notin Composite
    IN  IF \/ Malformed(arguments) \/ Len(fits) # 1
           \/ \E i \in DOMAIN arguments : ~read[i].accepted
           \/ misplaced(Head(fits))
        THEN Refused
        ELSE Understood(Meaning(Head(fits),
                 Placed(Head(fits), arguments, [i \in DOMAIN arguments |-> read[i].meaning], Default)))

Read(visible, e, expected) ==
    CASE e.form = "number" -> Understood(Number)
      [] e.form = "aggregate" -> Understood(OfAggregate)
      [] e.form = "name" -> ReadName(visible[e.name], expected)
      [] e.form = "call" -> ReadCall(visible, e, expected)

AnalyzeCall ==
    /\ "pending" \in DOMAIN understood
    /\ understood' = Read(sentence.visible, sentence.expression, sentence.expected)
    /\ UNCHANGED sentence

CallsInit == sentence \in Sentences /\ understood = [pending |-> TRUE]
CallsNext == AnalyzeCall

-----------------------------------------------------------------------------
(* Ada's rule: all readings of the whole, of which there must be one.      *)

Yields(symbol, type) == type = "any" \/ symbol.result = (IF type = "void" THEN "none" ELSE type)

RECURSIVE Meanings(_, _, _)
Meanings(visible, e, type) ==
    LET whole(s) ==
            LET options == Placed(s, e.arguments,
                    [i \in DOMAIN e.arguments |->
                        UNION {Meanings(visible, e.arguments[i].value, s.formals[p].type) :
                               p \in FormalFor(s, e.arguments, i)}], {Default})
            IN  {Meaning(s, given) : given \in
                    {g \in [DOMAIN s.formals -> UNION Range(options)] :
                        \A p \in DOMAIN g : g[p] \in options[p]}}
    IN  CASE e.form = "number" -> IF type \in IntegerTypes \cup {"any"} THEN {Number} ELSE {}
          [] e.form = "aggregate" -> IF type \in Composite THEN {OfAggregate} ELSE {}
          [] e.form = "name" ->
                {Bare(s) : s \in {s \in Range(visible[e.name]) : Yields(s, type) /\ MayBeBare(s)}}
          [] e.form = "call" ->
                IF Malformed(e.arguments) THEN {}
                ELSE UNION {whole(s) : s \in {s \in Range(visible[e.name]) :
                        s.kind = "subprogram" /\ Yields(s, type) /\ Associates(s, e.arguments)}}

\* Somewhere in e an argument that alone may mean several things, or nothing,
\* stands where the profiles differ.
RECURSIVE Undetermined(_, _)
Undetermined(visible, e) ==
    e.form = "call" /\ \E i \in DOMAIN e.arguments :
        LET value == e.arguments[i].value IN
        \/ Undetermined(visible, value)
        \/ /\ Cardinality(FormalTypes(visible[e.name], e.arguments, i)) > 1
           /\ Cardinality(Meanings(visible, value, "any")) # 1

RECURSIVE PassesProcedure(_)
PassesProcedure(meaning) ==
    \E p \in DOMAIN meaning.arguments :
        LET argument == meaning.arguments[p] IN
        \/ argument.symbol.kind = "subprogram" /\ argument.symbol.result = "none"
        \/ PassesProcedure(argument)

\* A call that is accepted has one reading in Ada, and that is the one chosen,
\* although each argument was read without the others; and a call with one
\* reading is accepted, unless an argument that needs its formal to be read
\* stands where the profiles differ (the repository's README.md:154 leaves that
\* open).  An argument that names a procedure is the hole: it has no type, and
\* no type suits every formal.
CallsMeanAdas ==
    ("pending" \notin DOMAIN understood) =>
        LET e == sentence.expression
            meanings == Meanings(sentence.visible, e, sentence.expected)
        IN  IF understood.accepted
            THEN meanings = {understood.meaning} \/ PassesProcedure(understood.meaning)
            ELSE Cardinality(meanings) = 1 => Undetermined(sentence.visible, e)
=============================================================================

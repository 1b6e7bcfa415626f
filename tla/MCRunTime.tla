------------------------------ MODULE MCRunTime ------------------------------
(***************************************************************************)
(* Instances of what compiled programs do as they run: the code emitted    *)
(* for loops, calls and nested subprograms, and the functions of the run   *)
(* time library.  A behaviour exercises the part named by stage; the       *)
(* others stay as they are before they start.                              *)
(***************************************************************************)
EXTENDS Arithmetic, ScalarText, ForLoop, StaticLinks, ParameterPassing, TextFiles, DirectFiles,
        Streams, TLC

VARIABLE stage

vars == <<stage, arithmeticVars, readingVars, imageVars, loopVars, linkVars, callVars, textVars,
          directVars, streamVars>>

-----------------------------------------------------------------------------
(* Arithmetic: every operation on every pair of ints of 4 bits, and on the *)
(* pairs of long longs of 8 bits where something overflows.                *)

Ints == Lowest(IntLast)..IntLast
Longs == {-128, -127, -65, -64, -12, -11, -2, -1, 0, 1, 2, 3, 5, 7, 11, 12, 63, 64, 126, 127}
Element == {-1, 0, 1, 7, 15, 16, 17, 18, 31, 32, 36, 37, 127, 128, 200, 255}
MCRequests ==
    [kind : {"operation"}, operation : Operations, highest : {IntLast}, left : Ints, right : Ints]
    \cup [kind : {"operation"}, operation : Operations, highest : {LongLast}, left : Longs, right : Longs]
    \cup [kind : {"static"}, unary : {"+", "-", "abs"}, operation : Operations \cup {"none"},
            left : Longs, right : Longs]
    \cup [kind : {"static"}, unary : {"not"}, operation : {"none"}, left : {0, 1}, right : {0}]
    \cup [kind : {"round"}, quarters : (-70)..70 \cup {-512, -516, 504, 508, 512, 520}]
    \cup [kind : {"size", "local", "result"}, first : Ints, last : Ints, element : Element]
ArithmeticIdle == request = [kind |-> "none"] /\ answer = [pending |-> TRUE]

-----------------------------------------------------------------------------
(* 'Value: numerals with a sign, a base, underscores and an exponent,      *)
(* against what they denote, and texts that denote nothing; the literals   *)
(* of a type, characters, and strings to compare.                          *)

UpToThree(set) == {<<x>> : x \in set} \cup (set \X set) \cup (set \X set \X set)
Denoted(digits, base) == FoldLeft(LAMBDA v, c : v * base + NumeralOf(c), 0, digits)
Underscored(digits) ==
    {digits} \cup (IF Len(digits) = 3 THEN {<<digits[1], digits[2], "_", digits[3]>>} ELSE {})
Exponents == {<<>>, <<"e", "0">>, <<"e", "+", "1">>, <<"e", "0", "_", "2">>}
ExponentOf(e) == IF e = <<>> THEN 0 ELSE NumeralOf(Last(e))
Bases ==
    {[base |-> 10, before |-> <<>>, behind |-> <<>>, digits |-> {"0", "1", "2", "8"}],
     [base |-> 2, before |-> <<"2", "#">>, behind |-> <<"#">>, digits |-> {"0", "1"}],
     [base |-> 12, before |-> <<"1", "2", "#">>, behind |-> <<"#">>, digits |-> {"1", "b"}]}
IntegerReading(written, low, high, meant) ==
    [kind |-> "integer", text |-> written, low |-> low, high |-> high, meant |-> meant]
Readable ==
    UNION {UNION {
        {IntegerReading(<<" ">> \o sign \o b.before \o written \o b.behind \o e, range[1], range[2],
                        {(IF sign = <<"-">> THEN -1 ELSE 1) * Denoted(digits, b.base) * b.base ^ ExponentOf(e)})
            : written \in Underscored(digits)}
        : sign \in {<<>>, <<"-">>, <<"+">>}, digits \in UpToThree(b.digits), e \in Exponents,
          range \in {<<-128, 127>>, <<-7, 12>>}}
        : b \in Bases}
Unreadable ==
    {IntegerReading(written, -128, 127, {}) : written \in
        {<<>>, <<" ">>, <<"-">>, <<"_", "1">>, <<"1", "_">>, <<"1", "_", "_", "1">>, <<"1", " ", "1">>,
         <<"1", "e">>, <<"1", "e", "-", "1">>, <<"1", "#", "0", "#">>, <<"2", "#", "2", "#">>,
         <<"2", "#", "1">>, <<"2", "#", "#">>, <<"1", "7", "#", "1", "#">>, <<"-", "+", "1">>,
         <<"1", "e", "_", "1">>, <<"1", "e", "1", "_">>, <<"a">>, <<"2", "#", "1", "#", "1">>,
         <<"1", "e", "9", "9">>, <<"0", "x">>}}
WordsOf(set) == {<<>>} \cup UpToThree(set)
MCNames == <<<<"a">>, <<"a", "e">>, <<"e">>, <<"a", "e", "a", "e", "a", "e", "a", "e">>>>
MCReadings ==
    Readable \cup Unreadable
    \cup {IntegerReading(<<"0", "e", "9", "9", "9", "9">>, -128, 127, {0})}
    \cup {[kind |-> "enum", text |-> <<" ">> \o w \o <<" ">>,
           meant |-> {i \in 0..3 : Uppercase(MCNames[i + 1]) = Uppercase(w)}] : w \in WordsOf({"a", "A", "e"})}
    \cup {[kind |-> "character", text |-> w,
           meant |-> IF Len(w) = 3 /\ w[1] = "'" /\ w[3] = "'" THEN {w[2]} ELSE {}] : w \in WordsOf({"'", "a"})}
    \cup [kind : {"compare"}, left : WordsOf({1, 2}), right : WordsOf({1, 2})]
ReadingIdle == reading = [kind |-> "none"] /\ outcome = [pending |-> TRUE]

MCImaged ==
    [maker : {"integer"}, value : {-128, -1, 0, 127}]
    \cup [maker : {"enum"}, value : {-1, 1, 3, 4}]
    \cup [maker : {"character"}, value : {"a", "'"}]

-----------------------------------------------------------------------------
(* Loops over every range of words around a slot of 3 bits, null ones and  *)
(* ones that no slot holds included.                                       *)

MinusFour == -4
MCBounds == (SlotLow - 2)..(SlotHigh + 2)
MCLoops ==
    [low : MCBounds, high : MCBounds, isReverse : BOOLEAN,
     first : {SlotLow, -1}, last : {SlotHigh, 2}, checked : BOOLEAN]
LoopIdle ==
    /\ loop = [low |-> 0, high |-> 0, isReverse |-> FALSE, first |-> 0, last |-> 0, checked |-> FALSE]
    /\ label = "enter" /\ slot = SlotLow /\ bound = SlotLow /\ visited = <<>> /\ left = "none"

-----------------------------------------------------------------------------
(* Subprograms nested four deep, with a second one beside the third and    *)
(* another at library level.                                               *)

MCOwner ==
    ("main" :> "none") @@ ("outer" :> "main") @@ ("middle" :> "outer") @@ ("inner" :> "middle")
    @@ ("beside" :> "outer") @@ ("lib" :> "none")
MCLevel ==
    ("main" :> 0) @@ ("outer" :> 1) @@ ("middle" :> 2) @@ ("inner" :> 3) @@ ("beside" :> 2) @@ ("lib" :> 0)
MCEnclosing ==
    ("main" :> {}) @@ ("outer" :> {"main"}) @@ ("middle" :> {"main", "outer"})
    @@ ("inner" :> {"main", "outer", "middle"}) @@ ("beside" :> {"main", "outer"}) @@ ("lib" :> {})

-----------------------------------------------------------------------------
(* A call with one parameter of each mode, over variables that may be the  *)
(* same and a component that their values select.                          *)

MinusOne == -1
MCFormals ==
    <<[mode |-> "in", low |-> 0, high |-> 2], [mode |-> "in_out", low |-> 0, high |-> 2],
      [mode |-> "out", low |-> 0, high |-> 2]>>
MCCalls == [1..3 -> {"a1", "a2", "component"}]
MCComponent == (0 :> "a1") @@ (1 :> "a2") @@ (-1 :> "a1")
CallIdle ==
    /\ actuals = <<"a1", "a1", "a1">>
    /\ memory = [c \in Cells |-> 0]
    /\ phase = "actuals" /\ nextFormal = 1
    /\ addresses = <<>> /\ temporaries = <<>>
    /\ pending = FALSE /\ writes = 0 /\ before = memory /\ after = memory

-----------------------------------------------------------------------------
(* Files.                                                                  *)

MCItems == {<<"a">>, <<"1", "2">>, <<"-">>, <<Space>>, <<"a", "_", "1">>}
MCNumbers ==
    {[value |-> -2, width |-> 3, base |-> 10], [value |-> 5, width |-> 0, base |-> 2],
     [value |-> 20, width |-> 0, base |-> 10]}
MCLiterals == <<<<"a">>, <<"a", "_", "1">>>>
MinusFive == -5

MCElementValues == {<<1, 2>>, <<3, 1>>}
DirectIdle == DirectInit /\ directMode = "ADA_MODE_INOUT"

MCObjects ==
    {[kind |-> "scalar", value |-> 7]}
    \cup {[kind |-> "array", first |-> r[1], last |-> r[2]] : r \in {<<-1, 0>>, <<0, 3>>, <<5, 3>>}}

-----------------------------------------------------------------------------

Init ==
    /\ stage \in {"arithmetic", "value", "image", "loop", "link", "call", "text", "direct", "stream"}
    /\ IF stage = "arithmetic" THEN ArithmeticInit ELSE ArithmeticIdle
    /\ IF stage = "value" THEN ReadingInit ELSE ReadingIdle
    /\ ImageInit
    /\ IF stage = "loop" THEN LoopInit ELSE LoopIdle
    /\ LinkInit
    /\ IF stage = "call" THEN CallInit ELSE CallIdle
    /\ TextInit
    /\ IF stage = "direct" THEN DirectInit ELSE DirectIdle
    /\ StreamInit

Calculate ==
    /\ stage = "arithmetic" /\ ArithmeticNext
    /\ UNCHANGED <<stage, readingVars, imageVars, loopVars, linkVars, callVars, textVars, directVars, streamVars>>
TakeValue ==
    /\ stage = "value" /\ ReadingNext
    /\ UNCHANGED <<stage, arithmeticVars, loopVars, linkVars, callVars, textVars, directVars, streamVars>>
MakeImage ==
    /\ stage = "image" /\ ImageNext
    /\ UNCHANGED <<stage, arithmeticVars, loopVars, linkVars, callVars, textVars, directVars, streamVars>>
RunLoop ==
    /\ stage = "loop" /\ LoopNext
    /\ UNCHANGED <<stage, arithmeticVars, readingVars, imageVars, linkVars, callVars, textVars, directVars, streamVars>>
CallNested ==
    /\ stage = "link" /\ LinkNext
    /\ UNCHANGED <<stage, arithmeticVars, readingVars, imageVars, loopVars, callVars, textVars, directVars, streamVars>>
PassParameters ==
    /\ stage = "call" /\ CallNext
    /\ UNCHANGED <<stage, arithmeticVars, readingVars, imageVars, loopVars, linkVars, textVars, directVars, streamVars>>
UseText ==
    /\ stage = "text" /\ TextNext
    /\ UNCHANGED <<stage, arithmeticVars, readingVars, imageVars, loopVars, linkVars, callVars, directVars, streamVars>>
UseDirect ==
    /\ stage = "direct" /\ DirectNext
    /\ UNCHANGED <<stage, arithmeticVars, readingVars, imageVars, loopVars, linkVars, callVars, textVars, streamVars>>
UseStream ==
    /\ stage = "stream" /\ StreamNext
    /\ UNCHANGED <<stage, arithmeticVars, readingVars, imageVars, loopVars, linkVars, callVars, textVars, directVars>>

\* What ends, ends; files and nested calls go on.
Done ==
    /\ \/ stage = "arithmetic" /\ "pending" \notin DOMAIN answer
       \/ stage = "value" /\ "pending" \notin DOMAIN outcome
       \/ stage = "image" /\ Len(held) = MaxImages
       \/ stage = "loop" /\ (label = "done" \/ Len(visited) = MaxVisits)
       \/ stage = "call" /\ phase \in {"done", "raised"}
    /\ UNCHANGED vars

Next ==
    \/ Calculate \/ TakeValue \/ MakeImage \/ RunLoop \/ CallNested \/ PassParameters
    \/ UseText \/ UseDirect \/ UseStream \/ Done

Spec == Init /\ [][Next]_vars
=============================================================================

-------------------------- MODULE UnitLoaderProofs --------------------------
(***************************************************************************)
(* Theorems about UnitLoader: whatever a file draws on comes before it,    *)
(* and a program that was accepted is complete.                            *)
(*                                                                         *)
(* Both say something of the files that are done; what makes them true is  *)
(* what the calls under way have achieved so far.  Frames says it of the   *)
(* C++ stack: of each call by itself (Settled), of the innermost one, to   *)
(* which something has just been returned (OnTop), and of a call and the   *)
(* one it waits for (Beneath).  It is an operator on values, so that what  *)
(* a return, a call or the next place of a call does to it is a lemma on   *)
(* sequences, and the actions only say what they add.                      *)
(***************************************************************************)
EXTENDS UnitLoader, SequenceTheorems, TLAPS

Frame == UnitFrames \cup FileFrames

OfUnit(frame, u) == "at" \in DOMAIN frame /\ frame.unit = u
OfFile(frame) == "path" \in DOMAIN frame

\* Every unit this one is declared in has a file, and so has it itself.
Whole(u) == \A a \in Ancestry(u) : {SpecOf(a), BodyOf(a)} \cap present # {}
WholeUnits == { u \in Units : Whole(u) }

Done == { units[i] : i \in DOMAIN units }

\* The units whose specification is in place, or not to be looked for.
HadUnits == { u \in Units : Findable(u) /\ SpecOf(u) \in present => Found(SpecOf(u)) \in Done }

\* The paths of the files being read, and the units being loaded.
PathsIn(s) == { s[i].path : i \in { k \in DOMAIN s : OfFile(s[k]) } }
UnitsIn(s) == { u \in Units : \E i \in DOMAIN s : OfUnit(s[i], u) }

\* The units all of whose files are read, or on their way.
CompleteUnits ==
  { u \in Units : Findable(u) =>
      \A f \in {SpecOf(u), BodyOf(u)} \cap present : Found(f) \in Done \cup PathsIn(stack) }
CoveredUnits == CompleteUnits \cup UnitsIn(stack)

-----------------------------------------------------------------------------
(* What the calls under way have achieved; had, covered and whole are sets *)
(* of units, lib the files with what they with, nm the units the command   *)
(* line names, and value what was returned last.                           *)

\* What a call has behind it, whatever it waits for.
SettledUnit(frame, had) ==
  /\ frame.at = "parent" => Parent[frame.unit] # NoUnit
  /\ frame.at \in {"search", "body"} => Parent[frame.unit] \in had \cup {NoUnit}
SettledFile(frame, had, covered, lib, nm) ==
  LET file == frame.path.file
  IN  /\ file.unit \in nm \/ Parent[file.unit] \in had \cup {NoUnit}
      /\ file.part = "body" => file.unit \in had
      /\ \A k \in 1 .. frame.next - 2 : lib[file][k] \in had
      /\ \A k \in 1 .. frame.next - 1 : lib[file][k] \in covered
Settled(frame, had, covered, lib, nm) ==
  /\ "at" \in DOMAIN frame => SettledUnit(frame, had)
  /\ OfFile(frame) => SettledFile(frame, had, covered, lib, nm)

\* What holds when a call has been returned to.
OnTop(frame, had, lib, whole, value) ==
  /\ "at" \in DOMAIN frame =>
       /\ frame.at = "parent" =>
            Parent[frame.unit] \in had /\ (value \/ Parent[frame.unit] \notin whole)
       /\ frame.at = "body" => frame.unit \in had
  /\ OfFile(frame) => (frame.next > 1 => lib[frame.path.file][frame.next - 1] \in had)

\* What a call waits for.
Beneath(frame, above, had, lib) ==
  /\ "at" \in DOMAIN frame =>
       /\ frame.at = "parent" =>
            \/ OfUnit(above, Parent[frame.unit])
            \/ OfFile(above) /\ Parent[frame.unit] \in had
       /\ frame.at = "body" =>
            frame.unit \in had \/ (OfFile(above) /\ above.path = Found(SpecOf(frame.unit)))
  /\ OfFile(frame) =>
       (frame.next > 1 =>
          \/ lib[frame.path.file][frame.next - 1] \in had
          \/ OfUnit(above, lib[frame.path.file][frame.next - 1]))

Frames(s, had, covered, lib, nm, whole, value) ==
  /\ \A i \in 1 .. Len(s) : Settled(s[i], had, covered, lib, nm)
  /\ Len(s) > 0 => OnTop(s[1], had, lib, whole, value)
  /\ \A i \in 2 .. Len(s) : Beneath(s[i], s[i - 1], had, lib)

-----------------------------------------------------------------------------

\* The specification a file needs is ahead of it, at position i.
Ahead(u, i) ==
  Findable(u) /\ SpecOf(u) \in present => \E j \in 1 .. i - 1 : units[j] = Found(SpecOf(u))

CommandsNamed == \A i \in DOMAIN commands : commands[i].file.unit \in named
LoadedInPlace == \A u \in Units : states[u] = "Loaded" => u \in HadUnits \cap CompleteUnits
CallsHave == Frames(stack, HadUnits, CoveredUnits, withs, named, WholeUnits, result)
FilesInOrder == \A i \in DOMAIN units : \A u \in NeededBy(units[i].file) : Ahead(u, i)
FilesCovered == \A i \in DOMAIN units : Drawn(units[i].file) \subseteq CoveredUnits

Order == CommandsNamed /\ LoadedInPlace /\ CallsHave /\ FilesInOrder /\ FilesCovered

LoaderInv == TypeOK /\ (~HasErrors => Order)

-----------------------------------------------------------------------------
(* Stacks.                                                                 *)

\* The innermost call returns.
LEMMA Popped ==
    ASSUME NEW S, NEW s \in Seq(S), s # << >>
    PROVE  /\ Len(s) \in Nat /\ Len(s) > 0 /\ Head(s) = s[1] /\ s[1] \in S
           /\ Tail(s) \in Seq(S) /\ Len(Tail(s)) = Len(s) - 1
           /\ \A i \in 1 .. Len(s) - 1 : Tail(s)[i] = s[i + 1]
           /\ \A i \in 1 .. Len(s) : s[i] \in S
OBVIOUS

\* The innermost call goes on from another place.
LEMMA Swapped ==
    ASSUME NEW S, NEW s \in Seq(S), s # << >>, NEW a \in S
    PROVE  /\ << a >> \o Tail(s) \in Seq(S) /\ Len(<< a >> \o Tail(s)) = Len(s)
           /\ (<< a >> \o Tail(s))[1] = a
           /\ \A i \in 2 .. Len(s) : (<< a >> \o Tail(s))[i] = s[i]
BY Popped

\* The innermost call goes on from another place once a call of its own returns.
LEMMA Pushed ==
    ASSUME NEW S, NEW s \in Seq(S), s # << >>, NEW a \in S, NEW b \in S
    PROVE  /\ << b, a >> \o Tail(s) \in Seq(S) /\ Len(<< b, a >> \o Tail(s)) = Len(s) + 1
           /\ (<< b, a >> \o Tail(s))[1] = b /\ (<< b, a >> \o Tail(s))[2] = a
           /\ \A i \in 3 .. Len(s) + 1 : (<< b, a >> \o Tail(s))[i] = s[i - 1]
BY Popped

-----------------------------------------------------------------------------
(* Types.                                                                  *)

\* A call of parseInto is on a file there is, at one of its names.
Placed(frame) ==
  OfFile(frame) =>
    frame.path.file \in present /\ frame.next <= Len(withs[frame.path.file]) + 1

\* A frame is one of loadUnit or one of parseInto.
LEMMA Kinds ==
    ASSUME NEW frame \in Frame
    PROVE  /\ "at" \in DOMAIN frame => frame \in UnitFrames /\ ~OfFile(frame)
           /\ OfFile(frame) => frame \in FileFrames /\ "at" \notin DOMAIN frame
           /\ frame \in UnitFrames => "at" \in DOMAIN frame /\ ~OfFile(frame)
           /\ frame \in FileFrames => OfFile(frame)
BY DEF Frame, UnitFrames, FileFrames, OfFile

\* The innermost call.
LEMMA TheTop ==
    ASSUME TypeOK, stack # << >>
    PROVE  /\ Top = stack[1] /\ Top \in Frame /\ Placed(Top)
           /\ "at" \in DOMAIN Top => Top.unit \in Units /\ Top.at \in {"enter", "parent", "search", "body"}
           /\ InFile => /\ Top.path \in Paths /\ Top.path.file \in present /\ Top.next \in Nat \ {0}
                        /\ Clause \in Seq(Units) /\ Top.next <= Len(Clause) + 1
<1>1. stack \in Seq(Frame) /\ Top = stack[1] /\ Top \in Frame /\ 1 \in DOMAIN stack
    BY Popped DEF TypeOK, Frame, Top
<1>2. Placed(Top)
    BY <1>1 DEF TypeOK, Placed, OfFile
<1>3. ASSUME "at" \in DOMAIN Top
      PROVE  Top.unit \in Units /\ Top.at \in {"enter", "parent", "search", "body"}
    BY <1>1, <1>3, Kinds DEF UnitFrames
<1>4. ASSUME InFile
      PROVE  /\ Top.path \in Paths /\ Top.path.file \in present /\ Top.next \in Nat \ {0}
             /\ Clause \in Seq(Units) /\ Top.next <= Len(Clause) + 1
    <2>1. Top \in FileFrames
        BY <1>1, <1>4, Kinds DEF InFile, OfFile
    <2> QED BY <1>2, <1>4, <2>1 DEF FileFrames, Placed, InFile, OfFile, Clause, TypeOK
<1> QED BY <1>1, <1>2, <1>3, <1>4

\* The calls stay well typed when the innermost one gives way to others that are.
LEMMA StackTypes ==
    ASSUME TypeOK, stack # << >>, UNCHANGED withs,
           NEW a \in Frame, Placed(a), NEW b \in Frame, Placed(b),
           \/ stack' = Rest
           \/ stack' = << a >> \o Rest
           \/ stack' = << b, a >> \o Rest
    PROVE  /\ stack' \in Seq(Frame)
           /\ \A i \in DOMAIN stack' : Placed(stack'[i])
<1>1. stack \in Seq(Frame) /\ \A i \in 1 .. Len(stack) : Placed(stack[i])
    BY DEF TypeOK, Frame, Placed, OfFile
<1>2. CASE stack' = Rest
    BY <1>1, <1>2, Popped DEF Rest
<1>3. CASE stack' = << a >> \o Rest
    <2>1. /\ stack' \in Seq(Frame) /\ Len(stack') = Len(stack) /\ stack'[1] = a
          /\ \A i \in 2 .. Len(stack) : stack'[i] = stack[i]
        BY <1>1, <1>3, Swapped DEF Rest
    <2> QED BY <1>1, <2>1
<1>4. CASE stack' = << b, a >> \o Rest
    <2>1. /\ stack' \in Seq(Frame) /\ Len(stack') = Len(stack) + 1 /\ stack'[1] = b /\ stack'[2] = a
          /\ \A i \in 3 .. Len(stack) + 1 : stack'[i] = stack[i - 1]
        BY <1>1, <1>4, Pushed DEF Rest
    <2>2. ASSUME NEW i \in DOMAIN stack'
          PROVE  Placed(stack'[i])
      <3>1. i \in 1 .. Len(stack) + 1
        BY <2>1
      <3>2. CASE i = 1
        BY <2>1, <3>2
      <3>3. CASE i = 2
        BY <2>1, <3>3
      <3>4. CASE i \in 3 .. Len(stack) + 1
        <4>1. i - 1 \in 1 .. Len(stack)
          BY <1>1, <3>4
        <4>2. Placed(stack[i - 1])
          BY <1>1, <4>1
        <4> QED
          BY <2>1, <3>4, <4>2
      <3> QED
        BY <1>1, <3>1, <3>2, <3>3, <3>4
    <2> QED BY <2>1, <2>2
<1> QED BY <1>2, <1>3, <1>4

\* Placed speaks of the library only, which does not change.
LEMMA TypesFromParts ==
    ASSUME TypeOK, UNCHANGED program, commands' \in Seq(Paths),
           states' \in [Units \cup Paths -> {"unseen", "Loading", "Loaded"}],
           units' \in Seq(Paths), stack' \in Seq(Frame), \A i \in DOMAIN stack' : Placed(stack'[i]),
           result' \in BOOLEAN, circles' \subseteq Units, unread' \in BOOLEAN
    PROVE  TypeOK'
BY DEF TypeOK, program, present, Placed, OfFile, Frame

\* A state is entered only where there is none yet.
LEMMA EmplaceType ==
    ASSUME NEW map \in [Units \cup Paths -> {"unseen", "Loading", "Loaded"}], NEW key \in Units \cup Paths,
           NEW state \in {"Loading", "Loaded"}
    PROVE  /\ Emplace(map, key, state) \in [Units \cup Paths -> {"unseen", "Loading", "Loaded"}]
           /\ Emplace(map, key, state)[key] \in {state, map[key]} \ {"unseen"}
           /\ \A other \in (Units \cup Paths) \ {key} : Emplace(map, key, state)[other] = map[other]
BY DEF Emplace

\* Calls that begin are of the right type.
LEMMA FreshFrames ==
    ASSUME TypeOK
    PROVE  /\ \A u \in Units : LoadUnit(u) \in UnitFrames
           /\ \A path \in Paths : ParseInto(path) \in FileFrames
           /\ \A frame \in UnitFrames : frame \in Frame /\ Placed(frame)
           /\ \A path \in Paths : path.file \in present => ParseInto(path) \in Frame /\ Placed(ParseInto(path))
           /\ \A u \in Units : Found(SpecOf(u)) \in Paths /\ Found(BodyOf(u)) \in Paths
<1>1. \A path \in Paths : ParseInto(path) \in FileFrames /\ ParseInto(path).next = 1 /\ ParseInto(path).path = path
    BY DEF ParseInto, FileFrames
<1>2. ASSUME NEW path \in Paths, path.file \in present
      PROVE  Placed(ParseInto(path))
    <2>1. Len(withs[path.file]) \in Nat
        BY <1>2 DEF TypeOK
    <2> QED BY <1>1, <1>2, <2>1 DEF Placed
<1>3. \A u \in Units : Found(SpecOf(u)) \in Paths /\ Found(BodyOf(u)) \in Paths
    BY DEF Found, Paths, Files, SpecOf, BodyOf, Spellings
<1>4. \A frame \in UnitFrames : frame \in Frame /\ Placed(frame)
    BY Kinds DEF Frame, Placed
<1>5. \A u \in Units : LoadUnit(u) \in UnitFrames
    BY DEF LoadUnit, UnitFrames
<1> QED BY <1>1, <1>2, <1>3, <1>4, <1>5 DEF Frame

\* Every step keeps the types.
LEMMA TypeStep ==
    ASSUME TypeOK, [Next]_vars
    PROVE  TypeOK'
<1> USE UnitLoaderAssumption
<1> DEFINE States == [Units \cup Paths -> {"unseen", "Loading", "Loaded"}]
<1>1. /\ commands \in Seq(Paths) /\ states \in States /\ units \in Seq(Paths) /\ stack \in Seq(Frame)
      /\ (\A i \in DOMAIN stack : Placed(stack[i])) /\ result \in BOOLEAN /\ circles \subseteq Units
      /\ unread \in BOOLEAN
    BY DEF TypeOK, Frame, Placed, OfFile
<1>2. ASSUME InUnit("enter") \/ InUnit("parent") \/ InUnit("search") \/ InUnit("body")
      PROVE  /\ stack # << >> /\ Top.unit \in Units /\ Top \in UnitFrames
             /\ \A at \in {"enter", "parent", "search", "body"} :
                  [Top EXCEPT !.at = at] \in Frame /\ Placed([Top EXCEPT !.at = at])
    <2>1. stack # << >> /\ "at" \in DOMAIN Top
        BY <1>2 DEF InUnit
    <2>2. Top \in UnitFrames /\ Top.unit \in Units
        BY <2>1, TheTop, Kinds
    <2>3. \A at \in {"enter", "parent", "search", "body"} : [Top EXCEPT !.at = at] \in UnitFrames
        BY <2>2 DEF UnitFrames
    <2> QED BY <2>1, <2>2, <2>3, FreshFrames
\* The calls after a return, at the next place, or with a file to read.
<1>3. ASSUME stack # << >>, stack' = Rest, UNCHANGED program
      PROVE  stack' \in Seq(Frame) /\ \A i \in DOMAIN stack' : Placed(stack'[i])
    BY <1>3, TheTop, StackTypes DEF program
<1>4. ASSUME stack # << >>, UNCHANGED program, NEW a \in Frame, Placed(a), NEW b \in Frame, Placed(b),
             stack' = << b, a >> \o Rest \/ stack' = << a >> \o Rest
      PROVE  stack' \in Seq(Frame) /\ \A i \in DOMAIN stack' : Placed(stack'[i])
    BY <1>4, StackTypes DEF program
<1>5. CASE EnterKnown
    <2>1. UNCHANGED <<program, commands, states, units, unread>> /\ stack # << >> /\ stack' = Rest
        BY <1>5 DEF EnterKnown, Return, InUnit
    <2>2. result' \in BOOLEAN /\ circles' \subseteq Units
        BY <1>1, <1>2, <1>5 DEF EnterKnown, Return
    <2> QED BY <1>1, <1>3, <2>1, <2>2, TypesFromParts
<1>6. CASE EnterUnknown
    <2>1. UNCHANGED <<program, commands, states, units, circles, unread, result>> /\ stack # << >>
        BY <1>6 DEF EnterUnknown, GoOn, InUnit
    <2>2. stack' \in Seq(Frame) /\ \A i \in DOMAIN stack' : Placed(stack'[i])
        <3>1. CASE Parent[Top.unit] = NoUnit
            BY <1>2, <1>4, <1>6, <2>1, <3>1 DEF EnterUnknown, GoOn
        <3>2. CASE Parent[Top.unit] # NoUnit
            <4>1. Parent[Top.unit] \in Units
                BY <1>2, <1>6, <3>2 DEF EnterUnknown
            <4>2. LoadUnit(Parent[Top.unit]) \in Frame /\ Placed(LoadUnit(Parent[Top.unit]))
                BY <4>1, FreshFrames
            <4>3. stack' = << LoadUnit(Parent[Top.unit]), [Top EXCEPT !.at = "parent"] >> \o Rest
                BY <1>6, <3>2 DEF EnterUnknown
            <4> QED BY <1>2, <1>4, <1>6, <2>1, <4>2, <4>3 DEF EnterUnknown
        <3> QED BY <3>1, <3>2
    <2> QED BY <1>1, <2>1, <2>2, TypesFromParts
<1>7. CASE AfterParent
    <2>1. UNCHANGED <<program, commands, states, units, circles, unread>> /\ stack # << >> /\ result' \in BOOLEAN
        BY <1>1, <1>7 DEF AfterParent, GoOn, Return, InUnit
    <2>2. stack' = Rest \/ stack' = << [Top EXCEPT !.at = "search"] >> \o Rest
        BY <1>7 DEF AfterParent, GoOn, Return
    <2>3. stack' \in Seq(Frame) /\ \A i \in DOMAIN stack' : Placed(stack'[i])
        BY <1>2, <1>3, <1>4, <1>7, <2>1, <2>2 DEF AfterParent
    <2> QED BY <1>1, <2>1, <2>3, TypesFromParts
<1>8. CASE NotFound
    <2>1. UNCHANGED <<program, commands, states, units, circles, unread>> /\ stack # << >> /\ stack' = Rest
          /\ result' \in BOOLEAN
        BY <1>8 DEF NotFound, Return, InUnit
    <2> QED BY <1>1, <1>3, <2>1, TypesFromParts
<1>9. CASE ReadSpec
    <2> DEFINE spec == SpecOf(Top.unit)
    <2>1. UNCHANGED <<program, commands, units, circles>> /\ stack # << >> /\ result' \in BOOLEAN
          /\ unread' \in BOOLEAN /\ InUnit("search")
        BY <1>1, <1>9 DEF ReadSpec, ReadFails, Return, InUnit
    <2>2. states' \in States
        BY <1>1, <1>2, <1>9, <2>1, FreshFrames, EmplaceType DEF ReadSpec
    <2>3. ParseInto(Found(spec)) \in Frame /\ Placed(ParseInto(Found(spec)))
        BY <1>2, <1>9, <2>1, FreshFrames DEF ReadSpec, Found
    <2>4. stack' = Rest \/ stack' = << ParseInto(Found(spec)), [Top EXCEPT !.at = "body"] >> \o Rest
        BY <1>9 DEF ReadSpec, ReadFails, Return
    <2>5. stack' \in Seq(Frame) /\ \A i \in DOMAIN stack' : Placed(stack'[i])
        BY <1>2, <1>3, <1>4, <2>1, <2>3, <2>4
    <2> QED BY <1>1, <2>1, <2>2, <2>5, TypesFromParts
<1>10. CASE NoSpec
    <2>1. UNCHANGED <<program, commands, units, circles, unread, result>> /\ stack # << >> /\ InUnit("search")
          /\ stack' = << [Top EXCEPT !.at = "body"] >> \o Rest
        BY <1>10 DEF NoSpec, GoOn, InUnit
    <2>2. states' \in States
        BY <1>1, <1>2, <1>10, <2>1, EmplaceType DEF NoSpec
    <2>3. stack' \in Seq(Frame) /\ \A i \in DOMAIN stack' : Placed(stack'[i])
        BY <1>2, <1>4, <2>1
    <2> QED BY <1>1, <2>1, <2>2, <2>3, TypesFromParts
<1>11. CASE ReadBody
    <2> DEFINE body == BodyOf(Top.unit)
    <2>1. UNCHANGED <<program, commands, units, circles>> /\ stack # << >> /\ result' \in BOOLEAN
          /\ unread' \in BOOLEAN /\ InUnit("body")
        BY <1>1, <1>11 DEF ReadBody, ReadFails, Return, InUnit
    <2>2. states' \in States
        <3>1. [states EXCEPT ![Top.unit] = "Loaded"] \in States
            BY <1>1, <1>2, <2>1
        <3>2. Emplace([states EXCEPT ![Top.unit] = "Loaded"], Found(body), "Loaded") \in States
            BY <1>2, <2>1, <3>1, FreshFrames, EmplaceType
        <3>3. \/ states' = [states EXCEPT ![Top.unit] = "Loaded"]
              \/ states' = Emplace([states EXCEPT ![Top.unit] = "Loaded"], Found(body), "Loaded")
            BY <1>11 DEF ReadBody
        <3> QED BY <3>1, <3>2, <3>3
    <2>3. stack' = Rest \/ (body \in present /\ stack' = << ParseInto(Found(body)) >> \o Rest)
        BY <1>11 DEF ReadBody, ReadFails, Return
    <2>4. body \in present => ParseInto(Found(body)) \in Frame /\ Placed(ParseInto(Found(body)))
        BY <1>2, <2>1, FreshFrames DEF Found
    <2>5. stack' \in Seq(Frame) /\ \A i \in DOMAIN stack' : Placed(stack'[i])
        BY <1>2, <1>3, <1>4, <2>1, <2>3, <2>4
    <2> QED BY <1>1, <2>1, <2>2, <2>5, TypesFromParts
<1>12. CASE With
    <2>1. UNCHANGED <<program, commands, states, units, result, circles, unread>> /\ stack # << >> /\ InFile
          /\ Top.next <= Len(Clause)
          /\ stack' = << LoadUnit(Clause[Top.next]), [Top EXCEPT !.next = @ + 1] >> \o Rest
        BY <1>12 DEF With, InFile
    <2>2. Top \in FileFrames /\ Placed(Top) /\ Clause \in Seq(Units) /\ Top.next \in Nat \ {0}
        BY <2>1, TheTop, Kinds DEF InFile, OfFile
    <2>3. Clause[Top.next] \in Units
        BY <2>1, <2>2
    <2>4. [Top EXCEPT !.next = @ + 1] \in FileFrames /\ Placed([Top EXCEPT !.next = @ + 1])
        <3> DEFINE later == [Top EXCEPT !.next = @ + 1]
        <3>1. later \in FileFrames /\ later.path = Top.path /\ later.next = Top.next + 1
            BY <2>2 DEF FileFrames
        <3>2. Top.path.file \in present /\ Top.next + 1 <= Len(withs[Top.path.file]) + 1
            BY <2>1, <2>2, TheTop DEF Clause
        <3> QED BY <3>1, <3>2 DEF Placed
    <2>5. stack' \in Seq(Frame) /\ \A i \in DOMAIN stack' : Placed(stack'[i])
        BY <1>4, <2>1, <2>3, <2>4, FreshFrames DEF Frame
    <2> QED BY <1>1, <2>1, <2>5, TypesFromParts
<1>13. CASE Finish
    <2>1. UNCHANGED <<program, commands, states, circles, unread>> /\ stack # << >> /\ stack' = Rest
          /\ result' \in BOOLEAN /\ units' = Append(units, Top.path) /\ InFile
        BY <1>13 DEF Finish, Return, InFile
    <2>2. units' \in Seq(Paths)
        BY <1>1, <2>1, TheTop
    <2> QED BY <1>1, <1>3, <2>1, <2>2, TypesFromParts
<1>14. CASE SkipSource
    <2>1. UNCHANGED <<program, states, units, stack, result, circles, unread>> /\ commands' \in Seq(Paths)
        BY <1>1, <1>14 DEF SkipSource, NextCommand
    <2> QED BY <1>1, <2>1, TypesFromParts
<1>15. CASE ReadSource
    <2> DEFINE path == Head(commands)
    <2>1. UNCHANGED <<program, units, result, circles>> /\ commands # << >> /\ unread' \in BOOLEAN
        BY <1>1, <1>15 DEF ReadSource, NextCommand
    <2>2. path \in Paths /\ path.file.unit \in Units
        <3>1. path \in Paths
            BY <1>1, <2>1, Popped
        <3> QED BY <3>1 DEF Paths, Files
    <2>3. states' \in States
        BY <1>1, <1>15, <2>2, EmplaceType DEF ReadSource
    <2>4. commands' \in Seq(Paths)
        <3>1. Tail(commands) \in Seq(Paths) /\ << >> \in Seq(Paths)
            BY <1>1, <2>1, Popped
        <3>2. commands' = Tail(commands) \/ commands' = << >>
            BY <1>15 DEF ReadSource
        <3> QED BY <3>1, <3>2
    <2>5. stack' \in Seq(Frame) /\ \A i \in DOMAIN stack' : Placed(stack'[i])
        <3>1. CASE path.file \in present /\ stack' = << ParseInto(path) >>
            <4>1. ParseInto(path) \in Frame /\ Placed(ParseInto(path))
                BY <2>2, <3>1, FreshFrames
            <4>2. Placed(stack'[1]) /\ DOMAIN stack' = {1}
                BY <3>1, <4>1
            <4> QED BY <3>1, <4>1, <4>2
        <3>2. CASE UNCHANGED stack
            BY <1>1, <3>2
        <3> QED BY <1>15, <3>1, <3>2 DEF ReadSource
    <2> QED BY <1>1, <2>1, <2>3, <2>4, <2>5, TypesFromParts
<1>16. CASE UNCHANGED vars
    <2>1. UNCHANGED <<program, commands, states, units, stack, result, circles, unread>>
        BY <1>16 DEF vars, program
    <2> QED BY <1>1, <2>1, TypesFromParts
<1> QED BY <1>5, <1>6, <1>7, <1>8, <1>9, <1>10, <1>11, <1>12, <1>13, <1>14, <1>15, <1>16 DEF Next

\* The initial states have the types.
LEMMA TypeInit ==
    ASSUME Init
    PROVE  TypeOK
<1>1. commands \in Seq(Paths) /\ present \subseteq Files /\ \A f \in present : withs[f] \in Seq(Units)
    BY UnitLoaderAssumption DEF Init, present
<1>2. named \subseteq Units
    <2>1. \A i \in DOMAIN commands : commands[i] \in Paths
        BY <1>1
    <2>2. \A path \in Paths : path.file.unit \in Units
        BY DEF Paths, Files
    <2>3. named = { commands[i].file.unit : i \in DOMAIN commands }
        BY DEF Init
    <2> QED BY <2>1, <2>2, <2>3
<1>3. stack = << LoadUnit(Required) >> /\ LoadUnit(Required) \in UnitFrames /\ "path" \notin DOMAIN LoadUnit(Required)
    BY UnitLoaderAssumption DEF Init, LoadUnit, UnitFrames
<1>4. states \in [Units \cup Paths -> {"unseen", "Loading", "Loaded"}]
    BY DEF Init
<1>5. stack \in Seq(UnitFrames \cup FileFrames) /\ \A i \in DOMAIN stack : "path" \notin DOMAIN stack[i]
    BY <1>3
<1>6. units \in Seq(Paths) /\ result \in BOOLEAN /\ circles \subseteq Units /\ unread \in BOOLEAN
    <2>1. << >> \in Seq(Paths)
        OBVIOUS
    <2>2. units = << >> /\ result = TRUE /\ circles = {} /\ unread = FALSE
        BY DEF Init
    <2> QED BY <2>1, <2>2
<1> QED BY <1>1, <1>2, <1>4, <1>5, <1>6 DEF TypeOK

\* The library, the calls and the states are what the code takes them for: a
\* call of parseInto never runs beyond the names of its with clauses, and no
\* state is asked of a unit that has none.
THEOREM LoaderTypeCorrect == Spec => []TypeOK
BY TypeInit, TypeStep, PTL DEF Spec

-----------------------------------------------------------------------------
(* What the calls under way have achieved, as they come and go.            *)

\* The call above gives way to one that serves the call beneath as well: the
\* next place of the same call, or a body of a unit that is in place.
Replaces(new, old, had) ==
  \/ \E u \in Units : OfUnit(old, u) /\ OfUnit(new, u)
  \/ \E u \in Units : OfUnit(old, u) /\ OfFile(new) /\ u \in had
  \/ OfFile(old) /\ OfFile(new) /\ new.path = old.path

\* What a call leaves behind that returns.
Delivers(old, had, whole, value) ==
  \/ \E u \in Units : OfUnit(old, u) /\ u \in had /\ (value \/ u \notin whole)
  \/ OfFile(old) /\ value /\ \A u \in Units : old.path = Found(SpecOf(u)) => u \in had

\* What a call has achieved stays achieved when more is read.
LEMMA SettledGrows ==
    ASSUME NEW frame, NEW had, NEW had2, had \subseteq had2, NEW covered, NEW covered2, covered \subseteq covered2,
           NEW lib, NEW nm, Settled(frame, had, covered, lib, nm)
    PROVE  Settled(frame, had2, covered2, lib, nm)
BY DEF Settled, SettledUnit, SettledFile

\* What a waiting call expects stays so when more is read.
LEMMA BeneathGrows ==
    ASSUME NEW frame, NEW above, NEW had, NEW had2, had \subseteq had2, NEW lib, Beneath(frame, above, had, lib)
    PROVE  Beneath(frame, above, had2, lib)
BY DEF Beneath

\* A waiting call still waits for the right one when the one above it goes on.
LEMMA BeneathReplaced ==
    ASSUME NEW frame \in Frame, NEW old \in Frame, NEW new \in Frame, NEW had, NEW had2, had \subseteq had2, NEW lib,
           Beneath(frame, old, had, lib), Replaces(new, old, had2)
    PROVE  Beneath(frame, new, had2, lib)
BY Kinds DEF Beneath, Replaces, OfUnit, OfFile

\* A waiting call goes on with what the one above it delivered.
LEMMA BeneathReturned ==
    ASSUME NEW frame \in Frame, NEW old \in Frame, NEW had, NEW had2, had \subseteq had2, NEW lib, NEW whole, NEW value,
           Beneath(frame, old, had, lib), Delivers(old, had2, whole, value)
    PROVE  OnTop(frame, had2, lib, whole, value)
<1>1. "at" \in DOMAIN frame => frame.unit \in Units
    BY Kinds DEF UnitFrames
<1> QED BY <1>1, Kinds DEF Beneath, Delivers, OnTop, OfUnit, OfFile

\* The invariant of the stack when a call returns.
LEMMA FramesPopped ==
    ASSUME NEW s \in Seq(Frame), s # << >>, NEW had, NEW had2, had \subseteq had2,
           NEW covered, NEW covered2, covered \subseteq covered2,
           NEW lib, NEW nm, NEW whole, NEW value, NEW value2,
           Frames(s, had, covered, lib, nm, whole, value), Delivers(s[1], had2, whole, value2)
    PROVE  Frames(Tail(s), had2, covered2, lib, nm, whole, value2)
<1>1. /\ Len(s) \in Nat /\ Len(Tail(s)) = Len(s) - 1 /\ \A i \in 1 .. Len(s) - 1 : Tail(s)[i] = s[i + 1]
      /\ \A i \in 1 .. Len(s) : s[i] \in Frame /\ 1 \in 1 .. Len(s)
    BY Popped
<1>2. ASSUME NEW i \in 1 .. Len(s) - 1
      PROVE  Settled(Tail(s)[i], had2, covered2, lib, nm)
    <2>1. i + 1 \in 1 .. Len(s) /\ Tail(s)[i] = s[i + 1]
        BY <1>1
    <2>2. Settled(s[i + 1], had, covered, lib, nm)
        BY <2>1 DEF Frames
    <2> QED BY <2>1, <2>2, SettledGrows
<1>3. ASSUME Len(s) - 1 > 0
      PROVE  OnTop(Tail(s)[1], had2, lib, whole, value2)
    <2>1. 2 \in 2 .. Len(s) /\ Tail(s)[1] = s[2] /\ s[2] \in Frame /\ s[1] \in Frame
        BY <1>1, <1>3
    <2>2. Beneath(s[2], s[1], had, lib)
        BY <2>1 DEF Frames
    <2> QED BY <2>1, <2>2, BeneathReturned
<1>4. ASSUME NEW i \in 2 .. Len(s) - 1
      PROVE  Beneath(Tail(s)[i], Tail(s)[i - 1], had2, lib)
    <2>1. i + 1 \in 2 .. Len(s) /\ Tail(s)[i] = s[i + 1] /\ Tail(s)[i - 1] = s[i] /\ (i + 1) - 1 = i
        BY <1>1
    <2>2. Beneath(s[i + 1], s[(i + 1) - 1], had, lib)
        BY <2>1 DEF Frames
    <2> QED BY <2>1, <2>2, BeneathGrows
<1> QED BY <1>1, <1>2, <1>3, <1>4 DEF Frames

\* The invariant of the stack when the innermost call goes on.
LEMMA FramesSwapped ==
    ASSUME NEW s \in Seq(Frame), s # << >>, NEW had, NEW had2, had \subseteq had2,
           NEW covered, NEW covered2, covered \subseteq covered2,
           NEW lib, NEW nm, NEW whole, NEW value, NEW value2,
           Frames(s, had, covered, lib, nm, whole, value),
           NEW new \in Frame, Replaces(new, s[1], had2),
           Settled(new, had2, covered2, lib, nm), OnTop(new, had2, lib, whole, value2)
    PROVE  Frames(<< new >> \o Tail(s), had2, covered2, lib, nm, whole, value2)
<1> DEFINE t == << new >> \o Tail(s)
<1>1. /\ Len(s) \in Nat /\ Len(s) > 0 /\ Len(t) = Len(s) /\ t[1] = new /\ \A i \in 2 .. Len(s) : t[i] = s[i]
      /\ \A i \in 1 .. Len(s) : s[i] \in Frame
    BY Popped, Swapped
<1> HIDE DEF t
<1>2. ASSUME NEW i \in 2 .. Len(s)
      PROVE  Settled(t[i], had2, covered2, lib, nm)
    <2>1. Settled(s[i], had, covered, lib, nm) /\ t[i] = s[i]
        BY <1>1 DEF Frames
    <2> QED BY <2>1, SettledGrows
<1>3. ASSUME NEW i \in 2 .. Len(s)
      PROVE  Beneath(t[i], t[i - 1], had2, lib)
    <2>1. Beneath(s[i], s[i - 1], had, lib) /\ t[i] = s[i] /\ s[i] \in Frame /\ s[1] \in Frame
        BY <1>1 DEF Frames
    <2>2. CASE i = 2
        BY <1>1, <2>1, <2>2, BeneathReplaced
    <2>3. CASE i # 2
        <3>1. i - 1 \in 2 .. Len(s)
            BY <1>1, <2>3
        <3> QED BY <1>1, <2>1, <3>1, BeneathGrows
    <2> QED BY <2>2, <2>3
<1> QED BY <1>1, <1>2, <1>3 DEF Frames, t

\* The invariant of the stack when the innermost call makes another.
LEMMA FramesPushed ==
    ASSUME NEW s \in Seq(Frame), s # << >>, NEW had, NEW had2, had \subseteq had2,
           NEW covered, NEW covered2, covered \subseteq covered2,
           NEW lib, NEW nm, NEW whole, NEW value, NEW value2,
           Frames(s, had, covered, lib, nm, whole, value),
           NEW new \in Frame, Replaces(new, s[1], had2), Settled(new, had2, covered2, lib, nm),
           NEW called \in Frame, Beneath(new, called, had2, lib),
           Settled(called, had2, covered2, lib, nm), OnTop(called, had2, lib, whole, value2)
    PROVE  Frames(<< called, new >> \o Tail(s), had2, covered2, lib, nm, whole, value2)
<1> DEFINE t == << called, new >> \o Tail(s)
<1>1. /\ Len(s) \in Nat /\ Len(s) > 0 /\ Len(t) = Len(s) + 1 /\ t[1] = called /\ t[2] = new
      /\ \A i \in 3 .. Len(s) + 1 : t[i] = s[i - 1]
      /\ \A i \in 1 .. Len(s) : s[i] \in Frame
    BY Popped, Pushed
<1> HIDE DEF t
<1>2. ASSUME NEW i \in 3 .. Len(s) + 1
      PROVE  Settled(t[i], had2, covered2, lib, nm)
    <2>1. i - 1 \in 1 .. Len(s) /\ t[i] = s[i - 1]
        BY <1>1
    <2>2. Settled(s[i - 1], had, covered, lib, nm)
        BY <2>1 DEF Frames
    <2> QED BY <2>1, <2>2, SettledGrows
<1>3. ASSUME NEW i \in 3 .. Len(s) + 1
      PROVE  Beneath(t[i], t[i - 1], had2, lib)
    <2>1. i - 1 \in 2 .. Len(s) /\ t[i] = s[i - 1] /\ s[i - 1] \in Frame /\ s[1] \in Frame
        BY <1>1
    <2>2. Beneath(s[i - 1], s[(i - 1) - 1], had, lib)
        BY <2>1 DEF Frames
    <2>3. CASE i = 3
        <3>1. Beneath(s[2], s[1], had, lib) /\ t[3] = s[2] /\ t[3 - 1] = new
            BY <1>1, <2>1, <2>2, <2>3
        <3>2. Beneath(s[2], new, had2, lib)
            BY <2>1, <2>3, <3>1, BeneathReplaced
        <3> QED BY <2>3, <3>1, <3>2
    <2>4. CASE i # 3
        <3>1. i - 1 \in 3 .. Len(s) + 1 /\ t[i - 1] = s[(i - 1) - 1]
            BY <1>1, <2>4
        <3> QED BY <2>1, <2>2, <3>1, BeneathGrows
    <2> QED BY <2>3, <2>4
<1>4. ASSUME NEW i \in 1 .. Len(s) + 1
      PROVE  Settled(t[i], had2, covered2, lib, nm)
    <2>1. i = 1 \/ i = 2 \/ i \in 3 .. Len(s) + 1
        BY <1>1
    <2> QED BY <1>1, <1>2, <2>1
<1>5. ASSUME NEW i \in 2 .. Len(s) + 1
      PROVE  Beneath(t[i], t[i - 1], had2, lib)
    <2>1. i = 2 \/ i \in 3 .. Len(s) + 1
        BY <1>1
    <2> QED BY <1>1, <1>3, <2>1
<1> QED BY <1>1, <1>4, <1>5 DEF Frames, t

\* Which paths and units are still under way after a step.
LEMMA Carried ==
    ASSUME NEW s \in Seq(Frame), s # << >>, NEW t \in Seq(Frame),
           \A i \in 2 .. Len(s) : \E j \in 1 .. Len(t) : t[j] = s[i]
    PROVE  /\ \A path \in PathsIn(s) : path \in PathsIn(t) \/ (OfFile(s[1]) /\ s[1].path = path)
           /\ \A u \in UnitsIn(s) : u \in UnitsIn(t) \/ OfUnit(s[1], u)
           /\ \A j \in 1 .. Len(t) : OfFile(t[j]) => t[j].path \in PathsIn(t)
           /\ \A j \in 1 .. Len(t) : \A u \in Units : OfUnit(t[j], u) => u \in UnitsIn(t)
<1>1. ASSUME NEW path \in PathsIn(s), ~(OfFile(s[1]) /\ s[1].path = path)
      PROVE  path \in PathsIn(t)
    <2>1. PICK i \in 1 .. Len(s) : OfFile(s[i]) /\ s[i].path = path
        BY DEF PathsIn
    <2>2. i \in 2 .. Len(s)
        BY <1>1, <2>1
    <2>3. PICK j \in 1 .. Len(t) : t[j] = s[i]
        BY <2>2
    <2> QED BY <2>1, <2>3 DEF PathsIn
<1>2. ASSUME NEW u \in UnitsIn(s), ~OfUnit(s[1], u)
      PROVE  u \in UnitsIn(t)
    <2>1. PICK i \in 1 .. Len(s) : OfUnit(s[i], u)
        BY DEF UnitsIn
    <2>2. i \in 2 .. Len(s) /\ u \in Units
        BY <1>2, <2>1 DEF UnitsIn
    <2>3. PICK j \in 1 .. Len(t) : t[j] = s[i]
        BY <2>2
    <2> QED BY <2>1, <2>2, <2>3 DEF UnitsIn
<1>3. \A j \in 1 .. Len(t) : OfFile(t[j]) => t[j].path \in PathsIn(t)
    BY DEF PathsIn
<1>4. \A j \in 1 .. Len(t) : \A u \in Units : OfUnit(t[j], u) => u \in UnitsIn(t)
    BY DEF UnitsIn
<1> QED BY <1>1, <1>2, <1>3, <1>4

-----------------------------------------------------------------------------
(* Units, their files and those they are declared in.                      *)

\* The ancestors of a unit include it and those of its parent.
LEMMA AncestryOf ==
    ASSUME NEW u \in Units
    PROVE  u \in Ancestry(u) /\ (Parent[u] \in Units => Ancestry(Parent[u]) \subseteq Ancestry(u))
<1>1. u \in Ancestry(u)
    BY DEF Ancestry
<1>2. ASSUME Parent[u] \in Units, NEW a \in Ancestry(Parent[u])
      PROVE  a \in Ancestry(u)
    <2>1. a \in Units
        BY DEF Ancestry
    <2>2. ASSUME NEW S \in SUBSET Units, u \in S, \A x \in S : Parent[x] \in S \cup {NoUnit}
          PROVE  a \in S
        <3>1. Parent[u] \in S
            BY <1>2, <2>2, UnitLoaderAssumption
        <3> QED BY <1>2, <2>2, <3>1 DEF Ancestry
    <2> QED BY <2>1, <2>2 DEF Ancestry
<1> QED BY <1>1, <1>2

\* A unit that can be found whole has a file, and so has its parent.
LEMMA WholeFacts ==
    ASSUME NEW u \in Units
    PROVE  /\ Findable(u) <=> u \notin named /\ u \in WholeUnits
           /\ u \in WholeUnits => {SpecOf(u), BodyOf(u)} \cap present # {}
           /\ u \in WholeUnits /\ Parent[u] \in Units => Parent[u] \in WholeUnits
BY AncestryOf DEF Findable, WholeUnits, Whole

\* Nothing that is derived from the library changes.
LEMMA ProgramStays ==
    ASSUME UNCHANGED program
    PROVE  /\ withs' = withs /\ named' = named /\ present' = present /\ WholeUnits' = WholeUnits
           /\ \A u : Findable(u)' <=> Findable(u)
           /\ \A f : NeededBy(f)' = NeededBy(f) /\ Drawn(f)' = Drawn(f)
<1>1. withs' = withs /\ named' = named /\ present' = present
    BY DEF program, present
<1> QED BY <1>1 DEF WholeUnits, Whole, Findable, NeededBy, DeclaredIn, Drawn

\* More files read are more units had.
LEMMA HadGrows ==
    ASSUME UNCHANGED program, Done \subseteq Done'
    PROVE  HadUnits \subseteq HadUnits'
BY ProgramStays DEF HadUnits

\* More files read or under way are more complete units.
LEMMA CompleteGrows ==
    ASSUME UNCHANGED program, Done \cup PathsIn(stack) \subseteq Done' \cup PathsIn(stack')
    PROVE  CompleteUnits \subseteq CompleteUnits'
BY ProgramStays DEF CompleteUnits

\* Units under way stay covered when they are done.
LEMMA CoveredGrows ==
    ASSUME CompleteUnits \subseteq CompleteUnits', UnitsIn(stack) \subseteq CompleteUnits' \cup UnitsIn(stack')
    PROVE  CoveredUnits \subseteq CoveredUnits'
BY DEF CoveredUnits

\* A step that reads no file keeps the order of those that were read.
LEMMA OrderKept ==
    ASSUME TypeOK, Order, UNCHANGED << program, units >>,
           commands' = commands \/ commands' = << >> \/ (commands # << >> /\ commands' = Tail(commands)),
           CoveredUnits \subseteq CoveredUnits', CompleteUnits \subseteq CompleteUnits',
           \A u \in Units :
             states'[u] = "Loaded" => states[u] = "Loaded" \/ u \in HadUnits' \cap CompleteUnits',
           Frames(stack', HadUnits', CoveredUnits', withs', named', WholeUnits', result')
    PROVE  Order'
<1>1. HadUnits \subseteq HadUnits'
    BY HadGrows DEF Done
<1>2. CommandsNamed'
    <2>1. \A i \in DOMAIN commands : commands[i].file.unit \in named
        BY DEF Order, CommandsNamed
    <2>2. CASE commands # << >> /\ commands' = Tail(commands)
        <3>1. commands \in Seq(Paths)
            BY DEF TypeOK
        <3>2. /\ Len(commands') = Len(commands) - 1 /\ Len(commands) \in Nat
              /\ \A i \in 1 .. Len(commands) - 1 : commands'[i] = commands[i + 1]
              /\ commands' \in Seq(Paths)
            BY <2>2, <3>1, Popped
        <3>3. ASSUME NEW i \in DOMAIN commands'
              PROVE  commands'[i].file.unit \in named
            <4>1. i \in 1 .. Len(commands) - 1 /\ i + 1 \in DOMAIN commands
                BY <3>1, <3>2, <3>3
            <4> QED BY <2>1, <3>2, <4>1
        <3> QED BY <3>3, ProgramStays DEF CommandsNamed
    <2>3. CASE commands' = << >>
        BY <2>3 DEF CommandsNamed
    <2>4. CASE commands' = commands
        BY <2>1, <2>4, ProgramStays DEF CommandsNamed
    <2> QED BY <2>2, <2>3, <2>4
<1>3. LoadedInPlace'
    BY <1>1 DEF Order, LoadedInPlace
<1>4. FilesInOrder'
    <2>1. \A u, i : Ahead(u, i)' <=> Ahead(u, i)
        BY ProgramStays DEF Ahead
    <2>2. DOMAIN units' = DOMAIN units /\ units' = units
        OBVIOUS
    <2>3. ASSUME NEW i \in DOMAIN units
          PROVE  \A u \in NeededBy(units[i].file)' : Ahead(u, i)'
        <3>1. PICK f : f = units[i].file
            OBVIOUS
        <3>2. f' = units[i].file' /\ NeededBy(f)' = NeededBy(f) /\ \A u \in NeededBy(f) : Ahead(u, i)
            BY <3>1, ProgramStays DEF Order, FilesInOrder
        <3> QED BY <2>1, <2>2, <3>1, <3>2
    <2> QED BY <2>2, <2>3 DEF FilesInOrder
<1>5. FilesCovered'
    <2>1. DOMAIN units' = DOMAIN units /\ units' = units
        OBVIOUS
    <2>2. ASSUME NEW i \in DOMAIN units
          PROVE  Drawn(units[i].file)' \subseteq CoveredUnits'
        <3>1. PICK f : f = units[i].file
            OBVIOUS
        <3>2. Drawn(f)' = Drawn(f) /\ Drawn(f) \subseteq CoveredUnits
            BY <3>1, ProgramStays DEF Order, FilesCovered
        <3> QED BY <2>1, <3>1, <3>2
    <2> QED BY <2>1, <2>2 DEF FilesCovered
<1> QED BY <1>2, <1>3, <1>4, <1>5 DEF Order, CallsHave

-----------------------------------------------------------------------------
(* The steps a call can take, none of which adds to the files that are     *)
(* done.                                                                   *)

\* What the invariant says of the innermost call.
LEMMA TopHas ==
    ASSUME TypeOK, Order, stack # << >>
    PROVE  /\ Settled(Top, HadUnits, CoveredUnits, withs, named)
           /\ OnTop(Top, HadUnits, withs, WholeUnits, result)
<1>1. stack \in Seq(Frame) /\ Len(stack) > 0 /\ Top = stack[1] /\ 1 \in 1 .. Len(stack)
    BY Popped DEF TypeOK, Frame, Top
<1> QED BY <1>1 DEF Order, CallsHave, Frames

\* The files read stay read, and the units loaded too, but for the one whose
\* call ends.
LEMMA StackChanges ==
    ASSUME TypeOK, TypeOK', stack # << >>, NEW a, NEW b,
           \/ stack' = Rest
           \/ stack' = << a >> \o Rest
           \/ stack' = << b, a >> \o Rest
    PROVE  /\ \A path \in PathsIn(stack) : path \in PathsIn(stack') \/ (OfFile(Top) /\ Top.path = path)
           /\ \A u \in UnitsIn(stack) : u \in UnitsIn(stack') \/ OfUnit(Top, u)
           /\ \A j \in 1 .. Len(stack') : OfFile(stack'[j]) => stack'[j].path \in PathsIn(stack')
           /\ \A j \in 1 .. Len(stack') : \A u \in Units : OfUnit(stack'[j], u) => u \in UnitsIn(stack')
<1>1. stack \in Seq(Frame) /\ stack' \in Seq(Frame) /\ Top = stack[1] /\ Len(stack) \in Nat
    BY Popped DEF TypeOK, Frame, Top
<1>2. \A i \in 2 .. Len(stack) : \E j \in 1 .. Len(stack') : stack'[j] = stack[i]
    <2>1. CASE stack' = Rest
        <3>1. Len(stack') = Len(stack) - 1 /\ \A i \in 1 .. Len(stack) - 1 : stack'[i] = stack[i + 1]
            BY <1>1, <2>1, Popped DEF Rest
        <3>2. \A i \in 2 .. Len(stack) : i - 1 \in 1 .. Len(stack') /\ stack'[i - 1] = stack[(i - 1) + 1] /\ (i - 1) + 1 = i
            BY <1>1, <3>1
        <3> QED BY <3>2
    <2>2. CASE stack' = << a >> \o Rest
        <3>1. Rest \in Seq(Frame) /\ Len(Rest) = Len(stack) - 1 /\ \A i \in 1 .. Len(stack) - 1 : Rest[i] = stack[i + 1]
            BY <1>1, Popped DEF Rest
        <3>2. Len(stack') = Len(stack) /\ \A i \in 2 .. Len(stack) : stack'[i] = Rest[i - 1]
            BY <1>1, <2>2, <3>1
        <3>3. \A i \in 2 .. Len(stack) : stack'[i] = stack[(i - 1) + 1] /\ (i - 1) + 1 = i /\ i \in 1 .. Len(stack')
            BY <1>1, <3>1, <3>2
        <3> QED BY <3>3
    <2>3. CASE stack' = << b, a >> \o Rest
        <3>1. Rest \in Seq(Frame) /\ Len(Rest) = Len(stack) - 1 /\ \A i \in 1 .. Len(stack) - 1 : Rest[i] = stack[i + 1]
            BY <1>1, Popped DEF Rest
        <3>2. Len(stack') = Len(stack) + 1 /\ \A i \in 3 .. Len(stack) + 1 : stack'[i] = Rest[i - 2]
            BY <1>1, <2>3, <3>1
        <3>3. \A i \in 2 .. Len(stack) :
                /\ stack'[i + 1] = Rest[(i + 1) - 2] /\ (i + 1) - 2 = i - 1 /\ i + 1 \in 1 .. Len(stack')
                /\ Rest[i - 1] = stack[(i - 1) + 1] /\ (i - 1) + 1 = i
            BY <1>1, <3>1, <3>2
        <3> QED BY <3>3
    <2> QED BY <2>1, <2>2, <2>3
<1> QED BY <1>1, <1>2, Carried

\* loadUnit returns: its unit is in place and complete, or is not to be found.
LEMMA Returns ==
    ASSUME TypeOK, TypeOK', Order, stack # << >>, stack' = Rest, UNCHANGED << program, commands, units >>,
           NEW u \in Units, OfUnit(Top, u), u \in HadUnits \cap CompleteUnits, result' \/ u \notin WholeUnits,
           \A x \in Units : states'[x] = "Loaded" => states[x] = "Loaded" \/ x = u
    PROVE  Order'
<1>1. Done' = Done /\ WholeUnits' = WholeUnits /\ withs' = withs /\ named' = named
    BY ProgramStays DEF Done
<1>2. stack \in Seq(Frame) /\ Top = stack[1] /\ stack[1] \in Frame
    BY Popped DEF TypeOK, Frame, Top
<1>3. HadUnits \subseteq HadUnits'
    BY <1>1, HadGrows
<1>4. CompleteUnits \subseteq CompleteUnits'
    <2>1. PathsIn(stack) \subseteq PathsIn(stack')
        BY <1>2, StackChanges, Kinds DEF OfUnit, OfFile
    <2> QED BY <1>1, <2>1, CompleteGrows
<1>5. CoveredUnits \subseteq CoveredUnits'
    <2>1. \A x \in UnitsIn(stack) : x \in UnitsIn(stack') \/ x = u
        BY StackChanges DEF OfUnit
    <2> QED BY <1>4, <2>1, CoveredGrows
<1>6. Delivers(stack[1], HadUnits', WholeUnits, result')
    BY <1>2, <1>3 DEF Delivers
<1>7. Frames(stack, HadUnits, CoveredUnits, withs, named, WholeUnits, result)
    BY DEF Order, CallsHave
<1>8. Frames(Rest, HadUnits', CoveredUnits', withs, named, WholeUnits, result')
    BY <1>2, <1>3, <1>5, <1>6, <1>7, FramesPopped DEF Rest
<1>9. \A x \in Units : states'[x] = "Loaded" => states[x] = "Loaded" \/ x \in HadUnits' \cap CompleteUnits'
    BY <1>3, <1>4
<1> QED BY <1>1, <1>4, <1>5, <1>8, <1>9, OrderKept

\* The innermost call goes on, or gives way to one that serves as well.
LEMMA GoesOn ==
    ASSUME TypeOK, TypeOK', Order, stack # << >>, UNCHANGED << program, commands, units >>,
           NEW new \in Frame, stack' = << new >> \o Rest, Replaces(new, Top, HadUnits),
           Settled(new, HadUnits, CoveredUnits, withs, named), OnTop(new, HadUnits, withs, WholeUnits, result'),
           \A u \in Units : OfUnit(Top, u) => u \in CompleteUnits' \/ OfUnit(new, u),
           \A u \in Units : states'[u] = "Loaded" => states[u] = "Loaded" \/ u \in HadUnits \cap CompleteUnits'
    PROVE  Order'
<1>1. Done' = Done /\ WholeUnits' = WholeUnits /\ withs' = withs /\ named' = named
    BY ProgramStays DEF Done
<1>2. stack \in Seq(Frame) /\ Top = stack[1] /\ stack[1] \in Frame
    BY Popped DEF TypeOK, Frame, Top
<1>3. HadUnits \subseteq HadUnits'
    BY <1>1, HadGrows
<1>4. Len(stack') > 0 /\ stack'[1] = new /\ 1 \in 1 .. Len(stack')
    BY <1>2, Swapped, Popped DEF Rest
<1>5. CompleteUnits \subseteq CompleteUnits'
    <2>1. PathsIn(stack) \subseteq PathsIn(stack')
        <3>1. OfFile(Top) => OfFile(new) /\ new.path = Top.path
            BY <1>2, Kinds DEF Replaces, OfUnit, OfFile
        <3> QED BY <1>4, <3>1, StackChanges
    <2> QED BY <1>1, <2>1, CompleteGrows
<1>6. CoveredUnits \subseteq CoveredUnits'
    <2>1. \A x \in UnitsIn(stack) : x \in Units /\ (x \in UnitsIn(stack') \/ OfUnit(Top, x))
        BY StackChanges DEF UnitsIn
    <2>2. \A x \in Units : OfUnit(new, x) => x \in UnitsIn(stack')
        BY <1>4, StackChanges
    <2> QED BY <1>5, <2>1, <2>2, CoveredGrows
<1>7. Replaces(new, stack[1], HadUnits')
    BY <1>2, <1>3 DEF Replaces
<1>8. Settled(new, HadUnits', CoveredUnits', withs, named)
    BY <1>3, <1>6, SettledGrows
<1>9. OnTop(new, HadUnits', withs, WholeUnits, result')
    BY <1>3 DEF OnTop
<1>10. Frames(stack, HadUnits, CoveredUnits, withs, named, WholeUnits, result)
    BY DEF Order, CallsHave
<1>11. Frames(<< new >> \o Tail(stack), HadUnits', CoveredUnits', withs, named, WholeUnits, result')
    BY <1>2, <1>3, <1>6, <1>7, <1>8, <1>9, <1>10, FramesSwapped
<1>12. \A x \in Units : states'[x] = "Loaded" => states[x] = "Loaded" \/ x \in HadUnits' \cap CompleteUnits'
    BY <1>3
<1> QED BY <1>1, <1>5, <1>6, <1>11, <1>12, OrderKept DEF Rest

\* The innermost call makes another one and waits for it.
LEMMA CallsAnother ==
    ASSUME TypeOK, TypeOK', Order, stack # << >>, UNCHANGED << program, commands, units >>,
           NEW new \in Frame, NEW called \in Frame, stack' = << called, new >> \o Rest,
           Replaces(new, Top, {}), Beneath(new, called, HadUnits, withs),
           Settled(new, HadUnits, CoveredUnits \cup UnitsIn(stack'), withs, named),
           Settled(called, HadUnits, CoveredUnits, withs, named), OnTop(called, HadUnits, withs, WholeUnits, result'),
           \A u \in Units : states'[u] = "Loaded" => states[u] = "Loaded" \/ u \in HadUnits \cap CompleteUnits'
    PROVE  Order'
<1>1. Done' = Done /\ WholeUnits' = WholeUnits /\ withs' = withs /\ named' = named
    BY ProgramStays DEF Done
<1>2. stack \in Seq(Frame) /\ Top = stack[1] /\ stack[1] \in Frame
    BY Popped DEF TypeOK, Frame, Top
<1>3. HadUnits \subseteq HadUnits'
    BY <1>1, HadGrows
<1>4. stack'[1] = called /\ stack'[2] = new /\ {1, 2} \subseteq 1 .. Len(stack')
    BY <1>2, Pushed, Popped DEF Rest
<1>5. CompleteUnits \subseteq CompleteUnits'
    <2>1. PathsIn(stack) \subseteq PathsIn(stack')
        <3>1. OfFile(Top) => OfFile(new) /\ new.path = Top.path
            BY <1>2, Kinds DEF Replaces, OfUnit, OfFile
        <3> QED BY <1>4, <3>1, StackChanges
    <2> QED BY <1>1, <2>1, CompleteGrows
<1>6. CoveredUnits \subseteq CoveredUnits'
    <2>1. \A x \in UnitsIn(stack) : x \in Units /\ (x \in UnitsIn(stack') \/ OfUnit(Top, x))
        BY StackChanges DEF UnitsIn
    <2>2. \A x \in Units : OfUnit(Top, x) => OfUnit(new, x)
        BY <1>2, Kinds DEF Replaces, OfUnit, OfFile
    <2>3. \A x \in Units : OfUnit(new, x) => x \in UnitsIn(stack')
        BY <1>4, StackChanges
    <2> QED BY <1>5, <2>1, <2>2, <2>3, CoveredGrows
<1>7. Replaces(new, stack[1], HadUnits')
    BY <1>2 DEF Replaces
<1>8. Settled(called, HadUnits', CoveredUnits', withs, named) /\ Settled(new, HadUnits', CoveredUnits', withs, named)
    <2>1. CoveredUnits \cup UnitsIn(stack') \subseteq CoveredUnits'
        BY <1>6 DEF CoveredUnits
    <2> QED BY <1>3, <1>6, <2>1, SettledGrows
<1>9. OnTop(called, HadUnits', withs, WholeUnits, result')
    BY <1>3 DEF OnTop
<1>10. Beneath(new, called, HadUnits', withs)
    BY <1>3, BeneathGrows
<1>11. Frames(stack, HadUnits, CoveredUnits, withs, named, WholeUnits, result)
    BY DEF Order, CallsHave
<1>12. Frames(<< called, new >> \o Tail(stack), HadUnits', CoveredUnits', withs, named, WholeUnits, result')
    BY <1>2, <1>3, <1>6, <1>7, <1>8, <1>9, <1>10, <1>11, FramesPushed
<1>13. \A x \in Units : states'[x] = "Loaded" => states[x] = "Loaded" \/ x \in HadUnits' \cap CompleteUnits'
    BY <1>3
<1> QED BY <1>1, <1>5, <1>6, <1>12, <1>13, OrderKept DEF Rest

-----------------------------------------------------------------------------
(* The actions.                                                            *)

\* The same for a call of loadUnit.
LEMMA UnitOnTop ==
    ASSUME TypeOK, Order, NEW at, InUnit(at)
    PROVE  /\ stack # << >> /\ Top \in UnitFrames /\ Top.at = at /\ Top.unit \in Units
           /\ OfUnit(Top, Top.unit) /\ ~OfFile(Top)
           /\ SettledUnit(Top, HadUnits)
           /\ at = "parent" => /\ Parent[Top.unit] \in HadUnits
                               /\ result \/ Parent[Top.unit] \notin WholeUnits
           /\ at = "body" => Top.unit \in HadUnits
<1>1. stack # << >> /\ "at" \in DOMAIN Top /\ Top.at = at
    BY DEF InUnit
<1>2. Top \in UnitFrames /\ Top.unit \in Units /\ OfUnit(Top, Top.unit) /\ ~OfFile(Top)
    BY <1>1, TheTop, Kinds DEF OfUnit
<1> QED BY <1>1, <1>2, TopHas DEF Settled, OnTop

\* The same call at another place.
LEMMA AtPlace ==
    ASSUME NEW top \in UnitFrames, NEW at \in {"enter", "parent", "search", "body"}, NEW had, NEW covered, NEW lib, NEW nm
    PROVE  LET new == [top EXCEPT !.at = at]
           IN  /\ new \in UnitFrames /\ new \in Frame /\ new.unit = top.unit /\ new.at = at
               /\ "at" \in DOMAIN new /\ OfUnit(new, top.unit) /\ ~OfFile(new) /\ Replaces(new, top, had)
               /\ \A u : OfUnit(top, u) => OfUnit(new, u)
               /\ Settled(new, had, covered, lib, nm) <=> SettledUnit(new, had)
<1> DEFINE new == [top EXCEPT !.at = at]
<1>1. new \in UnitFrames /\ new.unit = top.unit /\ new.at = at
    BY DEF UnitFrames
<1> HIDE DEF new
<1>2. /\ "at" \in DOMAIN new /\ ~OfFile(new) /\ new \in Frame /\ "at" \in DOMAIN top
      /\ top.unit \in Units
    BY <1>1, Kinds DEF Frame, UnitFrames
<1>3. OfUnit(new, top.unit) /\ Replaces(new, top, had) /\ \A u : OfUnit(top, u) => OfUnit(new, u)
    BY <1>1, <1>2 DEF OfUnit, Replaces
<1>4. Settled(new, had, covered, lib, nm) <=> SettledUnit(new, had)
    BY <1>2 DEF Settled
<1> QED BY <1>1, <1>2, <1>3, <1>4 DEF new

\* A call that has just been made has nothing behind it yet.
LEMMA Entered ==
    ASSUME NEW u \in Units, NEW had, NEW covered, NEW lib, NEW nm, NEW whole, NEW value
    PROVE  /\ LoadUnit(u) \in Frame /\ OfUnit(LoadUnit(u), u)
           /\ Settled(LoadUnit(u), had, covered, lib, nm)
           /\ OnTop(LoadUnit(u), had, lib, whole, value)
<1>1. LoadUnit(u) \in UnitFrames /\ LoadUnit(u).at = "enter" /\ LoadUnit(u).unit = u
    BY DEF LoadUnit, UnitFrames
<1>2. LoadUnit(u) \in Frame /\ "at" \in DOMAIN LoadUnit(u) /\ ~OfFile(LoadUnit(u))
    BY <1>1, Kinds DEF Frame
<1> QED BY <1>1, <1>2 DEF Settled, SettledUnit, OnTop, OfUnit

\* A file whose parent was read, and for a body its specification, can be parsed.
LEMMA Opened ==
    ASSUME NEW path \in Paths, NEW had, NEW covered, NEW lib, NEW nm, NEW whole, NEW value,
           path.file.unit \in nm \/ Parent[path.file.unit] \in had \cup {NoUnit},
           path.file.part = "body" => path.file.unit \in had
    PROVE  /\ ParseInto(path) \in Frame /\ OfFile(ParseInto(path)) /\ ParseInto(path).path = path
           /\ Settled(ParseInto(path), had, covered, lib, nm)
           /\ OnTop(ParseInto(path), had, lib, whole, value)
<1>1. ParseInto(path) \in FileFrames /\ ParseInto(path).next = 1 /\ ParseInto(path).path = path
    BY DEF ParseInto, FileFrames
<1>2. ParseInto(path) \in Frame /\ OfFile(ParseInto(path)) /\ "at" \notin DOMAIN ParseInto(path)
    BY <1>1, Kinds DEF Frame
<1> QED BY <1>1, <1>2 DEF Settled, SettledFile, OnTop

\* loadUnit of a unit that is loaded or being loaded.
LEMMA EnterKnownStep ==
    ASSUME TypeOK, TypeOK', Order, ~HasErrors', EnterKnown
    PROVE  Order'
<1>1. PICK u \in Units : u = Top.unit /\ OfUnit(Top, u) /\ stack # << >>
    BY UnitOnTop DEF EnterKnown
<1>2. states[u] = "Loaded"
    BY <1>1 DEF EnterKnown, HasErrors, TypeOK
<1>3. u \in HadUnits \cap CompleteUnits
    BY <1>2 DEF Order, LoadedInPlace
<1>4. result' /\ stack' = Rest /\ UNCHANGED << program, commands, units, states >>
    BY <1>1, <1>2 DEF EnterKnown, Return
<1> QED BY <1>1, <1>3, <1>4, Returns

\* loadUnit of a unit not seen before.
LEMMA EnterUnknownStep ==
    ASSUME TypeOK, TypeOK', Order, ~HasErrors', EnterUnknown
    PROVE  Order'
<1>1. stack # << >> /\ Top \in UnitFrames /\ Top.unit \in Units
    BY UnitOnTop DEF EnterUnknown
<1>2. UNCHANGED << program, commands, units, states >>
    BY DEF EnterUnknown
<1>3. CASE Parent[Top.unit] = NoUnit
    <2>1. stack' = << [Top EXCEPT !.at = "search"] >> \o Rest
        BY <1>3 DEF EnterUnknown, GoOn
    <2>2. PICK new \in Frame :
            /\ stack' = << new >> \o Rest /\ Replaces(new, Top, HadUnits)
            /\ new.unit = Top.unit /\ new.at = "search" /\ ~OfFile(new)
            /\ \A u : OfUnit(Top, u) => OfUnit(new, u)
            /\ Settled(new, HadUnits, CoveredUnits, withs, named) <=> SettledUnit(new, HadUnits)
        BY <1>1, <2>1, AtPlace
    <2>3. Settled(new, HadUnits, CoveredUnits, withs, named) /\ OnTop(new, HadUnits, withs, WholeUnits, result')
        BY <1>3, <2>2 DEF SettledUnit, OnTop
    <2> QED BY <1>1, <1>2, <2>2, <2>3, GoesOn
<1>4. CASE Parent[Top.unit] # NoUnit
    <2>1. PICK p \in Units : p = Parent[Top.unit]
        BY <1>1, <1>4, UnitLoaderAssumption
    <2>2. stack' = << LoadUnit(p), [Top EXCEPT !.at = "parent"] >> \o Rest
        BY <1>4, <2>1 DEF EnterUnknown
    <2>3. PICK new \in Frame :
            /\ stack' = << LoadUnit(p), new >> \o Rest /\ Replaces(new, Top, {})
            /\ new.unit = Top.unit /\ new.at = "parent" /\ ~OfFile(new)
        BY <1>1, <2>2, AtPlace
    <2>4. /\ LoadUnit(p) \in Frame /\ Settled(LoadUnit(p), HadUnits, CoveredUnits, withs, named)
          /\ OnTop(LoadUnit(p), HadUnits, withs, WholeUnits, result')
          /\ Beneath(new, LoadUnit(p), HadUnits, withs)
        BY <2>1, <2>3, Entered DEF Beneath
    <2>5. Settled(new, HadUnits, CoveredUnits \cup UnitsIn(stack'), withs, named)
        BY <1>4, <2>3 DEF Settled, SettledUnit
    <2> QED BY <1>1, <1>2, <2>3, <2>4, <2>5, CallsAnother
<1> QED BY <1>3, <1>4

\* Nothing is asked of a unit that is not to be found.
LEMMA NotThere ==
    ASSUME NEW u \in Units, u \notin WholeUnits
    PROVE  u \in HadUnits \cap CompleteUnits
BY WholeFacts DEF HadUnits, CompleteUnits

\* loadUnit goes on behind the loading of the parent.
LEMMA AfterParentStep ==
    ASSUME TypeOK, TypeOK', Order, ~HasErrors', AfterParent
    PROVE  Order'
<1>1. /\ stack # << >> /\ Top \in UnitFrames /\ Top.unit \in Units /\ OfUnit(Top, Top.unit)
      /\ Parent[Top.unit] \in HadUnits /\ (result \/ Parent[Top.unit] \notin WholeUnits)
    <2>1. InUnit("parent")
        BY DEF AfterParent
    <2>2. stack # << >> /\ Top \in UnitFrames /\ Top.unit \in Units /\ OfUnit(Top, Top.unit)
        BY <2>1, UnitOnTop
    <2>3. Parent[Top.unit] \in HadUnits /\ (result \/ Parent[Top.unit] \notin WholeUnits)
        BY <2>1, <2>2, TopHas DEF InUnit, OnTop
    <2> QED BY <2>2, <2>3
<1>2. UNCHANGED << program, commands, units, states >>
    BY DEF AfterParent
<1>3. CASE result
    <2>1. stack' = << [Top EXCEPT !.at = "search"] >> \o Rest
        BY <1>3 DEF AfterParent, GoOn
    <2>2. PICK new \in Frame :
            /\ stack' = << new >> \o Rest /\ Replaces(new, Top, HadUnits)
            /\ new.unit = Top.unit /\ new.at = "search" /\ ~OfFile(new)
            /\ \A u : OfUnit(Top, u) => OfUnit(new, u)
            /\ Settled(new, HadUnits, CoveredUnits, withs, named) <=> SettledUnit(new, HadUnits)
        BY <1>1, <2>1, AtPlace
    <2>3. Settled(new, HadUnits, CoveredUnits, withs, named) /\ OnTop(new, HadUnits, withs, WholeUnits, result')
        BY <1>1, <2>2 DEF SettledUnit, OnTop
    <2> QED BY <1>1, <1>2, <2>2, <2>3, GoesOn
<1>4. CASE ~result
    <2>1. PICK u \in Units : u = Top.unit
        BY <1>1
    <2>2. u \notin WholeUnits
        BY <1>1, <1>4, <2>1, WholeFacts DEF HadUnits
    <2>3. stack' = Rest
        BY <1>4 DEF AfterParent, Return
    <2> QED BY <1>1, <1>2, <2>1, <2>2, <2>3, NotThere, Returns
<1> QED BY <1>3, <1>4

\* loadUnit finds no file.
LEMMA NotFoundStep ==
    ASSUME TypeOK, TypeOK', Order, ~HasErrors', NotFound
    PROVE  Order'
<1>1. PICK u \in Units : u = Top.unit /\ OfUnit(Top, u) /\ stack # << >>
    BY UnitOnTop DEF NotFound
<1>2. u \notin WholeUnits
    BY <1>1, WholeFacts DEF NotFound
<1>3. stack' = Rest /\ UNCHANGED << program, commands, units, states >>
    BY DEF NotFound, Return
<1> QED BY <1>1, <1>2, <1>3, NotThere, Returns

\* The keys of units and of paths are different ones.
LEMMA Marked ==
    ASSUME TypeOK, NEW u \in Units, NEW path \in Paths, NEW x \in Units, NEW state \in {"Loading", "Loaded"},
           Emplace(Emplace(states, u, state), path, "Loaded")[x] = "Loaded" \/ Emplace(states, u, state)[x] = "Loaded"
    PROVE  states[x] = "Loaded" \/ (x = u /\ state = "Loaded")
<1>1. /\ states \in [Units \cup Paths -> {"unseen", "Loading", "Loaded"}]
      /\ Emplace(states, u, state) \in [Units \cup Paths -> {"unseen", "Loading", "Loaded"}]
    BY EmplaceType DEF TypeOK
<1>2. x \in (Units \cup Paths) \ {path}
    BY UnitLoaderAssumption
<1>3. Emplace(states, u, state)[x] = "Loaded"
    BY <1>1, <1>2, EmplaceType
<1>4. CASE x = u
    BY <1>1, <1>3, <1>4, EmplaceType
<1>5. CASE x # u
    <2>1. x \in (Units \cup Paths) \ {u} /\ u \in Units \cup Paths
        BY <1>5
    <2>2. Emplace(states, u, state)[x] = states[x]
        BY <1>1, <2>1, EmplaceType
    <2> QED BY <1>3, <2>2
<1> QED BY <1>4, <1>5

\* The two files of a unit are files of that unit.
LEMMA SpecAndBody ==
    ASSUME NEW u \in Units
    PROVE  /\ Found(SpecOf(u)) \in Paths /\ Found(SpecOf(u)).file = SpecOf(u)
           /\ SpecOf(u).unit = u /\ SpecOf(u).part # "body"
           /\ Found(BodyOf(u)) \in Paths /\ Found(BodyOf(u)).file = BodyOf(u) /\ BodyOf(u).unit = u
BY DEF Found, Paths, Files, Spellings, SpecOf, BodyOf

\* loadUnit reads the specification.
LEMMA ReadSpecStep ==
    ASSUME TypeOK, TypeOK', Order, ~HasErrors', ReadSpec
    PROVE  Order'
<1>1. /\ stack # << >> /\ Top \in UnitFrames /\ Top.unit \in Units /\ Top.at = "search"
      /\ SettledUnit(Top, HadUnits)
    BY UnitOnTop DEF ReadSpec
<1>2. PICK u \in Units : u = Top.unit
    BY <1>1
<1> DEFINE read == ParseInto(Found(SpecOf(u)))
<1>3. UNCHANGED << program, commands, units >> /\ stack' = << read, [Top EXCEPT !.at = "body"] >> \o Rest
    BY <1>2 DEF ReadSpec, ReadFails, HasErrors
<1>4. Parent[u] \in HadUnits \cup {NoUnit}
    BY <1>1, <1>2 DEF SettledUnit
<1>5. /\ read \in Frame /\ OfFile(read) /\ read.path = Found(SpecOf(u))
      /\ Settled(read, HadUnits, CoveredUnits, withs, named)
      /\ OnTop(read, HadUnits, withs, WholeUnits, result')
    BY <1>4, SpecAndBody, Opened
<1>6. PICK new \in Frame :
        /\ stack' = << read, new >> \o Rest /\ Replaces(new, Top, {})
        /\ new.unit = u /\ new.at = "body" /\ ~OfFile(new)
    BY <1>1, <1>2, <1>3, AtPlace
<1> HIDE DEF read
<1>7. Settled(new, HadUnits, CoveredUnits \cup UnitsIn(stack'), withs, named) /\ Beneath(new, read, HadUnits, withs)
    BY <1>4, <1>5, <1>6 DEF Settled, SettledUnit, Beneath
<1>8. ASSUME NEW x \in Units, states'[x] = "Loaded"
      PROVE  states[x] = "Loaded"
    <2>1. states' = Emplace(Emplace(states, u, "Loading"), Found(SpecOf(u)), "Loaded")
        BY <1>2 DEF ReadSpec
    <2> QED BY <1>8, <2>1, SpecAndBody, Marked
<1> QED BY <1>1, <1>3, <1>5, <1>6, <1>7, <1>8, CallsAnother

\* loadUnit finds a body and no specification.
LEMMA NoSpecStep ==
    ASSUME TypeOK, TypeOK', Order, ~HasErrors', NoSpec
    PROVE  Order'
<1>1. /\ stack # << >> /\ Top \in UnitFrames /\ Top.unit \in Units /\ Top.at = "search"
      /\ SettledUnit(Top, HadUnits)
    BY UnitOnTop DEF NoSpec
<1>2. PICK u \in Units : u = Top.unit
    BY <1>1
<1>3. UNCHANGED << program, commands, units >> /\ stack' = << [Top EXCEPT !.at = "body"] >> \o Rest
    BY DEF NoSpec, GoOn
<1>4. PICK new \in Frame :
        /\ stack' = << new >> \o Rest /\ Replaces(new, Top, HadUnits)
        /\ new.unit = Top.unit /\ new.at = "body" /\ ~OfFile(new)
        /\ \A x : OfUnit(Top, x) => OfUnit(new, x)
        /\ Settled(new, HadUnits, CoveredUnits, withs, named) <=> SettledUnit(new, HadUnits)
    BY <1>1, <1>3, AtPlace
<1>5. u \in HadUnits
    BY <1>2 DEF NoSpec, HadUnits
<1>6. Settled(new, HadUnits, CoveredUnits, withs, named) /\ OnTop(new, HadUnits, withs, WholeUnits, result')
    BY <1>1, <1>2, <1>4, <1>5 DEF SettledUnit, OnTop
<1>7. ASSUME NEW x \in Units, states'[x] = "Loaded"
      PROVE  states[x] = "Loaded"
    <2>1. states' = Emplace(states, u, "Loading")
        BY <1>2 DEF NoSpec
    <2> QED BY <1>7, <2>1, SpecAndBody, Marked
<1> QED BY <1>1, <1>3, <1>4, <1>6, <1>7, GoesOn

\* With the specification of a unit in place, its files are complete once the
\* body is being read, if it has one.
LEMMA ReadBodyStep ==
    ASSUME TypeOK, TypeOK', Order, ~HasErrors', ReadBody
    PROVE  Order'
<1>1. /\ stack # << >> /\ Top \in UnitFrames /\ Top.unit \in Units /\ Top.at = "body"
      /\ SettledUnit(Top, HadUnits) /\ OfUnit(Top, Top.unit)
    BY UnitOnTop DEF ReadBody
<1>2. PICK u \in Units : u = Top.unit
    BY <1>1
<1>3. u \in HadUnits
    <2>1. InUnit("body")
        BY DEF ReadBody
    <2> QED BY <1>2, <2>1, UnitOnTop
<1>4. UNCHANGED << program, commands, units >>
    BY DEF ReadBody
<1> DEFINE loaded == [states EXCEPT ![u] = "Loaded"]
<1>5. \A x \in Units : loaded[x] = "Loaded" => states[x] = "Loaded" \/ x = u
    BY DEF TypeOK
<1>6. CASE BodyOf(u) \notin present
    <2>1. states' = loaded /\ stack' = Rest /\ result'
        BY <1>2, <1>6 DEF ReadBody, Return
    <2>2. u \in CompleteUnits
        BY <1>3, <1>6 DEF HadUnits, CompleteUnits
    <2> QED BY <1>1, <1>2, <1>3, <1>4, <1>5, <2>1, <2>2, Returns
<1>7. CASE BodyOf(u) \in present
    <2> DEFINE read == ParseInto(Found(BodyOf(u)))
    <2>1. stack' = << read >> \o Rest /\ states' = Emplace(loaded, Found(BodyOf(u)), "Loaded")
        BY <1>2, <1>7 DEF ReadBody, ReadFails, HasErrors
    <2>2. /\ read \in Frame /\ OfFile(read) /\ read.path = Found(BodyOf(u))
          /\ Settled(read, HadUnits, CoveredUnits, withs, named)
          /\ OnTop(read, HadUnits, withs, WholeUnits, result')
        <3>1. Parent[u] \in HadUnits \cup {NoUnit}
            BY <1>1, <1>2 DEF SettledUnit
        <3> QED BY <1>3, <3>1, SpecAndBody, Opened
    <2> HIDE DEF read
    <2>3. Replaces(read, Top, HadUnits)
        BY <1>1, <1>2, <1>3, <2>2 DEF Replaces
    <2>4. u \in CompleteUnits'
        <3>1. stack'[1] = read /\ 1 \in 1 .. Len(stack')
            <4>1. stack \in Seq(Frame)
                BY DEF TypeOK, Frame
            <4> QED BY <1>1, <2>1, <2>2, <4>1, Swapped, Popped DEF Rest
        <3>2. Found(BodyOf(u)) \in PathsIn(stack')
            BY <1>1, <2>1, <2>2, <3>1, StackChanges
        <3>3. Findable(u) /\ SpecOf(u) \in present => Found(SpecOf(u)) \in Done'
            BY <1>3, <1>4 DEF HadUnits, Done
        <3> QED BY <1>4, <3>2, <3>3, ProgramStays DEF CompleteUnits
    <2>5. \A x \in Units : OfUnit(Top, x) => x = u
        BY <1>2 DEF OfUnit
    <2>6. ASSUME NEW x \in Units, states'[x] = "Loaded"
          PROVE  states[x] = "Loaded" \/ x = u
        <3>1. loaded \in [Units \cup Paths -> {"unseen", "Loading", "Loaded"}]
            BY DEF TypeOK
        <3>2. x \in (Units \cup Paths) \ {Found(BodyOf(u))}
            BY SpecAndBody, UnitLoaderAssumption
        <3>3. PICK map \in [Units \cup Paths -> {"unseen", "Loading", "Loaded"}] : map = loaded
            BY <3>1
        <3>4. PICK key \in Units \cup Paths : key = Found(BodyOf(u))
            BY SpecAndBody
        <3>5. Emplace(map, key, "Loaded")[x] = map[x]
            BY <3>2, <3>4, EmplaceType
        <3>6. states' = Emplace(map, key, "Loaded")
            BY <2>1, <3>3, <3>4
        <3> QED BY <1>5, <2>6, <3>3, <3>5, <3>6
    <2> QED BY <1>1, <1>3, <1>4, <2>1, <2>2, <2>3, <2>4, <2>5, <2>6, GoesOn
<1> QED BY <1>6, <1>7

\* What the invariant says of an innermost call of parseInto.
LEMMA FileOnTop ==
    ASSUME TypeOK, Order, InFile
    PROVE  /\ stack # << >> /\ Top \in FileFrames /\ OfFile(Top) /\ "at" \notin DOMAIN Top
           /\ Top.path \in Paths /\ Top.path.file \in present /\ Top.next \in Nat \ {0}
           /\ Clause \in Seq(Units) /\ Top.next <= Len(Clause) + 1
           /\ SettledFile(Top, HadUnits, CoveredUnits, withs, named)
           /\ \A k \in 1 .. Top.next - 1 : Clause[k] \in HadUnits /\ Clause[k] \in CoveredUnits
<1>1. /\ stack # << >> /\ Top \in FileFrames /\ OfFile(Top) /\ "at" \notin DOMAIN Top
      /\ Top.path \in Paths /\ Top.path.file \in present /\ Top.next \in Nat \ {0}
      /\ Clause \in Seq(Units) /\ Top.next <= Len(Clause) + 1
    BY TheTop, Kinds DEF InFile, OfFile
<1>2. /\ SettledFile(Top, HadUnits, CoveredUnits, withs, named)
      /\ Top.next > 1 => withs[Top.path.file][Top.next - 1] \in HadUnits
    BY <1>1, TopHas DEF Settled, OnTop
<1>3. ASSUME NEW k \in 1 .. Top.next - 1
      PROVE  Clause[k] \in HadUnits /\ Clause[k] \in CoveredUnits
    <2>1. CASE k = Top.next - 1
        BY <1>1, <1>2, <2>1 DEF SettledFile, Clause
    <2>2. CASE k # Top.next - 1
        <3>1. k \in 1 .. Top.next - 2
            BY <1>1, <2>2
        <3> QED BY <1>1, <1>2, <3>1 DEF SettledFile, Clause
    <2> QED BY <2>1, <2>2
<1> QED BY <1>1, <1>2, <1>3

\* parseInto comes to its next with clause.
LEMMA WithStep ==
    ASSUME TypeOK, TypeOK', Order, ~HasErrors', With
    PROVE  Order'
<1>1. /\ stack # << >> /\ Top \in FileFrames /\ OfFile(Top) /\ "at" \notin DOMAIN Top
      /\ Top.path \in Paths /\ Top.next \in Nat \ {0} /\ Clause \in Seq(Units) /\ Top.next <= Len(Clause)
      /\ SettledFile(Top, HadUnits, CoveredUnits, withs, named)
      /\ \A k \in 1 .. Top.next - 1 : Clause[k] \in HadUnits /\ Clause[k] \in CoveredUnits
    BY FileOnTop DEF With
<1>2. PICK x \in Units : x = Clause[Top.next]
    BY <1>1
<1>3. PICK new \in FileFrames :
        /\ new = [Top EXCEPT !.next = @ + 1] /\ new.path = Top.path /\ new.next = Top.next + 1
    <2> DEFINE later == [Top EXCEPT !.next = @ + 1]
    <2>1. later \in FileFrames /\ later.path = Top.path /\ later.next = Top.next + 1
        BY <1>1 DEF FileFrames
    <2> QED BY <2>1
<1>4. new \in Frame /\ OfFile(new) /\ "at" \notin DOMAIN new
    BY <1>3, Kinds DEF Frame
<1>5. stack' = << LoadUnit(x), new >> \o Rest /\ UNCHANGED << program, commands, units, states >>
    BY <1>2, <1>3 DEF With
<1>6. /\ LoadUnit(x) \in Frame /\ OfUnit(LoadUnit(x), x)
      /\ Settled(LoadUnit(x), HadUnits, CoveredUnits, withs, named)
      /\ OnTop(LoadUnit(x), HadUnits, withs, WholeUnits, result')
    BY Entered
<1>7. Replaces(new, Top, {})
    BY <1>1, <1>3, <1>4 DEF Replaces
<1>8. Beneath(new, LoadUnit(x), HadUnits, withs)
    <2>1. withs[new.path.file][new.next - 1] = x
        BY <1>1, <1>2, <1>3 DEF Clause
    <2> QED BY <1>4, <1>6, <2>1 DEF Beneath
<1>9. x \in UnitsIn(stack')
    <2>1. stack'[1] = LoadUnit(x) /\ 1 \in 1 .. Len(stack')
        <3>1. stack \in Seq(Frame)
            BY DEF TypeOK, Frame
        <3> QED BY <1>1, <1>4, <1>5, <1>6, <3>1, Pushed, Popped DEF Rest
    <2> QED BY <1>1, <1>5, <1>6, <2>1, StackChanges
<1>10. Settled(new, HadUnits, CoveredUnits \cup UnitsIn(stack'), withs, named)
    <2>1. \A k \in 1 .. new.next - 2 : withs[new.path.file][k] \in HadUnits
        BY <1>1, <1>3 DEF Clause
    <2>2. ASSUME NEW k \in 1 .. new.next - 1
          PROVE  withs[new.path.file][k] \in CoveredUnits \cup UnitsIn(stack')
        <3>1. k = Top.next \/ k \in 1 .. Top.next - 1
            BY <1>1, <1>3
        <3> QED BY <1>1, <1>2, <1>3, <1>9, <3>1 DEF Clause
    <2> QED BY <1>1, <1>3, <1>4, <2>1, <2>2 DEF Settled, SettledFile
<1> QED BY <1>1, <1>4, <1>5, <1>6, <1>7, <1>8, <1>10, CallsAnother

\* A file is done: all it needs is ahead of it.
LEMMA FinishStep ==
    ASSUME TypeOK, TypeOK', Order, ~HasErrors', Finish
    PROVE  Order'
<1>1. /\ stack # << >> /\ Top \in FileFrames /\ OfFile(Top) /\ "at" \notin DOMAIN Top
      /\ Top.path \in Paths /\ Top.path.file \in present /\ Top.next \in Nat \ {0}
      /\ Clause \in Seq(Units) /\ Top.next = Len(Clause) + 1
      /\ SettledFile(Top, HadUnits, CoveredUnits, withs, named)
      /\ \A k \in 1 .. Len(Clause) : Clause[k] \in HadUnits /\ Clause[k] \in CoveredUnits
    BY FileOnTop DEF Finish
<1>2. PICK path \in Paths : path = Top.path
    BY <1>1
<1>3. /\ units' = Append(units, path) /\ stack' = Rest /\ result' = TRUE
      /\ UNCHANGED << program, commands, states >>
    BY <1>2 DEF Finish, Return
<1>4. units \in Seq(Paths) /\ stack \in Seq(Frame) /\ Top = stack[1] /\ stack[1] \in Frame
    BY <1>1, Popped DEF TypeOK, Frame, Top
<1>5. /\ Len(units') = Len(units) + 1 /\ Len(units) \in Nat /\ units'[Len(units) + 1] = path
      /\ \A i \in 1 .. Len(units) : units'[i] = units[i]
      /\ DOMAIN units = 1 .. Len(units) /\ DOMAIN units' = 1 .. Len(units) + 1
    BY <1>3, <1>4
<1>6. Done \subseteq Done' /\ path \in Done'
    <2>1. \A i \in DOMAIN units : i \in DOMAIN units' /\ units'[i] = units[i]
        BY <1>5
    <2>2. Len(units) + 1 \in DOMAIN units'
        BY <1>5
    <2> QED BY <1>5, <2>1, <2>2 DEF Done
<1>7. /\ withs' = withs /\ named' = named /\ present' = present /\ WholeUnits' = WholeUnits
      /\ \A u : Findable(u)' <=> Findable(u)
      /\ \A f : NeededBy(f)' = NeededBy(f) /\ Drawn(f)' = Drawn(f)
    BY <1>3, ProgramStays
<1>8. HadUnits \subseteq HadUnits'
    BY <1>3, <1>6, HadGrows
<1>9. CompleteUnits \subseteq CompleteUnits'
    <2>1. PathsIn(stack) \subseteq Done' \cup PathsIn(stack')
        BY <1>1, <1>2, <1>3, <1>6, StackChanges
    <2> QED BY <1>3, <1>6, <2>1, CompleteGrows
<1>10. CoveredUnits \subseteq CoveredUnits'
    <2>1. UnitsIn(stack) \subseteq UnitsIn(stack')
        BY <1>1, <1>3, StackChanges DEF OfUnit
    <2> QED BY <1>9, <2>1, CoveredGrows
<1>11. CallsHave'
    <2>1. \A u \in Units : path = Found(SpecOf(u)) => u \in HadUnits'
        BY <1>6 DEF HadUnits
    <2>2. Delivers(stack[1], HadUnits', WholeUnits, result')
        BY <1>1, <1>2, <1>3, <1>4, <2>1 DEF Delivers
    <2>3. Frames(stack, HadUnits, CoveredUnits, withs, named, WholeUnits, result)
        BY DEF Order, CallsHave
    <2>4. Frames(Tail(stack), HadUnits', CoveredUnits', withs, named, WholeUnits, result')
        BY <1>1, <1>4, <1>8, <1>10, <2>2, <2>3, FramesPopped
    <2> QED BY <1>3, <1>7, <2>4 DEF CallsHave, Rest
<1>12. CommandsNamed' /\ LoadedInPlace'
    BY <1>3, <1>7, <1>8, <1>9 DEF Order, CommandsNamed, LoadedInPlace
<1>13. FilesInOrder'
    <2>1. ASSUME NEW u, NEW i \in 1 .. Len(units), Ahead(u, i)
          PROVE  Ahead(u, i)'
        <3>1. \A j \in 1 .. i - 1 : j \in 1 .. Len(units)
            BY <1>5
        <3> QED BY <1>5, <1>7, <2>1, <3>1 DEF Ahead
    <2>2. ASSUME NEW i \in 1 .. Len(units)
          PROVE  \A u \in NeededBy(units'[i].file) : Ahead(u, i)'
        <3>1. \A u \in NeededBy(units[i].file) : Ahead(u, i)
            BY <1>5 DEF Order, FilesInOrder
        <3> QED BY <1>5, <2>1, <3>1
    <2>3. NeededBy(path.file) \subseteq HadUnits
        <3>1. Drawn(path.file) \subseteq HadUnits
            BY <1>1, <1>2 DEF Drawn, Clause
        <3>2. DeclaredIn(path.file.unit) \subseteq HadUnits
            BY <1>1, <1>2 DEF DeclaredIn, SettledFile
        <3>3. path.file.part = "body" => path.file.unit \in HadUnits
            BY <1>1, <1>2 DEF SettledFile
        <3> QED BY <3>1, <3>2, <3>3 DEF NeededBy
    <2>n. PICK n \in Nat : n = Len(units) + 1
        BY <1>5
    <2>4. ASSUME NEW u \in HadUnits
          PROVE  Ahead(u, n)'
        <3>1. ASSUME Findable(u), SpecOf(u) \in present
              PROVE  \E j \in 1 .. n - 1 : units'[j] = Found(SpecOf(u))
            <4>1. PICK j \in DOMAIN units : units[j] = Found(SpecOf(u))
                BY <3>1 DEF HadUnits, Done
            <4>2. j \in 1 .. n - 1 /\ units'[j] = Found(SpecOf(u))
                BY <1>5, <2>n, <4>1
            <4> QED BY <4>2
        <3> QED BY <1>7, <3>1 DEF Ahead
    <2>5. ASSUME NEW i \in DOMAIN units'
          PROVE  \A u \in NeededBy(units'[i].file) : Ahead(u, i)'
        <3>1. CASE i \in 1 .. Len(units)
            BY <2>2, <3>1
        <3>2. CASE i = n
            BY <1>5, <2>n, <2>3, <2>4, <3>2
        <3> QED BY <1>5, <2>n, <3>1, <3>2
    <2> QED BY <1>7, <2>5 DEF FilesInOrder
<1>14. FilesCovered'
    <2>1. Drawn(path.file) \subseteq CoveredUnits
        BY <1>1, <1>2 DEF Drawn, Clause
    <2>2. \A i \in 1 .. Len(units) : Drawn(units[i].file) \subseteq CoveredUnits
        BY <1>5 DEF Order, FilesCovered
    <2>3. \A i \in 1 .. Len(units) + 1 : Drawn(units'[i].file) \subseteq CoveredUnits'
        BY <1>5, <1>10, <2>1, <2>2
    <2> QED BY <1>5, <1>7, <2>3 DEF FilesCovered
<1> QED BY <1>11, <1>12, <1>13, <1>14 DEF Order

\* A source of the command line that was read before.
LEMMA SkipSourceStep ==
    ASSUME TypeOK, TypeOK', Order, ~HasErrors', SkipSource
    PROVE  Order'
<1>1. UNCHANGED << program, units, stack, states, result >> /\ commands # << >> /\ commands' = Tail(commands)
    BY DEF SkipSource, NextCommand
<1>2. CoveredUnits' = CoveredUnits /\ CompleteUnits' = CompleteUnits /\ HadUnits' = HadUnits
    BY <1>1, ProgramStays DEF CoveredUnits, CompleteUnits, HadUnits, Done
<1>3. Frames(stack', HadUnits', CoveredUnits', withs', named', WholeUnits', result')
    BY <1>1, <1>2, ProgramStays DEF Order, CallsHave
<1> QED BY <1>1, <1>2, <1>3, OrderKept

\* A source of the command line is read.
LEMMA ReadSourceStep ==
    ASSUME TypeOK, TypeOK', Order, ~HasErrors', ReadSource
    PROVE  Order'
<1>1. commands \in Seq(Paths) /\ commands # << >> /\ stack = << >>
    BY DEF TypeOK, ReadSource, NextCommand
<1>2. PICK path \in Paths : path = Head(commands) /\ path.file.unit \in named
    BY <1>1, Popped DEF Order, CommandsNamed
<1>3. /\ stack' = << ParseInto(path) >> /\ commands' = Tail(commands) /\ UNCHANGED << program, units, result >>
      /\ states' = Emplace(Emplace(states, path, "Loaded"), path.file.unit, "Loaded")
    BY <1>2 DEF ReadSource, HasErrors
<1>4. Done' = Done /\ WholeUnits' = WholeUnits /\ withs' = withs /\ named' = named
    BY <1>3, ProgramStays DEF Done
<1>5. CompleteUnits \subseteq CompleteUnits'
    <2>1. PathsIn(stack) = {}
        BY <1>1 DEF PathsIn
    <2> QED BY <1>3, <1>4, <2>1, CompleteGrows
<1>6. CoveredUnits \subseteq CoveredUnits'
    <2>1. UnitsIn(stack) = {}
        BY <1>1 DEF UnitsIn
    <2> QED BY <1>5, <2>1, CoveredGrows
<1>7. path.file.unit \in Units
    BY DEF Paths, Files
<1>8. path.file.unit \in HadUnits' \cap CompleteUnits'
    <2>1. ~Findable(path.file.unit)
        BY <1>2 DEF Findable
    <2> QED BY <1>3, <1>7, <2>1, ProgramStays DEF HadUnits, CompleteUnits
<1>9. /\ Settled(ParseInto(path), HadUnits', CoveredUnits', withs, named)
      /\ OnTop(ParseInto(path), HadUnits', withs, WholeUnits, result')
    BY <1>2, <1>8, Opened
<1>10. Frames(stack', HadUnits', CoveredUnits', withs', named', WholeUnits', result')
    <2>1. Len(stack') = 1 /\ stack'[1] = ParseInto(path)
        BY <1>3
    <2> QED BY <1>4, <1>9, <2>1 DEF Frames
<1>11. ASSUME NEW x \in Units, states'[x] = "Loaded"
       PROVE  states[x] = "Loaded" \/ x \in HadUnits' \cap CompleteUnits'
    <2>1. /\ states \in [Units \cup Paths -> {"unseen", "Loading", "Loaded"}]
          /\ Emplace(states, path, "Loaded") \in [Units \cup Paths -> {"unseen", "Loading", "Loaded"}]
        BY EmplaceType DEF TypeOK
    <2>2. x \in (Units \cup Paths) \ {path}
        BY UnitLoaderAssumption
    <2>3. CASE x = path.file.unit
        BY <1>8, <2>3
    <2>4. CASE x # path.file.unit
        <3>1. states'[x] = Emplace(states, path, "Loaded")[x]
            <4>1. PICK u \in Units : u = path.file.unit
                BY <1>7
            <4>2. PICK map \in [Units \cup Paths -> {"unseen", "Loading", "Loaded"}] :
                    map = Emplace(states, path, "Loaded")
                BY <2>1
            <4>3. x \in (Units \cup Paths) \ {u} /\ u \in Units \cup Paths
                BY <2>4, <4>1
            <4>4. Emplace(map, u, "Loaded")[x] = map[x]
                BY <4>3, EmplaceType
            <4> QED BY <1>3, <4>1, <4>2, <4>4
        <3>2. Emplace(states, path, "Loaded")[x] = states[x]
            BY <2>1, <2>2, EmplaceType
        <3> QED BY <1>11, <3>1, <3>2
    <2> QED BY <2>3, <2>4
<1> QED BY <1>1, <1>3, <1>5, <1>6, <1>10, <1>11, OrderKept

\* Every step keeps the invariant.
LEMMA OrderStep ==
    ASSUME LoaderInv, [Next]_vars
    PROVE  LoaderInv'
<1>1. TypeOK /\ TypeOK'
    BY TypeStep DEF LoaderInv
<1>2. SUFFICES ASSUME ~HasErrors'
               PROVE  Order'
    BY <1>1 DEF LoaderInv
<1>3. ~HasErrors
    <2>1. circles \subseteq circles' /\ (unread => unread')
        <3>1. ReadSpec \/ ReadBody => UNCHANGED circles /\ (unread' = TRUE \/ UNCHANGED unread)
            BY DEF ReadSpec, ReadBody, ReadFails
        <3>2. EnterKnown \/ ReadSource => circles \subseteq circles' /\ (unread' = TRUE \/ UNCHANGED unread)
            BY DEF EnterKnown, ReadSource
        <3>3. EnterUnknown \/ AfterParent \/ NotFound \/ NoSpec \/ With \/ Finish \/ SkipSource \/ UNCHANGED vars
                => UNCHANGED << circles, unread >>
            BY DEF EnterUnknown, AfterParent, NotFound, NoSpec, With, Finish, SkipSource, vars
        <3> QED BY <3>1, <3>2, <3>3 DEF Next
    <2> QED BY <1>2, <2>1 DEF HasErrors
<1>4. Order
    BY <1>3 DEF LoaderInv
<1>5. CASE UNCHANGED vars
    <2>1. UNCHANGED << program, commands, units, stack, states, result >>
        BY <1>5 DEF vars, program
    <2>2. CoveredUnits' = CoveredUnits /\ CompleteUnits' = CompleteUnits /\ HadUnits' = HadUnits
        BY <2>1, ProgramStays DEF CoveredUnits, CompleteUnits, HadUnits, Done
    <2>3. Frames(stack', HadUnits', CoveredUnits', withs', named', WholeUnits', result')
        BY <1>4, <2>1, <2>2, ProgramStays DEF Order, CallsHave
    <2> QED BY <1>1, <1>4, <2>1, <2>2, <2>3, OrderKept
<1> QED BY <1>1, <1>2, <1>4, <1>5, EnterKnownStep, EnterUnknownStep, AfterParentStep, NotFoundStep, ReadSpecStep,
           NoSpecStep, ReadBodyStep, WithStep, FinishStep, SkipSourceStep, ReadSourceStep DEF Next

\* The initial states have the invariant.
LEMMA OrderInit ==
    ASSUME Init
    PROVE  LoaderInv
<1>1. TypeOK
    BY TypeInit
<1>2. CommandsNamed
    BY DEF Init, CommandsNamed
<1>3. LoadedInPlace /\ FilesInOrder /\ FilesCovered
    BY DEF Init, LoadedInPlace, FilesInOrder, FilesCovered
<1>4. CallsHave
    <2>1. Len(stack) = 1 /\ stack[1] = LoadUnit(Required) /\ Required \in Units
        BY UnitLoaderAssumption DEF Init
    <2> QED BY <2>1, Entered DEF CallsHave, Frames
<1> QED BY <1>1, <1>2, <1>3, <1>4 DEF LoaderInv, Order

\* The inductive invariant of the loader: what every call under way has behind
\* it, what it may count on when the call it waits for returns, and that a unit
\* marked Loaded is in place.
THEOREM LoaderInvHolds == Spec => []LoaderInv
BY OrderInit, OrderStep, PTL DEF Spec

\* Whatever a unit draws on comes before it, for every library, every depth of
\* with clauses, parents and bodies, and every command line.
THEOREM DeclarationsComeFirst == Spec => []SpecsComeFirst
<1>1. LoaderInv => SpecsComeFirst
    BY DEF LoaderInv, Order, FilesInOrder, Ahead, SpecsComeFirst
<1> QED BY <1>1, LoaderInvHolds, PTL

\* A program the loader has accepted is complete: all files of all units that
\* its files draw on have been read.
THEOREM ProgramsAreComplete == Spec => []NothingMissing
<1>1. ASSUME LoaderInv
      PROVE  NothingMissing
    <2>1. SUFFICES ASSUME Finished, ~HasErrors, NEW i \in DOMAIN units, NEW u \in Drawn(units[i].file), Findable(u),
                          NEW f \in {SpecOf(u), BodyOf(u)} \cap present
                   PROVE  \E j \in DOMAIN units : units[j] = Found(f)
        BY DEF NothingMissing
    <2>2. PathsIn(stack) = {} /\ UnitsIn(stack) = {}
        BY <2>1 DEF Finished, PathsIn, UnitsIn
    <2>3. u \in CompleteUnits
        BY <1>1, <2>1, <2>2 DEF LoaderInv, Order, FilesCovered, CoveredUnits
    <2>4. Found(f) \in Done
        BY <2>1, <2>2, <2>3 DEF CompleteUnits
    <2> QED BY <2>4 DEF Done
<1> QED BY <1>1, LoaderInvHolds, PTL

=============================================================================

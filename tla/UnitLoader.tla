----------------------------- MODULE UnitLoader -----------------------------
(***************************************************************************)
(* UnitLoader of adac: reads the sources named on the command line and the *)
(* library units they draw on, and leaves the files in the order in which  *)
(* Sema analyses them.                                                     *)
(*                                                                         *)
(* loadUnit and parseInto call each other, so the C++ stack is a variable: *)
(* a frame is a call of loadUnit, with the place it has come to, or one of *)
(* parseInto, with the next name of its with clauses.  The library of a    *)
(* program is the set of its files and what each of them withs; it is      *)
(* chosen at the start and never changes.  All search directories are one. *)
(*                                                                         *)
(* A definition named after another one with a fault in it (WithEvery-     *)
(* Second, EnterLoaded ...) is that one as a plausible mistake would have  *)
(* written it; no behaviour uses it, see README.md.                        *)
(***************************************************************************)
EXTENDS Integers, Sequences, FiniteSets

CONSTANTS
  Units,        \* Library units, by the key of their files.
  NoUnit,
  Parent,       \* The unit a child is declared in, or NoUnit.
  Required,     \* Ada.IO_Exceptions, which adac loads first.
  Libraries,    \* What the files may be, see withs.
  Unreadable,   \* The files whose reading may fail after they were found.
  CommandLines  \* Sequences of paths.

Files == [unit : Units, part : {"spec", "body"}]

(* The same file has a path as findUnit spells it, and the one a user may give
   who leaves out the directory. *)
Spellings == {"found", "plain"}
Paths == [file : Files, spelled : Spellings]

ASSUME UnitLoaderAssumption ==
  /\ NoUnit \notin Units
  /\ Parent \in [Units -> Units \cup {NoUnit}]
  /\ Required \in Units
  /\ \A library \in Libraries : /\ DOMAIN library \subseteq Files
                                /\ \A f \in DOMAIN library : library[f] \in Seq(Units)
  /\ Units \cap Paths = {}     \* No key of a unit reads like a path.
  /\ Unreadable \subseteq Files
  /\ CommandLines \subseteq Seq(Paths)

VARIABLES
  withs,      \* The files there are, with the names their with clauses list.
  named,      \* The units the command line names.
  commands,   \* What is left of the command line.
  states,     \* m_states, by unit and by path.
  units,      \* m_units
  stack,      \* The calls under way, the innermost first.
  result,     \* What the last call to return returned.
  circles,    \* The units reported to depend on themselves.
  unread      \* Whether a file could not be read.

vars == << withs, named, commands, states, units, stack, result, circles, unread >>

program == << withs, named >>

present == DOMAIN withs

SpecOf(u) == [unit |-> u, part |-> "spec"]
BodyOf(u) == [unit |-> u, part |-> "body"]
Found(f) == [file |-> f, spelled |-> "found"]

LoadUnit(u) == [unit |-> u, at |-> "enter"]
ParseInto(path) == [path |-> path, next |-> 1]

UnitFrames == [unit : Units, at : {"enter", "parent", "search", "body"}]
FileFrames == [path : Paths, next : Nat \ {0}]

(* The frames, states and files are those of the library at hand; a frame of
   parseInto is at a name of its with clauses or behind the last one. *)
TypeOK ==
  /\ present \subseteq Files
  /\ \A f \in present : withs[f] \in Seq(Units)
  /\ named \subseteq Units
  /\ commands \in Seq(Paths)
  /\ states \in [Units \cup Paths -> {"unseen", "Loading", "Loaded"}]
  /\ units \in Seq(Paths)
  /\ stack \in Seq(UnitFrames \cup FileFrames)
  /\ \A i \in DOMAIN stack :
       "path" \in DOMAIN stack[i] =>
         /\ stack[i].path.file \in present
         /\ stack[i].next <= Len(withs[stack[i].path.file]) + 1
  /\ result \in BOOLEAN
  /\ circles \subseteq Units
  /\ unread \in BOOLEAN

-----------------------------------------------------------------------------

Top == Head(stack)
Rest == Tail(stack)

InUnit(at) == stack # << >> /\ "at" \in DOMAIN Top /\ Top.at = at
InFile == stack # << >> /\ "path" \in DOMAIN Top

(* emplace leaves an entry alone that is there already. *)
Emplace(map, key, state) ==
  IF map[key] = "unseen" THEN [map EXCEPT ![key] = state] ELSE map

Return(value) == stack' = Rest /\ result' = value

GoOn(at) == stack' = << [Top EXCEPT !.at = at] >> \o Rest /\ UNCHANGED result

EnterLoaded ==
  /\ InUnit("enter")
  /\ states[Top.unit] = "Loaded"
  /\ Return(TRUE)
  /\ UNCHANGED << program, commands, states, units, circles, unread >>

(* The unit is already read, or being read. *)
EnterKnown ==
  /\ InUnit("enter")
  /\ states[Top.unit] # "unseen"
  /\ Return(states[Top.unit] = "Loaded")
  /\ circles' = circles \cup (IF states[Top.unit] = "Loading" THEN {Top.unit} ELSE {})
  /\ UNCHANGED << program, commands, states, units, unread >>

EnterUnknown ==
  /\ InUnit("enter")
  /\ states[Top.unit] = "unseen"
  /\ IF Parent[Top.unit] = NoUnit
     THEN GoOn("search")
     ELSE /\ stack' = << LoadUnit(Parent[Top.unit]), [Top EXCEPT !.at = "parent"] >> \o Rest
          /\ UNCHANGED result
  /\ UNCHANGED << program, commands, states, units, circles, unread >>

(* Back from loading the parent. *)
AfterParent ==
  /\ InUnit("parent")
  /\ IF result THEN GoOn("search") ELSE Return(FALSE)
  /\ UNCHANGED << program, commands, states, units, circles, unread >>

(* A unit that has no file may be one that the compiler declares. *)
NotFound ==
  /\ InUnit("search")
  /\ {SpecOf(Top.unit), BodyOf(Top.unit)} \cap present = {}
  /\ Return(FALSE)
  /\ UNCHANGED << program, commands, states, units, circles, unread >>

(* The file was found, and reading it fails. *)
ReadFails(f) ==
  /\ f \in Unreadable
  /\ Return(FALSE)
  /\ unread' = TRUE

ReadSpecMarkingLoaded ==
  LET u == Top.unit
      spec == SpecOf(u)
  IN  /\ InUnit("search")
      /\ spec \in present
      /\ states' = Emplace(Emplace(states, u, "Loaded"), Found(spec), "Loaded")
      /\ stack' = << ParseInto(Found(spec)), [Top EXCEPT !.at = "body"] >> \o Rest
      /\ UNCHANGED << program, commands, units, circles, result, unread >>

ReadSpec ==
  LET u == Top.unit
      spec == SpecOf(u)
  IN  /\ InUnit("search")
      /\ spec \in present
      /\ states' = Emplace(Emplace(states, u, "Loading"), Found(spec), "Loaded")
      /\ \/ ReadFails(spec)
         \/ /\ stack' = << ParseInto(Found(spec)), [Top EXCEPT !.at = "body"] >> \o Rest
            /\ UNCHANGED << result, unread >>
      /\ UNCHANGED << program, commands, units, circles >>

NoSpec ==
  /\ InUnit("search")
  /\ SpecOf(Top.unit) \notin present
  /\ BodyOf(Top.unit) \in present
  /\ states' = Emplace(states, Top.unit, "Loading")
  /\ GoOn("body")
  /\ UNCHANGED << program, commands, units, circles, unread >>

ReadBodyWithoutSpec ==
  LET u == Top.unit
      loaded == [states EXCEPT ![u] = "Loaded"]
      body == BodyOf(u)
  IN  /\ InUnit("body")
      /\ IF body \notin present \/ SpecOf(u) \in present
         THEN states' = loaded /\ Return(TRUE)
         ELSE /\ states' = Emplace(loaded, Found(body), "Loaded")
              /\ stack' = << ParseInto(Found(body)) >> \o Rest
              /\ UNCHANGED result
      /\ UNCHANGED << program, commands, units, circles, unread >>

(* The specification is in place.  Once the body is, loadUnit returns true, as
   parseInto does, so its frame gives way to that of the body. *)
ReadBody ==
  LET u == Top.unit
      loaded == [states EXCEPT ![u] = "Loaded"]
      body == BodyOf(u)
  IN  /\ InUnit("body")
      /\ IF body \notin present
         THEN states' = loaded /\ Return(TRUE) /\ UNCHANGED unread
         ELSE /\ states' = Emplace(loaded, Found(body), "Loaded")
              /\ \/ ReadFails(body)
                 \/ /\ stack' = << ParseInto(Found(body)) >> \o Rest
                    /\ UNCHANGED << result, unread >>
      /\ UNCHANGED << program, commands, units, circles >>

-----------------------------------------------------------------------------
(* parseInto, after the parse. *)

Clause == withs[Top.path.file]

WithEverySecond ==
  /\ InFile
  /\ Top.next <= Len(Clause)
  /\ stack' = << LoadUnit(Clause[Top.next]), [Top EXCEPT !.next = @ + 2] >> \o Rest
  /\ UNCHANGED << program, commands, states, units, result, circles, unread >>

(* What loadUnit returns is not looked at. *)
With ==
  /\ InFile
  /\ Top.next <= Len(Clause)
  /\ stack' = << LoadUnit(Clause[Top.next]), [Top EXCEPT !.next = @ + 1] >> \o Rest
  /\ UNCHANGED << program, commands, states, units, result, circles, unread >>

Finish ==
  /\ InFile
  /\ Top.next > Len(Clause)
  /\ units' = Append(units, Top.path)
  /\ Return(TRUE)
  /\ UNCHANGED << program, commands, states, circles, unread >>

-----------------------------------------------------------------------------
(* loadSource. *)

NextCommand == stack = << >> /\ commands # << >>

SkipSource ==
  /\ NextCommand
  /\ states[Head(commands)] # "unseen"
  /\ commands' = Tail(commands)
  /\ UNCHANGED << program, states, units, stack, result, circles, unread >>

(* The file name gives the unit away, so that it is not looked for again. *)
ReadSource ==
  LET path == Head(commands)
  IN  /\ NextCommand
      /\ states[path] = "unseen"
      /\ states' = Emplace(Emplace(states, path, "Loaded"), path.file.unit, "Loaded")
      /\ \/ /\ path.file \in present
            /\ stack' = << ParseInto(path) >>
            /\ commands' = Tail(commands)
            /\ UNCHANGED unread
         \/ /\ path.file \notin present \/ path.file \in Unreadable
            /\ unread' = TRUE
            /\ commands' = << >>     \* adac gives up.
            /\ UNCHANGED stack
      /\ UNCHANGED << program, units, result, circles >>

-----------------------------------------------------------------------------

Init ==
  /\ withs \in Libraries
  /\ commands \in CommandLines
  /\ named = { commands[i].file.unit : i \in DOMAIN commands }
  /\ states = [key \in Units \cup Paths |-> "unseen"]
  /\ units = << >>
  /\ stack = << LoadUnit(Required) >>
  /\ result = TRUE
  /\ circles = {}
  /\ unread = FALSE

Next ==
  \/ EnterKnown \/ EnterUnknown \/ AfterParent
  \/ NotFound \/ ReadSpec \/ NoSpec \/ ReadBody
  \/ With \/ Finish
  \/ SkipSource \/ ReadSource

Spec == Init /\ [][Next]_vars

(* One thread runs the loader to its end. *)
FairSpec == Spec /\ WF_vars(Next)

-----------------------------------------------------------------------------

HasErrors == circles # {} \/ unread

Finished == stack = << >> /\ commands = << >>

(* The unit and the units it is declared in. *)
Ancestry(u) ==
  { a \in Units : \A S \in SUBSET Units :
      (u \in S /\ \A x \in S : Parent[x] \in S \cup {NoUnit}) => a \in S }

(* A unit the loader is to find by itself: a child without its parent is not
   looked for, and a unit named on the command line is not either. *)
Findable(u) ==
  /\ u \notin named
  /\ \A a \in Ancestry(u) : {SpecOf(a), BodyOf(a)} \cap present # {}

Drawn(f) == IF f \in present THEN { withs[f][i] : i \in DOMAIN withs[f] } ELSE {}

(* What has to be analysed before a file: the units it withs, the parent its
   unit is declared in, and the specification of the unit it is the body of.
   Whoever names a unit on the command line has to name its parent as well:
   loadSource does not ask for it. *)
DeclaredIn(u) == IF u \in named THEN {} ELSE {Parent[u]} \ {NoUnit}
NeededBy(f) ==
  Drawn(f) \cup DeclaredIn(f.unit) \cup (IF f.part = "body" THEN {f.unit} ELSE {})

(***************************************************************************)
(* "Whatever a unit draws on comes before it" (UnitLoader.h).  As long as  *)
(* nothing has been reported, the specification of every unit a file       *)
(* needs is ahead of the file, through any nesting of with clauses,        *)
(* parents and bodies; so the specifications read without an error make    *)
(* no circle.                                                              *)
(***************************************************************************)
SpecsComeFirst ==
  ~HasErrors =>
    \A i \in DOMAIN units :
      \A u \in NeededBy(units[i].file) :
        Findable(u) /\ SpecOf(u) \in present
          => \E j \in 1 .. i - 1 : units[j] = Found(SpecOf(u))

(* When the loader is done and has reported nothing, every file of every unit
   a file read draws on has been read, bodies included, so that the program
   is complete. *)
NothingMissing ==
  Finished /\ ~HasErrors =>
    \A i \in DOMAIN units :
      \A u \in Drawn(units[i].file) :
        Findable(u) =>
          \A f \in {SpecOf(u), BodyOf(u)} \cap present :
            \E j \in DOMAIN units : units[j] = Found(f)

(* The loader ends whatever the units with, circles of them included. *)
LoadingEnds == <>Finished

(***************************************************************************)
(* "Reads a unit by name, doing nothing if it has already been read"       *)
(* (UnitLoader.h): no file is among the files to analyse twice.            *)
(***************************************************************************)
ReadOnce ==
  \A i, j \in DOMAIN units : units[i].file = units[j].file => i = j

(* What the declaration of a unit depends on; the body declares a unit that
   has no specification. *)
Depends(u) ==
  Drawn(IF SpecOf(u) \in present THEN SpecOf(u) ELSE BodyOf(u))
    \cup ({Parent[u]} \ {NoUnit})

(***************************************************************************)
(* "The specification is in place, so a body that draws on something       *)
(* naming this unit back is no longer a circle" (UnitLoader.cpp): a unit   *)
(* is reported to depend on itself only if its declaration does.           *)
(***************************************************************************)
CirclesAreReal ==
  \A u \in circles :
    \A S \in SUBSET Units :
      (Depends(u) \subseteq S /\ \A x \in S : Depends(x) \subseteq S) => u \in S

=============================================================================

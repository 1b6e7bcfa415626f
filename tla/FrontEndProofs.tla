--------------------------- MODULE FrontEndProofs ---------------------------
(***************************************************************************)
(* The driver, for every command, every install and whatever the files     *)
(* held before; lookup, for every nesting of scopes and whatever they      *)
(* declare and use; and record types with a variant part, for any choices  *)
(* and components.  Lookup, choices, layout and selection are folds, of    *)
(* which FoldProofs has what holds of any.                                 *)
(***************************************************************************)
EXTENDS Driver, Scopes, VariantRecords, FoldProofs

FileNames == {"ir", "assembly", "program"}
Contents == {"none", "stale", "part", "all"}

\* What adac has written by the time it ends well.
Complete == IF shortWrite THEN "part" ELSE "all"

Product == CASE command.stage = "IntermediateLanguage" -> "ir"
             [] command.stage = "Assembly" -> "assembly"
             [] OTHER -> "program"
OnTheWay == CASE command.stage = "IntermediateLanguage" -> {}
              [] command.stage = "Assembly" -> {"ir"}
              [] OTHER -> {"ir", "assembly"}

DriverTypeOK ==
    /\ command \in Commands
    /\ phase \in {"adac", "load", "analyze", "emit", "qbe", "link", "done"}
    /\ files \in [FileNames -> Contents]
    /\ exit \in {-1, 0, 1}
    /\ shortWrite \in BOOLEAN

\* What the files hold when a stage begins: its input is the product of this
\* run, and what it is to make is not there yet but as something older.
Progress ==
    /\ (exit = -1) = (phase # "done")
    /\ phase \in {"adac", "load", "analyze", "emit"} =>
           ~shortWrite /\ \A f \in FileNames : files[f] # "all"
    /\ phase = "qbe" =>
           /\ command.stage # "IntermediateLanguage" /\ files["ir"] = Complete
           /\ files["assembly"] # "all" /\ files["program"] # "all"
    /\ phase = "link" =>
           /\ command.stage = "Executable"
           /\ files["assembly"] = Complete /\ files["program"] # "all"

\* What it has made, or not, when it ends.
Outcome ==
    /\ exit = 0 => /\ files[Product] = Complete
                   /\ ~command.keep => \A f \in OnTheWay : files[f] = "none"
    /\ exit = 1 => files[Product] # "all"

\* Where adac looks is settled when it is run.
Search == searched \in {<<>>, SearchPath}

DriverInv == DriverTypeOK /\ Progress /\ Outcome /\ Search

-----------------------------------------------------------------------------

\* Removing leaves the other files alone.
LEMMA Removed ==
    ASSUME NEW given \in [FileNames -> Contents], NEW names
    PROVE  /\ RemoveFiles(given, names) \in [FileNames -> Contents]
           /\ \A f \in FileNames :
                  RemoveFiles(given, names)[f] = IF f \in names /\ ~command.keep THEN "none" ELSE given[f]
BY DEF RemoveFiles, Contents

\* What the command asks for is one of the three files.
LEMMA Asked ==
    ASSUME command \in Commands
    PROVE  /\ command.stage \in {"IntermediateLanguage", "Assembly", "Executable"}
           /\ command.stage = "IntermediateLanguage" => Product = "ir" /\ OnTheWay = {}
           /\ command.stage = "Assembly" => Product = "assembly" /\ OnTheWay = {"ir"}
           /\ command.stage = "Executable" => Product = "program" /\ OnTheWay = {"ir", "assembly"}
           /\ Product \in FileNames
BY DriverAssumption DEF Product, OnTheWay, FileNames

\* The search path depends on nothing that changes.
LEMMA SearchKept ==
    ASSUME Search, UNCHANGED <<command, install>>, searched' = searched \/ searched' = SearchPath
    PROVE  Search'
BY DEF Search, SearchPath, LibraryOption, Library, Environment, InstalledLater

\* Product and OnTheWay depend on the command only.
LEMMA ProductKept ==
    ASSUME UNCHANGED command
    PROVE  Product' = Product /\ OnTheWay' = OnTheWay
BY DEF Product, OnTheWay

\* The driver begins with what the files held before,
LEMMA DriverInitInv == DriverInit => DriverInv
<1> SUFFICES ASSUME DriverInit PROVE DriverInv
    OBVIOUS
<1>1. PICK older \in Older : files = [ir |-> older, assembly |-> older, program |-> older]
    BY DEF DriverInit
<1>2. files \in [FileNames -> Contents] /\ \A f \in FileNames : files[f] # "all"
    BY <1>1, DriverAssumption DEF FileNames, Contents
<1>3. /\ command \in Commands /\ phase = "adac" /\ exit = -1 /\ exit # 0 /\ exit # 1
      /\ searched = <<>> /\ shortWrite = FALSE
    BY DEF DriverInit
<1>4. DriverTypeOK
    BY <1>2, <1>3 DEF DriverTypeOK
<1>5. Progress
    BY <1>2, <1>3 DEF Progress
<1>6. Outcome
    BY <1>3 DEF Outcome
<1> QED
    BY <1>3, <1>4, <1>5, <1>6 DEF DriverInv, Search

\* A stage that only passes on, or fails before anything is written.
LEMMA EarlyStep ==
    ASSUME DriverInv, phase \in {"adac", "load", "analyze"},
           Continues("load") \/ Continues("analyze") \/ Continues("emit") \/ Ends(1),
           UNCHANGED <<command, install, files, shortWrite>>,
           searched' = searched \/ searched' = SearchPath
    PROVE  DriverInv'
<1>1. /\ exit' \in {-1, 1} /\ phase' \in {"load", "analyze", "emit", "done"}
      /\ (exit' = -1) = (phase' # "done")
    BY DEF Continues, Ends, DriverInv, Progress
<1>2. DriverTypeOK'
    BY <1>1 DEF DriverInv, DriverTypeOK
<1>3. Progress'
    BY <1>1 DEF DriverInv, Progress
<1>4. Outcome'
    BY <1>1, ProductKept, Asked DEF DriverInv, DriverTypeOK, Progress, Outcome
<1> QED
    BY <1>2, <1>3, <1>4, SearchKept DEF DriverInv

\* adac writes its file, in full or not.
LEMMA EmitInv == ASSUME DriverInv, Emit PROVE DriverInv'
<1>1. /\ command' = command /\ install' = install /\ searched' = searched
      /\ phase = "emit" /\ exit = -1 /\ shortWrite = FALSE
      /\ files \in [FileNames -> Contents] /\ \A f \in FileNames : files[f] # "all"
    BY DEF DriverInv, DriverTypeOK, Progress, Emit
<1>2. CASE Ends(1) /\ shortWrite' = shortWrite /\ files' \in {files, [files EXCEPT !.ir = "part"]}
    <2>1. files' \in [FileNames -> Contents] /\ \A f \in FileNames : files'[f] # "all"
        BY <1>1, <1>2 DEF FileNames, Contents
    <2>2. DriverTypeOK' /\ Progress'
        BY <1>1, <1>2, <2>1 DEF Ends, DriverInv, DriverTypeOK, Progress
    <2>3. Outcome'
        BY <1>1, <1>2, <2>1, ProductKept, Asked DEF Ends, DriverInv, DriverTypeOK, Outcome
    <2> QED
        BY <1>1, <2>2, <2>3, SearchKept DEF DriverInv
<1>3. ASSUME AfterAdac, NEW written \in {"part", "all"}, files' = [files EXCEPT !.ir = written],
             shortWrite' = (written = "part")
      PROVE  DriverInv'
    <2>1. /\ files' \in [FileNames -> Contents] /\ files'["ir"] = written /\ Complete' = written
          /\ files'["assembly"] # "all" /\ files'["program"] # "all"
        BY <1>1, <1>3 DEF FileNames, Contents, Complete
    <2>2. CASE command.stage = "IntermediateLanguage"
        <3>1. phase' = "done" /\ exit' = 0
            BY <1>3, <2>2 DEF AfterAdac, Ends
        <3>2. DriverTypeOK' /\ Progress'
            BY <1>1, <1>3, <2>1, <3>1 DEF DriverInv, DriverTypeOK, Progress
        <3>3. Product' = "ir" /\ OnTheWay' = {}
            BY <1>1, <2>2, ProductKept, Asked DEF DriverInv, DriverTypeOK
        <3> QED
            BY <1>1, <2>1, <3>1, <3>2, <3>3, SearchKept DEF DriverInv, Outcome
    <2>3. CASE command.stage # "IntermediateLanguage"
        <3>1. phase' = "qbe" /\ exit' = -1
            BY <1>1, <1>3, <2>3 DEF AfterAdac, Continues
        <3>2. DriverTypeOK' /\ Progress' /\ Outcome'
            BY <1>1, <1>3, <2>1, <2>3, <3>1 DEF DriverInv, DriverTypeOK, Progress, Outcome
        <3> QED
            BY <1>1, <3>2, SearchKept DEF DriverInv
    <2> QED
        BY <2>2, <2>3
<1>4. CASE AfterAdac /\ files' = [files EXCEPT !.ir = "part"] /\ shortWrite' = TRUE
    BY <1>3, <1>4
<1>5. CASE AfterAdac /\ files' = [files EXCEPT !.ir = "all"] /\ shortWrite' = shortWrite
    BY <1>1, <1>3, <1>5
<1>6. CASE Ends(1) /\ UNCHANGED <<files, shortWrite>>
    BY <1>2, <1>6
<1>7. CASE Ends(1) /\ files' = [files EXCEPT !.ir = "part"] /\ UNCHANGED shortWrite
    BY <1>2, <1>7
<1> QED
    BY <1>4, <1>5, <1>6, <1>7 DEF Emit

\* qbe makes the assembly of what adac wrote, or fails.
LEMMA QbeInv == ASSUME DriverInv, RunQbe PROVE DriverInv'
<1>1. /\ command' = command /\ install' = install /\ searched' = searched /\ shortWrite' = shortWrite
      /\ phase = "qbe" /\ exit = -1 /\ Complete' = Complete
      /\ command.stage # "IntermediateLanguage" /\ files["ir"] = Complete
      /\ files["assembly"] # "all" /\ files["program"] # "all"
      /\ files \in [FileNames -> Contents]
    BY DEF DriverInv, DriverTypeOK, Progress, RunQbe, Complete
<1>2. command.stage = "Assembly" \/ command.stage = "Executable"
    BY <1>1, Asked DEF DriverInv, DriverTypeOK
<1>3. /\ command.stage = "Assembly" => Product' = "assembly" /\ OnTheWay' = {"ir"}
      /\ command.stage = "Executable" => Product' = "program" /\ OnTheWay' = {"ir", "assembly"}
    BY <1>1, ProductKept, Asked DEF DriverInv, DriverTypeOK
<1>4. ASSUME NEW left \in {files.assembly, "part"},
             files' = RemoveFiles([files EXCEPT !.assembly = left], {"ir"}), Ends(1)
      PROVE  DriverInv'
    <2>1. /\ [files EXCEPT !.assembly = left] \in [FileNames -> Contents]
          /\ left # "all"
        BY <1>1, <1>4 DEF FileNames, Contents
    <2>2. /\ files' \in [FileNames -> Contents]
          /\ files'["assembly"] # "all" /\ files'["program"] # "all"
        BY <1>1, <1>4, <2>1, Removed DEF FileNames
    <2>3. DriverTypeOK' /\ Progress'
        BY <1>1, <1>4, <2>2 DEF Ends, DriverInv, DriverTypeOK, Progress
    <2>4. Outcome'
        BY <1>1, <1>2, <1>3, <1>4, <2>2 DEF Ends, Outcome
    <2> QED
        BY <1>1, <2>3, <2>4, SearchKept DEF DriverInv
<1>5. ASSUME command.stage = "Assembly",
             files' = RemoveFiles([files EXCEPT !.assembly = files.ir], {"ir"}), Ends(0)
      PROVE  DriverInv'
    <2>1. /\ [files EXCEPT !.assembly = files.ir] \in [FileNames -> Contents]
          /\ [files EXCEPT !.assembly = files.ir]["assembly"] = Complete
        BY <1>1 DEF FileNames
    <2>2. /\ files' \in [FileNames -> Contents] /\ files'["assembly"] = Complete
          /\ ~command.keep => files'["ir"] = "none"
        BY <1>5, <2>1, Removed DEF FileNames
    <2>3. DriverTypeOK' /\ Progress'
        BY <1>1, <1>5, <2>2 DEF Ends, DriverInv, DriverTypeOK, Progress
    <2>4. Outcome'
        BY <1>1, <1>3, <1>5, <2>2 DEF Ends, Outcome
    <2> QED
        BY <1>1, <2>3, <2>4, SearchKept DEF DriverInv
<1>6. ASSUME command.stage = "Executable", files' = [files EXCEPT !.assembly = files.ir], Continues("link")
      PROVE  DriverInv'
    <2>1. /\ files' \in [FileNames -> Contents]
          /\ files'["assembly"] = Complete /\ files'["program"] # "all"
        BY <1>1, <1>6 DEF FileNames
    <2>2. DriverTypeOK' /\ Progress' /\ Outcome'
        BY <1>1, <1>6, <2>1 DEF Continues, DriverInv, DriverTypeOK, Progress, Outcome
    <2> QED
        BY <1>1, <2>2, SearchKept DEF DriverInv
<1> QED
    BY <1>4, <1>5, <1>6 DEF RunQbe

\* The C compiler makes the program, or fails.
LEMMA LinkInv == ASSUME DriverInv, Link PROVE DriverInv'
<1>1. /\ command' = command /\ install' = install /\ searched' = searched /\ shortWrite' = shortWrite
      /\ phase = "link" /\ Complete' = Complete /\ phase' = "done"
      /\ command.stage = "Executable" /\ files["assembly"] = Complete /\ files["program"] # "all"
      /\ files \in [FileNames -> Contents]
    BY DEF DriverInv, DriverTypeOK, Progress, Link, Complete, Ends
<1>2. Product' = "program" /\ OnTheWay' = {"ir", "assembly"}
    BY <1>1, ProductKept, Asked DEF DriverInv, DriverTypeOK
<1>3. CASE files' = RemoveFiles([files EXCEPT !.program = files.assembly], {"ir", "assembly"}) /\ Ends(0)
    <2>1. /\ [files EXCEPT !.program = files.assembly] \in [FileNames -> Contents]
          /\ [files EXCEPT !.program = files.assembly]["program"] = Complete
        BY <1>1 DEF FileNames
    <2>2. /\ files' \in [FileNames -> Contents] /\ files'["program"] = Complete
          /\ ~command.keep => files'["ir"] = "none" /\ files'["assembly"] = "none"
        BY <1>3, <2>1, Removed DEF FileNames
    <2>3. DriverTypeOK' /\ Progress'
        BY <1>1, <1>3, <2>2 DEF Ends, DriverInv, DriverTypeOK, Progress
    <2>4. Outcome'
        BY <1>1, <1>2, <1>3, <2>2 DEF Ends, Outcome
    <2> QED
        BY <1>1, <2>3, <2>4, SearchKept DEF DriverInv
<1>4. CASE files' = RemoveFiles(files, {"ir", "assembly"}) /\ Ends(1)
    <2>1. files' \in [FileNames -> Contents] /\ files'["program"] # "all"
        BY <1>1, <1>4, Removed DEF FileNames
    <2>2. DriverTypeOK' /\ Progress'
        BY <1>1, <1>4, <2>1 DEF Ends, DriverInv, DriverTypeOK, Progress
    <2>3. Outcome'
        BY <1>1, <1>2, <1>4, <2>1 DEF Ends, Outcome
    <2> QED
        BY <1>1, <2>2, <2>3, SearchKept DEF DriverInv
<1> QED
    BY <1>3, <1>4 DEF Link

\* Every step keeps the invariant.
LEMMA DriverStep == ASSUME DriverInv, [DriverNext]_driverVars PROVE DriverInv'
<1>1. CASE RunAdac
    BY <1>1, EarlyStep DEF RunAdac
<1>2. CASE Load
    BY <1>2, EarlyStep DEF Load
<1>3. CASE Analyze
    BY <1>3, EarlyStep DEF Analyze
<1>4. CASE UNCHANGED driverVars
    BY <1>4, ProductKept, SearchKept
    DEF driverVars, DriverInv, DriverTypeOK, Progress, Outcome, Complete
<1> QED
    BY <1>1, <1>2, <1>3, <1>4, EmitInv, QbeInv, LinkInv DEF DriverNext

(***************************************************************************)
(* What each of the three files holds when a stage begins, and when ada    *)
(* ends: no stage takes up what an earlier run has left (src/ada/main.cpp).*)
(***************************************************************************)
THEOREM DriverInvHolds == DriverSpec => []DriverInv
<1> QED
    BY DriverInitInv, DriverStep, PTL DEF DriverSpec

\* A library is searched only if one was asked for, and it is the one found.
LEMMA SearchedLibrary ==
    ASSUME Search, searched # <<>>
    PROVE  /\ \A place \in {"install", "build", "prefix"} :
                 (\E i \in DOMAIN searched : searched[i] = place) => command.library /\ place = Library
           /\ Head(searched) = "sources"
<1>1. searched = SearchPath
    BY DEF Search
<1>2. PICK library : library = Library
    OBVIOUS
<1>3. CASE "include_path" \in install.environment /\ command.library
    BY <1>1, <1>2, <1>3 DEF SearchPath, LibraryOption
<1>4. CASE "include_path" \notin install.environment /\ command.library
    BY <1>1, <1>2, <1>4 DEF SearchPath, LibraryOption
<1>5. CASE ~command.library
    BY <1>1, <1>5 DEF SearchPath, LibraryOption
<1> QED
    BY <1>3, <1>4, <1>5

(***************************************************************************)
(* Whatever stage fails or succeeds, and whatever stood in the files       *)
(* before, the driver leaves the whole product of this run or none of it,  *)
(* cleans up, and takes its units and tools from one place.                *)
(***************************************************************************)
THEOREM DriverLeavesAWholeProductOrNone == DriverSpec => []DriverKeepsItsWord
<1>1. DriverInv => DriverKeepsItsWord
    <2> SUFFICES ASSUME DriverInv PROVE DriverKeepsItsWord
        OBVIOUS
    <2>1. /\ exit = 0 => /\ files[Product] = IF shortWrite THEN "part" ELSE "all"
                         /\ ~command.keep => \A f \in OnTheWay : files[f] = "none"
          /\ (phase = "done" /\ exit # 0) => files[Product] # "all"
        BY DEF DriverInv, DriverTypeOK, Progress, Outcome, Complete
    <2>2. searched # <<>> =>
               /\ \A place \in {"install", "build", "prefix"} :
                      (\E i \in DOMAIN searched : searched[i] = place) => command.library /\ place = Library
               /\ Head(searched) = "sources"
        BY SearchedLibrary DEF DriverInv
    <2>3. (install.include /\ install.adalib /\ install.adac /\ install.qbe
             /\ install.environment \subseteq {"include_path"}) =>
               {Library, Runtime, Adac, Qbe} = {"install"}
        <3> SUFFICES ASSUME install.include, install.adalib, install.adac, install.qbe,
                            install.environment \subseteq {"include_path"}
                     PROVE  {Library, Runtime, Adac, Qbe} = {"install"}
            OBVIOUS
        <3>1. Beside("adalib") /\ Beside("adac") /\ Beside("qbe")
            BY Zenon DEF Beside
        <3>2. /\ "library" \notin install.environment /\ "runtime" \notin install.environment
              /\ "adac" \notin install.environment /\ "qbe" \notin install.environment
            OBVIOUS
        <3>3. Library = "install"
            BY <3>2 DEF Library, Environment, InstalledLater
        <3>4. Runtime = "install"
            BY <3>1, <3>2 DEF Runtime, Environment, InstalledLater, Beside
        <3>5. Adac = "install" /\ Qbe = "install"
            BY <3>1, <3>2 DEF Adac, Qbe, Environment
        <3> QED
            BY <3>3, <3>4, <3>5
    <2> QED
        BY <2>1, <2>2, <2>3, Asked DEF DriverKeepsItsWord, Product, OnTheWay, DriverInv, DriverTypeOK
<1> QED
    BY <1>1, DriverInvHolds, PTL

-----------------------------------------------------------------------------
(* Lookup. *)

(* What the packages of a use clause declare, one after the other. *)
LEMMA UsedFold ==
  ASSUME NEW u \in Seq(Packages)
  PROVE  FoldLeft(LAMBDA found, p : found \o DeclaredIn[p], <<>>, u) \in Seq(Symbols)
<1> DEFINE n == Len(u)
           base == <<>>
           S == Seq(Symbols)
           F == [i \in 1 .. n |-> [x \in S |-> x \o DeclaredIn[u[i]]]]
           Step(g, s) == IF s = {} THEN base ELSE g[s \ {Max(s)}] \o DeclaredIn[u[Max(s)]]
           h == CHOOSE g : g = [s \in SUBSET (DOMAIN u) |-> Step(g, s)]
<1>1. n \in Nat /\ DOMAIN u = 1 .. n /\ base \in S
  OBVIOUS
<1>2. F \in [1 .. n -> [S -> S]]
  <2>1. \A i \in 1 .. n : DeclaredIn[u[i]] \in S
    BY ScopeAssumption
  <2> QED
    BY <2>1
<1>3. \A i \in 1 .. n : \A x \in S : F[i][x] = x \o DeclaredIn[u[i]]
  OBVIOUS
<1>4. FoldLeft(LAMBDA found, p : found \o DeclaredIn[p], <<>>, u) = h[DOMAIN u]
  BY DEF FoldLeft, MapThenFoldSet
<1> HIDE DEF n, base, S, F
<1> HIDE DEF Step
<1>5. Folds(S, n, base, F)
  BY <1>1, <1>2 DEF Folds
<1>6. PICK g : IsFold(g, S, n, base, F)
  BY <1>5, FoldExists
<1>7. ASSUME NEW s \in SUBSET (1 .. n)  PROVE g[s] = Step(g, s)
  <2>1. CASE s = {}
    BY <1>6, <2>1 DEF IsFold, Step
  <2>2. CASE s # {}
    <3>1. g[s \ {Max(s)}] \in S
      BY <1>6 DEF IsFold
    <3> QED
      BY <1>3, <1>6, <2>2, <3>1 DEF IsFold, Step
  <2> QED
    BY <2>1, <2>2
<1>8. g = [s \in SUBSET (DOMAIN u) |-> Step(g, s)]
  BY <1>1, <1>6, <1>7 DEF IsFold
<1>9. h = [s \in SUBSET (DOMAIN u) |-> Step(h, s)]
  BY <1>8
<1> HIDE DEF h
<1>10. Recurs(h, S, n, base, F)
  BY <1>1, <1>3, <1>9 DEF Recurs, Step
<1>11. PICK run : Gathers(run, S, n, base, F) /\ run[n] = h[1 .. n]
  BY <1>5, <1>10, FoldSteps
<1>12. h[1 .. n] \in S
  BY <1>1, <1>11 DEF Gathers
<1> QED
  BY <1>1, <1>4, <1>12 DEF S

-----------------------------------------------------------------------------

\* One turn of the loop over the declarations of a level, when inner scopes gave
\* the candidates in given.
IsHidden(given, s) == \E t \in Range(given) : SameProfile(t, s)
Added(given, candidates, s) ==
    IF IsHidden(given, s) \/ s \in Range(candidates) THEN candidates ELSE Append(candidates, s)

(* What is added is one more candidate, and never twice. *)
LEMMA AddedLemma ==
  ASSUME NEW given, NEW c \in Seq(Symbols), NEW s \in Symbols
  PROVE  /\ Added(given, c, s) \in Seq(Symbols)
         /\ Range(Added(given, c, s)) = Range(c) \cup (IF IsHidden(given, s) THEN {} ELSE {s})
         /\ IsInjective(c) => IsInjective(Added(given, c, s))
<1>1. CASE IsHidden(given, s) \/ s \in Range(c)
  BY <1>1 DEF Added
<1>2. CASE ~(IsHidden(given, s) \/ s \in Range(c))
  <2> DEFINE d == Append(c, s)
             n == Len(c)
  <2>1. Added(given, c, s) = d /\ ~IsHidden(given, s) /\ s \notin Range(c)
    BY <1>2 DEF Added
  <2>2. /\ d \in Seq(Symbols) /\ DOMAIN d = 1 .. (n + 1) /\ DOMAIN c = 1 .. n /\ n \in Nat
        /\ d[n + 1] = s /\ \A i \in 1 .. n : d[i] = c[i]
    OBVIOUS
  <2> HIDE DEF d, n
  <2>3. Range(d) = Range(c) \cup {s}
    BY <2>2 DEF Range
  <2>4. ASSUME IsInjective(c), NEW i \in 1 .. (n + 1), NEW j \in 1 .. (n + 1), d[i] = d[j]
        PROVE  i = j
    <3>1. \A k \in 1 .. n : c[k] # s
      BY <2>1, <2>2 DEF Range
    <3>2. CASE i \in 1 .. n /\ j \in 1 .. n
      BY <2>2, <2>4, <3>2 DEF IsInjective
    <3>3. CASE i = n + 1 \/ j = n + 1
      BY <2>2, <2>4, <3>1, <3>3
    <3> QED
      BY <2>2, <3>2, <3>3
  <2>5. IsInjective(c) => IsInjective(d)
    BY <2>2, <2>4 DEF IsInjective
  <2> QED
    BY <2>1, <2>2, <2>3, <2>5
<1> QED
  BY <1>1, <1>2

(* What a level adds: what it shows and inner scopes do not hide, each once. *)
LEMMA AddFold ==
  ASSUME NEW given \in Seq(Symbols), NEW level \in Seq(Symbols)
  PROVE  \E result \in Seq(Symbols) :
           /\ result = FoldLeft(LAMBDA candidates, s : Added(given, candidates, s), given, level)
           /\ Range(result) = Range(given) \cup {s \in Range(level) : ~IsHidden(given, s)}
           /\ IsInjective(given) => IsInjective(result)
<1> DEFINE n == Len(level)
           S == Seq(Symbols)
           F == [i \in 1 .. n |-> [x \in S |-> Added(given, x, level[i])]]
           Step(g, s) == IF s = {} THEN given ELSE Added(given, g[s \ {Max(s)}], level[Max(s)])
           h == CHOOSE g : g = [s \in SUBSET (DOMAIN level) |-> Step(g, s)]
<1>1. n \in Nat /\ DOMAIN level = 1 .. n /\ given \in S /\ \A i \in 1 .. n : level[i] \in Symbols
  OBVIOUS
<1>2. \A i \in 1 .. n : \A x \in S : Added(given, x, level[i]) \in S
  BY <1>1, AddedLemma
<1>3. F \in [1 .. n -> [S -> S]] /\ \A i \in 1 .. n : \A x \in S : F[i][x] = Added(given, x, level[i])
  BY <1>2
<1>4. FoldLeft(LAMBDA candidates, s : Added(given, candidates, s), given, level) = h[DOMAIN level]
  BY DEF FoldLeft, MapThenFoldSet
<1> HIDE DEF n, S, F, Step
<1>5. Folds(S, n, given, F)
  BY <1>1, <1>3 DEF Folds
<1>6. PICK g : IsFold(g, S, n, given, F)
  BY <1>5, FoldExists
<1>7. ASSUME NEW s \in SUBSET (1 .. n)  PROVE g[s] = Step(g, s)
  <2>1. CASE s = {}
    BY <1>6, <2>1 DEF IsFold, Step
  <2>2. CASE s # {}
    <3>1. g[s \ {Max(s)}] \in S
      BY <1>6 DEF IsFold
    <3> QED
      BY <1>3, <1>6, <2>2, <3>1 DEF IsFold, Step
  <2> QED
    BY <2>1, <2>2
<1>8. g = [s \in SUBSET (DOMAIN level) |-> Step(g, s)]
  BY <1>1, <1>6, <1>7 DEF IsFold
<1>9. h = [s \in SUBSET (DOMAIN level) |-> Step(h, s)]
  BY <1>8
<1> HIDE DEF h
<1>10. Recurs(h, S, n, given, F)
  BY <1>1, <1>3, <1>9 DEF Recurs, Step
<1>11. PICK run : Gathers(run, S, n, given, F) /\ run[n] = h[1 .. n]
  BY <1>5, <1>10, FoldSteps
<1> DEFINE upto(k) == {level[i] : i \in 1 .. k}
           Right(k) == /\ Range(run[k]) = Range(given) \cup {s \in upto(k) : ~IsHidden(given, s)}
                       /\ IsInjective(given) => IsInjective(run[k])
           G == {k \in 0 .. n : Right(k)}
<1>12. 0 \in G
  <2>1. upto(0) = {} /\ run[0] = given /\ 0 \in 0 .. n
    BY <1>1, <1>11 DEF Gathers
  <2> HIDE DEF upto
  <2> QED
    BY <2>1
<1>13. \A k \in 1 .. n : k - 1 \in G => k \in G
  <2> SUFFICES ASSUME NEW k \in 1 .. n, k - 1 \in G  PROVE k \in G
    OBVIOUS
  <2>1. Right(k - 1) /\ k - 1 \in 0 .. n /\ k \in 0 .. n
    BY <1>1
  <2>2. run[k - 1] \in S /\ run[k] = Added(given, run[k - 1], level[k])
    BY <1>3, <1>11, <2>1 DEF Gathers
  <2>3. /\ Range(run[k]) = Range(run[k - 1])
                             \cup (IF IsHidden(given, level[k]) THEN {} ELSE {level[k]})
        /\ IsInjective(run[k - 1]) => IsInjective(run[k])
    BY <1>1, <2>2, AddedLemma DEF S
  <2>4. upto(k) = upto(k - 1) \cup {level[k]}
    <3>1. \A i : i \in 1 .. k <=> i \in 1 .. (k - 1) \/ i = k
      BY <1>1
    <3> QED
      BY <3>1
  <2> HIDE DEF upto
  <2>5. Range(run[k]) = Range(given) \cup {s \in upto(k) : ~IsHidden(given, s)}
    BY <2>1, <2>3, <2>4
  <2> QED
    BY <2>1, <2>3, <2>5
<1> HIDE DEF G
<1>14. \A k \in 0 .. n : k \in G
  BY <1>1, <1>12, <1>13, Upwards
<1>15. n \in G
  BY <1>1, <1>14
<1>16. Right(n) /\ run[n] \in S
  BY <1>1, <1>11, <1>15 DEF G, Gathers
<1>17. upto(n) = Range(level)
  BY <1>1 DEF Range
<1>18. FoldLeft(LAMBDA candidates, s : Added(given, candidates, s), given, level) = run[n]
  BY <1>1, <1>4, <1>11
<1> QED
  BY <1>16, <1>17, <1>18, Zenon DEF S

-----------------------------------------------------------------------------

Found == [candidates : {c \in Seq(Symbols) : IsInjective(c)}, ended : BOOLEAN]
Nothing == [candidates |-> <<>>, ended |-> FALSE]

(* A level gives its declarations that no inner candidate hides, and ends the *)
(* search when one of them cannot be overloaded.                              *)
LEMMA LevelLemma ==
  ASSUME NEW acc \in Found, NEW level \in Seq(Symbols)
  PROVE  /\ LookupLevel(acc, level) \in Found
         /\ acc.ended => LookupLevel(acc, level) = acc
         /\ ~acc.ended =>
              /\ Range(LookupLevel(acc, level).candidates)
                   = Range(acc.candidates) \cup {s \in Range(level) : ~IsHidden(acc.candidates, s)}
              /\ LookupLevel(acc, level).ended
                   = (\E s \in Range(level) : ~IsHidden(acc.candidates, s) /\ ~Overloadable(s))
<1> DEFINE given == acc.candidates
<1>1. given \in Seq(Symbols) /\ IsInjective(given) /\ acc.ended \in BOOLEAN
  BY DEF Found
<1>2. CASE acc.ended
  <2>1. LookupLevel(acc, level) = acc
    BY <1>2, Zenon DEF LookupLevel
  <2> QED
    BY <1>2, <2>1
<1>3. CASE ~acc.ended
  <2>1. PICK result \in Seq(Symbols) :
          /\ result = FoldLeft(LAMBDA candidates, s : Added(given, candidates, s), given, level)
          /\ Range(result) = Range(given) \cup {s \in Range(level) : ~IsHidden(given, s)}
          /\ IsInjective(given) => IsInjective(result)
    BY <1>1, AddFold
  <2> DEFINE ends == \E s \in Range(level) : ~IsHidden(given, s) /\ ~Overloadable(s)
  <2>2. LookupLevel(acc, level)
          = [candidates |-> FoldLeft(LAMBDA candidates, s : Added(given, candidates, s), given, level),
             ended |-> ends]
    BY <1>3, Zenon DEF LookupLevel, Added, IsHidden
  <2>3. LookupLevel(acc, level) = [candidates |-> result, ended |-> ends]
    BY <2>1, <2>2, Zenon
  <2>4. ends \in BOOLEAN /\ IsInjective(result)
    BY <1>1, <2>1, Zenon
  <2> HIDE DEF ends
  <2>5. /\ LookupLevel(acc, level) \in Found
        /\ LookupLevel(acc, level).candidates = result /\ LookupLevel(acc, level).ended = ends
    BY <2>3, <2>4 DEF Found
  <2> QED
    BY <1>3, <2>1, <2>5, Zenon DEF ends
<1> QED
  BY <1>1, <1>2, <1>3

(* A lookup goes through the levels one at a time. *)
LEMMA LookupFold ==
  ASSUME NEW n \in Nat, NEW levels \in [1 .. n -> Seq(Symbols)]
  PROVE  \E run \in [0 .. n -> Found] :
           /\ run[0] = Nothing
           /\ \A k \in 1 .. n : run[k] = LookupLevel(run[k - 1], levels[k])
           /\ FoldLeft(LookupLevel, Nothing, levels) = run[n]
<1> DEFINE S == Found
           base == Nothing
           F == [i \in 1 .. n |-> [x \in S |-> LookupLevel(x, levels[i])]]
           Step(g, s) == IF s = {} THEN base ELSE LookupLevel(g[s \ {Max(s)}], levels[Max(s)])
           h == CHOOSE g : g = [s \in SUBSET (DOMAIN levels) |-> Step(g, s)]
<1>1. DOMAIN levels = 1 .. n /\ base \in S
  <2>1. <<>> \in Seq(Symbols) /\ IsInjective(<<>>)
    BY DEF IsInjective
  <2> QED
    BY <2>1 DEF Found, Nothing
<1>2. \A i \in 1 .. n : \A x \in S : LookupLevel(x, levels[i]) \in S
  BY LevelLemma
<1>3. F \in [1 .. n -> [S -> S]] /\ \A i \in 1 .. n : \A x \in S : F[i][x] = LookupLevel(x, levels[i])
  BY <1>2
<1>4. FoldLeft(LookupLevel, base, levels) = h[DOMAIN levels]
  BY DEF FoldLeft, MapThenFoldSet
<1> HIDE DEF S, F, Step, base
<1>5. Folds(S, n, base, F)
  BY <1>1, <1>3 DEF Folds
<1>6. PICK g : IsFold(g, S, n, base, F)
  BY <1>5, FoldExists
<1>7. ASSUME NEW s \in SUBSET (1 .. n)  PROVE g[s] = Step(g, s)
  <2>1. CASE s = {}
    BY <1>6, <2>1 DEF IsFold, Step
  <2>2. CASE s # {}
    <3>1. g[s \ {Max(s)}] \in S
      BY <1>6 DEF IsFold
    <3> QED
      BY <1>3, <1>6, <2>2, <3>1 DEF IsFold, Step
  <2> QED
    BY <2>1, <2>2
<1>8. g = [s \in SUBSET (DOMAIN levels) |-> Step(g, s)]
  BY <1>1, <1>6, <1>7 DEF IsFold
<1>9. h = [s \in SUBSET (DOMAIN levels) |-> Step(h, s)]
  BY <1>8
<1> HIDE DEF h
<1>10. Recurs(h, S, n, base, F)
  BY <1>1, <1>3, <1>9 DEF Recurs, Step
<1>11. PICK run : Gathers(run, S, n, base, F) /\ run[n] = h[1 .. n]
  BY <1>5, <1>10, FoldSteps
<1>12. run \in [0 .. n -> S] /\ run[0] = base /\ \A k \in 1 .. n : run[k] = F[k][run[k - 1]]
  BY <1>11 DEF Gathers
<1>13. \A k \in 1 .. n : run[k] = LookupLevel(run[k - 1], levels[k])
  <2>1. \A k \in 1 .. n : k - 1 \in 0 .. n
    OBVIOUS
  <2> QED
    BY <1>3, <1>12, <2>1
<1>14. FoldLeft(LookupLevel, base, levels) = run[n]
  BY <1>1, <1>4, <1>11
<1> QED
  BY <1>12, <1>13, <1>14, Zenon DEF S, base

-----------------------------------------------------------------------------

Homographs(x, y) == <<x.kind, x.profile, x.result>> = <<y.kind, y.profile, y.result>>
Hides(t, s) == ~Overloadable(t) \/ Homographs(t, s)

\* Nothing found in the levels from k + 1 to d hides s.
Reaches(shown, d, found, s, k) ==
    \A j \in (k + 1) .. d : \A t \in shown[j] \cap found : ~Hides(t, s)

\* What a lookup knows when it has been through the levels from d down to m.
SearchedDownTo(m, shown, d, found, ended) ==
    /\ found \subseteq Symbols
    /\ ended <=> \E t \in found : ~Overloadable(t)
    /\ \A s \in Symbols :
          s \in found <=> \E k \in m .. d : s \in shown[k] /\ Reaches(shown, d, found, s, k)
    /\ \A s, t \in found :
          (s # t /\ Homographs(s, t)) => \E k \in m .. d : s \in shown[k] /\ t \in shown[k]

(* Declarations with one profile are homographs, and the other way round for *)
(* what can be overloaded.                                                   *)
LEMMA ProfilesAgree ==
  ASSUME NEW x, NEW y
  PROVE  SameProfile(x, y) <=> Overloadable(x) /\ Homographs(x, y)
BY DEF SameProfile, Homographs

(* A search that has not ended takes from the next level what is not hidden. *)
LEMMA OneMoreLevel ==
  ASSUME NEW d \in Nat, NEW m \in 1 .. d, NEW shown \in [1 .. d -> SUBSET Symbols],
         NEW found, NEW next, NEW ends, SearchedDownTo(m + 1, shown, d, found, FALSE),
         next = found \cup {s \in shown[m] : ~\E t \in found : SameProfile(t, s)},
         ends = (\E s \in shown[m] : (~\E t \in found : SameProfile(t, s)) /\ ~Overloadable(s))
  PROVE  SearchedDownTo(m, shown, d, next, ends)
<1>1. found \subseteq Symbols /\ \A t \in found : Overloadable(t)
  BY DEF SearchedDownTo
<1>2. \A t \in found : \A s : SameProfile(t, s) <=> Hides(t, s)
  BY <1>1, ProfilesAgree DEF Hides
<1>3. /\ next \subseteq Symbols /\ found \subseteq next
      /\ \A s \in next : s \notin found => s \in shown[m] /\ \A t \in found : ~Hides(t, s)
      /\ \A s \in shown[m] : (\A t \in found : ~Hides(t, s)) => s \in next
  BY <1>1, <1>2
<1>4. \A k : k \in m .. d <=> k = m \/ k \in (m + 1) .. d
  OBVIOUS
<1>5. \A s \in Symbols :
        s \in found <=> \E k \in (m + 1) .. d : s \in shown[k] /\ Reaches(shown, d, found, s, k)
  BY DEF SearchedDownTo
<1>6. \A k \in (m + 1) .. d : \A j \in (k + 1) .. d : j \in (m + 1) .. d
  OBVIOUS
\* What is new is shown by no level further in: it would have been found there.
<1>7. ASSUME NEW j \in (m + 1) .. d, NEW t \in shown[j], t \in next  PROVE t \in found
  <2>1. SUFFICES ASSUME t \notin found PROVE FALSE
    OBVIOUS
  <2>2. t \in Symbols /\ \A u \in found : ~Hides(u, t)
    BY <1>3, <1>7, <2>1
  <2>3. Reaches(shown, d, found, t, j)
    BY <2>2 DEF Reaches
  <2> QED
    BY <1>5, <2>1, <2>2, <2>3
<1>8. \A s : \A k \in m .. d : Reaches(shown, d, next, s, k) <=> Reaches(shown, d, found, s, k)
  <2> SUFFICES ASSUME NEW s, NEW k \in m .. d
               PROVE  Reaches(shown, d, next, s, k) <=> Reaches(shown, d, found, s, k)
    OBVIOUS
  <2>1. \A j \in (k + 1) .. d : j \in (m + 1) .. d
    OBVIOUS
  <2>2. \A j \in (k + 1) .. d : shown[j] \cap next = shown[j] \cap found
    BY <1>3, <1>7, <2>1
  <2> QED
    BY <2>2 DEF Reaches
<1>9. \A s \in next \ found : Reaches(shown, d, next, s, m)
  <2>1. \A s \in next \ found : Reaches(shown, d, found, s, m)
    BY <1>3 DEF Reaches
  <2> QED
    BY <1>4, <1>8, <2>1
<1>10. \A t \in found : \E j \in (m + 1) .. d : t \in shown[j]
  BY <1>1, <1>5
<1>11. ASSUME NEW s \in shown[m], Reaches(shown, d, next, s, m)  PROVE s \in next
  <2>1. Reaches(shown, d, found, s, m)
    BY <1>4, <1>8, <1>11
  <2>2. \A t \in found : ~Hides(t, s)
    BY <1>10, <2>1 DEF Reaches
  <2> QED
    BY <1>3, <2>2
<1>12. ASSUME NEW s \in Symbols
       PROVE  s \in next <=> \E k \in m .. d : s \in shown[k] /\ Reaches(shown, d, next, s, k)
  <2>1. CASE s \in found
    BY <1>3, <1>4, <1>5, <1>8, <2>1
  <2>2. CASE s \in next \ found
    BY <1>3, <1>4, <1>9, <2>2
  <2>3. ASSUME NEW k \in m .. d, s \in shown[k], Reaches(shown, d, next, s, k)
        PROVE  s \in next
    <3>1. CASE k = m
      BY <1>11, <2>3, <3>1
    <3>2. CASE k \in (m + 1) .. d
      BY <1>3, <1>5, <1>8, <2>3, <3>2
    <3> QED
      BY <1>4, <3>1, <3>2
  <2> QED
    BY <2>1, <2>2, <2>3
<1>13. ASSUME NEW s \in next, NEW t \in next, s # t, Homographs(s, t)
       PROVE  \E k \in m .. d : s \in shown[k] /\ t \in shown[k]
  <2>1. CASE s \in found /\ t \in found
    BY <1>4, <1>13, <2>1 DEF SearchedDownTo
  <2>2. CASE s \notin found /\ t \notin found
    BY <1>3, <1>4, <2>2
  <2>3. Homographs(t, s)
    BY <1>13 DEF Homographs
  <2>4. s \in found <=> t \in found
    BY <1>3, <1>13, <2>3 DEF Hides
  <2> QED
    BY <2>1, <2>2, <2>4
<1>14. ends <=> \E t \in next : ~Overloadable(t)
  BY <1>1, <1>2, <1>3
<1> QED
  BY <1>3, <1>12, <1>13, <1>14 DEF SearchedDownTo

(* One that has ended finds nothing further out: everything is hidden there. *)
LEMMA NoMoreLevels ==
  ASSUME NEW d \in Nat, NEW m \in 1 .. d, NEW shown, NEW found,
         SearchedDownTo(m + 1, shown, d, found, TRUE)
  PROVE  SearchedDownTo(m, shown, d, found, TRUE)
<1>1. PICK t \in found : ~Overloadable(t)
  BY DEF SearchedDownTo
<1>2. PICK j \in (m + 1) .. d : t \in shown[j]
  BY <1>1 DEF SearchedDownTo
<1>3. \A s : ~Reaches(shown, d, found, s, m)
  BY <1>1, <1>2 DEF Reaches, Hides
<1>4. \A k : k \in m .. d <=> k = m \/ k \in (m + 1) .. d
  OBVIOUS
<1> QED
  BY <1>3, <1>4 DEF SearchedDownTo

-----------------------------------------------------------------------------

ScopesTypeOK == scopes \in Seq([local : Seq(Symbols), used : Seq(Packages)]) /\ Depth >= 1

(* The scopes keep their type. *)
LEMMA ScopesTyped == ScopeSpec => []ScopesTypeOK
<1> DEFINE Level == [local : Seq(Symbols), used : Seq(Packages)]
           empty == [local |-> <<>>, used |-> <<>>]
<1>1. empty \in Level
  OBVIOUS
<1>2. ScopeInit => ScopesTypeOK
  BY <1>1 DEF ScopeInit, ScopesTypeOK, Depth
<1>3. ScopesTypeOK /\ [ScopeNext]_scopeVars => ScopesTypeOK'
  <2> SUFFICES ASSUME ScopesTypeOK, [ScopeNext]_scopeVars  PROVE ScopesTypeOK'
    OBVIOUS
  <2> DEFINE top == scopes[Depth]
  <2>1. scopes \in Seq(Level) /\ Depth \in Nat /\ Depth \in 1 .. Len(scopes) /\ top \in Level
    <3>1. scopes \in Seq(Level) /\ Depth = Len(scopes) /\ Depth >= 1
      BY DEF ScopesTypeOK, Depth
    <3> HIDE DEF Level
    <3>2. Len(scopes) \in Nat /\ \A k \in 1 .. Len(scopes) : scopes[k] \in Level
      BY <3>1
    <3> QED
      BY <3>1, <3>2
  <2>2. top.local \in Seq(Symbols) /\ top.used \in Seq(Packages)
    BY <2>1
  <2> HIDE DEF Level
  <2>3. ASSUME NEW s \in Symbols, Declare(s)  PROVE ScopesTypeOK'
    <3>1. Append(top.local, s) \in Seq(Symbols)
      BY <2>2
    <3>2. [top EXCEPT !.local = Append(@, s)] \in Level
      BY <2>1, <3>1 DEF Level
    <3>3. scopes' = [scopes EXCEPT ![Depth] = [top EXCEPT !.local = Append(@, s)]]
      BY <2>3 DEF Declare
    <3>4. scopes' \in Seq(Level) /\ Len(scopes') = Len(scopes)
      BY <2>1, <3>2, <3>3
    <3> QED
      BY <2>1, <3>4 DEF ScopesTypeOK, Depth, Level
  <2>4. ASSUME NEW p \in Packages, UsePackage(p)  PROVE ScopesTypeOK'
    <3>1. PICK used \in Seq(Packages) : used = IF p \in Range(top.used) THEN top.used ELSE Append(top.used, p)
      <4>1. Append(top.used, p) \in Seq(Packages)
        BY <2>2
      <4> QED
        BY <2>2, <4>1
    <3>2. [top EXCEPT !.used = used] \in Level
      BY <2>1, <3>1 DEF Level
    <3>3. scopes' = [scopes EXCEPT ![Depth] = [top EXCEPT !.used = used]]
      BY <2>4, <3>1 DEF UsePackage
    <3>4. scopes' \in Seq(Level) /\ Len(scopes') = Len(scopes)
      BY <2>1, <3>2, <3>3
    <3> QED
      BY <2>1, <3>4 DEF ScopesTypeOK, Depth, Level
  <2>5. CASE EnterScope
    <3>1. scopes' = Append(scopes, empty)
      BY <2>5 DEF EnterScope
    <3>2. scopes' \in Seq(Level) /\ Len(scopes') = Len(scopes) + 1
      BY <1>1, <2>1, <3>1 DEF Level
    <3> QED
      BY <2>1, <3>2 DEF ScopesTypeOK, Depth, Level
  <2>6. CASE LeaveScope
    <3>1. scopes' = SubSeq(scopes, 1, Len(scopes) - 1) /\ Len(scopes) > 1
      BY <2>6 DEF LeaveScope, Depth
    <3>2. scopes' \in Seq(Level) /\ Len(scopes') = Len(scopes) - 1
      BY <2>1, <3>1
    <3> QED
      BY <2>1, <3>1, <3>2 DEF ScopesTypeOK, Depth, Level
  <2>7. CASE UNCHANGED scopeVars
    BY <2>7 DEF scopeVars, ScopesTypeOK, Depth
  <2> QED
    BY <2>3, <2>4, <2>5, <2>6, <2>7 DEF ScopeNext
<1> QED
  BY <1>2, <1>3, PTL DEF ScopeSpec

(* What a scope shows are declarations of the name. *)
LEMMA ShownLemma ==
  ASSUME ScopesTypeOK, NEW k \in 1 .. Depth
  PROVE  AtLevel(k) \in Seq(Symbols)
<1>1. scopes[k].local \in Seq(Symbols) /\ scopes[k].used \in Seq(Packages)
  <2> DEFINE Level == [local : Seq(Symbols), used : Seq(Packages)]
  <2>1. scopes[k] \in Level
    <3>1. scopes \in Seq(Level) /\ k \in 1 .. Len(scopes)
      BY DEF ScopesTypeOK, Depth
    <3> HIDE DEF Level
    <3> QED
      BY <3>1
  <2> QED
    BY <2>1
<1>2. FoldLeft(LAMBDA found, p : found \o DeclaredIn[p], <<>>, scopes[k].used) \in Seq(Symbols)
  BY <1>1, UsedFold
<1> QED
  BY <1>1, <1>2, Zenon DEF AtLevel

(* What a lookup has found when it has been through all scopes. *)
LEMMA LookupLemma ==
  ASSUME ScopesTypeOK
  PROVE  \E acc \in Found, shown \in [1 .. Depth -> SUBSET Symbols] :
           /\ Lookup = acc.candidates
           /\ shown = [k \in 1 .. Depth |-> Range(AtLevel(k))]
           /\ SearchedDownTo(1, shown, Depth, Range(acc.candidates), acc.ended)
<1>1. PICK d \in Nat : d = Depth
  BY DEF ScopesTypeOK, Depth
<1>2. PICK levels \in [1 .. d -> Seq(Symbols)] : levels = [i \in 1 .. Depth |-> AtLevel(Depth + 1 - i)]
  <2>1. \A i \in 1 .. d : Depth + 1 - i \in 1 .. Depth
    BY <1>1
  <2>2. \A i \in 1 .. d : AtLevel(Depth + 1 - i) \in Seq(Symbols)
    BY <2>1, ShownLemma
  <2> QED
    BY <1>1, <2>2
<1>3. PICK shown \in [1 .. d -> SUBSET Symbols] : shown = [k \in 1 .. Depth |-> Range(AtLevel(k))]
  <2>1. \A k \in 1 .. Depth : Range(AtLevel(k)) \subseteq Symbols
    <3> SUFFICES ASSUME NEW k \in 1 .. Depth  PROVE Range(AtLevel(k)) \subseteq Symbols
      OBVIOUS
    <3>1. AtLevel(k) \in Seq(Symbols)
      BY ShownLemma
    <3> QED
      BY <3>1 DEF Range
  <2> QED
    BY <1>1, <2>1
<1>4. \A i \in 1 .. d : d + 1 - i \in 1 .. d /\ Range(levels[i]) = shown[d + 1 - i]
  BY <1>1, <1>2, <1>3
<1>5. PICK run \in [0 .. d -> Found] :
        /\ run[0] = Nothing
        /\ \A k \in 1 .. d : run[k] = LookupLevel(run[k - 1], levels[k])
        /\ FoldLeft(LookupLevel, Nothing, levels) = run[d]
  BY LookupFold
<1> DEFINE Right(i) == SearchedDownTo(d + 1 - i, shown, d, Range(run[i].candidates), run[i].ended)
           G == {i \in 0 .. d : Right(i)}
<1>6. 0 \in G
  <2>1. Range(run[0].candidates) = {} /\ run[0].ended = FALSE
    BY <1>5 DEF Nothing, Range
  <2>2. (d + 1 - 0) .. d = {} /\ 0 \in 0 .. d
    OBVIOUS
  <2> QED
    BY <2>1, <2>2 DEF SearchedDownTo
<1>7. \A i \in 1 .. d : i - 1 \in G => i \in G
  <2> SUFFICES ASSUME NEW i \in 1 .. d, i - 1 \in G  PROVE i \in G
    OBVIOUS
  <2> DEFINE m == d + 1 - i
             acc == run[i - 1]
             found == Range(acc.candidates)
  <2>1. m \in 1 .. d /\ d + 1 - (i - 1) = m + 1 /\ i - 1 \in 0 .. d /\ i \in 0 .. d
    OBVIOUS
  <2>2. acc \in Found /\ levels[i] \in Seq(Symbols) /\ run[i] = LookupLevel(acc, levels[i])
    BY <1>5, <2>1
  <2>3. SearchedDownTo(m + 1, shown, d, found, acc.ended) /\ Range(levels[i]) = shown[m]
    BY <1>4, <2>1
  <2> HIDE DEF m, acc
  <2>4. CASE acc.ended
    <3>1. run[i] = acc /\ acc.ended = TRUE
      BY <2>2, <2>4, LevelLemma DEF Found
    <3>2. SearchedDownTo(m, shown, d, found, TRUE)
      BY <2>1, <2>3, <3>1, NoMoreLevels
    <3>3. SearchedDownTo(m, shown, d, Range(run[i].candidates), run[i].ended)
      BY <3>1, <3>2
    <3> QED
      BY <2>1, <3>3 DEF m
  <2>5. CASE ~acc.ended
    <3>1. acc.ended = FALSE
      BY <2>2, <2>5 DEF Found
    <3>2. /\ Range(run[i].candidates)
               = found \cup {s \in shown[m] : ~\E t \in found : SameProfile(t, s)}
          /\ run[i].ended
               = (\E s \in shown[m] : (~\E t \in found : SameProfile(t, s)) /\ ~Overloadable(s))
      <4> DEFINE level == levels[i]
      <4>1. /\ Range(run[i].candidates) = found \cup {s \in Range(level) : ~IsHidden(acc.candidates, s)}
            /\ run[i].ended = (\E s \in Range(level) : ~IsHidden(acc.candidates, s) /\ ~Overloadable(s))
        BY <2>2, <2>5, LevelLemma
      <4> HIDE DEF level
      <4> QED
        BY <2>3, <4>1 DEF IsHidden, level
    <3>3. SearchedDownTo(m + 1, shown, d, found, FALSE)
      BY <2>3, <3>1
    <3> HIDE DEF found
    <3>4. PICK next, ends : next = Range(run[i].candidates) /\ ends = run[i].ended
      OBVIOUS
    <3>5. SearchedDownTo(m, shown, d, next, ends)
      BY <2>1, <3>2, <3>3, <3>4, OneMoreLevel
    <3> QED
      BY <2>1, <3>4, <3>5 DEF m
  <2> QED
    BY <2>4, <2>5
<1> HIDE DEF G
<1>8. \A i \in 0 .. d : i \in G
  BY <1>6, <1>7, Upwards
<1>9. Right(d)
  BY <1>8 DEF G
<1>10. Lookup = run[d].candidates
  BY <1>2, <1>5, Zenon DEF Lookup, Nothing
<1>11. d + 1 - d = 1 /\ run[d] \in Found
  OBVIOUS
<1> QED
  BY <1>1, <1>3, <1>9, <1>10, <1>11

(* As many candidates as declarations found. *)
LEMMA EachOnce ==
  ASSUME NEW c \in Seq(Symbols), IsInjective(c)
  PROVE  Len(c) = Cardinality(Range(c))
<1>1. c \in Bijection(1 .. Len(c), Range(c)) /\ Len(c) \in Nat
  BY DEF Bijection, Injection, Surjection, IsInjective, Range
<1>2. ExistsBijection(1 .. Len(c), Range(c))
  BY <1>1 DEF ExistsBijection
<1> QED
  BY <1>1, <1>2, FS_CountingElements

(* However deep scopes nest and whatever they declare and use, a name means *)
(* the innermost of what has its profile.                                   *)
THEOREM NamesMeanTheInnermost == ScopeSpec => []InnermostProfileWins
<1>1. ScopesTypeOK => InnermostProfileWins
  <2> SUFFICES ASSUME ScopesTypeOK  PROVE InnermostProfileWins
    OBVIOUS
  <2>1. PICK acc \in Found, shown \in [1 .. Depth -> SUBSET Symbols] :
          /\ Lookup = acc.candidates
          /\ shown = [k \in 1 .. Depth |-> Range(AtLevel(k))]
          /\ SearchedDownTo(1, shown, Depth, Range(acc.candidates), acc.ended)
    BY LookupLemma
  <2> DEFINE candidates == Lookup
             found == Range(candidates)
             view == [k \in 1 .. Depth |-> Range(AtLevel(k))]
  <2>2. candidates = acc.candidates /\ view = shown
    BY <2>1
  <2>3. candidates \in Seq(Symbols) /\ IsInjective(candidates)
    BY <2>2 DEF Found
  <2> HIDE DEF candidates, view
  <2>4. /\ found \subseteq Symbols
        /\ \A s \in Symbols :
              s \in found <=> \E k \in 1 .. Depth : s \in view[k] /\ Reaches(view, Depth, found, s, k)
        /\ \A s, t \in found :
              (s # t /\ Homographs(s, t)) => \E k \in 1 .. Depth : s \in view[k] /\ t \in view[k]
    BY <2>1, <2>2 DEF SearchedDownTo
  <2>5. Len(candidates) = Cardinality(found)
    BY <2>3, EachOnce
  <2>6. ASSUME NEW expected \in Results, NEW s \in found, Overloadable(s), Interprets(s, expected),
               s \notin Interpretations(candidates, expected)
        PROVE  \E k \in 1 .. Depth : \E t \in view[k] \cap found : ~Overloadable(t)
    <3>1. PICK i \in DOMAIN candidates : ~Overloadable(candidates[i])
      BY <2>6 DEF Interpretations
    <3>2. candidates[i] \in found
      BY DEF Range
    <3> QED
      BY <2>4, <3>1, <3>2
  <2>7. \A s \in Symbols :
          s \in found <=>
            \E k \in 1 .. Depth :
               s \in view[k]
               /\ \A j \in (k + 1) .. Depth : \A t \in view[j] \cap found :
                     ~(~Overloadable(t) \/ <<t.kind, t.profile, t.result>> = <<s.kind, s.profile, s.result>>)
    BY <2>4, Zenon DEF Reaches, Hides, Homographs
  <2>8. \A s, t \in found :
          (s # t /\ <<s.kind, s.profile, s.result>> = <<t.kind, t.profile, t.result>>)
             => \E k \in 1 .. Depth : {s, t} \subseteq view[k]
    BY <2>4 DEF Homographs
  <2>9. \A expected \in Results, s \in found :
           (Overloadable(s) /\ Interprets(s, expected)) =>
              \/ s \in Interpretations(candidates, expected)
              \/ \E k \in 1 .. Depth : \E t \in view[k] \cap found : ~Overloadable(t)
    BY <2>6
  <2> QED
    BY <2>5, <2>7, <2>8, <2>9, Zenon DEF InnermostProfileWins, candidates, view
<1> QED
  BY <1>1, ScopesTyped, PTL

(* Aligning moves on to a multiple, and never back. *)
LEMMA AlignUpLemma ==
  ASSUME NEW at \in Nat, NEW alignment \in Nat \ {0}
  PROVE  /\ AlignUp(at, alignment) \in Nat /\ AlignUp(at, alignment) >= at
         /\ AlignUp(at, alignment) % alignment = 0
<1>1. PICK q \in Int, r \in Int :
        at = alignment * q + r /\ 0 <= r /\ r < alignment /\ r = at % alignment
  <2> DEFINE q == at \div alignment
             r == at % alignment
  <2>1. q \in Int /\ r \in Int /\ at = alignment * q + r /\ 0 <= r /\ r < alignment
    OBVIOUS
  <2> QED
    BY <2>1
<1>2. \A k \in Int : (alignment * k) % alignment = 0
  OBVIOUS
<1>3. (alignment * q) % alignment = 0 /\ (alignment * (q + 1)) % alignment = 0
  BY <1>2
<1>4. CASE at % alignment = 0
  BY <1>4 DEF AlignUp
<1>5. CASE at % alignment # 0
  <2>1. AlignUp(at, alignment) = alignment * (q + 1) /\ AlignUp(at, alignment) = at + alignment - r
    BY <1>1, <1>5 DEF AlignUp
  <2> QED
    BY <1>1, <1>3, <2>1
<1> QED
  BY <1>4, <1>5

-----------------------------------------------------------------------------
(* The folds over the alternatives.                                        *)

\* Which of the first k alternatives have the value in a choice.
Named(k, value) == {i \in 1 .. k : ~resolved[i].isOthers /\ Names(i, value)}
Others(k) == {i \in 1 .. k : resolved[i].isOthers}
IsFirst(x, set) == x \in set /\ \A y \in set : x <= y
IsLast(x, set) == x \in set /\ \A y \in set : y <= x

(* The tests of a comparison end at the first alternative that has the value. *)
LEMMA TestsFold ==
  ASSUME NEW n \in Nat, DOMAIN resolved = 1 .. n, NEW value
  PROVE  \E label \in 0 .. n :
           /\ label = FoldLeft(LAMBDA l, i :
                        IF l = 0 /\ ~resolved[i].isOthers /\ Names(i, value) THEN i ELSE l,
                        0, [i \in DOMAIN resolved |-> i])
           /\ IF Named(n, value) = {} THEN label = 0 ELSE IsFirst(label, Named(n, value))
<1> DEFINE Op(l, i) == IF l = 0 /\ ~resolved[i].isOthers /\ Names(i, value) THEN i ELSE l
           seq == [i \in DOMAIN resolved |-> i]
           S == 0 .. n
           F == [i \in 1 .. n |-> [x \in S |-> Op(x, i)]]
           start == 0
           Step(g, s) == IF s = {} THEN start ELSE Op(g[s \ {Max(s)}], seq[Max(s)])
           h == CHOOSE g : g = [s \in SUBSET (DOMAIN seq) |-> Step(g, s)]
<1>1. DOMAIN seq = 1 .. n /\ start \in S /\ \A i \in 1 .. n : seq[i] = i
  OBVIOUS
<1>2. \A i \in 1 .. n : \A x \in S : Op(x, i) \in S
  OBVIOUS
<1>3. FoldLeft(Op, start, seq) = h[DOMAIN seq]
  BY DEF FoldLeft, MapThenFoldSet
<1>4. F \in [1 .. n -> [S -> S]] /\ \A i \in 1 .. n : \A x \in S : F[i][x] = Op(x, i)
  BY <1>2
<1> HIDE DEF Op, S, F, Step, start, seq
<1>5. Folds(S, n, start, F)
  BY <1>1, <1>4 DEF Folds
<1>6. PICK g : IsFold(g, S, n, start, F)
  BY <1>5, FoldExists
<1>7. ASSUME NEW s \in SUBSET (1 .. n)  PROVE g[s] = Step(g, s)
  <2>1. CASE s = {}
    BY <1>6, <2>1 DEF IsFold, Step
  <2>2. CASE s # {}
    <3>1. g[s \ {Max(s)}] \in S
      BY <1>6 DEF IsFold
    <3> QED
      BY <1>1, <1>4, <1>6, <2>2, <3>1 DEF IsFold, Step
  <2> QED
    BY <2>1, <2>2
<1>8. g = [s \in SUBSET (DOMAIN seq) |-> Step(g, s)]
  BY <1>1, <1>6, <1>7 DEF IsFold
<1>9. h = [s \in SUBSET (DOMAIN seq) |-> Step(h, s)]
  BY <1>8
<1> HIDE DEF h
<1>10. Recurs(h, S, n, start, F)
  <2> SUFFICES ASSUME NEW s \in SUBSET (1 .. n)
               PROVE  /\ s = {} => h[s] = start
                      /\ (s # {} /\ Max(s) \in 1 .. n /\ h[s \ {Max(s)}] \in S)
                            => h[s] = F[Max(s)][h[s \ {Max(s)}]]
    BY DEF Recurs
  <2>1. h[s] = Step(h, s)
    BY <1>1, <1>9
  <2> QED
    BY <1>1, <1>4, <2>1 DEF Step
<1>11. PICK run : Gathers(run, S, n, start, F) /\ run[n] = h[1 .. n]
  BY <1>5, <1>10, FoldSteps
<1> DEFINE Right(k) == IF Named(k, value) = {} THEN run[k] = 0 ELSE IsFirst(run[k], Named(k, value))
           G == {k \in 0 .. n : Right(k)}
<1>12. 0 \in G
  <2>1. Named(0, value) = {} /\ run[0] = 0 /\ 0 \in 0 .. n
    BY <1>11 DEF Gathers, Named, start
  <2> QED
    BY <2>1
<1>13. \A k \in 1 .. n : k - 1 \in G => k \in G
  <2> SUFFICES ASSUME NEW k \in 1 .. n, k - 1 \in G  PROVE k \in G
    OBVIOUS
  <2>1. Right(k - 1) /\ k - 1 \in 0 .. n /\ k \in 0 .. n
    BY <1>1
  <2>2. run[k] = Op(run[k - 1], k)
    BY <1>4, <1>11, <2>1 DEF Gathers
  <2>3. \A i : i \in 1 .. k <=> i \in 1 .. (k - 1) \/ i = k
    OBVIOUS
  <2>4. CASE ~resolved[k].isOthers /\ Names(k, value)
    <3>1. Named(k, value) = Named(k - 1, value) \cup {k}
      BY <2>3, <2>4 DEF Named
    <3>2. \A i \in Named(k - 1, value) : i \in 1 .. (k - 1)
      BY DEF Named
    <3> QED
      BY <2>1, <2>2, <2>4, <3>1, <3>2 DEF Op, IsFirst
  <2>5. CASE ~(~resolved[k].isOthers /\ Names(k, value))
    <3>1. Named(k, value) = Named(k - 1, value)
      BY <2>3, <2>5 DEF Named
    <3> QED
      BY <2>1, <2>2, <2>5, <3>1 DEF Op
  <2> QED
    BY <2>4, <2>5
<1> HIDE DEF G
<1>14. \A k \in 0 .. n : k \in G
  BY <1>12, <1>13, Upwards
<1>15. n \in G
  BY <1>14
<1>16. Right(n) /\ run[n] \in 0 .. n
  BY <1>11, <1>15 DEF G, Gathers, S
<1>17. FoldLeft(Op, start, seq) = run[n]
  BY <1>1, <1>3, <1>11
<1> QED
  BY <1>16, <1>17, Zenon DEF Op, start, seq

(* variantFor answers the first alternative that has the value, and without one *)
(* the last that is for all others.                                             *)
LEMMA LookFold ==
  ASSUME NEW n \in Nat, DOMAIN resolved = 1 .. n, NEW value
  PROVE  \E answer \in 0 .. n :
           /\ answer = VariantFor(value)
           /\ Named(n, value) # {} => IsFirst(answer, Named(n, value))
           /\ (Named(n, value) = {} /\ Others(n) # {}) => IsLast(answer, Others(n))
           /\ (Named(n, value) = {} /\ Others(n) = {}) => answer = 0
<1> DEFINE Op(answer, i) ==
              IF answer.found THEN answer
              ELSE IF resolved[i].isOthers THEN [answer EXCEPT !.variant = i]
              ELSE IF Names(i, value) THEN [found |-> TRUE, variant |-> i]
              ELSE answer
           seq == [i \in DOMAIN resolved |-> i]
           S == [found : BOOLEAN, variant : 0 .. n]
           F == [i \in 1 .. n |-> [x \in S |-> Op(x, i)]]
           start == [found |-> FALSE, variant |-> 0]
           Step(g, s) == IF s = {} THEN start ELSE Op(g[s \ {Max(s)}], seq[Max(s)])
           h == CHOOSE g : g = [s \in SUBSET (DOMAIN seq) |-> Step(g, s)]
<1>1. DOMAIN seq = 1 .. n /\ start \in S /\ \A i \in 1 .. n : seq[i] = i
  OBVIOUS
<1>2. ASSUME NEW i \in 1 .. n, NEW x \in S
      PROVE  /\ Op(x, i) \in S
             /\ x.found => Op(x, i) = x
             /\ (~x.found /\ resolved[i].isOthers) => ~Op(x, i).found /\ Op(x, i).variant = i
             /\ (~x.found /\ ~resolved[i].isOthers /\ Names(i, value))
                  => Op(x, i).found /\ Op(x, i).variant = i
             /\ (~x.found /\ ~resolved[i].isOthers /\ ~Names(i, value)) => Op(x, i) = x
  <2>1. CASE x.found
    <3>1. Op(x, i) = x
      BY <2>1
    <3> QED
      BY <2>1, <3>1
  <2>2. CASE ~x.found /\ resolved[i].isOthers
    <3>1. Op(x, i) = [x EXCEPT !.variant = i]
      BY <2>2
    <3> QED
      BY <2>2, <3>1
  <2>3. CASE ~x.found /\ ~resolved[i].isOthers /\ Names(i, value)
    <3>1. Op(x, i) = [found |-> TRUE, variant |-> i]
      BY <2>3
    <3> QED
      BY <2>3, <3>1
  <2>4. CASE ~x.found /\ ~resolved[i].isOthers /\ ~Names(i, value)
    <3>1. Op(x, i) = x
      BY <2>4
    <3> QED
      BY <2>4, <3>1
  <2> QED
    BY <2>1, <2>2, <2>3, <2>4
<1>3. FoldLeft(Op, start, seq) = h[DOMAIN seq]
  BY DEF FoldLeft, MapThenFoldSet
<1>4. F \in [1 .. n -> [S -> S]] /\ \A i \in 1 .. n : \A x \in S : F[i][x] = Op(x, i)
  <2>1. \A i \in 1 .. n : \A x \in S : Op(x, i) \in S
    BY <1>2
  <2> HIDE DEF Op, S
  <2> QED
    BY <2>1
<1> HIDE DEF Op, S, F, Step, start, seq
<1>5. Folds(S, n, start, F)
  BY <1>1, <1>4 DEF Folds
<1>6. PICK g : IsFold(g, S, n, start, F)
  BY <1>5, FoldExists
<1>7. ASSUME NEW s \in SUBSET (1 .. n)  PROVE g[s] = Step(g, s)
  <2>1. CASE s = {}
    BY <1>6, <2>1 DEF IsFold, Step
  <2>2. CASE s # {}
    <3>1. g[s \ {Max(s)}] \in S
      BY <1>6 DEF IsFold
    <3> QED
      BY <1>1, <1>4, <1>6, <2>2, <3>1 DEF IsFold, Step
  <2> QED
    BY <2>1, <2>2
<1>8. g = [s \in SUBSET (DOMAIN seq) |-> Step(g, s)]
  BY <1>1, <1>6, <1>7 DEF IsFold
<1>9. h = [s \in SUBSET (DOMAIN seq) |-> Step(h, s)]
  BY <1>8
<1> HIDE DEF h
<1>10. Recurs(h, S, n, start, F)
  <2> SUFFICES ASSUME NEW s \in SUBSET (1 .. n)
               PROVE  /\ s = {} => h[s] = start
                      /\ (s # {} /\ Max(s) \in 1 .. n /\ h[s \ {Max(s)}] \in S)
                            => h[s] = F[Max(s)][h[s \ {Max(s)}]]
    BY DEF Recurs
  <2>1. h[s] = Step(h, s)
    BY <1>1, <1>9
  <2> QED
    BY <1>1, <1>4, <2>1 DEF Step
<1>11. PICK run : Gathers(run, S, n, start, F) /\ run[n] = h[1 .. n]
  BY <1>5, <1>10, FoldSteps
<1> DEFINE Right(k) ==
              /\ run[k].found <=> Named(k, value) # {}
              /\ Named(k, value) # {} => IsFirst(run[k].variant, Named(k, value))
              /\ (Named(k, value) = {} /\ Others(k) # {}) => IsLast(run[k].variant, Others(k))
              /\ (Named(k, value) = {} /\ Others(k) = {}) => run[k].variant = 0
           G == {k \in 0 .. n : Right(k)}
<1>12. 0 \in G
  <2>1. /\ Named(0, value) = {} /\ Others(0) = {} /\ 0 \in 0 .. n
        /\ run[0].found = FALSE /\ run[0].variant = 0
    BY <1>11 DEF Gathers, Named, Others, start
  <2> QED
    BY <2>1
<1>13. \A k \in 1 .. n : k - 1 \in G => k \in G
  <2> SUFFICES ASSUME NEW k \in 1 .. n, k - 1 \in G  PROVE k \in G
    OBVIOUS
  <2>1. Right(k - 1) /\ k - 1 \in 0 .. n /\ k \in 0 .. n
    BY <1>1
  <2> DEFINE x == run[k - 1]
  <2>2. x \in S /\ run[k] = Op(x, k)
    BY <1>4, <1>11, <2>1 DEF Gathers
  <2>3. \A i : i \in 1 .. k <=> i \in 1 .. (k - 1) \/ i = k
    OBVIOUS
  <2>4. /\ \A i \in Named(k - 1, value) : i \in 1 .. (k - 1)
        /\ \A i \in Others(k - 1) : i \in 1 .. (k - 1)
    BY DEF Named, Others
  <2> HIDE DEF x, G
  <2>5. CASE resolved[k].isOthers
    <3>1. Named(k, value) = Named(k - 1, value) /\ Others(k) = Others(k - 1) \cup {k}
      BY <2>3, <2>5 DEF Named, Others
    <3>2. Right(k)
      BY <1>2, <2>1, <2>2, <2>4, <2>5, <3>1 DEF IsLast, IsFirst, x
    <3> QED
      BY <2>1, <3>2 DEF G
  <2>6. CASE ~resolved[k].isOthers /\ Names(k, value)
    <3>1. Named(k, value) = Named(k - 1, value) \cup {k} /\ Others(k) = Others(k - 1)
      BY <2>3, <2>6 DEF Named, Others
    <3>2. Right(k)
      BY <1>2, <2>1, <2>2, <2>4, <2>6, <3>1 DEF IsFirst, x
    <3> QED
      BY <2>1, <3>2 DEF G
  <2>7. CASE ~resolved[k].isOthers /\ ~Names(k, value)
    <3>1. Named(k, value) = Named(k - 1, value) /\ Others(k) = Others(k - 1)
      BY <2>3, <2>7 DEF Named, Others
    <3>2. run[k] = run[k - 1]
      BY <1>2, <2>2, <2>7 DEF x
    <3> QED
      BY <2>1, <3>1, <3>2 DEF G
  <2> QED
    BY <2>5, <2>6, <2>7
<1> HIDE DEF G
<1>14. \A k \in 0 .. n : k \in G
  BY <1>12, <1>13, Upwards
<1>15. n \in G
  BY <1>14
<1>16. Right(n) /\ run[n] \in S
  BY <1>11, <1>15 DEF G, Gathers
<1>17. run[n].variant \in 0 .. n
  BY <1>16 DEF S
<1>18. FoldLeft(Op, start, seq) = run[n]
  BY <1>1, <1>3, <1>11
<1>19. VariantFor(value) = FoldLeft(Op, start, seq).variant
  BY Zenon DEF VariantFor, Op, start, seq
<1> QED
  BY <1>16, <1>17, <1>18, <1>19, Zenon

-----------------------------------------------------------------------------
(* The choices of an alternative.                                          *)

ChoiceErrors == {"nonstatic", "empty", "outside", "overlapping"}
Usable(c) == c.static /\ c.low <= c.high /\ part.low <= c.low /\ c.high <= part.high
Apart(c, d) == ~Overlap(c, d)
PartType ==
    [low : Longs, high : Longs, common : Seq(FieldRanges),
     alternatives : Seq([isOthers : BOOLEAN, choices : Seq(ChoiceRanges), fields : Seq(FieldRanges)])]
Resolution == [covered : Seq(ChoiceRanges), kept : Seq(ChoiceRanges), errors : SUBSET ChoiceErrors]

(* Ranges have their bounds. *)
LEMMA RangeLemma ==
  ASSUME NEW c \in ChoiceRanges
  PROVE  /\ c.low \in Int /\ c.high \in Int /\ -LongLast - 1 <= c.low /\ c.low <= LongLast
         /\ -LongLast - 1 <= c.high /\ c.high <= LongLast /\ c.static \in BOOLEAN
BY PartsAssumption DEF ChoiceRanges, Longs

(* It does not matter which of two ranges is named first. *)
LEMMA ApartLemma ==
  ASSUME NEW c \in ChoiceRanges, NEW d \in ChoiceRanges
  PROVE  /\ Apart(c, d) <=> Apart(d, c)
         /\ Apart(c, d) => \A v \in Int : ~(v \in c.low .. c.high /\ v \in d.low .. d.high)
         /\ (~Apart(c, d) /\ c.low <= c.high /\ d.low <= d.high)
               => \E v \in Int : v \in c.low .. c.high /\ v \in d.low .. d.high
<1>1. c.low \in Int /\ c.high \in Int /\ d.low \in Int /\ d.high \in Int
  BY RangeLemma
<1>2. ASSUME ~Apart(c, d), c.low <= c.high, d.low <= d.high
      PROVE  \E v \in Int : v \in c.low .. c.high /\ v \in d.low .. d.high
  <2>1. CASE c.low <= d.low
    BY <1>1, <1>2, <2>1 DEF Apart, Overlap
  <2>2. CASE d.low <= c.low
    BY <1>1, <1>2, <2>2 DEF Apart, Overlap
  <2> QED
    BY <1>1, <2>1, <2>2
<1>3. Apart(c, d) => \A v \in Int : ~(v \in c.low .. c.high /\ v \in d.low .. d.high)
  BY <1>1 DEF Apart, Overlap
<1>4. Apart(c, d) <=> Apart(d, c)
  BY <1>1 DEF Apart, Overlap
<1> QED
  BY <1>2, <1>3, <1>4

(* A choice is kept exactly when it is usable and no earlier one overlaps it. *)
LEMMA ResolveStep ==
  ASSUME part \in PartType, NEW acc \in Resolution, NEW choice \in ChoiceRanges
  PROVE  LET next == ResolveNext(acc, choice)
             good == Usable(choice) /\ \A d \in ToSet(acc.covered) : Apart(choice, d)
         IN  /\ next \in Resolution
             /\ good => /\ next.covered = Append(acc.covered, choice)
                        /\ next.kept = Append(acc.kept, choice)
                        /\ next.errors = acc.errors
             /\ ~good => /\ next.covered = acc.covered /\ next.kept = acc.kept
                         /\ next.errors # {}
<1> DEFINE answer == ResolveChoice(choice, acc.covered)
           good == Usable(choice) /\ \A d \in ToSet(acc.covered) : Apart(choice, d)
<1>1. part.low \in Int /\ part.high \in Int /\ choice.low \in Int /\ choice.high \in Int
  BY RangeLemma, PartsAssumption DEF PartType, Longs
<1>2. good <=> answer = "ok"
  BY <1>1 DEF ResolveChoice, Usable, Apart, ToSet
<1>3. answer # "ok" => answer \in ChoiceErrors
  BY DEF ResolveChoice, ChoiceErrors
<1> HIDE DEF answer, good
<1>4. CASE answer = "ok"
  <2>1. ResolveNext(acc, choice)
          = [acc EXCEPT !.covered = Append(@, choice), !.kept = Append(@, choice)]
    BY <1>4 DEF ResolveNext, answer
  <2>2. Append(acc.covered, choice) \in Seq(ChoiceRanges) /\ Append(acc.kept, choice) \in Seq(ChoiceRanges)
    BY DEF Resolution
  <2>3. /\ ResolveNext(acc, choice) \in Resolution
        /\ ResolveNext(acc, choice).covered = Append(acc.covered, choice)
        /\ ResolveNext(acc, choice).kept = Append(acc.kept, choice)
        /\ ResolveNext(acc, choice).errors = acc.errors
    BY <2>1, <2>2 DEF Resolution
  <2> QED
    BY <1>2, <1>4, <2>3 DEF good
<1>5. CASE answer # "ok"
  <2>1. ResolveNext(acc, choice) = [acc EXCEPT !.errors = acc.errors \cup {answer}]
    BY <1>5 DEF ResolveNext, answer
  <2>2. acc.errors \cup {answer} \in SUBSET ChoiceErrors
    BY <1>3, <1>5 DEF Resolution
  <2>3. /\ ResolveNext(acc, choice) \in Resolution
        /\ ResolveNext(acc, choice).covered = acc.covered
        /\ ResolveNext(acc, choice).kept = acc.kept
        /\ ResolveNext(acc, choice).errors # {}
    BY <2>1, <2>2 DEF Resolution
  <2> QED
    BY <1>2, <1>5, <2>3 DEF good
<1> QED
  BY <1>4, <1>5

(* Appending keeps what is there and adds one place. *)
LEMMA AppendFacts ==
  ASSUME NEW T, NEW s \in Seq(T), NEW e \in T
  PROVE  /\ Len(s) \in Nat /\ DOMAIN s = 1 .. Len(s)
         /\ Append(s, e) \in Seq(T) /\ DOMAIN Append(s, e) = 1 .. (Len(s) + 1)
         /\ Len(Append(s, e)) = Len(s) + 1
         /\ Append(s, e)[Len(s) + 1] = e /\ \A i \in 1 .. Len(s) : Append(s, e)[i] = s[i]
OBVIOUS

(* The elements of a sequence are those at its places. *)
LEMMA Elements ==
  ASSUME NEW T, NEW s \in Seq(T)
  PROVE  /\ \A i \in DOMAIN s : s[i] \in ToSet(s) /\ s[i] \in T
         /\ \A e \in ToSet(s) : e \in T /\ \E i \in DOMAIN s : e = s[i]
<1>1. \A i \in DOMAIN s : s[i] \in T
  OBVIOUS
<1> QED
  BY <1>1, Zenon DEF ToSet

(* Appending adds one element. *)
LEMMA AppendSet ==
  ASSUME NEW T, NEW s \in Seq(T), NEW e \in T
  PROVE  ToSet(Append(s, e)) = ToSet(s) \cup {e}
<1> DEFINE t == Append(s, e)
           n == Len(s)
<1>1. /\ n \in Nat /\ DOMAIN s = 1 .. n /\ DOMAIN t = 1 .. (n + 1)
      /\ t[n + 1] = e /\ \A i \in 1 .. n : t[i] = s[i]
  BY AppendFacts
<1> HIDE DEF t, n
<1>2. \A i : i \in 1 .. (n + 1) <=> i \in 1 .. n \/ i = n + 1
  BY <1>1
<1>3. ToSet(t) = ToSet(s) \cup {e}
  BY <1>1, <1>2 DEF ToSet
<1> QED
  BY <1>3 DEF t

(* What the choices of an alternative come to. *)
LEMMA ResolveFold ==
  ASSUME part \in PartType, covered \in Seq(ChoiceRanges), NEW choices \in Seq(ChoiceRanges)
  PROVE  LET answer == Resolve(choices) IN
           /\ answer \in Resolution
           /\ ToSet(answer.covered) = ToSet(covered) \cup ToSet(answer.kept)
           /\ \A c \in ToSet(answer.kept) : Usable(c) /\ \A d \in ToSet(covered) : Apart(c, d)
           /\ \A i, j \in DOMAIN answer.kept : i # j => Apart(answer.kept[i], answer.kept[j])
           /\ answer.errors = {} => answer.kept = choices
           /\ (/\ \A i \in DOMAIN choices :
                      Usable(choices[i]) /\ \A d \in ToSet(covered) : Apart(choices[i], d)
               /\ \A i, j \in DOMAIN choices : i # j => Apart(choices[i], choices[j]))
              => answer.errors = {}
<1> DEFINE n == Len(choices)
           Op(acc, choice) == ResolveNext(acc, choice)
           seq == choices
           S == Resolution
           F == [i \in 1 .. n |-> [x \in S |-> Op(x, seq[i])]]
           start == [covered |-> covered, kept |-> <<>>, errors |-> {}]
           Step(g, s) == IF s = {} THEN start ELSE Op(g[s \ {Max(s)}], seq[Max(s)])
           h == CHOOSE g : g = [s \in SUBSET (DOMAIN seq) |-> Step(g, s)]
<1>1. DOMAIN seq = 1 .. n /\ n \in Nat /\ start \in S /\ \A i \in 1 .. n : seq[i] \in ChoiceRanges
  BY DEF Resolution
<1>2. \A i \in 1 .. n : \A x \in S : Op(x, seq[i]) \in S
  BY <1>1, ResolveStep
<1>3. FoldLeft(ResolveNext, start, seq) = h[DOMAIN seq]
  BY DEF FoldLeft, MapThenFoldSet
<1>4. F \in [1 .. n -> [S -> S]] /\ \A i \in 1 .. n : \A x \in S : F[i][x] = Op(x, seq[i])
  BY <1>2
<1> HIDE DEF n
<1> HIDE DEF Op, S, F, Step, start, seq
<1>5. Folds(S, n, start, F)
  BY <1>1, <1>4 DEF Folds
<1>6. PICK g : IsFold(g, S, n, start, F)
  BY <1>5, FoldExists
<1>7. ASSUME NEW s \in SUBSET (1 .. n)  PROVE g[s] = Step(g, s)
  <2>1. CASE s = {}
    BY <1>6, <2>1 DEF IsFold, Step
  <2>2. CASE s # {}
    <3>1. g[s \ {Max(s)}] \in S
      BY <1>6 DEF IsFold
    <3> QED
      BY <1>1, <1>4, <1>6, <2>2, <3>1 DEF IsFold, Step
  <2> QED
    BY <2>1, <2>2
<1>8. g = [s \in SUBSET (DOMAIN seq) |-> Step(g, s)]
  BY <1>1, <1>6, <1>7 DEF IsFold
<1>9. h = [s \in SUBSET (DOMAIN seq) |-> Step(h, s)]
  BY <1>8
<1> HIDE DEF h
<1>10. Recurs(h, S, n, start, F)
  <2> SUFFICES ASSUME NEW s \in SUBSET (1 .. n)
               PROVE  /\ s = {} => h[s] = start
                      /\ (s # {} /\ Max(s) \in 1 .. n /\ h[s \ {Max(s)}] \in S)
                            => h[s] = F[Max(s)][h[s \ {Max(s)}]]
    BY DEF Recurs
  <2>1. h[s] = Step(h, s)
    BY <1>1, <1>9
  <2> QED
    BY <1>1, <1>4, <2>1 DEF Step
<1>11. PICK run : Gathers(run, S, n, start, F) /\ run[n] = h[1 .. n]
  BY <1>5, <1>10, FoldSteps
<1> DEFINE Clean ==
              /\ \A i \in DOMAIN choices :
                    Usable(choices[i]) /\ \A d \in ToSet(covered) : Apart(choices[i], d)
              /\ \A i, j \in DOMAIN choices : i # j => Apart(choices[i], choices[j])
           Right(k) ==
              /\ ToSet(run[k].covered) = ToSet(covered) \cup ToSet(run[k].kept)
              /\ \A c \in ToSet(run[k].kept) : Usable(c) /\ \A d \in ToSet(covered) : Apart(c, d)
              /\ \A i, j \in DOMAIN run[k].kept : i # j => Apart(run[k].kept[i], run[k].kept[j])
              /\ run[k].errors = {} =>
                    Len(run[k].kept) = k /\ \A i \in 1 .. k : run[k].kept[i] = choices[i]
              /\ Clean => run[k].errors = {}
           G == {k \in 0 .. n : Right(k)}
<1>12. 0 \in G
  <2>1. 0 \in 0 .. n /\ run[0].covered = covered /\ run[0].kept = <<>> /\ run[0].errors = {}
    BY <1>1, <1>11 DEF Gathers, start
  <2> HIDE DEF Clean
  <2> QED
    BY <2>1 DEF ToSet
<1>13. \A k \in 1 .. n : k - 1 \in G => k \in G
  <2> SUFFICES ASSUME NEW k \in 1 .. n, k - 1 \in G  PROVE k \in G
    OBVIOUS
  <2>1. Right(k - 1) /\ k - 1 \in 0 .. n /\ k \in 0 .. n /\ k \in Int
    BY <1>1
  <2> DEFINE x == run[k - 1]
             y == run[k]
             c == choices[k]
             good == Usable(c) /\ \A d \in ToSet(x.covered) : Apart(c, d)
  <2>2. x \in Resolution /\ c \in ChoiceRanges /\ y = ResolveNext(x, c)
    BY <1>1, <1>4, <1>11, <2>1 DEF Gathers, S, Op, seq
  <2> HIDE DEF x, y, c, G, Right
  <2>3. /\ good => y.covered = Append(x.covered, c) /\ y.kept = Append(x.kept, c) /\ y.errors = x.errors
        /\ ~good => y.covered = x.covered /\ y.kept = x.kept /\ y.errors # {}
    BY <2>2, ResolveStep
  <2>4. x.covered \in Seq(ChoiceRanges) /\ x.kept \in Seq(ChoiceRanges)
    BY <2>2 DEF Resolution
  <2>5. /\ ToSet(x.covered) = ToSet(covered) \cup ToSet(x.kept)
        /\ \A d \in ToSet(x.kept) : Usable(d) /\ \A e \in ToSet(covered) : Apart(d, e)
        /\ \A i, j \in DOMAIN x.kept : i # j => Apart(x.kept[i], x.kept[j])
        /\ x.errors = {} => Len(x.kept) = k - 1 /\ \A i \in 1 .. (k - 1) : x.kept[i] = choices[i]
        /\ Clean => x.errors = {}
    BY <2>1 DEF Right, x
  <2>6. \A i : i \in 1 .. k <=> i \in 1 .. (k - 1) \/ i = k
    BY <1>1
  <2>7. DOMAIN choices = 1 .. n
    BY <1>1 DEF seq
  <2>8. CASE good
    <3> DEFINE m == Len(x.kept)
    <3>a. y.covered = Append(x.covered, c) /\ y.kept = Append(x.kept, c)
      BY <2>3, <2>8
    <3>b. c \in ChoiceRanges
      BY <2>2
    <3>1. /\ m \in Nat /\ DOMAIN x.kept = 1 .. m /\ DOMAIN y.kept = 1 .. (m + 1) /\ Len(y.kept) = m + 1
          /\ y.kept[m + 1] = c /\ \A i \in 1 .. m : y.kept[i] = x.kept[i]
      <4> DEFINE u == x.kept
      <4>1. u \in Seq(ChoiceRanges)
        BY <2>4
      <4> HIDE DEF u
      <4>2. /\ Len(u) \in Nat /\ DOMAIN u = 1 .. Len(u)
            /\ DOMAIN Append(u, c) = 1 .. (Len(u) + 1) /\ Len(Append(u, c)) = Len(u) + 1
            /\ Append(u, c)[Len(u) + 1] = c /\ \A i \in 1 .. Len(u) : Append(u, c)[i] = u[i]
        BY <4>1, <3>b, AppendFacts
      <4> QED
        BY <4>2, <3>a, Zenon DEF u
    <3>2. ToSet(y.covered) = ToSet(x.covered) \cup {c} /\ ToSet(y.kept) = ToSet(x.kept) \cup {c}
      <4>0. \A s \in Seq(ChoiceRanges), e \in ChoiceRanges : ToSet(Append(s, e)) = ToSet(s) \cup {e}
        BY AppendSet
      <4>1. ToSet(Append(x.covered, c)) = ToSet(x.covered) \cup {c}
        BY <2>4, <3>b, <4>0
      <4>2. ToSet(Append(x.kept, c)) = ToSet(x.kept) \cup {c}
        BY <2>4, <3>b, <4>0
      <4> QED
        BY <3>a, <4>1, <4>2, Zenon
    <3> HIDE DEF m
    <3>3. \A i \in 1 .. m : x.kept[i] \in ToSet(x.kept) /\ x.kept[i] \in ChoiceRanges
      <4> DEFINE u == x.kept
      <4>1. u \in Seq(ChoiceRanges) /\ DOMAIN u = 1 .. m
        BY <2>4, <3>1
      <4> HIDE DEF u
      <4>2. \A i \in 1 .. m : u[i] \in ToSet(u) /\ u[i] \in ChoiceRanges
        BY <4>1, Elements
      <4> QED
        BY <4>2 DEF u
    <3>4. \A i \in 1 .. m : Apart(x.kept[i], c) /\ Apart(c, x.kept[i])
      BY <2>2, <2>5, <2>8, <3>3, ApartLemma
    <3>5. ASSUME NEW i \in DOMAIN y.kept, NEW j \in DOMAIN y.kept, i # j
          PROVE  Apart(y.kept[i], y.kept[j])
      <4>1. (i \in 1 .. m \/ i = m + 1) /\ (j \in 1 .. m \/ j = m + 1)
        BY <3>1
      <4> QED
        BY <2>5, <3>1, <3>4, <3>5, <4>1
    <3>6. y.errors = {} => Len(y.kept) = k /\ \A i \in 1 .. k : y.kept[i] = choices[i]
      <4> SUFFICES ASSUME y.errors = {}
                   PROVE  Len(y.kept) = k /\ \A i \in 1 .. k : y.kept[i] = choices[i]
        OBVIOUS
      <4>1. m = k - 1 /\ \A i \in 1 .. (k - 1) : x.kept[i] = choices[i]
        BY <2>3, <2>5, <2>8 DEF m
      <4>2. m + 1 = k
        BY <2>1, <4>1
      <4> QED
        BY <2>6, <3>1, <4>1, <4>2 DEF c
    <3>7. \A d \in ToSet(y.kept) : Usable(d) /\ \A e \in ToSet(covered) : Apart(d, e)
      BY <2>5, <2>8, <3>2
    <3>8. Clean => y.errors = {}
      BY <2>3, <2>5, <2>8
    <3>9. ToSet(y.covered) = ToSet(covered) \cup ToSet(y.kept)
      BY <2>5, <3>2
    <3>10. Right(k)
      BY <3>5, <3>6, <3>7, <3>8, <3>9 DEF Right, y
    <3> QED
      BY <2>1, <3>10 DEF G
  <2>9. CASE ~good
    <3>1. ~Clean
      <4> SUFFICES ASSUME Clean PROVE good
        BY <2>9
      <4>1. Usable(c) /\ \A d \in ToSet(covered) : Apart(c, d)
        BY <2>7 DEF c
      <4>2. ASSUME NEW d \in ToSet(x.kept)  PROVE Apart(c, d)
        <5>1. PICK i \in DOMAIN x.kept : d = x.kept[i]
          BY DEF ToSet
        <5>2. Len(x.kept) = k - 1 /\ i \in 1 .. (k - 1) /\ d = choices[i]
          BY <2>4, <2>5, <5>1
        <5>3. k \in 1 .. n /\ i \in Int /\ i <= k - 1 /\ n \in Nat
          BY <1>1, <2>1, <5>2
        <5>4. i # k /\ i \in DOMAIN choices /\ k \in DOMAIN choices
          BY <2>1, <2>7, <5>2, <5>3
        <5>5. Apart(choices[k], choices[i])
          BY <5>4
        <5> QED
          BY <5>2, <5>5 DEF c
      <4> QED
        BY <2>5, <4>1, <4>2
    <3>2. Right(k)
      BY <2>3, <2>5, <2>9, <3>1 DEF Right, y
    <3> QED
      BY <2>1, <3>2 DEF G
  <2> QED
    BY <2>8, <2>9
<1> HIDE DEF G, Clean
<1>14. \A k \in 0 .. n : k \in G
  BY <1>1, <1>12, <1>13, Upwards
<1>15. n \in G
  BY <1>1, <1>14
<1>16. Right(n) /\ run[n] \in Resolution
  BY <1>1, <1>11, <1>15 DEF G, Gathers, S
<1>17. run[n].errors = {} => run[n].kept = choices
  <2> SUFFICES ASSUME run[n].errors = {}  PROVE run[n].kept = choices
    OBVIOUS
  <2> DEFINE kept == run[n].kept
  <2>1. kept \in Seq(ChoiceRanges)
    BY <1>16 DEF Resolution
  <2>2. Len(kept) = n /\ \A i \in 1 .. n : kept[i] = choices[i]
    BY <1>16
  <2> HIDE DEF kept
  <2>3. Len(choices) = n
    BY DEF n
  <2>4. kept = choices
    BY <2>1, <2>2, <2>3
  <2> QED
    BY <2>4 DEF kept
<1>18. FoldLeft(ResolveNext, start, seq) = run[n]
  BY <1>1, <1>3, <1>11
<1>19. Resolve(choices) = run[n]
  BY <1>18, Zenon DEF Resolve, start, seq
<1> QED
  BY <1>16, <1>17, <1>19, Zenon DEF Clean

-----------------------------------------------------------------------------
(* The components of an alternative.                                       *)

Spots == [name : STRING, at : Nat, size : Nat, alignment : Nat \ {0}, variant : Nat]
Placement == [offset : Nat, placed : Seq(Spots), errors : SUBSET {"duplicate"}]

(* A component is placed behind the last, on a multiple of its alignment, or     *)
(* nothing happens to the placement.                                             *)
LEMMA PlaceStep ==
  ASSUME NEW acc \in Placement, NEW field \in FieldRanges, NEW variant \in Nat
  PROVE  LET next == PlaceNext(acc, field, variant) IN
           /\ next \in Placement
           /\ \/ next.offset = acc.offset /\ next.placed = acc.placed
              \/ \E spot \in Spots :
                    /\ next.placed = Append(acc.placed, spot)
                    /\ spot.variant = variant /\ acc.offset <= spot.at
                    /\ spot.at % spot.alignment = 0 /\ next.offset = spot.at + spot.size
<1> DEFINE taken == \E i \in DOMAIN acc.placed : acc.placed[i].name = field.name
           at == AlignUp(acc.offset, field.alignment)
           spot == [name |-> field.name, at |-> at, size |-> field.size,
                    alignment |-> field.alignment, variant |-> variant]
           next == PlaceNext(acc, field, variant)
<1>1. /\ acc.offset \in Nat /\ acc.placed \in Seq(Spots) /\ acc.errors \in SUBSET {"duplicate"}
      /\ field.name \in STRING /\ field.size \in Nat /\ field.alignment \in Nat \ {0}
  BY DEF Placement, FieldRanges
<1>2. at \in Nat /\ at >= acc.offset /\ at % field.alignment = 0
  BY <1>1, AlignUpLemma
<1>3. CASE taken
  <2>1. next = [acc EXCEPT !.errors = acc.errors \cup {"duplicate"}]
    BY <1>3 DEF PlaceNext
  <2> HIDE DEF next
  <2>2. acc.errors \cup {"duplicate"} \in SUBSET {"duplicate"}
    BY <1>1
  <2>3. next \in Placement /\ next.offset = acc.offset /\ next.placed = acc.placed
    BY <2>1, <2>2 DEF Placement
  <2> QED
    BY <2>3 DEF next
<1>4. CASE ~taken
  <2>1. next = [acc EXCEPT !.offset = at + field.size, !.placed = Append(acc.placed, spot)]
    BY <1>4 DEF PlaceNext
  <2> HIDE DEF at, next
  <2>2. spot \in Spots /\ at + field.size \in Nat
    BY <1>1, <1>2 DEF Spots
  <2>3. /\ spot.variant = variant /\ spot.at = at /\ spot.alignment = field.alignment
        /\ spot.size = field.size
    OBVIOUS
  <2> HIDE DEF spot
  <2>4. Append(acc.placed, spot) \in Seq(Spots)
    BY <1>1, <2>2
  <2>5. /\ next \in Placement /\ next.offset = at + field.size
        /\ next.placed = Append(acc.placed, spot)
    BY <2>1, <2>2, <2>4 DEF Placement
  <2>6. /\ spot \in Spots /\ spot.variant = variant /\ acc.offset <= spot.at
        /\ spot.at % spot.alignment = 0 /\ next.offset = spot.at + spot.size
    BY <1>1, <1>2, <2>2, <2>3, <2>5
  <2> QED
    BY <2>5, <2>6 DEF next
<1> HIDE DEF taken
<1> QED
  BY <1>3, <1>4

\* What placing components leaves behind those that were there: they are one
\* behind the other, from the start on, and end where the next may begin.
Extends(spots, old, variant, start, end) ==
    /\ Len(old) <= Len(spots) /\ \A i \in DOMAIN old : spots[i] = old[i]
    /\ start <= end
    /\ \A i \in DOMAIN spots : i > Len(old) =>
          /\ spots[i].variant = variant /\ spots[i].at % spots[i].alignment = 0
          /\ start <= spots[i].at /\ spots[i].at + spots[i].size <= end
    /\ \A i, j \in DOMAIN spots : Len(old) < i /\ i < j => spots[i].at + spots[i].size <= spots[j].at

(* One more component behind those placed so far. *)
LEMMA ExtendsStep ==
  ASSUME NEW old \in Seq(Spots), NEW spots \in Seq(Spots), NEW variant \in Nat, NEW start \in Nat,
         NEW end \in Nat, Extends(spots, old, variant, start, end), NEW spot \in Spots,
         spot.variant = variant, end <= spot.at, spot.at % spot.alignment = 0
  PROVE  Extends(Append(spots, spot), old, variant, start, spot.at + spot.size)
<1> DEFINE m == Len(spots)
           more == Append(spots, spot)
           n == Len(old)
<1>1. /\ m \in Nat /\ DOMAIN spots = 1 .. m /\ DOMAIN more = 1 .. (m + 1) /\ Len(more) = m + 1
      /\ more[m + 1] = spot /\ \A i \in 1 .. m : more[i] = spots[i]
  BY AppendFacts
<1>2. n \in Nat /\ DOMAIN old = 1 .. n
  OBVIOUS
<1>3. \A i \in 1 .. m : spots[i].at \in Nat /\ spots[i].size \in Nat
  <2>1. \A i \in 1 .. m : spots[i] \in Spots
    OBVIOUS
  <2> HIDE DEF m, more, n
  <2> QED
    BY <2>1 DEF Spots
<1>4. spot.at \in Nat /\ spot.size \in Nat
  BY DEF Spots
<1> HIDE DEF m, more, n
<1>5. /\ n <= m /\ \A i \in 1 .. n : spots[i] = old[i]
      /\ start <= end
      /\ \A i \in 1 .. m : i > n =>
            /\ spots[i].variant = variant /\ spots[i].at % spots[i].alignment = 0
            /\ start <= spots[i].at /\ spots[i].at + spots[i].size <= end
      /\ \A i, j \in 1 .. m : n < i /\ i < j => spots[i].at + spots[i].size <= spots[j].at
  BY <1>1, <1>2 DEF Extends, m, n
<1>6. n <= m + 1 /\ \A i \in 1 .. n : more[i] = old[i]
  BY <1>1, <1>2, <1>5
<1>7. start <= spot.at + spot.size
  BY <1>4, <1>5
<1>8. ASSUME NEW i \in 1 .. (m + 1), i > n
      PROVE  /\ more[i].variant = variant /\ more[i].at % more[i].alignment = 0
             /\ start <= more[i].at /\ more[i].at + more[i].size <= spot.at + spot.size
  <2>1. CASE i = m + 1
    <3>1. more[i] = spot /\ start <= spot.at
      BY <1>1, <1>4, <1>5, <2>1
    <3> QED
      BY <1>4, <3>1
  <2>2. CASE i \in 1 .. m
    <3>1. more[i] = spots[i] /\ spots[i].at \in Nat /\ spots[i].size \in Nat
      BY <1>1, <1>3, <2>2
    <3>2. /\ spots[i].variant = variant /\ spots[i].at % spots[i].alignment = 0
          /\ start <= spots[i].at /\ spots[i].at + spots[i].size <= end
      BY <1>5, <1>8, <2>2
    <3>3. spots[i].at + spots[i].size <= spot.at + spot.size
      BY <1>4, <3>1, <3>2
    <3> QED
      BY <3>1, <3>2, <3>3
  <2> QED
    BY <1>1, <2>1, <2>2
<1>9. ASSUME NEW i \in 1 .. (m + 1), NEW j \in 1 .. (m + 1), n < i, i < j
      PROVE  more[i].at + more[i].size <= more[j].at
  <2>1. i \in 1 .. m /\ more[i] = spots[i]
    BY <1>1, <1>9
  <2>2. CASE j = m + 1
    BY <1>1, <1>3, <1>4, <1>5, <1>9, <2>1, <2>2
  <2>3. CASE j \in 1 .. m
    BY <1>1, <1>5, <1>9, <2>1, <2>3
  <2> QED
    BY <1>1, <2>2, <2>3
<1> QED
  BY <1>1, <1>2, <1>6, <1>7, <1>8, <1>9, Zenon DEF Extends, more, n

(* What placing the components of an alternative comes to. *)
LEMMA PlaceFold ==
  ASSUME placed \in Seq(Spots), NEW fields \in Seq(FieldRanges), NEW variant \in Nat, NEW from \in Nat
  PROVE  LET all == Place(fields, variant, from) IN
           /\ all \in Placement
           /\ Extends(all.placed, placed, variant, from, all.offset)
<1> DEFINE n == Len(fields)
           Op(acc, field) == PlaceNext(acc, field, variant)
           seq == fields
           S == Placement
           F == [i \in 1 .. n |-> [x \in S |-> Op(x, seq[i])]]
           start == [offset |-> from, placed |-> placed, errors |-> {}]
           Step(g, s) == IF s = {} THEN start ELSE Op(g[s \ {Max(s)}], seq[Max(s)])
           h == CHOOSE g : g = [s \in SUBSET (DOMAIN seq) |-> Step(g, s)]
<1>1. DOMAIN seq = 1 .. n /\ n \in Nat /\ start \in S /\ \A i \in 1 .. n : seq[i] \in FieldRanges
  BY DEF Placement
<1>2. \A i \in 1 .. n : \A x \in S : Op(x, seq[i]) \in S
  BY <1>1, PlaceStep
<1>3. FoldLeft(LAMBDA acc, field : PlaceNext(acc, field, variant), start, seq) = h[DOMAIN seq]
  BY DEF FoldLeft, MapThenFoldSet
<1>4. F \in [1 .. n -> [S -> S]] /\ \A i \in 1 .. n : \A x \in S : F[i][x] = Op(x, seq[i])
  BY <1>2
<1> HIDE DEF n
<1> HIDE DEF Op, S, F, Step, start, seq
<1>5. Folds(S, n, start, F)
  BY <1>1, <1>4 DEF Folds
<1>6. PICK g : IsFold(g, S, n, start, F)
  BY <1>5, FoldExists
<1>7. ASSUME NEW s \in SUBSET (1 .. n)  PROVE g[s] = Step(g, s)
  <2>1. CASE s = {}
    BY <1>6, <2>1 DEF IsFold, Step
  <2>2. CASE s # {}
    <3>1. g[s \ {Max(s)}] \in S
      BY <1>6 DEF IsFold
    <3> QED
      BY <1>1, <1>4, <1>6, <2>2, <3>1 DEF IsFold, Step
  <2> QED
    BY <2>1, <2>2
<1>8. g = [s \in SUBSET (DOMAIN seq) |-> Step(g, s)]
  BY <1>1, <1>6, <1>7 DEF IsFold
<1>9. h = [s \in SUBSET (DOMAIN seq) |-> Step(h, s)]
  BY <1>8
<1> HIDE DEF h
<1>10. Recurs(h, S, n, start, F)
  <2> SUFFICES ASSUME NEW s \in SUBSET (1 .. n)
               PROVE  /\ s = {} => h[s] = start
                      /\ (s # {} /\ Max(s) \in 1 .. n /\ h[s \ {Max(s)}] \in S)
                            => h[s] = F[Max(s)][h[s \ {Max(s)}]]
    BY DEF Recurs
  <2>1. h[s] = Step(h, s)
    BY <1>1, <1>9
  <2> QED
    BY <1>1, <1>4, <2>1 DEF Step
<1>11. PICK run : Gathers(run, S, n, start, F) /\ run[n] = h[1 .. n]
  BY <1>5, <1>10, FoldSteps
<1> DEFINE Right(k) == Extends(run[k].placed, placed, variant, from, run[k].offset)
           G == {k \in 0 .. n : Right(k)}
<1>12. 0 \in G
  <2>1. 0 \in 0 .. n /\ run[0].placed = placed /\ run[0].offset = from
    BY <1>1, <1>11 DEF Gathers, start
  <2>2. Extends(placed, placed, variant, from, from)
    <3>1. Len(placed) \in Nat /\ DOMAIN placed = 1 .. Len(placed)
      OBVIOUS
    <3>2. \A i \in DOMAIN placed : i \in Nat /\ ~(i > Len(placed)) /\ ~(Len(placed) < i)
      BY <3>1
    <3> QED
      BY <3>1, <3>2 DEF Extends
  <2> QED
    BY <2>1, <2>2
<1>13. \A k \in 1 .. n : k - 1 \in G => k \in G
  <2> SUFFICES ASSUME NEW k \in 1 .. n, k - 1 \in G  PROVE k \in G
    OBVIOUS
  <2>1. Right(k - 1) /\ k - 1 \in 0 .. n /\ k \in 0 .. n /\ k \in Int
    BY <1>1
  <2> DEFINE x == run[k - 1]
             y == run[k]
             f == fields[k]
  <2>2. x \in Placement /\ f \in FieldRanges /\ y = PlaceNext(x, f, variant)
    BY <1>1, <1>4, <1>11, <2>1 DEF Gathers, S, Op, seq
  <2>3. Extends(x.placed, placed, variant, from, x.offset)
    BY <2>1
  <2> HIDE DEF x, y, f, G, Right
  <2>4. \/ y.offset = x.offset /\ y.placed = x.placed
        \/ \E spot \in Spots :
              /\ y.placed = Append(x.placed, spot)
              /\ spot.variant = variant /\ x.offset <= spot.at
              /\ spot.at % spot.alignment = 0 /\ y.offset = spot.at + spot.size
    BY <2>2, PlaceStep
  <2>5. x.offset \in Nat /\ x.placed \in Seq(Spots)
    BY <2>2 DEF Placement
  <2>6. Extends(y.placed, placed, variant, from, y.offset)
    <3>1. CASE y.offset = x.offset /\ y.placed = x.placed
      BY <2>3, <3>1
    <3>2. ASSUME NEW spot \in Spots,
                 y.placed = Append(x.placed, spot),
                 spot.variant = variant /\ x.offset <= spot.at,
                 spot.at % spot.alignment = 0 /\ y.offset = spot.at + spot.size
          PROVE  Extends(y.placed, placed, variant, from, y.offset)
      <4>1. Extends(Append(x.placed, spot), placed, variant, from, spot.at + spot.size)
        BY <2>3, <2>5, <3>2, ExtendsStep
      <4> QED
        BY <3>2, <4>1
    <3> QED
      BY <2>4, <3>1, <3>2
  <2> QED
    BY <2>1, <2>6 DEF G, Right, y
<1> HIDE DEF G
<1>14. \A k \in 0 .. n : k \in G
  BY <1>1, <1>12, <1>13, Upwards
<1>15. n \in G
  BY <1>1, <1>14
<1>16. Right(n) /\ run[n] \in Placement
  BY <1>1, <1>11, <1>15 DEF G, Gathers, S
<1>17. Place(fields, variant, from) = h[DOMAIN seq]
  BY <1>3, Zenon DEF Place, start, seq
<1>18. Place(fields, variant, from) = run[n]
  BY <1>1, <1>11, <1>17
<1> QED
  BY <1>16, <1>18, Zenon

-----------------------------------------------------------------------------
(* Folds over a finite set, an element chosen at each step.                *)

(* What holds of the empty set, and of a set when it holds of it without some    *)
(* element, holds of every finite set.                                           *)
LEMMA Smaller ==
  ASSUME NEW S, IsFiniteSet(S), NEW G, {} \in G,
         \A s \in SUBSET S : s # {} => \E x \in s : s \ {x} \in G => s \in G
  PROVE  \A s \in SUBSET S : s \in G
<1> DEFINE n == Cardinality(S)
           H == {k \in 0 .. n : \A s \in SUBSET S : Cardinality(s) = k => s \in G}
<1>1. n \in Nat
  BY FS_CardinalityType
<1>2. \A s \in SUBSET S : IsFiniteSet(s) /\ Cardinality(s) \in Nat /\ Cardinality(s) <= n
  BY FS_Subset, FS_CardinalityType
<1>3. 0 \in H
  <2>1. ASSUME NEW s \in SUBSET S, Cardinality(s) = 0  PROVE s \in G
    <3>1. s = {}
      BY <1>2, <2>1, FS_EmptySet
    <3> QED
      BY <3>1
  <2> QED
    BY <1>1, <2>1
<1> HIDE DEF n
<1>4. \A k \in 1 .. n : k - 1 \in H => k \in H
  <2> SUFFICES ASSUME NEW k \in 1 .. n, k - 1 \in H  PROVE k \in H
    OBVIOUS
  <2>1. ASSUME NEW s \in SUBSET S, Cardinality(s) = k  PROVE s \in G
    <3>5. Cardinality({}) = 0
      BY FS_EmptySet, Zenon
    <3>1. s # {}
      BY <1>1, <2>1, <3>5
    <3>2. PICK x \in s : s \ {x} \in G => s \in G
      BY <3>1
    <3>3. Cardinality(s \ {x}) = k - 1
      BY <1>2, <2>1, FS_RemoveElement
    <3>4. s \ {x} \in G
      BY <3>3
    <3> QED
      BY <3>2, <3>4
  <2> QED
    BY <1>1, <2>1
<1>5. \A k \in 0 .. n : k \in H
  <2> HIDE DEF H
  <2> QED
    BY <1>1, <1>3, <1>4, Upwards
<1> QED
  BY <1>1, <1>2, <1>5

\* Gathering from the elements of a set into V, the chosen one last.
Gathered(g, S, V, base, C, F) ==
    /\ g \in [SUBSET S -> V]
    /\ \A s \in SUBSET S : /\ s = {} => g[s] = base
                           /\ s # {} => g[s] = F[C[s]][g[s \ {C[s]}]]
Few(S, k) == {s \in SUBSET S : Cardinality(s) <= k}
GatheredTo(g, S, V, base, C, F, k) ==
    /\ g \in [Few(S, k) -> V]
    /\ \A s \in Few(S, k) : /\ s = {} => g[s] = base
                            /\ s # {} => g[s] = F[C[s]][g[s \ {C[s]}]]

(* Such a fold is defined: there is the function it is the value of.             *)
LEMMA GatheredExists ==
  ASSUME NEW S, IsFiniteSet(S), NEW V, NEW base \in V, NEW C, NEW F \in [S -> [V -> V]],
         \A s \in SUBSET S : s # {} => C[s] \in s
  PROVE  \E g : Gathered(g, S, V, base, C, F)
<1> DEFINE n == Cardinality(S)
           H == {k \in 0 .. n : \E g : GatheredTo(g, S, V, base, C, F, k)}
<1>1. n \in Nat
  BY FS_CardinalityType
<1>2. \A s \in SUBSET S : IsFiniteSet(s) /\ Cardinality(s) \in Nat /\ Cardinality(s) <= n
  BY FS_Subset, FS_CardinalityType
<1>3. \A s \in SUBSET S : Cardinality(s) = 0 <=> s = {}
  BY <1>2, FS_EmptySet
<1>4. \A s \in SUBSET S : s # {} =>
        /\ C[s] \in s /\ C[s] \in S /\ s \ {C[s]} \in SUBSET S
        /\ Cardinality(s \ {C[s]}) = Cardinality(s) - 1
  BY <1>2, FS_RemoveElement
<1> HIDE DEF n
<1>5. 0 \in H
  <2> DEFINE g == [s \in Few(S, 0) |-> base]
  <2>1. \A s \in Few(S, 0) : s = {}
    BY <1>2, <1>3 DEF Few
  <2>2. GatheredTo(g, S, V, base, C, F, 0)
    BY <2>1 DEF GatheredTo
  <2> QED
    BY <1>1, <2>2
<1>6. \A k \in 1 .. n : k - 1 \in H => k \in H
  <2> SUFFICES ASSUME NEW k \in 1 .. n, k - 1 \in H  PROVE k \in H
    OBVIOUS
  <2>1. PICK g : GatheredTo(g, S, V, base, C, F, k - 1)
    OBVIOUS
  <2>2. k \in Int /\ k \in 0 .. n
    BY <1>1
  <2> HIDE DEF H
  <2> DEFINE Value(s) == IF s = {} THEN base ELSE F[C[s]][g[s \ {C[s]}]]
             f == [s \in Few(S, k) |-> Value(s)]
  <2>3. ASSUME NEW s \in Few(S, k), s # {}
        PROVE  /\ s \ {C[s]} \in Few(S, k - 1) /\ s \ {C[s]} \in Few(S, k) /\ C[s] \in S
               /\ g[s \ {C[s]}] \in V
    <3>1. s \in SUBSET S /\ Cardinality(s) <= k
      BY DEF Few
    <3>2. s \ {C[s]} \in SUBSET S /\ Cardinality(s \ {C[s]}) = Cardinality(s) - 1 /\ C[s] \in S
      BY <1>4, <2>3, <3>1
    <3>3. Cardinality(s) \in Nat
      BY <1>2, <3>1
    <3>4. Cardinality(s \ {C[s]}) <= k - 1 /\ Cardinality(s \ {C[s]}) <= k
      BY <2>2, <3>1, <3>2, <3>3
    <3>5. s \ {C[s]} \in Few(S, k - 1) /\ s \ {C[s]} \in Few(S, k)
      BY <3>2, <3>4 DEF Few
    <3> QED
      BY <2>1, <3>2, <3>5 DEF GatheredTo
  <2>4. \A s \in Few(S, k) : Value(s) \in V
    BY <2>3
  <2>5. ASSUME NEW s \in Few(S, k - 1)  PROVE g[s] = Value(s)
    BY <2>1 DEF GatheredTo
  <2>6. \A s \in Few(S, k - 1) : s \in Few(S, k)
    BY <1>2, <2>2 DEF Few
  <2>7. \A s \in Few(S, k - 1) : f[s] = g[s]
    BY <2>5, <2>6
  <2>8. f \in [Few(S, k) -> V]
    <3> HIDE DEF Value
    <3> QED
      BY <2>4
  <2>9. ASSUME NEW s \in Few(S, k)
        PROVE  /\ s = {} => f[s] = base
               /\ s # {} => f[s] = F[C[s]][f[s \ {C[s]}]]
    <3>1. CASE s = {}
      BY <3>1
    <3>2. CASE s # {}
      <4>1. f[s] = F[C[s]][g[s \ {C[s]}]]
        BY <3>2
      <4>2. f[s \ {C[s]}] = g[s \ {C[s]}]
        BY <2>3, <2>7, <3>2
      <4> HIDE DEF f
      <4> QED
        BY <3>2, <4>1, <4>2
    <3> QED
      BY <3>1, <3>2
  <2> HIDE DEF f
  <2>10. GatheredTo(f, S, V, base, C, F, k)
    BY <2>8, <2>9 DEF GatheredTo
  <2> QED
    BY <2>2, <2>10 DEF H
<1>7. n \in H
  <2> HIDE DEF H
  <2>1. \A k \in 0 .. n : k \in H
    BY <1>1, <1>5, <1>6, Upwards
  <2> QED
    BY <1>1, <2>1
<1>8. PICK g : GatheredTo(g, S, V, base, C, F, n)
  BY <1>7
<1>9. Few(S, n) = SUBSET S
  BY <1>2 DEF Few
<1>10. Gathered(g, S, V, base, C, F)
  BY <1>8, <1>9 DEF Gathered, GatheredTo
<1> QED
  BY <1>10

(* Of finitely many ranges one starts last.                                      *)
LEMMA SomeLast ==
  ASSUME NEW S \in SUBSET ChoiceRanges, IsFiniteSet(S), NEW s \in SUBSET S, s # {}
  PROVE  LastByLow(s) \in s /\ \A d \in s : d.low <= LastByLow(s).low
<1> DEFINE Has(t) == \E c \in t : \A d \in t : d.low <= c.low
           G == {t \in SUBSET S : t = {} \/ Has(t)}
<1>1. \A c \in S : c.low \in Int
  BY RangeLemma
<1>2. ASSUME NEW t \in SUBSET S, NEW x \in t, t \ {x} \in G  PROVE t \in G
  <2>1. x \in S /\ x.low \in Int
    BY <1>1
  <2>2. CASE t \ {x} = {}
    BY <2>1, <2>2
  <2>3. CASE Has(t \ {x})
    <3>1. PICK c \in t \ {x} : \A d \in t \ {x} : d.low <= c.low
      BY <2>3
    <3>2. c.low \in Int /\ \A d \in t : d.low \in Int
      BY <1>1
    <3>3. CASE c.low <= x.low
      BY <2>1, <3>1, <3>2, <3>3
    <3>4. CASE x.low <= c.low
      BY <2>1, <3>1, <3>2, <3>4
    <3> QED
      BY <2>1, <3>2, <3>3, <3>4
  <2> QED
    BY <1>2, <2>2, <2>3
<1>3. {} \in G
  OBVIOUS
<1>4. s \in G
  <2> HIDE DEF G
  <2>2. \A t \in SUBSET S : t # {} => \E x \in t : t \ {x} \in G => t \in G
    BY <1>2
  <2>1. \A t \in SUBSET S : t \in G
    BY <1>3, <2>2, Smaller
  <2> QED
    BY <2>1
<1>5. \E c \in s : \A d \in s : d.low <= c.low
  BY <1>4
<1> QED
  BY <1>5 DEF LastByLow

-----------------------------------------------------------------------------
(* The values no choice accounts for.                                      *)

Position == [gaps : SUBSET (Int \X Int), next : Int]
Holds(c, v) == c.low <= v /\ v <= c.high

(* The elements of a sequence are finitely many.                                 *)
LEMMA FiniteElements ==
  ASSUME NEW T, NEW s \in Seq(T)
  PROVE  IsFiniteSet(ToSet(s)) /\ ToSet(s) \in SUBSET T
<1>1. Len(s) \in Nat /\ DOMAIN s = 1 .. Len(s) /\ IsFiniteSet(1 .. Len(s))
  BY FS_Interval
<1>2. ToSet(s) \in SUBSET T /\ \A e \in ToSet(s) : \E i \in DOMAIN s : e = s[i]
  BY Elements
<1>3. \A i \in DOMAIN s : s[i] \in ToSet(s)
  BY Elements
<1>4. s \in Surjection(1 .. Len(s), ToSet(s))
  BY <1>1, <1>2, <1>3 DEF Surjection
<1> QED
  BY <1>1, <1>2, <1>4, FS_Surjection

(* A step of the walk: a choice that starts beyond the next value leaves a gap.  *)
LEMMA WalkStep ==
  ASSUME NEW acc \in Position, NEW c \in ChoiceRanges, NEW wraps \in BOOLEAN
  PROVE  /\ Walk(acc, c, wraps) \in Position
         /\ Walk(acc, c, wraps).gaps = {} <=> (acc.gaps = {} /\ c.low <= acc.next)
         /\ c.high < LongLast => Walk(acc, c, wraps).next = c.high + 1
         /\ \/ Walk(acc, c, wraps).next = c.high + 1
            \/ Walk(acc, c, wraps).next = -LongLast - 1
<1> DEFINE gaps == IF c.low > acc.next THEN acc.gaps \cup {<<acc.next, c.low - 1>>} ELSE acc.gaps
           next == Successor(c.high, wraps)
<1>1. acc.gaps \in SUBSET (Int \X Int) /\ acc.next \in Int
  BY DEF Position
<1>2. c.low \in Int /\ c.high \in Int /\ LongLast \in Int
  BY RangeLemma, PartsAssumption
<1>3. Walk(acc, c, wraps) = [gaps |-> gaps, next |-> next]
  BY DEF Walk
<1>4. gaps \in SUBSET (Int \X Int) /\ (gaps = {} <=> (acc.gaps = {} /\ c.low <= acc.next))
  <2>1. CASE c.low > acc.next
    <3>1. gaps = acc.gaps \cup {<<acc.next, c.low - 1>>} /\ <<acc.next, c.low - 1>> \in Int \X Int
      BY <1>1, <1>2, <2>1
    <3>2. gaps \in SUBSET (Int \X Int) /\ gaps # {}
      BY <1>1, <3>1
    <3> QED
      BY <1>1, <1>2, <2>1, <3>2
  <2>2. CASE ~(c.low > acc.next)
    BY <1>1, <1>2, <2>2
  <2> QED
    BY <2>1, <2>2
<1>5. /\ next \in Int /\ (c.high < LongLast => next = c.high + 1)
      /\ next = c.high + 1 \/ next = -LongLast - 1
  BY <1>2 DEF Successor
<1> HIDE DEF gaps, next
<1> QED
  BY <1>3, <1>4, <1>5 DEF Position

\* The walk of reportUncovered over the choices s, the last of them last.
Walks(walk, S, wraps) ==
    /\ walk \in [SUBSET S -> Position]
    /\ walk[{}].gaps = {} /\ walk[{}].next = part.low
    /\ \A s \in SUBSET S : s # {} =>
          walk[s] = Walk(walk[s \ {LastByLow(s)}], LastByLow(s), wraps)

(* What reportUncovered finds is the end of such a walk over all choices.        *)
LEMMA UncoveredWalk ==
  ASSUME part \in PartType, covered \in Seq(ChoiceRanges), NEW wraps \in BOOLEAN
  PROVE  \E walk :
           /\ Walks(walk, ToSet(covered), wraps)
           /\ Uncovered(wraps) = {} <=>
                 walk[ToSet(covered)].gaps = {} /\ ~(walk[ToSet(covered)].next <= part.high)
<1> DEFINE S == ToSet(covered)
           V == Position
           start == [gaps |-> {}, next |-> part.low]
           C == [s \in SUBSET S |-> LastByLow(s)]
           F == [c \in S |-> [x \in V |-> Walk(x, c, wraps)]]
           Step(g, s) == IF s = {} THEN start ELSE Walk(g[s \ {LastByLow(s)}], LastByLow(s), wraps)
           h == CHOOSE g : g = [s \in SUBSET S |-> Step(g, s)]
           end == h[S]
<1>1. IsFiniteSet(S) /\ S \in SUBSET ChoiceRanges
  BY FiniteElements
<1>2. part.low \in Int
  BY PartsAssumption DEF PartType, Longs
<1>3. start \in V /\ start.gaps = {} /\ start.next = part.low
  BY <1>2 DEF Position
<1>4. Uncovered(wraps) = end.gaps \cup (IF end.next <= part.high THEN {<<end.next, part.high>>} ELSE {})
  BY DEF Uncovered, MapThenFoldSet
<1>5. \A s \in SUBSET S : s # {} => LastByLow(s) \in s
  BY <1>1, SomeLast
<1>6. \A c \in S : \A x \in V : Walk(x, c, wraps) \in V
  BY <1>1, WalkStep
<1> HIDE DEF S, V, start
<1>7. F \in [S -> [V -> V]] /\ \A c \in S : \A x \in V : F[c][x] = Walk(x, c, wraps)
  BY <1>6
<1>8. \A s \in SUBSET S : C[s] = LastByLow(s)
  OBVIOUS
<1> HIDE DEF C, F, Step
<1>9. PICK g : Gathered(g, S, V, start, C, F)
  BY <1>1, <1>3, <1>5, <1>7, <1>8, GatheredExists
<1>10. ASSUME NEW s \in SUBSET S  PROVE g[s] = Step(g, s)
  <2>1. CASE s = {}
    BY <1>9, <2>1 DEF Gathered, Step
  <2>2. CASE s # {}
    <3>1. /\ g[s] = F[C[s]][g[s \ {C[s]}]] /\ C[s] = LastByLow(s) /\ LastByLow(s) \in S
          /\ s \ {LastByLow(s)} \in SUBSET S
      BY <1>5, <1>8, <1>9, <2>2 DEF Gathered
    <3>2. g[s \ {LastByLow(s)}] \in V
      BY <1>9, <3>1 DEF Gathered
    <3>3. g[s] = Walk(g[s \ {LastByLow(s)}], LastByLow(s), wraps)
      BY <1>7, <3>1, <3>2
    <3> QED
      BY <2>2, <3>3 DEF Step
  <2> QED
    BY <2>1, <2>2
<1>11. g = [s \in SUBSET S |-> Step(g, s)]
  BY <1>9, <1>10 DEF Gathered
<1>12. h = [s \in SUBSET S |-> Step(h, s)]
  BY <1>11
<1> HIDE DEF h
<1> DEFINE G == {s \in SUBSET S : h[s] = g[s]}
<1>13. {} \in G
  BY <1>10, <1>12 DEF Step
<1>14. \A s \in SUBSET S : s # {} => (s \ {LastByLow(s)} \in G => s \in G)
  <2> SUFFICES ASSUME NEW s \in SUBSET S, s # {}, s \ {LastByLow(s)} \in G  PROVE s \in G
    OBVIOUS
  <2>1. h[s] = Step(h, s) /\ g[s] = Step(g, s)
    BY <1>10, <1>12
  <2>2. h[s \ {LastByLow(s)}] = g[s \ {LastByLow(s)}]
    OBVIOUS
  <2> QED
    BY <2>1, <2>2 DEF Step
<1> HIDE DEF G
<1>15. \A s \in SUBSET S : s \in G
  <2>1. \A s \in SUBSET S : s # {} => \E x \in s : s \ {x} \in G => s \in G
    BY <1>5, <1>14
  <2> QED
    BY <1>1, <1>13, <2>1, Smaller
<1>16. h = g
  BY <1>9, <1>12, <1>15 DEF G, Gathered
<1>17. Walks(g, S, wraps)
  <2>1. g \in [SUBSET S -> Position]
    BY <1>9 DEF Gathered, V
  <2>2. g[{}] = start
    BY <1>9 DEF Gathered
  <2>3. ASSUME NEW s \in SUBSET S, s # {}
        PROVE  g[s] = Walk(g[s \ {LastByLow(s)}], LastByLow(s), wraps)
    BY <1>10, <2>3 DEF Step
  <2> QED
    BY <1>3, <2>1, <2>2, <2>3 DEF Walks
<1>18. Uncovered(wraps) = {} <=> g[S].gaps = {} /\ ~(g[S].next <= part.high)
  <2>1. CASE end.next <= part.high
    BY <1>4, <1>16, <2>1
  <2>2. CASE ~(end.next <= part.high)
    BY <1>4, <1>16, <2>2
  <2> QED
    BY <2>1, <2>2
<1> QED
  BY <1>17, <1>18 DEF S

(* When reportUncovered finds nothing, every value of the selector is in a       *)
(* choice, whether or not the end of long long wraps.                            *)
LEMMA NothingLeft ==
  ASSUME part \in PartType, covered \in Seq(ChoiceRanges), NEW wraps \in BOOLEAN, Uncovered(wraps) = {}
  PROVE  \A v \in part.low .. part.high : \E c \in ToSet(covered) : Holds(c, v)
<1> DEFINE S == ToSet(covered)
<1>1. IsFiniteSet(S) /\ S \in SUBSET ChoiceRanges
  BY FiniteElements
<1>2. part.low \in Int /\ part.high \in Int /\ -LongLast - 1 <= part.low /\ LongLast \in Nat
  BY PartsAssumption DEF PartType, Longs
<1>3. PICK walk : Walks(walk, S, wraps) /\ walk[S].gaps = {} /\ ~(walk[S].next <= part.high)
  BY UncoveredWalk
<1> DEFINE Right(s) == walk[s].gaps = {} =>
                          \A v \in Int : part.low <= v /\ v < walk[s].next => \E c \in s : Holds(c, v)
           G == {s \in SUBSET S : Right(s)}
<1>4. \A s \in SUBSET S : walk[s] \in Position /\ walk[s].next \in Int
  BY <1>3 DEF Walks, Position
<1> HIDE DEF S
<1>5. {} \in G
  BY <1>2, <1>3 DEF Walks
<1>6. ASSUME NEW s \in SUBSET S, s # {}  PROVE \E x \in s : s \ {x} \in G => s \in G
  <2> DEFINE x == LastByLow(s)
             r == s \ {x}
  <2>1. x \in s /\ x \in ChoiceRanges /\ r \in SUBSET S
    BY <1>1, <1>6, SomeLast
  <2>2. walk[s] = Walk(walk[r], x, wraps)
    BY <1>3, <1>6 DEF Walks
  <2> HIDE DEF x
  <2>3. /\ walk[s].gaps = {} <=> (walk[r].gaps = {} /\ x.low <= walk[r].next)
        /\ walk[s].next = x.high + 1 \/ walk[s].next = -LongLast - 1
    <3>1. walk[r] \in Position
      BY <1>4, <2>1
    <3> DEFINE acc == walk[r]
    <3> HIDE DEF acc, r, Right, G
    <3>2. acc \in Position /\ walk[s] = Walk(acc, x, wraps) /\ x \in ChoiceRanges
      BY <2>1, <2>2, <3>1 DEF acc
    <3>3. /\ walk[s].gaps = {} <=> (acc.gaps = {} /\ x.low <= acc.next)
          /\ walk[s].next = x.high + 1 \/ walk[s].next = -LongLast - 1
      BY <3>2, WalkStep
    <3> QED
      BY <3>3 DEF acc
  <2>4. x.low \in Int /\ x.high \in Int
    BY <2>1, RangeLemma
  <2>5. ASSUME Right(r), walk[s].gaps = {}, NEW v \in Int, part.low <= v, v < walk[s].next
        PROVE  \E c \in s : Holds(c, v)
    <3>1. v <= x.high
      BY <1>2, <2>3, <2>4, <2>5
    <3>2. CASE v < walk[r].next
      <4>1. \E c \in r : Holds(c, v)
        BY <2>3, <2>5, <3>2
      <4> QED
        BY <4>1
    <3>3. CASE ~(v < walk[r].next)
      <4>1. walk[r].next \in Int /\ x.low <= walk[r].next
        BY <1>4, <2>1, <2>3, <2>5
      <4>2. Holds(x, v)
        BY <2>4, <3>1, <3>3, <4>1 DEF Holds
      <4> QED
        BY <2>1, <4>2
    <3> QED
      BY <3>2, <3>3
  <2>6. r \in G => s \in G
    BY <1>6, <2>5
  <2> QED
    BY <2>1, <2>6
<1> HIDE DEF G
<1>7. S \in G
  <2>1. \A s \in SUBSET S : s # {} => \E x \in s : s \ {x} \in G => s \in G
    BY <1>6
  <2>2. \A s \in SUBSET S : s \in G
    BY <1>1, <1>5, <2>1, Smaller
  <2> QED
    BY <2>2
<1> QED
  BY <1>2, <1>3, <1>4, <1>7 DEF G, S

(* And when every value is in a choice and in one only, it finds nothing, provided  *)
(* the selector ends before long long does.                                         *)
LEMMA NothingFound ==
  ASSUME part \in PartType, covered \in Seq(ChoiceRanges), NEW wraps \in BOOLEAN,
         part.high < LongLast,
         \A c \in ToSet(covered) : Usable(c),
         \A c, d \in ToSet(covered) : c # d => Apart(c, d),
         \A v \in part.low .. part.high : \E c \in ToSet(covered) : Holds(c, v)
  PROVE  Uncovered(wraps) = {}
<1> DEFINE S == ToSet(covered)
<1>1. IsFiniteSet(S) /\ S \in SUBSET ChoiceRanges
  BY FiniteElements
<1>2. part.low \in Int /\ part.high \in Int /\ LongLast \in Nat
  BY PartsAssumption DEF PartType, Longs
<1>3. PICK walk : /\ Walks(walk, S, wraps)
                  /\ Uncovered(wraps) = {} <=> walk[S].gaps = {} /\ ~(walk[S].next <= part.high)
  BY UncoveredWalk
<1>4. \A s \in SUBSET S : walk[s] \in Position /\ walk[s].next \in Int
  BY <1>3 DEF Walks, Position
<1> DEFINE Low(s) == \A c \in s, d \in S \ s : c.low <= d.low
           Right(s) ==
              /\ walk[s].gaps = {} /\ part.low <= walk[s].next
              /\ \A c \in s : c.high < walk[s].next
              /\ \A d \in S \ s : walk[s].next <= d.low
           G == {s \in SUBSET S : Low(s) => Right(s)}
<1>5. \A c \in S : /\ c.low \in Int /\ c.high \in Int /\ c.low <= c.high
                   /\ part.low <= c.low /\ c.high <= part.high /\ c.high < LongLast
  BY <1>1, <1>2, RangeLemma DEF Usable
<1>6. \A c, d \in S : c # d => c.high < d.low \/ d.high < c.low
  BY <1>5 DEF Apart, Overlap
<1>7. \A v \in part.low .. part.high : \E c \in S : Holds(c, v)
  OBVIOUS
<1> HIDE DEF S
<1>8. {} \in G
  BY <1>2, <1>3, <1>5 DEF Walks
<1>9. ASSUME NEW s \in SUBSET S, s # {}  PROVE \E x \in s : s \ {x} \in G => s \in G
  <2> DEFINE x == LastByLow(s)
             r == s \ {x}
  <2>1. x \in s /\ x \in S /\ x \in ChoiceRanges /\ r \in SUBSET S /\ \A d \in s : d.low <= x.low
    BY <1>1, <1>9, SomeLast
  <2>2. walk[s] = Walk(walk[r], x, wraps)
    BY <1>3, <1>9 DEF Walks
  <2> HIDE DEF x
  <2>3. /\ walk[s].gaps = {} <=> (walk[r].gaps = {} /\ x.low <= walk[r].next)
        /\ walk[s].next = x.high + 1
    <3>1. walk[r] \in Position
      BY <1>4, <2>1
    <3> DEFINE acc == walk[r]
    <3> HIDE DEF acc, r, Low, Right, G
    <3>2. /\ acc \in Position /\ walk[s] = Walk(acc, x, wraps) /\ x \in ChoiceRanges
          /\ x.high < LongLast
      BY <1>5, <2>1, <2>2, <3>1 DEF acc
    <3>3. /\ walk[s].gaps = {} <=> (acc.gaps = {} /\ x.low <= acc.next)
          /\ walk[s].next = x.high + 1
      BY <3>2, WalkStep
    <3> QED
      BY <3>3 DEF acc
  <2>4. x.low \in Int /\ x.high \in Int /\ x.low <= x.high /\ part.low <= x.low /\ x.high <= part.high
    BY <1>5, <2>1
  <2>5. walk[r].next \in Int
    BY <1>4, <2>1
  <2>6. ASSUME Low(s), r \in G  PROVE Right(s)
    <3>1. Low(r)
      BY <2>1, <2>6
    <3>2. /\ walk[r].gaps = {} /\ part.low <= walk[r].next
          /\ \A c \in r : c.high < walk[r].next
          /\ \A d \in S \ r : walk[r].next <= d.low
      BY <2>6, <3>1
    <3>3. walk[r].next <= x.low
      BY <2>1, <3>2
    <3>4. x.low <= walk[r].next
      <4> SUFFICES ASSUME walk[r].next < x.low  PROVE FALSE
        BY <2>4, <2>5
      <4>1. walk[r].next \in part.low .. part.high
        BY <1>2, <2>4, <2>5, <3>2
      <4>2. PICK d \in S : Holds(d, walk[r].next)
        BY <1>7, <4>1
      <4>3. d.low <= walk[r].next /\ walk[r].next <= d.high /\ d.low \in Int /\ d.high \in Int
        BY <1>5, <4>2 DEF Holds
      <4>4. d \notin r
        <5> SUFFICES ASSUME d \in r  PROVE FALSE
          OBVIOUS
        <5>1. d.high < walk[r].next
          BY <3>2
        <5> QED
          BY <2>5, <4>3, <5>1
      <4>5. d # x
        BY <2>4, <2>5, <4>3
      <4>6. x.low <= d.low
        BY <2>1, <2>6, <4>4, <4>5
      <4> QED
        BY <2>4, <2>5, <4>3, <4>6
    <3>5. walk[s].gaps = {} /\ part.low <= walk[s].next
      BY <1>2, <2>3, <2>4, <3>2, <3>4
    <3>6. ASSUME NEW c \in s  PROVE c.high < walk[s].next
      <4>1. CASE c = x
        BY <2>3, <2>4, <4>1
      <4>2. CASE c \in r
        <5>1. c.high < walk[r].next /\ c.high \in Int
          BY <1>5, <3>2, <4>2
        <5> QED
          BY <2>3, <2>4, <2>5, <3>3, <5>1
      <4> QED
        BY <4>1, <4>2
    <3>7. ASSUME NEW d \in S \ s  PROVE walk[s].next <= d.low
      <4>1. x.low <= d.low /\ d # x /\ d.low \in Int /\ d.high \in Int /\ d.low <= d.high
        BY <1>5, <2>1, <2>6
      <4>2. x.high < d.low \/ d.high < x.low
        BY <1>6, <2>1, <4>1
      <4> QED
        BY <2>3, <2>4, <4>1, <4>2
    <3> QED
      BY <3>5, <3>6, <3>7
  <2>7. r \in G => s \in G
    BY <1>9, <2>6
  <2> QED
    BY <2>1, <2>7
<1> HIDE DEF G
<1>10. S \in G
  <2>1. \A s \in SUBSET S : s # {} => \E x \in s : s \ {x} \in G => s \in G
    BY <1>9
  <2>2. \A s \in SUBSET S : s \in G
    BY <1>1, <1>8, <2>1, Smaller
  <2> QED
    BY <2>2
<1>11. Right(S)
  BY <1>10 DEF G
<1>12. ~(walk[S].next <= part.high)
  <2> SUFFICES ASSUME walk[S].next <= part.high  PROVE FALSE
    OBVIOUS
  <2>1. walk[S].next \in Int /\ part.low <= walk[S].next
    BY <1>4, <1>11
  <2>2. PICK c \in S : Holds(c, walk[S].next)
    BY <1>2, <1>7, <2>1
  <2>3. c.high < walk[S].next /\ c.high \in Int /\ walk[S].next <= c.high
    BY <1>5, <1>11, <2>2 DEF Holds
  <2> QED
    BY <2>1, <2>3
<1> QED
  BY <1>3, <1>11, <1>12

-----------------------------------------------------------------------------
(* The invariant of a declaration being read.                              *)

Resolveds == [isOthers : BOOLEAN, choices : Seq(ChoiceRanges)]
Harmless == errors \subseteq {"duplicate", "size"}
VariantTypes ==
    /\ part \in PartType /\ Len(resolved) <= Len(PartAlternatives)
    /\ resolved \in Seq(Resolveds) /\ covered \in Seq(ChoiceRanges)
    /\ offset \in Nat /\ baseOffset \in Nat /\ placed \in Seq(Spots)
    /\ byteSize \in Nat /\ resized \in BOOLEAN
\* No value is in two of the choices that were kept, wherever they stand.
KeptApart ==
    /\ \A i \in DOMAIN resolved : resolved[i].isOthers = PartAlternatives[i].isOthers
    /\ \A i \in DOMAIN resolved : \A c \in ToSet(resolved[i].choices) : c \in ToSet(covered) /\ Usable(c)
    /\ \A c \in ToSet(covered) : \E i \in DOMAIN resolved : c \in ToSet(resolved[i].choices)
    /\ \A i \in DOMAIN resolved : \A k, l \in DOMAIN resolved[i].choices :
          k # l => Apart(resolved[i].choices[k], resolved[i].choices[l])
    /\ \A i, j \in DOMAIN resolved : i # j =>
          \A c \in ToSet(resolved[i].choices), d \in ToSet(resolved[j].choices) : Apart(c, d)
\* Without an error nothing was left out, and others stands last.
NothingDropped ==
    Harmless => /\ \A i \in DOMAIN resolved : resolved[i].choices = PartAlternatives[i].choices
                /\ \A i \in DOMAIN resolved : resolved[i].isOthers => i = Len(resolved)
NothingInvented == (~declared /\ WellFormed) => Harmless
AtTheEnd ==
    declared => /\ Len(resolved) = Len(PartAlternatives)
                /\ Harmless => SawOthers \/ \A v \in part.low .. part.high :
                                                \E c \in ToSet(covered) : Holds(c, v)
                /\ (WellFormed /\ part.high < LongLast) => Harmless
\* The common components end before those of any alternative begin, until the
\* type of a component changes its size behind the layout.
InPlace ==
    /\ \A i \in DOMAIN placed :
          /\ placed[i].at % placed[i].alignment = 0
          /\ placed[i].variant = 0 => placed[i].at + placed[i].size <= baseOffset
          /\ placed[i].variant # 0 => baseOffset <= placed[i].at
    /\ \A i, j \in DOMAIN placed : i < j /\ placed[i].variant = placed[j].variant =>
          placed[i].at + placed[i].size <= placed[j].at
LaidOut ==
    /\ \A i \in DOMAIN placed : placed[i].variant <= Len(resolved)
    /\ ~resized => InPlace
    /\ ~declared => ~resized
VariantInv ==
    VariantTypes /\ KeptApart /\ NothingDropped /\ NothingInvented /\ AtTheEnd /\ LaidOut

(* The alternatives of a part, and what they are made of.                        *)
LEMMA PartLemma ==
  ASSUME part \in PartType
  PROVE  /\ part.low \in Int /\ part.high \in Int /\ part.common \in Seq(FieldRanges)
         /\ Len(PartAlternatives) \in Nat /\ DOMAIN PartAlternatives = 1 .. Len(PartAlternatives)
         /\ \A i \in DOMAIN PartAlternatives :
               /\ PartAlternatives[i].isOthers \in BOOLEAN
               /\ PartAlternatives[i].choices \in Seq(ChoiceRanges)
               /\ PartAlternatives[i].fields \in Seq(FieldRanges)
<1> DEFINE A == [isOthers : BOOLEAN, choices : Seq(ChoiceRanges), fields : Seq(FieldRanges)]
           s == PartAlternatives
<1>1. part.low \in Int /\ part.high \in Int
  BY PartsAssumption DEF PartType, Longs
<1>2. part.common \in Seq(FieldRanges) /\ s \in Seq(A)
  BY DEF PartType, PartAlternatives
<1> HIDE DEF s, A
<1>3. Len(s) \in Nat /\ DOMAIN s = 1 .. Len(s) /\ \A i \in DOMAIN s : s[i] \in A
  <2>1. s \in Seq(A)
    BY <1>2
  <2>2. \A i \in DOMAIN s : s[i] \in A
    BY <2>1, Elements
  <2> QED
    BY <2>1, <2>2
<1>4. \A i \in DOMAIN s : /\ s[i].isOthers \in BOOLEAN /\ s[i].choices \in Seq(ChoiceRanges)
                          /\ s[i].fields \in Seq(FieldRanges)
  BY <1>3 DEF A
<1> QED
  BY <1>1, <1>2, <1>3, <1>4 DEF s

(* The places of the choices.                                                    *)
LEMMA PlacesLemma ==
  /\ \A i \in DOMAIN PartAlternatives : \A k \in DOMAIN PartAlternatives[i].choices :
        /\ <<i, k>> \in ChoicesAt /\ WrittenAt(<<i, k>>) = PartAlternatives[i].choices[k]
  /\ \A t \in ChoicesAt : \E i \in DOMAIN PartAlternatives :
        \E k \in DOMAIN PartAlternatives[i].choices : t = <<i, k>>
BY DEF ChoicesAt, WrittenAt

(* The choices of a well formed part are usable, and no two overlap.             *)
LEMMA WellFormedChoices ==
  ASSUME part \in PartType, WellFormed
  PROVE  /\ \A i \in DOMAIN PartAlternatives : \A k \in DOMAIN PartAlternatives[i].choices :
               Usable(PartAlternatives[i].choices[k])
         /\ \A i, j \in DOMAIN PartAlternatives :
               \A k \in DOMAIN PartAlternatives[i].choices, l \in DOMAIN PartAlternatives[j].choices :
                  (i # j \/ k # l) => Apart(PartAlternatives[i].choices[k], PartAlternatives[j].choices[l])
<1>1. \A i \in DOMAIN PartAlternatives : \A k \in DOMAIN PartAlternatives[i].choices :
        PartAlternatives[i].choices[k] \in ChoiceRanges
  <2> SUFFICES ASSUME NEW i \in DOMAIN PartAlternatives, NEW k \in DOMAIN PartAlternatives[i].choices
               PROVE  PartAlternatives[i].choices[k] \in ChoiceRanges
    OBVIOUS
  <2>1. PartAlternatives[i].choices \in Seq(ChoiceRanges)
    BY PartLemma
  <2> QED
    BY <2>1, Elements
<1>2. ASSUME NEW t \in ChoicesAt, WrittenAt(t) \in ChoiceRanges  PROVE Usable(WrittenAt(t))
  <2>1. /\ WrittenAt(t).static /\ WrittenAt(t).low \in part.low .. WrittenAt(t).high
        /\ WrittenAt(t).high <= part.high
    BY DEF WellFormed
  <2>2. part.low \in Int /\ WrittenAt(t).low \in Int /\ WrittenAt(t).high \in Int
    BY <1>2, PartLemma, RangeLemma
  <2> QED
    BY <2>1, <2>2 DEF Usable
<1>3. \A i \in DOMAIN PartAlternatives : \A k \in DOMAIN PartAlternatives[i].choices :
        Usable(PartAlternatives[i].choices[k])
  BY <1>1, <1>2, PlacesLemma
<1>4. ASSUME NEW i \in DOMAIN PartAlternatives, NEW j \in DOMAIN PartAlternatives,
             NEW k \in DOMAIN PartAlternatives[i].choices,
             NEW l \in DOMAIN PartAlternatives[j].choices, i # j \/ k # l
      PROVE  Apart(PartAlternatives[i].choices[k], PartAlternatives[j].choices[l])
  <2> DEFINE c == PartAlternatives[i].choices[k]
             d == PartAlternatives[j].choices[l]
  <2>1. c \in ChoiceRanges /\ d \in ChoiceRanges /\ Usable(c) /\ Usable(d)
    BY <1>1, <1>3
  <2>2. \A v \in part.low .. part.high : ~(v \in c.low .. c.high /\ v \in d.low .. d.high)
    <3>1. <<i, k>> \in ChoicesAt /\ <<j, l>> \in ChoicesAt /\ <<i, k>> # <<j, l>>
      BY <1>4, PlacesLemma
    <3>2. WrittenAt(<<i, k>>) = c /\ WrittenAt(<<j, l>>) = d
      BY PlacesLemma
    <3> QED
      BY <3>1, <3>2 DEF WellFormed
  <2> HIDE DEF c, d
  <2>3. /\ c.low \in Int /\ c.high \in Int /\ d.low \in Int /\ d.high \in Int
        /\ part.low \in Int /\ part.high \in Int
    BY <2>1, PartLemma, RangeLemma
  <2>4. \A v \in Int : ~(v \in c.low .. c.high /\ v \in d.low .. d.high)
    BY <2>1, <2>2, <2>3 DEF Usable
  <2>5. Apart(c, d)
    BY <2>1, <2>4, ApartLemma DEF Usable
  <2> QED
    BY <2>5 DEF c, d
<1> QED
  BY <1>3, <1>4

(* Nothing is read at first.                                                     *)
LEMMA VariantInitInv == VariantInit => VariantInv
<1> SUFFICES ASSUME VariantInit  PROVE VariantInv
  OBVIOUS
<1>1. part \in PartType /\ resolved = <<>> /\ covered = <<>> /\ placed = <<>>
  BY PartsAssumption DEF VariantInit, PartType
<1>2. offset = 0 /\ baseOffset = 0 /\ errors = {} /\ declared = FALSE /\ byteSize = 0 /\ resized = FALSE
  BY DEF VariantInit
<1>3. VariantTypes
  <2>1. Len(resolved) = 0 /\ Len(PartAlternatives) \in Nat
    BY <1>1, PartLemma
  <2>2. resolved \in Seq(Resolveds) /\ covered \in Seq(ChoiceRanges) /\ placed \in Seq(Spots)
    BY <1>1
  <2>3. part \in PartType /\ Len(resolved) <= Len(PartAlternatives)
    BY <1>1, <2>1
  <2>4. offset \in Nat /\ baseOffset \in Nat /\ byteSize \in Nat /\ resized \in BOOLEAN
    BY <1>2
  <2> QED
    BY <2>2, <2>3, <2>4 DEF VariantTypes
<1>4. ToSet(covered) = {} /\ DOMAIN resolved = {} /\ DOMAIN placed = {}
  BY <1>1 DEF ToSet
<1>5. KeptApart /\ NothingDropped /\ NothingInvented /\ AtTheEnd /\ LaidOut
  BY <1>2, <1>4 DEF KeptApart, NothingDropped, NothingInvented, AtTheEnd, LaidOut, InPlace, Harmless
<1> QED
  BY <1>3, <1>5 DEF VariantInv

(* A part that does not change keeps what is said of it.                         *)
LEMMA SamePart ==
  ASSUME part' = part
  PROVE  /\ WellFormed' <=> WellFormed
         /\ PartAlternatives' = PartAlternatives
         /\ \A c : Usable(c)' <=> Usable(c)
<1>1. WellFormed' <=> WellFormed
  BY DEF WellFormed, ChoicesAt, WrittenAt, Written, PartAlternatives
<1> QED
  BY <1>1 DEF PartAlternatives, Usable

(* The common components are placed first, and change no choice.                 *)
LEMMA PlaceCommonInv == ASSUME VariantInv, PlaceCommon PROVE VariantInv'
<1> DEFINE all == Place(part.common, 0, 0)
<1>1. /\ ~declared /\ declared' = declared /\ part' = part /\ resolved' = resolved
      /\ covered' = covered /\ placed = <<>>
      /\ offset' = all.offset /\ baseOffset' = all.offset /\ placed' = all.placed
      /\ errors' = errors \cup all.errors /\ byteSize' = byteSize /\ resized' = resized
  BY DEF PlaceCommon, sizeVars
<1>2. all \in Placement /\ Extends(all.placed, placed, 0, 0, all.offset)
  BY PartLemma, PlaceFold DEF VariantInv, VariantTypes
<1> HIDE DEF all
<1>3. all.offset \in Nat /\ all.placed \in Seq(Spots) /\ all.errors \subseteq {"duplicate"}
  BY <1>2 DEF Placement
<1>4. Harmless' <=> Harmless
  BY <1>1, <1>3 DEF Harmless
<1>5. VariantTypes'
  BY <1>1, <1>3 DEF VariantInv, VariantTypes, PartAlternatives
<1>6. KeptApart' /\ NothingDropped'
  BY <1>1, <1>4, SamePart DEF VariantInv, KeptApart, NothingDropped
<1>7. NothingInvented' /\ AtTheEnd'
  BY <1>1, <1>4, SamePart DEF VariantInv, NothingInvented, AtTheEnd
<1>8. LaidOut'
  <2>1. Len(placed) = 0 /\ Len(resolved) \in Nat
    BY <1>1 DEF VariantInv, VariantTypes
  <2> DEFINE spots == all.placed
  <2>2. DOMAIN spots = 1 .. Len(spots) /\ Len(spots) \in Nat
    BY <1>3
  <2>3. \A i \in DOMAIN spots : spots[i] \in Spots
    BY <1>3, Elements
  <2>4. /\ \A i \in DOMAIN spots :
              /\ spots[i].variant = 0 /\ spots[i].at % spots[i].alignment = 0
              /\ 0 <= spots[i].at /\ spots[i].at + spots[i].size <= all.offset
        /\ \A i, j \in DOMAIN spots : i < j => spots[i].at + spots[i].size <= spots[j].at
    BY <1>2, <2>1, <2>2 DEF Extends
  <2> HIDE DEF spots
  <2>5. placed' = spots /\ baseOffset' = all.offset /\ resolved' = resolved
    BY <1>1 DEF spots
  <2>6. InPlace'
    BY <2>4, <2>5 DEF InPlace
  <2>7. \A i \in DOMAIN placed' : placed'[i].variant <= Len(resolved')
    BY <2>1, <2>4, <2>5
  <2>8. ~resized'
    BY <1>1 DEF VariantInv, LaidOut
  <2> QED
    BY <2>6, <2>7, <2>8 DEF LaidOut
<1> QED
  BY <1>5, <1>6, <1>7, <1>8 DEF VariantInv

(* The end changes nothing but what is reported.                                 *)
LEMMA EndPartInv == ASSUME VariantInv, EndPart PROVE VariantInv'
<1>1. /\ ~declared /\ declared' = TRUE /\ part' = part /\ resolved' = resolved
      /\ covered' = covered /\ placed' = placed /\ offset' = offset /\ baseOffset' = baseOffset
      /\ Len(resolved) = Len(PartAlternatives) /\ byteSize' = byteSize /\ resized' = resized
  BY DEF EndPart, sizeVars
<1>2. PICK wraps \in BOOLEAN :
        errors' = errors \cup (IF ~SawOthers /\ Uncovered(wraps) # {} THEN {"uncovered"} ELSE {})
  BY DEF EndPart
<1>3. part \in PartType /\ covered \in Seq(ChoiceRanges) /\ resolved \in Seq(Resolveds)
  BY DEF VariantInv, VariantTypes
<1>4. /\ Harmless' => Harmless /\ (SawOthers \/ Uncovered(wraps) = {})
      /\ Harmless /\ (SawOthers \/ Uncovered(wraps) = {}) => Harmless'
  BY <1>2 DEF Harmless
<1>5. VariantTypes' /\ KeptApart' /\ LaidOut'
  BY <1>1, SamePart DEF VariantInv, VariantTypes, KeptApart, LaidOut, InPlace
<1>6. NothingDropped' /\ NothingInvented'
  BY <1>1, <1>4, SamePart DEF VariantInv, NothingDropped, NothingInvented
<1>7. Harmless' => SawOthers \/ \A v \in part.low .. part.high : \E c \in ToSet(covered) : Holds(c, v)
  BY <1>3, <1>4, NothingLeft
<1>8. ASSUME WellFormed, part.high < LongLast  PROVE Harmless'
  <2>1. Harmless
    BY <1>1, <1>8 DEF VariantInv, NothingInvented
  <2>2. CASE SawOthers
    BY <1>4, <2>1, <2>2
  <2>3. CASE ~SawOthers
    <3>1. /\ \A i \in DOMAIN resolved : resolved[i].choices = PartAlternatives[i].choices
          /\ DOMAIN resolved = DOMAIN PartAlternatives
      BY <1>1, <1>3, <2>1, PartLemma DEF VariantInv, NothingDropped
    <3>2. \A i \in DOMAIN PartAlternatives : ~PartAlternatives[i].isOthers
      BY <2>3, <3>1 DEF SawOthers, VariantInv, KeptApart
    <3>3. part.low .. part.high \subseteq UNION {Written(i) : i \in DOMAIN PartAlternatives}
      BY <1>8, <3>2 DEF WellFormed
    <3>4. \A v \in part.low .. part.high : \E c \in ToSet(covered) : Holds(c, v)
      <4> SUFFICES ASSUME NEW v \in part.low .. part.high
                   PROVE  \E c \in ToSet(covered) : Holds(c, v)
        OBVIOUS
      <4>1. PICK i \in DOMAIN PartAlternatives : \E c \in ToSet(PartAlternatives[i].choices) : v \in c.low .. c.high
        BY <3>3 DEF Written
      <4>2. PICK c \in ToSet(PartAlternatives[i].choices) : v \in c.low .. c.high
        BY <4>1
      <4>3. c \in ToSet(covered)
        BY <3>1 DEF VariantInv, KeptApart
      <4>4. c \in ChoiceRanges
        BY <1>3, <4>3, Elements
      <4>5. c.low \in Int /\ c.high \in Int
        BY <4>4, RangeLemma
      <4> QED
        BY <4>2, <4>3, <4>5 DEF Holds
    <3>5. \A c \in ToSet(covered) : Usable(c)
      BY DEF VariantInv, KeptApart
    <3>6. \A c, d \in ToSet(covered) : c # d => Apart(c, d)
      <4> SUFFICES ASSUME NEW c \in ToSet(covered), NEW d \in ToSet(covered), c # d  PROVE Apart(c, d)
        OBVIOUS
      <4>1. PICK i \in DOMAIN resolved : c \in ToSet(resolved[i].choices)
        BY DEF VariantInv, KeptApart
      <4>2. PICK j \in DOMAIN resolved : d \in ToSet(resolved[j].choices)
        BY DEF VariantInv, KeptApart
      <4>3. CASE i # j
        BY <4>1, <4>2, <4>3 DEF VariantInv, KeptApart
      <4>4. CASE i = j
        <5>1. PICK k \in DOMAIN resolved[i].choices : c = resolved[i].choices[k]
          BY <4>1 DEF ToSet
        <5>2. PICK l \in DOMAIN resolved[i].choices : d = resolved[i].choices[l]
          BY <4>2, <4>4 DEF ToSet
        <5>3. k # l
          BY <4>4, <5>1, <5>2
        <5> QED
          BY <5>1, <5>2, <5>3 DEF VariantInv, KeptApart
      <4> QED
        BY <4>3, <4>4
    <3>7. Uncovered(wraps) = {}
      BY <1>3, <1>8, <3>4, <3>5, <3>6, NothingFound
    <3> QED
      BY <1>4, <2>1, <3>7
  <2> QED
    BY <2>2, <2>3
<1>9. AtTheEnd'
  <2>1. SawOthers' <=> SawOthers
    BY <1>1 DEF SawOthers
  <2> QED
    BY <1>1, <1>7, <1>8, <2>1, SamePart DEF AtTheEnd
<1> QED
  BY <1>5, <1>6, <1>9 DEF VariantInv

(* Reading an alternative of a well formed part reports nothing of its choices.   *)
LEMMA CleanAlternative ==
  ASSUME VariantInv, WellFormed, Harmless, Len(resolved) < Len(PartAlternatives),
         NEW n, n = Len(resolved) + 1
  PROVE  /\ \A i \in DOMAIN PartAlternatives[n].choices :
               /\ Usable(PartAlternatives[n].choices[i])
               /\ \A d \in ToSet(covered) : Apart(PartAlternatives[n].choices[i], d)
         /\ \A i, j \in DOMAIN PartAlternatives[n].choices : i # j =>
               Apart(PartAlternatives[n].choices[i], PartAlternatives[n].choices[j])
         /\ ~SawOthers
<1> DEFINE choices == PartAlternatives[n].choices
           m == Len(PartAlternatives)
<1>1. part \in PartType /\ resolved \in Seq(Resolveds)
  BY DEF VariantInv, VariantTypes
<1>2. m \in Nat /\ DOMAIN PartAlternatives = 1 .. m
  BY <1>1, PartLemma
<1>3. Len(resolved) \in Nat /\ DOMAIN resolved = 1 .. Len(resolved)
  BY <1>1
<1>4. /\ n \in DOMAIN PartAlternatives
      /\ \A j \in DOMAIN resolved : j \in DOMAIN PartAlternatives /\ j # n /\ j # m
  BY <1>2, <1>3
<1>5. /\ \A k \in DOMAIN choices : Usable(choices[k])
      /\ \A j \in DOMAIN PartAlternatives :
            \A k \in DOMAIN choices, l \in DOMAIN PartAlternatives[j].choices :
               (n # j \/ k # l) => Apart(choices[k], PartAlternatives[j].choices[l])
  BY <1>1, <1>4, WellFormedChoices
<1>6. ASSUME NEW k \in DOMAIN choices, NEW d \in ToSet(covered)  PROVE Apart(choices[k], d)
  <2>1. PICK j \in DOMAIN resolved : d \in ToSet(resolved[j].choices)
    BY DEF VariantInv, KeptApart
  <2>2. resolved[j].choices = PartAlternatives[j].choices
    BY DEF VariantInv, NothingDropped
  <2>3. PICK l \in DOMAIN PartAlternatives[j].choices : d = PartAlternatives[j].choices[l]
    BY <2>1, <2>2 DEF ToSet
  <2> QED
    BY <1>4, <1>5, <2>3
<1>7. ~SawOthers
  <2> SUFFICES ASSUME NEW i \in DOMAIN resolved, resolved[i].isOthers  PROVE FALSE
    BY DEF SawOthers
  <2>1. PartAlternatives[i].isOthers
    BY DEF VariantInv, KeptApart
  <2>2. i = m
    BY <1>4, <2>1 DEF WellFormed
  <2> QED
    BY <1>4, <2>2
<1> QED
  BY <1>4, <1>5, <1>6, <1>7

(* Reading an alternative keeps its choices apart from those before it, and      *)
(* places its components behind the common ones.                                 *)
LEMMA AlternativeInv == ASSUME VariantInv, Alternative PROVE VariantInv'
<1> DEFINE n == Len(resolved) + 1
           variant == PartAlternatives[n]
           answer == Resolve(variant.choices)
           all == Place(variant.fields, n, baseOffset)
           entry == [isOthers |-> variant.isOthers, choices |-> answer.kept]
<1>1. /\ ~declared /\ declared' = declared /\ part' = part /\ baseOffset' = baseOffset
      /\ Len(resolved) < Len(PartAlternatives)
      /\ resolved' = Append(resolved, entry) /\ covered' = answer.covered
      /\ offset' = all.offset /\ placed' = all.placed
      /\ errors' = errors \cup answer.errors \cup all.errors \cup (IF SawOthers THEN {"misplaced"} ELSE {})
      /\ byteSize' = byteSize /\ resized' = resized
  BY DEF Alternative, VariantBase, sizeVars
<1>2. /\ part \in PartType /\ covered \in Seq(ChoiceRanges) /\ resolved \in Seq(Resolveds)
      /\ placed \in Seq(Spots) /\ baseOffset \in Nat /\ offset \in Nat
      /\ byteSize \in Nat /\ resized \in BOOLEAN
  BY DEF VariantInv, VariantTypes
<1>3. Len(resolved) \in Nat /\ DOMAIN resolved = 1 .. Len(resolved) /\ n \in Nat /\ n \in DOMAIN PartAlternatives
  BY <1>1, <1>2, PartLemma
<1>4. /\ variant.isOthers \in BOOLEAN /\ variant.choices \in Seq(ChoiceRanges)
      /\ variant.fields \in Seq(FieldRanges)
  BY <1>2, <1>3, PartLemma
<1>5. /\ answer \in Resolution
      /\ ToSet(answer.covered) = ToSet(covered) \cup ToSet(answer.kept)
      /\ \A c \in ToSet(answer.kept) : Usable(c) /\ \A d \in ToSet(covered) : Apart(c, d)
      /\ \A i, j \in DOMAIN answer.kept : i # j => Apart(answer.kept[i], answer.kept[j])
      /\ answer.errors = {} => answer.kept = variant.choices
  BY <1>2, <1>4, ResolveFold
<1>6. (/\ \A i \in DOMAIN variant.choices :
              Usable(variant.choices[i]) /\ \A d \in ToSet(covered) : Apart(variant.choices[i], d)
       /\ \A i, j \in DOMAIN variant.choices : i # j => Apart(variant.choices[i], variant.choices[j]))
      => answer.errors = {}
  BY <1>2, <1>4, ResolveFold
<1>7. all \in Placement /\ Extends(all.placed, placed, n, baseOffset, all.offset)
  BY <1>2, <1>3, <1>4, PlaceFold
<1>8. WellFormed /\ Harmless => answer.errors = {} /\ ~SawOthers
  BY <1>1, <1>6, CleanAlternative
<1> HIDE DEF all, answer
<1>9. /\ answer.covered \in Seq(ChoiceRanges) /\ answer.kept \in Seq(ChoiceRanges)
      /\ answer.errors \subseteq ChoiceErrors
      /\ all.offset \in Nat /\ all.placed \in Seq(Spots) /\ all.errors \subseteq {"duplicate"}
  BY <1>5, <1>7 DEF Placement, Resolution
<1>10. entry \in Resolveds /\ entry.isOthers = variant.isOthers /\ entry.choices = answer.kept
  BY <1>4, <1>9 DEF Resolveds
<1> HIDE DEF entry, variant
<1>11. /\ resolved' \in Seq(Resolveds) /\ DOMAIN resolved' = 1 .. n /\ Len(resolved') = n
       /\ resolved'[n] = entry /\ \A i \in DOMAIN resolved : resolved'[i] = resolved[i]
  BY <1>1, <1>2, <1>3, <1>10, AppendFacts
<1> HIDE DEF n
<1>12. n \notin DOMAIN resolved /\ \A i : i \in DOMAIN resolved' <=> i \in DOMAIN resolved \/ i = n
  BY <1>3, <1>11 DEF n
<1>13. VariantTypes'
  <2>1. Len(resolved') <= Len(PartAlternatives')
    BY <1>1, <1>3, <1>11, PartLemma, <1>2, SamePart
  <2> QED
    BY <1>1, <1>2, <1>9, <1>11, <2>1 DEF VariantTypes
<1>14. /\ Harmless' => Harmless /\ answer.errors = {} /\ ~SawOthers
       /\ Harmless /\ answer.errors = {} /\ ~SawOthers => Harmless'
  <2>1. "duplicate" \notin ChoiceErrors /\ "size" \notin ChoiceErrors
    BY DEF ChoiceErrors
  <2> QED
    BY <1>1, <1>9, <2>1 DEF Harmless
<1>15. /\ \A i \in DOMAIN resolved : PartAlternatives'[i] = PartAlternatives[i]
       /\ PartAlternatives'[n] = variant
       /\ \A c : Usable(c)' <=> Usable(c)
  BY <1>1, SamePart DEF variant
<1>16. ToSet(resolved'[n].choices) = ToSet(answer.kept)
  BY <1>10, <1>11
<1>17. KeptApart'
  <2>1. \A i \in DOMAIN resolved' : resolved'[i].isOthers = PartAlternatives'[i].isOthers
    BY <1>10, <1>11, <1>12, <1>15 DEF VariantInv, KeptApart
  <2>2. ToSet(covered') = ToSet(covered) \cup ToSet(answer.kept)
    BY <1>1, <1>5
  <2>3. ASSUME NEW i \in DOMAIN resolved', NEW c \in ToSet(resolved'[i].choices)
        PROVE  c \in ToSet(covered') /\ Usable(c)'
    <3>1. CASE i \in DOMAIN resolved
      BY <1>11, <1>15, <2>2, <2>3, <3>1 DEF VariantInv, KeptApart
    <3>2. CASE i = n
      BY <1>5, <1>15, <1>16, <2>2, <2>3, <3>2
    <3> QED
      BY <1>12, <3>1, <3>2
  <2>4. ASSUME NEW c \in ToSet(covered')
        PROVE  \E i \in DOMAIN resolved' : c \in ToSet(resolved'[i].choices)
    <3>1. CASE c \in ToSet(covered)
      <4>1. PICK i \in DOMAIN resolved : c \in ToSet(resolved[i].choices)
        BY <3>1 DEF VariantInv, KeptApart
      <4>2. i \in DOMAIN resolved' /\ resolved'[i] = resolved[i]
        BY <1>11, <1>12
      <4> QED
        BY <4>1, <4>2
    <3>2. CASE c \in ToSet(answer.kept)
      BY <1>12, <1>16, <3>2
    <3> QED
      BY <2>2, <3>1, <3>2
  <2>5. ASSUME NEW i \in DOMAIN resolved', NEW k \in DOMAIN resolved'[i].choices,
               NEW l \in DOMAIN resolved'[i].choices, k # l
        PROVE  Apart(resolved'[i].choices[k], resolved'[i].choices[l])
    <3>1. CASE i \in DOMAIN resolved
      BY <1>11, <2>5, <3>1 DEF VariantInv, KeptApart
    <3>2. CASE i = n
      <4>1. resolved'[i].choices = answer.kept
        BY <1>10, <1>11, <3>2
      <4> QED
        BY <1>5, <2>5, <4>1
    <3> QED
      BY <1>12, <3>1, <3>2
  <2>6. ASSUME NEW i \in DOMAIN resolved', NEW j \in DOMAIN resolved', i # j,
               NEW c \in ToSet(resolved'[i].choices), NEW d \in ToSet(resolved'[j].choices)
        PROVE  Apart(c, d)
    <3>1. CASE i \in DOMAIN resolved /\ j \in DOMAIN resolved
      BY <1>11, <2>6, <3>1 DEF VariantInv, KeptApart
    <3>2. CASE i = n /\ j \in DOMAIN resolved
      <4>1. c \in ToSet(answer.kept) /\ d \in ToSet(resolved[j].choices)
        BY <1>11, <1>16, <2>6, <3>2
      <4>2. d \in ToSet(covered)
        BY <3>2, <4>1 DEF VariantInv, KeptApart
      <4> QED
        BY <1>5, <4>1, <4>2
    <3>3. CASE j = n /\ i \in DOMAIN resolved
      <4>1. d \in ToSet(answer.kept) /\ c \in ToSet(resolved[i].choices)
        BY <1>11, <1>16, <2>6, <3>3
      <4>2. c \in ToSet(covered)
        BY <3>3, <4>1 DEF VariantInv, KeptApart
      <4>3. Apart(d, c)
        BY <1>5, <4>1, <4>2
      <4>4. c \in ChoiceRanges /\ d \in ChoiceRanges
        BY <1>2, <1>9, <4>1, <4>2, Elements
      <4> QED
        BY <4>3, <4>4, ApartLemma
    <3> QED
      BY <1>12, <2>6, <3>1, <3>2, <3>3
  <2>7. ASSUME NEW i, NEW k, NEW l  PROVE Apart(resolved[i].choices[k], resolved[i].choices[l])' <=> Apart(resolved'[i].choices[k], resolved'[i].choices[l])
    BY DEF Apart, Overlap
  <2> QED
    BY <2>1, <2>3, <2>4, <2>5, <2>6, <2>7 DEF KeptApart
<1>18. NothingDropped'
  <2> SUFFICES ASSUME Harmless'
               PROVE  /\ \A i \in DOMAIN resolved' : resolved'[i].choices = PartAlternatives'[i].choices
                      /\ \A i \in DOMAIN resolved' : resolved'[i].isOthers => i = Len(resolved')
    BY DEF NothingDropped
  <2>1. Harmless /\ answer.errors = {} /\ ~SawOthers
    BY <1>14
  <2>2. ASSUME NEW i \in DOMAIN resolved
        PROVE  resolved'[i].choices = PartAlternatives'[i].choices /\ ~resolved'[i].isOthers
    BY <1>11, <1>15, <2>1 DEF VariantInv, NothingDropped, SawOthers
  <2>3. resolved'[n].choices = PartAlternatives'[n].choices
    BY <1>5, <1>10, <1>11, <1>15, <2>1
  <2> QED
    BY <1>11, <1>12, <2>2, <2>3
<1>19. NothingInvented' /\ AtTheEnd'
  <2>1. (~declared /\ WellFormed) => Harmless
    BY DEF VariantInv, NothingInvented
  <2>2. WellFormed' <=> WellFormed
    BY <1>1, SamePart
  <2>3. WellFormed' => Harmless'
    BY <1>1, <1>8, <1>14, <2>1, <2>2
  <2> QED
    BY <1>1, <2>3 DEF NothingInvented, AtTheEnd
<1>20. LaidOut'
  <2> DEFINE spots == all.placed
             m == Len(placed)
  <2>1. /\ DOMAIN spots = 1 .. Len(spots) /\ Len(spots) \in Nat
        /\ m \in Nat /\ DOMAIN placed = 1 .. m
    BY <1>2, <1>9
  <2>2. /\ m <= Len(spots) /\ \A i \in DOMAIN placed : spots[i] = placed[i]
        /\ \A i \in DOMAIN spots : i > m =>
              /\ spots[i].variant = n /\ spots[i].at % spots[i].alignment = 0
              /\ baseOffset <= spots[i].at /\ spots[i].at + spots[i].size <= all.offset
        /\ \A i, j \in DOMAIN spots : m < i /\ i < j => spots[i].at + spots[i].size <= spots[j].at
    BY <1>7 DEF Extends
  <2>3. placed' = spots /\ baseOffset' = baseOffset /\ Len(resolved') = n /\ Len(resolved) \in Nat
        /\ n = Len(resolved) + 1
    BY <1>1, <1>3, <1>11 DEF n
  <2> HIDE DEF spots, m
  <2>4. /\ \A i \in DOMAIN placed :
              /\ placed[i].variant <= Len(resolved) /\ placed[i].at % placed[i].alignment = 0
              /\ placed[i].variant = 0 => placed[i].at + placed[i].size <= baseOffset
              /\ placed[i].variant # 0 => baseOffset <= placed[i].at
        /\ \A i, j \in DOMAIN placed : i < j /\ placed[i].variant = placed[j].variant =>
              placed[i].at + placed[i].size <= placed[j].at
    BY <1>1 DEF VariantInv, LaidOut, InPlace
  <2>5. \A i \in DOMAIN placed : placed[i].variant \in Nat
    <3>1. \A i \in DOMAIN placed : placed[i] \in Spots
      BY <1>2, Elements
    <3> QED
      BY <3>1 DEF Spots
  <2>6. ASSUME NEW i \in DOMAIN spots
        PROVE  /\ spots[i].variant <= n /\ spots[i].at % spots[i].alignment = 0
               /\ spots[i].variant = 0 => spots[i].at + spots[i].size <= baseOffset
               /\ spots[i].variant # 0 => baseOffset <= spots[i].at
    <3>1. CASE i \in DOMAIN placed
      <4>1. placed[i].variant <= n
        BY <2>3, <2>4, <2>5, <3>1
      <4> QED
        BY <2>2, <2>4, <3>1, <4>1
    <3>2. CASE i > m
      BY <2>2, <2>3, <2>6, <3>2
    <3> QED
      BY <2>1, <3>1, <3>2
  <2>7. ASSUME NEW i \in DOMAIN spots, NEW j \in DOMAIN spots, i < j, spots[i].variant = spots[j].variant
        PROVE  spots[i].at + spots[i].size <= spots[j].at
    <3>1. CASE i \in DOMAIN placed /\ j \in DOMAIN placed
      BY <2>2, <2>4, <2>7, <3>1
    <3>2. CASE i > m
      BY <2>2, <2>7, <3>2
    <3>3. CASE i \in DOMAIN placed /\ j > m
      <4>1. spots[i].variant <= Len(resolved) /\ spots[i].variant \in Nat /\ spots[j].variant = n
        BY <2>2, <2>4, <2>5, <3>3
      <4> QED
        BY <2>3, <2>7, <4>1
    <3> QED
      BY <2>1, <2>7, <3>1, <3>2, <3>3
  <2>8. InPlace'
    BY <2>3, <2>6, <2>7 DEF InPlace
  <2>9. \A i \in DOMAIN placed' : placed'[i].variant <= Len(resolved')
    BY <2>3, <2>6
  <2>10. ~resized'
    BY <1>1 DEF VariantInv, LaidOut
  <2> QED
    BY <2>8, <2>9, <2>10 DEF LaidOut
<1> QED
  BY <1>13, <1>17, <1>18, <1>19, <1>20 DEF VariantInv

(* Components that change their size stay the components of their alternatives.   *)
LEMMA ResizedLemma ==
  ASSUME placed \in Seq(Spots), NEW field \in ToSet(placed), NEW bytes \in Nat \ {0},
         NEW scalar \in BOOLEAN, NEW after, after = Resized(field, bytes, scalar), NEW n,
         \A i \in DOMAIN placed : placed[i].variant <= n
  PROVE  after \in Seq(Spots) /\ \A i \in DOMAIN after : after[i].variant <= n
<1>1. Len(placed) \in Nat /\ DOMAIN placed = 1 .. Len(placed) /\ \A i \in DOMAIN placed : placed[i] \in Spots
  BY Elements
<1>2. ASSUME NEW i \in DOMAIN placed
      PROVE  after[i] \in Spots /\ after[i].variant = placed[i].variant
  <2>1. placed[i] \in Spots
    BY <1>1
  <2>2. CASE placed[i].size = field.size /\ placed[i].alignment = field.alignment
    <3>1. after[i] = [name |-> placed[i].name, at |-> placed[i].at, size |-> bytes,
                      alignment |-> IF scalar THEN bytes ELSE placed[i].alignment,
                      variant |-> placed[i].variant]
      BY <2>2 DEF Resized
    <3> QED
      BY <2>1, <3>1 DEF Spots
  <2>3. CASE ~(placed[i].size = field.size /\ placed[i].alignment = field.alignment)
    <3>1. after[i] = placed[i]
      BY <2>3 DEF Resized
    <3> QED
      BY <2>1, <3>1
  <2> QED
    BY <2>2, <2>3
<1>3. DOMAIN after = DOMAIN placed
  BY DEF Resized
<1>4. after \in [1 .. Len(placed) -> Spots]
  <2>1. after = [i \in DOMAIN placed |-> after[i]]
    BY DEF Resized
  <2> QED
    BY <1>1, <1>2, <2>1
<1> QED
  BY <1>1, <1>2, <1>3, <1>4

(* A clause leaves the choices alone, and every component where it was placed.    *)
LEMMA SizeClauseInv ==
  ASSUME VariantInv, NEW bits \in SizeBits, SizeClause(bits)
  PROVE  VariantInv'
<1>1. /\ declared /\ declared' = declared /\ part' = part /\ resolved' = resolved
      /\ covered' = covered /\ offset' = offset /\ baseOffset' = baseOffset
  BY DEF SizeClause
<1>2. /\ placed \in Seq(Spots) /\ byteSize \in Nat /\ resized \in BOOLEAN
      /\ \A i \in DOMAIN placed : placed[i].variant <= Len(resolved)
      /\ ~resized => InPlace
  BY DEF VariantInv, VariantTypes, LaidOut
<1>3. /\ Harmless' <=> Harmless
      /\ byteSize' \in Nat /\ resized' \in BOOLEAN /\ placed' \in Seq(Spots)
      /\ \A i \in DOMAIN placed' : placed'[i].variant <= Len(resolved)
      /\ ~resized' => placed' = placed /\ ~resized
  <2> DEFINE bytes == bits \div 8
  <2>1. WholeBytes(bits) => bytes \in Nat \ {0}
    <3>1. bits \in Int
      BY PartsAssumption
    <3>2. WholeBytes(bits) => bits > 0 /\ bits % 8 = 0
      BY DEF WholeBytes
    <3> QED
      BY <3>1, <3>2
  <2> HIDE DEF bytes
  <2>2. CASE WholeBytes(bits) /\ SizeOfRecord(bytes)
    <3>1. errors' = errors /\ byteSize' = bytes /\ resized' = resized /\ placed' = placed
      BY <2>2 DEF SizeOfRecord
    <3> QED
      BY <1>2, <2>1, <2>2, <3>1 DEF Harmless
  <2>3. CASE WholeBytes(bits) /\ SizeOfComponent(bytes)
    <3>1. errors' = errors /\ byteSize' = byteSize /\ resized' = TRUE
      BY <2>3 DEF SizeOfComponent
    <3>2. \E field \in ToSet(placed) : \E scalar \in BOOLEAN : placed' = Resized(field, bytes, scalar)
      BY <2>3 DEF SizeOfComponent
    <3>3. PICK field \in ToSet(placed) : \E scalar \in BOOLEAN : placed' = Resized(field, bytes, scalar)
      BY <3>2
    <3>4. PICK scalar \in BOOLEAN : placed' = Resized(field, bytes, scalar)
      BY <3>3
    <3>5. bytes \in Nat \ {0}
      BY <2>1, <2>3
    <3>6. placed' \in Seq(Spots) /\ \A i \in DOMAIN placed' : placed'[i].variant <= Len(resolved)
      BY <1>2, <3>4, <3>5, ResizedLemma
    <3> QED
      BY <1>2, <3>1, <3>6 DEF Harmless
  <2>4. CASE ~WholeBytes(bits) /\ SizeRefused
    <3>1. errors' = errors \cup {"size"} /\ byteSize' = byteSize /\ resized' = resized /\ placed' = placed
      BY <2>4 DEF SizeRefused
    <3> QED
      BY <1>2, <3>1 DEF Harmless
  <2> QED
    BY <2>2, <2>3, <2>4 DEF SizeClause, bytes
<1>4. VariantTypes' /\ KeptApart'
  BY <1>1, <1>3, SamePart DEF VariantInv, VariantTypes, KeptApart
<1>5. NothingDropped' /\ NothingInvented' /\ AtTheEnd'
  BY <1>1, <1>3, SamePart DEF VariantInv, NothingDropped, NothingInvented, AtTheEnd, SawOthers
<1>6. LaidOut'
  <2>1. ASSUME ~resized'  PROVE InPlace'
    BY <1>1, <1>2, <1>3, <2>1 DEF InPlace
  <2> QED
    BY <1>1, <1>3, <2>1 DEF LaidOut
<1> QED
  BY <1>4, <1>5, <1>6 DEF VariantInv

(* No step breaks the invariant.                                                 *)
LEMMA VariantStep == ASSUME VariantInv, [VariantNext]_variantVars PROVE VariantInv'
<1>1. CASE PlaceCommon
  BY <1>1, PlaceCommonInv
<1>2. CASE Alternative
  BY <1>2, AlternativeInv
<1>3. CASE EndPart
  BY <1>3, EndPartInv
<1>4. CASE \E bits \in SizeBits : SizeClause(bits)
  BY <1>4, SizeClauseInv
<1>5. CASE UNCHANGED variantVars
  <2>1. part' = part /\ resolved' = resolved /\ covered' = covered /\ offset' = offset
        /\ baseOffset' = baseOffset /\ placed' = placed /\ errors' = errors /\ declared' = declared
        /\ byteSize' = byteSize /\ resized' = resized
    BY <1>5 DEF variantVars
  <2>2. VariantTypes' /\ KeptApart' /\ LaidOut'
    BY <2>1, SamePart DEF VariantInv, VariantTypes, KeptApart, LaidOut, InPlace
  <2>3. NothingDropped' /\ NothingInvented' /\ AtTheEnd'
    BY <2>1, SamePart DEF VariantInv, NothingDropped, NothingInvented, AtTheEnd, Harmless, SawOthers
  <2> QED
    BY <2>2, <2>3 DEF VariantInv
<1> QED
  BY <1>1, <1>2, <1>3, <1>4, <1>5 DEF VariantNext

(* What a declaration that is being read keeps.                                  *)
THEOREM VariantInvHolds == VariantSpec => []VariantInv
<1> QED
  BY VariantInitInv, VariantStep, PTL DEF VariantSpec

(* What is accepted is well formed, and what is well formed is accepted.         *)
LEMMA ExactLemma == VariantInv => ChoicesExact
<1> SUFFICES ASSUME VariantInv, declared  PROVE
      /\ Harmless => WellFormed
      /\ (WellFormed /\ part.high < LongLast) => Harmless
  BY DEF ChoicesExact, Harmless
<1>1. /\ part \in PartType /\ resolved \in Seq(Resolveds) /\ covered \in Seq(ChoiceRanges)
      /\ Len(resolved) = Len(PartAlternatives)
  BY DEF VariantInv, VariantTypes, AtTheEnd
<1>2. DOMAIN resolved = DOMAIN PartAlternatives
  BY <1>1, PartLemma
<1>3. ASSUME Harmless  PROVE WellFormed
  <2>1. /\ \A i \in DOMAIN PartAlternatives : resolved[i].choices = PartAlternatives[i].choices
        /\ \A i \in DOMAIN PartAlternatives : resolved[i].isOthers => i = Len(PartAlternatives)
        /\ \A i \in DOMAIN PartAlternatives : resolved[i].isOthers = PartAlternatives[i].isOthers
    BY <1>1, <1>2, <1>3 DEF VariantInv, NothingDropped, KeptApart
  <2>2. ASSUME NEW i \in DOMAIN PartAlternatives, NEW k \in DOMAIN PartAlternatives[i].choices
        PROVE  LET c == PartAlternatives[i].choices[k] IN
                  c \in ToSet(resolved[i].choices) /\ Usable(c) /\ c \in ChoiceRanges
    <3>1. PartAlternatives[i].choices \in Seq(ChoiceRanges)
      BY <1>1, PartLemma
    <3>2. /\ PartAlternatives[i].choices[k] \in ToSet(PartAlternatives[i].choices)
          /\ PartAlternatives[i].choices[k] \in ChoiceRanges
      BY <3>1, Elements
    <3> QED
      BY <1>2, <2>1, <3>2 DEF VariantInv, KeptApart
  <2>3. \A t \in ChoicesAt : /\ WrittenAt(t).static
                             /\ WrittenAt(t).low \in part.low .. WrittenAt(t).high
                             /\ WrittenAt(t).high <= part.high
    <3> SUFFICES ASSUME NEW t \in ChoicesAt
                 PROVE  /\ WrittenAt(t).static /\ WrittenAt(t).low \in part.low .. WrittenAt(t).high
                        /\ WrittenAt(t).high <= part.high
      OBVIOUS
    <3>1. Usable(WrittenAt(t)) /\ WrittenAt(t) \in ChoiceRanges
      BY <2>2, PlacesLemma
    <3>2. WrittenAt(t).low \in Int /\ WrittenAt(t).high \in Int /\ part.low \in Int
      BY <1>1, <3>1, RangeLemma, PartLemma
    <3> QED
      BY <3>1, <3>2 DEF Usable
  <2>4. ASSUME NEW t \in ChoicesAt, NEW u \in ChoicesAt, t # u
        PROVE  \A v \in part.low .. part.high :
                  ~(v \in WrittenAt(t).low .. WrittenAt(t).high /\ v \in WrittenAt(u).low .. WrittenAt(u).high)
    <3>1. PICK i \in DOMAIN PartAlternatives : \E k \in DOMAIN PartAlternatives[i].choices : t = <<i, k>>
      BY PlacesLemma
    <3>2. PICK k \in DOMAIN PartAlternatives[i].choices : t = <<i, k>>
      BY <3>1
    <3>3. PICK j \in DOMAIN PartAlternatives : \E l \in DOMAIN PartAlternatives[j].choices : u = <<j, l>>
      BY PlacesLemma
    <3>4. PICK l \in DOMAIN PartAlternatives[j].choices : u = <<j, l>>
      BY <3>3
    <3> DEFINE c == PartAlternatives[i].choices[k]
               d == PartAlternatives[j].choices[l]
    <3>5. WrittenAt(t) = c /\ WrittenAt(u) = d
      BY <3>2, <3>4, PlacesLemma
    <3>6. /\ c \in ToSet(resolved[i].choices) /\ c \in ChoiceRanges
          /\ d \in ToSet(resolved[j].choices) /\ d \in ChoiceRanges
      BY <2>2
    <3>7. Apart(c, d)
      <4>1. CASE i # j
        BY <1>2, <3>6, <4>1 DEF VariantInv, KeptApart
      <4>2. CASE i = j
        <5>1. k # l
          BY <2>4, <3>2, <3>4, <4>2
        <5> QED
          BY <1>2, <2>1, <4>2, <5>1 DEF VariantInv, KeptApart
      <4> QED
        BY <4>1, <4>2
    <3> HIDE DEF c, d
    <3>8. \A v \in Int : ~(v \in c.low .. c.high /\ v \in d.low .. d.high)
      BY <3>6, <3>7, ApartLemma
    <3>9. part.low \in Int /\ part.high \in Int
      BY <1>1, PartLemma
    <3> QED
      BY <3>5, <3>8, <3>9
  <2>5. \A i \in DOMAIN PartAlternatives : PartAlternatives[i].isOthers => i = Len(PartAlternatives)
    BY <2>1
  <2>6. \/ \E i \in DOMAIN PartAlternatives : PartAlternatives[i].isOthers
        \/ part.low .. part.high \subseteq UNION {Written(i) : i \in DOMAIN PartAlternatives}
    <3>1. CASE SawOthers
      BY <1>2, <2>1, <3>1 DEF SawOthers
    <3>2. CASE ~SawOthers
      <4>1. ASSUME NEW v \in part.low .. part.high
            PROVE  v \in UNION {Written(i) : i \in DOMAIN PartAlternatives}
        <5>1. PICK c \in ToSet(covered) : Holds(c, v)
          BY <1>3, <3>2 DEF VariantInv, AtTheEnd
        <5>2. PICK i \in DOMAIN resolved : c \in ToSet(resolved[i].choices)
          BY DEF VariantInv, KeptApart
        <5>3. c \in ToSet(PartAlternatives[i].choices)
          BY <1>2, <2>1, <5>2
        <5>4. c \in ChoiceRanges /\ v \in Int
          BY <1>1, Elements, PartLemma
        <5>5. v \in c.low .. c.high
          BY <5>1, <5>4, RangeLemma DEF Holds
        <5>6. v \in Written(i)
          BY <5>3, <5>5 DEF Written
        <5> QED
          BY <1>2, <5>6
      <4> QED
        BY <4>1
    <3> QED
      BY <3>1, <3>2
  <2> QED
    BY <2>3, <2>4, <2>5, <2>6 DEF WellFormed
<1> QED
  BY <1>3 DEF VariantInv, AtTheEnd

(* The test of a choice is whether it holds the value.                           *)
LEMMA TestLemma ==
  ASSUME NEW c \in ChoiceRanges, NEW v \in Int
  PROVE  RangeTest(v, c) <=> Holds(c, v)
BY RangeLemma DEF RangeTest, Holds

(* Of a declaration without errors every value has one alternative: the only one  *)
(* that names it, or else the one for all others.                                *)
LEMMA OneAlternative ==
  ASSUME VariantInv, declared, Harmless, NEW v \in part.low .. part.high, NEW n, n = Len(resolved)
  PROVE  /\ n \in Nat /\ DOMAIN resolved = 1 .. n
         /\ \A i, j \in DOMAIN resolved : Names(i, v) /\ Names(j, v) => i = j
         /\ \A i \in DOMAIN resolved : resolved[i].isOthers <=> i = n /\ SawOthers
         /\ SawOthers \/ \E i \in DOMAIN resolved : Names(i, v)
<1>1. /\ part \in PartType /\ resolved \in Seq(Resolveds) /\ covered \in Seq(ChoiceRanges)
      /\ part.low \in Int /\ part.high \in Int
  BY PartLemma DEF VariantInv, VariantTypes
<1>2. n \in Nat /\ DOMAIN resolved = 1 .. n
  BY <1>1
<1>3. v \in Int
  BY <1>1
<1>4. ASSUME NEW i \in DOMAIN resolved
      PROVE  Names(i, v) <=> \E c \in ToSet(resolved[i].choices) : c \in ChoiceRanges /\ Holds(c, v)
  <2>1. resolved[i] \in Resolveds
    BY <1>1, Elements
  <2>2. resolved[i].choices \in Seq(ChoiceRanges)
    BY <2>1 DEF Resolveds
  <2> DEFINE s == resolved[i].choices
  <2> HIDE DEF s
  <2>3. s \in Seq(ChoiceRanges)
    BY <2>2 DEF s
  <2>4. /\ \A k \in DOMAIN s : s[k] \in ToSet(s) /\ s[k] \in ChoiceRanges
        /\ \A c \in ToSet(s) : c \in ChoiceRanges /\ \E k \in DOMAIN s : c = s[k]
    BY <2>3, Elements
  <2>5. (\E k \in DOMAIN s : RangeTest(v, s[k])) <=> \E c \in ToSet(s) : c \in ChoiceRanges /\ Holds(c, v)
    BY <1>3, <2>4, TestLemma
  <2> QED
    BY <2>5 DEF Names, s
<1>5. ASSUME NEW i \in DOMAIN resolved, NEW j \in DOMAIN resolved, Names(i, v), Names(j, v), i # j
      PROVE  FALSE
  <2>1. PICK c \in ToSet(resolved[i].choices) : c \in ChoiceRanges /\ Holds(c, v)
    BY <1>4, <1>5
  <2>2. PICK d \in ToSet(resolved[j].choices) : d \in ChoiceRanges /\ Holds(d, v)
    BY <1>4, <1>5
  <2>3. Apart(c, d)
    BY <1>5 DEF VariantInv, KeptApart
  <2>4. v \in c.low .. c.high /\ v \in d.low .. d.high
    BY <1>3, <2>1, <2>2, RangeLemma DEF Holds
  <2> QED
    BY <1>3, <2>1, <2>2, <2>3, <2>4, ApartLemma
<1>6. \A i \in DOMAIN resolved : resolved[i].isOthers => i = n
  BY DEF VariantInv, NothingDropped
<1>7. \A i \in DOMAIN resolved : resolved[i].isOthers <=> i = n /\ SawOthers
  BY <1>6 DEF SawOthers
<1>8. ASSUME ~SawOthers  PROVE \E i \in DOMAIN resolved : Names(i, v)
  <2>1. PICK c \in ToSet(covered) : Holds(c, v)
    BY <1>8 DEF VariantInv, AtTheEnd
  <2>2. PICK i \in DOMAIN resolved : c \in ToSet(resolved[i].choices)
    BY DEF VariantInv, KeptApart
  <2>3. c \in ChoiceRanges
    BY <1>1, Elements
  <2> QED
    BY <1>4, <2>1, <2>2, <2>3
<1> QED
  BY <1>2, <1>5, <1>7, <1>8

(* The four selections have one answer, and only its components may be reached.  *)
LEMMA OneAnswer ==
  ASSUME VariantInv, declared, Harmless, NEW v \in part.low .. part.high
  PROVE  /\ CaseBody(v) \in DOMAIN resolved /\ CaseBody(v) # 0
         /\ VariantFor(v) = CaseBody(v) /\ ComparedVariant(v) = CaseBody(v)
         /\ \A i \in DOMAIN resolved : CheckVariant(i, v) <=> i = CaseBody(v)
<1> DEFINE n == Len(resolved)
           matching == {i \in DOMAIN resolved : ~resolved[i].isOthers /\ Names(i, v)}
<1>1. /\ n \in Nat /\ DOMAIN resolved = 1 .. n
      /\ \A i, j \in DOMAIN resolved : Names(i, v) /\ Names(j, v) => i = j
      /\ \A i \in DOMAIN resolved : resolved[i].isOthers <=> i = n /\ SawOthers
      /\ SawOthers \/ \E i \in DOMAIN resolved : Names(i, v)
  BY OneAlternative
<1> HIDE DEF n
<1>2. matching = Named(n, v)
  BY <1>1 DEF Named
<1>3. PICK answer \in 0 .. n :
        /\ answer = VariantFor(v)
        /\ Named(n, v) # {} => IsFirst(answer, Named(n, v))
        /\ (Named(n, v) = {} /\ Others(n) # {}) => IsLast(answer, Others(n))
        /\ (Named(n, v) = {} /\ Others(n) = {}) => answer = 0
  BY <1>1, LookFold
<1> DEFINE passed == FoldLeft(LAMBDA l, i :
                        IF l = 0 /\ ~resolved[i].isOthers /\ Names(i, v) THEN i ELSE l,
                        0, [i \in DOMAIN resolved |-> i])
<1>4. PICK label \in 0 .. n :
        /\ label = passed
        /\ IF Named(n, v) = {} THEN label = 0 ELSE IsFirst(label, Named(n, v))
  BY <1>1, TestsFold
<1>5. ComparedVariant(v) = IF passed = 0 THEN OthersLabel ELSE passed
  BY Zenon DEF ComparedVariant
<1> HIDE DEF passed
<1>6. CaseBody(v) = IF matching = {} THEN OthersLabel ELSE CHOOSE i \in matching : \A j \in matching : i <= j
  BY DEF CaseBody
<1> HIDE DEF matching
<1>7. ASSUME NEW m \in DOMAIN resolved, ~resolved[m].isOthers, Names(m, v)
      PROVE  /\ Named(n, v) = {m} /\ CaseBody(v) = m /\ VariantFor(v) = m /\ ComparedVariant(v) = m
             /\ \A i \in DOMAIN resolved : CheckVariant(i, v) <=> i = m
  <2>1. Named(n, v) = {m}
    BY <1>1, <1>7 DEF Named
  <2>2. m \in Int /\ m # 0
    BY <1>1
  <2>3. \A i : (i \in {m} /\ \A j \in {m} : i <= j) <=> i = m
    BY <2>2
  <2>4. CaseBody(v) = CHOOSE i \in {m} : \A j \in {m} : i <= j
    BY <1>2, <1>6, <2>1
  <2>5. CaseBody(v) = m
    BY <2>3, <2>4
  <2>6. VariantFor(v) = m
    BY <1>3, <2>1 DEF IsFirst
  <2>7. passed = m
    BY <1>4, <2>1 DEF IsFirst
  <2>8. ComparedVariant(v) = m
    BY <1>5, <2>2, <2>7
  <2>9. \A i \in DOMAIN resolved : CheckVariant(i, v) <=> i = m
    BY <1>1, <1>7 DEF CheckVariant
  <2> QED
    BY <2>1, <2>5, <2>6, <2>8, <2>9
<1>8. ASSUME \A m \in DOMAIN resolved : resolved[m].isOthers \/ ~Names(m, v)
      PROVE  /\ n \in DOMAIN resolved /\ n # 0
             /\ CaseBody(v) = n /\ VariantFor(v) = n /\ ComparedVariant(v) = n
             /\ \A i \in DOMAIN resolved : CheckVariant(i, v) <=> i = n
  <2>1. Named(n, v) = {} /\ matching = {}
    BY <1>1, <1>2, <1>8 DEF Named
  <2>2. SawOthers
    BY <1>1, <1>8
  <2>3. n \in DOMAIN resolved /\ n # 0 /\ Others(n) = {n} /\ resolved[n].isOthers
    BY <1>1, <2>2 DEF SawOthers, Others
  <2>4. \A i : (/\ i \in DOMAIN resolved /\ resolved[i].isOthers
                /\ \A j \in DOMAIN resolved : resolved[j].isOthers => j <= i) <=> i = n
    BY <1>1, <2>2, <2>3
  <2>5. OthersLabel = n
    BY <2>2, <2>4 DEF OthersLabel
  <2>6. CaseBody(v) = n /\ ComparedVariant(v) = n
    BY <1>4, <1>5, <1>6, <2>1, <2>5
  <2>7. VariantFor(v) = n
    BY <1>3, <2>1, <2>3 DEF IsLast
  <2>8. \A i \in DOMAIN resolved : CheckVariant(i, v) <=> i = n
    BY <1>1, <1>8, <2>2, <2>3 DEF CheckVariant
  <2> QED
    BY <2>3, <2>6, <2>7, <2>8
<1>9. CASE \E m \in DOMAIN resolved : ~resolved[m].isOthers /\ Names(m, v)
  <2>1. PICK m \in DOMAIN resolved : ~resolved[m].isOthers /\ Names(m, v)
    BY <1>9
  <2>2. m # 0
    BY <1>1
  <2> QED
    BY <1>7, <2>1, <2>2
<1>10. CASE ~\E m \in DOMAIN resolved : ~resolved[m].isOthers /\ Names(m, v)
  BY <1>8, <1>10
<1> QED
  BY <1>9, <1>10

(* Of finitely many numbers one is the largest.                                  *)
LEMMA LargestLemma ==
  ASSUME NEW S \in SUBSET Int, IsFiniteSet(S), S # {}
  PROVE  Largest(S) \in S /\ \A y \in S : y <= Largest(S)
<1> DEFINE Has(t) == \E x \in t : \A y \in t : y <= x
           G == {t \in SUBSET S : t = {} \/ Has(t)}
<1>1. ASSUME NEW t \in SUBSET S, NEW x \in t, t \ {x} \in G  PROVE t \in G
  <2>1. CASE t \ {x} = {}
    BY <2>1
  <2>2. CASE Has(t \ {x})
    <3>1. PICK z \in t \ {x} : \A y \in t \ {x} : y <= z
      BY <2>2
    <3>2. CASE z <= x
      BY <3>1, <3>2
    <3>3. CASE x <= z
      BY <3>1, <3>3
    <3> QED
      BY <3>2, <3>3
  <2> QED
    BY <1>1, <2>1, <2>2
<1>2. {} \in G
  OBVIOUS
<1>3. S \in G
  <2> HIDE DEF G
  <2>1. \A t \in SUBSET S : t # {} => \E x \in t : t \ {x} \in G => t \in G
    BY <1>1
  <2>2. \A t \in SUBSET S : t \in G
    BY <1>2, <2>1, Smaller
  <2> QED
    BY <2>2
<1>4. \E x \in S : \A y \in S : y <= x
  BY <1>3
<1> QED
  BY <1>4 DEF Largest

(* The size that is laid out holds every component, and the elements of an array  *)
(* take a multiple of their alignment.                                           *)
LEMMA SizeLemma ==
  ASSUME placed \in Seq(Spots), byteSize \in Nat
  PROVE  /\ \A f \in ToSet(placed) : f.at + f.size \in Nat /\ f.at + f.size <= LaidOutSize
         /\ LaidOutSize \in Nat /\ TypeSize \in Nat
         /\ ElementSize % TypeAlignment = 0
<1> DEFINE n == Len(placed)
           ends == [i \in 1 .. n |-> placed[i].at + placed[i].size]
           aligns == [i \in 1 .. n |-> placed[i].alignment]
           E == {f.at + f.size : f \in ToSet(placed)}
           A == {f.alignment : f \in ToSet(placed)}
<1>1. /\ n \in Nat /\ DOMAIN placed = 1 .. n /\ \A i \in 1 .. n : placed[i] \in Spots
      /\ \A f \in ToSet(placed) : f \in Spots /\ \E i \in DOMAIN placed : f = placed[i]
      /\ \A i \in DOMAIN placed : placed[i] \in ToSet(placed)
  BY Elements
<1> HIDE DEF n
<1>2. /\ \A i \in 1 .. n : placed[i].at + placed[i].size \in Nat /\ placed[i].alignment \in Nat \ {0}
      /\ \A f \in ToSet(placed) : f.at + f.size \in Nat /\ f.alignment \in Nat \ {0}
  <2>1. \A f \in Spots : f.at + f.size \in Nat /\ f.alignment \in Nat \ {0}
    BY DEF Spots
  <2> QED
    BY <1>1, <2>1
<1>3. ends \in Seq(Nat) /\ aligns \in Seq(Nat)
  <2>1. ends \in [1 .. n -> Nat] /\ aligns \in [1 .. n -> Nat]
    BY <1>2
  <2> HIDE DEF ends, aligns
  <2> QED
    BY <1>1, <2>1
<1>4. ToSet(ends) = E /\ ToSet(aligns) = A
  <2>1. DOMAIN ends = 1 .. n /\ DOMAIN aligns = 1 .. n
    OBVIOUS
  <2>2. \A i \in 1 .. n : ends[i] = placed[i].at + placed[i].size /\ aligns[i] = placed[i].alignment
    OBVIOUS
  <2>3. \A i \in 1 .. n : placed[i] \in ToSet(placed)
    BY <1>1
  <2>4. \A f \in ToSet(placed) : \E i \in 1 .. n : f = placed[i]
    BY <1>1
  <2> HIDE DEF ends, aligns, E, A
  <2>5. /\ \A x : x \in ToSet(ends) <=> \E i \in 1 .. n : x = placed[i].at + placed[i].size
        /\ \A x : x \in ToSet(aligns) <=> \E i \in 1 .. n : x = placed[i].alignment
    BY <2>1, <2>2 DEF ToSet
  <2>6. /\ \A x : x \in E <=> \E f \in ToSet(placed) : x = f.at + f.size
        /\ \A x : x \in A <=> \E f \in ToSet(placed) : x = f.alignment
    BY DEF E, A
  <2>7. \A x : x \in E <=> \E i \in 1 .. n : x = placed[i].at + placed[i].size
    BY <2>3, <2>4, <2>6
  <2>8. \A x : x \in A <=> \E i \in 1 .. n : x = placed[i].alignment
    BY <2>3, <2>4, <2>6
  <2>9. \A x : (x \in ToSet(ends) <=> x \in E) /\ (x \in ToSet(aligns) <=> x \in A)
    BY <2>5, <2>7, <2>8
  <2> QED
    BY <2>9
<1>5. IsFiniteSet(E) /\ IsFiniteSet(A)
  BY <1>3, <1>4, FiniteElements
<1>6. E \in SUBSET Nat /\ A \in SUBSET (Nat \ {0})
  BY <1>2
<1> DEFINE E0 == {0} \cup E
           A1 == {1} \cup A
<1>7. TypeAlignment = Largest(A1) /\ LaidOutSize = AlignUp(Largest(E0), TypeAlignment)
  BY DEF TypeAlignment, LaidOutSize
<1>8. \A f \in ToSet(placed) : f.at + f.size \in E0
  OBVIOUS
<1> HIDE DEF E, A
<1>9. IsFiniteSet(E0) /\ IsFiniteSet(A1)
  <2>1. IsFiniteSet(E \cup {0}) /\ IsFiniteSet(A \cup {1})
    BY <1>5, FS_AddElement
  <2>2. E0 = E \cup {0} /\ A1 = A \cup {1}
    OBVIOUS
  <2> QED
    BY <2>1, <2>2
<1>10. E0 \in SUBSET Nat /\ E0 # {} /\ A1 \in SUBSET (Nat \ {0}) /\ A1 # {}
  BY <1>6
<1> HIDE DEF E0, A1
<1>11. Largest(A1) \in A1 /\ Largest(E0) \in E0 /\ \A y \in E0 : y <= Largest(E0)
  BY <1>9, <1>10, LargestLemma
<1>12. TypeAlignment \in Nat \ {0} /\ Largest(E0) \in Nat
  BY <1>7, <1>10, <1>11
<1>13. LaidOutSize \in Nat /\ LaidOutSize >= Largest(E0)
  BY <1>7, <1>12, AlignUpLemma
<1>14. ASSUME NEW f \in ToSet(placed)  PROVE f.at + f.size \in Nat /\ f.at + f.size <= LaidOutSize
  <2>1. f.at + f.size \in Nat /\ f.at + f.size <= Largest(E0)
    BY <1>2, <1>8, <1>11
  <2> QED
    BY <1>12, <1>13, <2>1
<1>15. TypeSize \in Nat
  BY <1>13 DEF TypeSize
<1>16. ElementSize % TypeAlignment = 0
  BY <1>12, <1>15, AlignUpLemma DEF ElementSize
<1> QED
  BY <1>13, <1>14, <1>15, <1>16

(* The components of one alternative and the common ones are in order.           *)
LEMMA InOrder ==
  ASSUME VariantInv, ~resized, NEW f \in ToSet(placed), NEW g \in ToSet(placed), f # g,
         f.variant = g.variant \/ f.variant = 0 \/ g.variant = 0
  PROVE  f.at + f.size <= g.at \/ g.at + g.size <= f.at
<1>1. placed \in Seq(Spots) /\ baseOffset \in Nat
  BY DEF VariantInv, VariantTypes
<1>2. PICK i \in DOMAIN placed : f = placed[i]
  BY <1>1, Elements
<1>3. PICK j \in DOMAIN placed : g = placed[j]
  BY <1>1, Elements
<1>4. f \in Spots /\ g \in Spots
  BY <1>1, Elements
<1>5. /\ f.at \in Nat /\ f.size \in Nat /\ f.variant \in Nat
      /\ g.at \in Nat /\ g.size \in Nat /\ g.variant \in Nat
  BY <1>4 DEF Spots
<1>6. i \in Int /\ j \in Int /\ i # j
  BY <1>1, <1>2, <1>3
<1>7. /\ f.variant = 0 => f.at + f.size <= baseOffset
      /\ g.variant = 0 => g.at + g.size <= baseOffset
      /\ f.variant # 0 => baseOffset <= f.at
      /\ g.variant # 0 => baseOffset <= g.at
      /\ (i < j /\ f.variant = g.variant) => f.at + f.size <= g.at
      /\ (j < i /\ f.variant = g.variant) => g.at + g.size <= f.at
  BY <1>2, <1>3 DEF VariantInv, LaidOut, InPlace
<1> QED
  BY <1>1, <1>5, <1>6, <1>7

(* The components a value has fit, and its defaults write no others.             *)
LEMMA FitLemma == VariantInv => ComponentsFit
<1> SUFFICES ASSUME VariantInv, declared, errors = {}, NEW v \in part.low .. part.high
             PROVE LET present == {f \in ToSet(placed) : f.variant = 0 \/ CheckVariant(f.variant, v)} IN
            /\ ~resized =>
                  /\ \A f \in present : f.at % f.alignment = 0
                  /\ \A f, g \in present : f # g => f.at + f.size <= g.at \/ g.at + g.size <= f.at
            /\ (byteSize = 0 \/ LaidOutSize <= byteSize) => \A f \in present : f.at + f.size <= TypeSize
            /\ ElementSize % TypeAlignment = 0
            /\ DefaultsWritten(v) \subseteq present
  BY DEF ComponentsFit
<1> DEFINE present == {f \in ToSet(placed) : f.variant = 0 \/ CheckVariant(f.variant, v)}
<1>1. Harmless
  BY DEF Harmless
<1>2. /\ CaseBody(v) \in DOMAIN resolved /\ VariantFor(v) = CaseBody(v)
      /\ \A i \in DOMAIN resolved : CheckVariant(i, v) <=> i = CaseBody(v)
  BY <1>1, OneAnswer
<1>3. placed \in Seq(Spots) /\ resolved \in Seq(Resolveds) /\ byteSize \in Nat
  BY DEF VariantInv, VariantTypes
<1>4. /\ \A f \in ToSet(placed) : f.at + f.size \in Nat /\ f.at + f.size <= LaidOutSize
      /\ LaidOutSize \in Nat /\ ElementSize % TypeAlignment = 0
  BY <1>3, SizeLemma
<1>5. ASSUME NEW f \in ToSet(placed)
      PROVE  f.variant = 0 \/ f.variant \in DOMAIN resolved
  <2>1. PICK i \in DOMAIN placed : f = placed[i]
    BY <1>3, Elements
  <2>2. f \in Spots
    BY <1>3, Elements
  <2>3. f.variant \in Nat /\ f.variant <= Len(resolved)
    BY <2>1, <2>2 DEF VariantInv, LaidOut, Spots
  <2>4. DOMAIN resolved = 1 .. Len(resolved) /\ Len(resolved) \in Nat
    BY <1>3
  <2> QED
    BY <2>3, <2>4
<1>6. \A f \in present : f.variant = 0 \/ f.variant = CaseBody(v)
  BY <1>2, <1>5
<1>7. ASSUME ~resized, NEW f \in present  PROVE f.at % f.alignment = 0
  <2>1. PICK i \in DOMAIN placed : f = placed[i]
    BY <1>3, Elements
  <2> QED
    BY <1>7, <2>1 DEF VariantInv, LaidOut, InPlace
<1>8. ~resized => \A f, g \in present : f # g => f.at + f.size <= g.at \/ g.at + g.size <= f.at
  BY <1>6, InOrder
<1>9. DefaultsWritten(v) \subseteq present
  BY <1>2 DEF DefaultsWritten
<1>10. ASSUME byteSize = 0 \/ LaidOutSize <= byteSize, NEW f \in present
       PROVE  f.at + f.size <= TypeSize
  <2>1. LaidOutSize <= TypeSize /\ TypeSize \in Nat
    BY <1>3, <1>4, <1>10 DEF TypeSize
  <2>2. f.at + f.size \in Nat /\ f.at + f.size <= LaidOutSize
    BY <1>4
  <2> QED
    BY <1>4, <2>1, <2>2
<1> QED
  BY <1>4, <1>7, <1>8, <1>9, <1>10

(* Choices are accepted exactly when they are well formed.                       *)
THEOREM AcceptedIsWellFormed == VariantSpec => []ChoicesExact
<1> QED
  BY VariantInvHolds, ExactLemma, PTL

(* The four selections of an alternative agree, whatever the discriminant.       *)
THEOREM SelectionsHaveOneAnswer == VariantSpec => []SelectionsAgree
<1>1. ASSUME VariantInv  PROVE SelectionsAgree
  <2> SUFFICES ASSUME declared, errors = {}, NEW v \in part.low .. part.high
               PROVE  /\ CaseBody(v) # 0
                      /\ VariantFor(v) = CaseBody(v) /\ ComparedVariant(v) = CaseBody(v)
                      /\ \A i \in DOMAIN resolved : CheckVariant(i, v) <=> i = CaseBody(v)
    BY DEF SelectionsAgree
  <2>1. Harmless
    BY DEF Harmless
  <2> QED
    BY <1>1, <2>1, OneAnswer
<1> QED
  BY <1>1, VariantInvHolds, PTL

(* The components of a value are disjoint, aligned and inside its type.          *)
THEOREM EveryValueFits == VariantSpec => []ComponentsFit
<1> QED
  BY VariantInvHolds, FitLemma, PTL
=============================================================================

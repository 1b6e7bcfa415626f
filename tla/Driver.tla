------------------------------- MODULE Driver -------------------------------
(***************************************************************************)
(* The driver and the compiler it runs (src/ada/main.cpp, Toolchain.cpp,   *)
(* src/adac/main.cpp): ada runs adac, qbe and the C compiler in turn, each *)
(* making a file the next one reads, and removes what was only needed on   *)
(* the way.  A file holds nothing, something older, a part, or all of what *)
(* its maker was asked for.                                                *)
(***************************************************************************)
EXTENDS Integers, Sequences

CONSTANTS
    Commands,   \* What ada may be asked: [stage, keep, library] with stage one of
                \* IntermediateLanguage, Assembly and Executable.
    Installs,   \* What may stand where: see Locate.
    Older       \* The contents the files may have before: none or stale.

ASSUME DriverAssumption ==
    /\ Commands \subseteq [stage : {"IntermediateLanguage", "Assembly", "Executable"},
                           keep : BOOLEAN, library : BOOLEAN]
    /\ Older \subseteq {"none", "stale"}

VARIABLES
    command, install,
    phase,      \* adac, load, analyze, emit, qbe, link or done
    files,      \* the contents of the intermediate file, the assembly and the program
    exit,       \* the status ada ends with, -1 before
    searched,   \* the directories adac searches for units, in order
    shortWrite  \* whether the disk filled up under adac, which does not look

driverVars == <<command, install, phase, files, exit, searched, shortWrite>>

-----------------------------------------------------------------------------
(* Toolchain::locateFrom: the build tree, unless an install stands beside  *)
(* the driver; then what the environment says.  What an install lacks is   *)
(* left as it was.                                                         *)

Beside(place) == install.include /\ install[place]
Environment(place, otherwise) == IF place \in install.environment THEN "environment" ELSE otherwise

InstalledLater == ~install.include /\ ~install.buildLibrary
Library ==
    Environment("library",
        CASE install.include -> "install"
          [] InstalledLater /\ install.prefixLibrary -> "prefix"
          [] OTHER -> "build")
Runtime ==
    Environment("runtime",
        CASE Beside("adalib") -> "install"
          [] InstalledLater /\ install.prefixRuntime -> "prefix"
          [] OTHER -> "build")
Adac == Environment("adac", IF Beside("adac") THEN "install" ELSE "build")
Qbe == Environment("qbe", IF Beside("qbe") THEN "install" ELSE "build")

\* A program can be run where it was found; what stands in the build tree may
\* be gone by now.
Runs(program) == program = "build" => install.buildLibrary

\* The library adac looks in: the driver always says which, or that there is none.
LibraryOption == IF command.library THEN <<Library>> ELSE <<>>
SearchPath ==
    <<"sources">>
        \o (IF "include_path" \in install.environment THEN <<"include_path">> ELSE <<>>)
        \o LibraryOption

-----------------------------------------------------------------------------

Ends(status) == phase' = "done" /\ exit' = status
Continues(next) == phase' = next /\ UNCHANGED exit

RunAdac ==
    /\ phase = "adac"
    /\ searched' = SearchPath
    /\ IF Runs(Adac) THEN Continues("load") ELSE Ends(1)
    /\ UNCHANGED <<command, install, files, shortWrite>>

\* A source that cannot be read, an error in one, an error in what they mean:
\* nothing has been written yet.
Load ==
    /\ phase = "load"
    /\ Continues("analyze") \/ Ends(1)
    /\ UNCHANGED <<command, install, files, searched, shortWrite>>

Analyze ==
    /\ phase = "analyze"
    /\ Continues("emit") \/ Ends(1)
    /\ UNCHANGED <<command, install, files, searched, shortWrite>>

\* The file is opened and written; an error found while emitting leaves it as
\* far as it was, and nobody asks the stream whether everything was written.
AfterAdac == IF command.stage = "IntermediateLanguage" THEN Ends(0) ELSE Continues("qbe")
Emit ==
    /\ phase = "emit"
    /\ \/ Ends(1) /\ UNCHANGED <<files, shortWrite>>
       \/ Ends(1) /\ files' = [files EXCEPT !.ir = "part"] /\ UNCHANGED shortWrite
       \/ AfterAdac /\ files' = [files EXCEPT !.ir = "part"] /\ shortWrite' = TRUE
       \/ AfterAdac /\ files' = [files EXCEPT !.ir = "all"] /\ UNCHANGED shortWrite
    /\ UNCHANGED <<command, install, searched>>

\* What was made on the way goes away unless it is kept.  (A mutant keeps it.)
NothingRemoved(given, names) == given
RemoveFiles(given, names) ==
    [f \in DOMAIN given |-> IF f \in names /\ ~command.keep THEN "none" ELSE given[f]]

RunQbe ==
    /\ phase = "qbe"
    /\ \/ /\ \E left \in {files.assembly, "part"} :
                 files' = RemoveFiles([files EXCEPT !.assembly = left], {"ir"})
          /\ Ends(1)
       \/ /\ Runs(Qbe) /\ command.stage = "Assembly"
          /\ files' = RemoveFiles([files EXCEPT !.assembly = files.ir], {"ir"})
          /\ Ends(0)
       \/ /\ Runs(Qbe) /\ command.stage = "Executable"
          /\ files' = [files EXCEPT !.assembly = files.ir]
          /\ Continues("link")
    /\ UNCHANGED <<command, install, searched, shortWrite>>

Link ==
    /\ phase = "link"
    /\ \/ /\ files' = RemoveFiles([files EXCEPT !.program = files.assembly], {"ir", "assembly"})
          /\ Ends(0)
       \/ /\ files' = RemoveFiles(files, {"ir", "assembly"})
          /\ Ends(1)
    /\ UNCHANGED <<command, install, searched, shortWrite>>

DriverInit ==
    /\ command \in Commands /\ install \in Installs
    /\ phase = "adac" /\ exit = -1
    /\ \E older \in Older : files = [ir |-> older, assembly |-> older, program |-> older]
    /\ searched = <<>> /\ shortWrite = FALSE

DriverNext == RunAdac \/ Load \/ Analyze \/ Emit \/ RunQbe \/ Link
DriverSpec == DriverInit /\ [][DriverNext]_driverVars

-----------------------------------------------------------------------------

\* A driver that ends well has made, in this run, the whole of what it was asked
\* for, unless the disk was full, and keeps no intermediate file that was not
\* asked for; one that fails never leaves a finished product, only what was
\* there before or a part.  Units come from the library the driver found, or,
\* without the predefined environment, from no library at all; and an install
\* that is complete is used as a whole.
DriverKeepsItsWord ==
    LET product == CASE command.stage = "IntermediateLanguage" -> "ir"
                     [] command.stage = "Assembly" -> "assembly"
                     [] OTHER -> "program"
        onTheWay == CASE product = "ir" -> {} [] product = "assembly" -> {"ir"} [] OTHER -> {"ir", "assembly"}
        complete == install.include /\ install.adalib /\ install.adac /\ install.qbe
    IN  /\ exit = 0 => /\ files[product] = IF shortWrite THEN "part" ELSE "all"
                       /\ ~command.keep => \A f \in onTheWay : files[f] = "none"
        /\ (phase = "done" /\ exit # 0) => files[product] # "all"
        /\ searched # <<>> =>
               /\ \A place \in {"install", "build", "prefix"} :
                      (\E i \in DOMAIN searched : searched[i] = place) => command.library /\ place = Library
               /\ Head(searched) = "sources"
        /\ (complete /\ install.environment \subseteq {"include_path"}) =>
               {Library, Runtime, Adac, Qbe} = {"install"}
=============================================================================

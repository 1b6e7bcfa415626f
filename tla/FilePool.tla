------------------------------ MODULE FilePool ------------------------------
(***************************************************************************)
(* The file layer of runtime/adaio.c that Text_IO, Sequential_IO,          *)
(* Direct_IO and Stream_IO share.                                          *)
(*                                                                         *)
(* A File_Type is a record of one pointer into a fixed pool of AdaFile     *)
(* entries; the run time is handed the address of that record and keeps    *)
(* pointers of its own for the current input and output.  Closing a file   *)
(* frees its entry and nulls the one pointer it was closed through.        *)
(*                                                                         *)
(* A program is a sequence of calls, each followed by the test for a       *)
(* pending exception (see module Activation), so a call is one step and    *)
(* last says how it ended.                                                 *)
(***************************************************************************)
EXTENDS Integers, FiniteSets

CONSTANTS
  Vars,         \* The File_Type objects of the program, Stream_Access too.
  DirectVars,   \* Those of them that belong to an instance of Direct_IO.
  TextModes,    \* The modes the others are opened in.
  PoolSize,     \* ADA_MAX_FILES
  Names,        \* External files.
  Scratch,      \* The empty name.
  MaxOpenings   \* Bound on how often a file is opened.

ASSUME FilePoolAssumption ==
  /\ TextModes \subseteq { "in", "out", "append" }
  /\ DirectVars \subseteq Vars
  /\ PoolSize \in Nat \ {0}
  /\ MaxOpenings \in Nat
  /\ Scratch \notin Names

(***************************************************************************)
(* A definition named after another one with a fault in it (RewoundInAny-  *)
(* Mode, OpenFailsKeepingHandle ...) is that one as a plausible mistake    *)
(* would have written it; no behaviour uses it, see README.md.             *)
(***************************************************************************)

(***************************************************************************)
(* Every C stream has a number: the standard ones are negative, the n-th   *)
(* fopen or tmpfile that succeeds yields n, and NULL is 0.  The standard   *)
(* entries are numbered as their streams are, the pool from 1, and 0 is    *)
(* the null pointer.                                                       *)
(***************************************************************************)
StdIn == -1
StdOut == -2
StdErr == -3

StandardEntries == { StdIn, StdOut, StdErr }
Pool == 1 .. PoolSize
Entries == StandardEntries \cup Pool
Null == 0

FileModes == { "in", "out", "append", "inout" }

(* The modes the packages number, as their entry points translate them. *)
ModesOf(v) == IF v \in DirectVars
              THEN { "in", "inout", "out" }
              ELSE TextModes

VARIABLES
  file,       \* The AdaFile entries.
  handle,     \* What each File_Type holds.
  current,    \* currentInputHandle and currentOutputHandle.
  disk,       \* The external files that exist.
  streams,    \* The C streams that are open.
  openings,   \* How many streams have been opened.
  last        \* History: the last call, see Answer.

vars == << file, handle, current, disk, streams, openings, last >>

(* A pointer, with the stream its entry had when the pointer was stored.  The
   code keeps the entry only. *)
NullReference == [entry |-> Null, stream |-> Null]
References == [entry : Entries \cup {Null}, stream : -3 .. MaxOpenings]

AdaFile ==
  [ stream : -3 .. MaxOpenings, mode : FileModes, isOpen : BOOLEAN,
    name : Names \cup {Scratch} ]

(* A free entry.  The name and mode left in one are never read again: an Open
   that takes the entry overwrites them. *)
Unused == [stream |-> Null, mode |-> "in", isOpen |-> FALSE, name |-> Scratch]

Errors == { "Status_Error", "Mode_Error", "Name_Error", "Use_Error", "Storage_Error" }

(* Every entry, handle and stream number is one the run time can hold. *)
TypeOK ==
  /\ file \in [Entries -> AdaFile]
  /\ handle \in [Vars -> References]
  /\ current \in [{"input", "output"} -> References]
  /\ disk \subseteq Names
  /\ streams \subseteq -3 .. MaxOpenings
  /\ openings \in 0 .. MaxOpenings
  /\ last \in [ op : { "open", "reset", "other", "exit" },
                raised : Errors \cup {"none"},
                reached : { "own", "nothing", "another" } ]

-----------------------------------------------------------------------------

(* How a call ended: what it raised and, of one that operates on a stream,
   whether that is the stream of the file the program meant. *)
Answer(op, raised) == last' = [op |-> op, raised |-> raised, reached |-> "own"]

Operates(reference) ==
  LET used == file[reference.entry].stream
  IN  last' = [ op |-> "other", raised |-> "none",
                reached |-> CASE used = reference.stream -> "own"
                              [] used = Null -> "nothing"
                              [] OTHER -> "another" ]

IsOpen(reference) == /\ reference.entry # Null
                     /\ file[reference.entry].isOpen

(* __ada_file_checked *)
Check(reference, required) ==
  LET mode == file[reference.entry].mode
  IN  CASE ~IsOpen(reference) -> "Status_Error"
        [] IsOpen(reference) /\ (\/ required = "in" /\ mode \notin {"in", "inout"}
                                 \/ required = "out" /\ mode = "in") -> "Mode_Error"
        [] OTHER -> "none"

IsStandard(reference) == reference.entry \in StandardEntries

FreeEntries == { e \in Pool : ~file[e].isOpen }

EntryInTurn == IF openings < PoolSize THEN openings + 1 ELSE (openings % PoolSize) + 1

(* takeFreeEntry scans the pool from its start. *)
TakeFreeEntry == CHOOSE e \in FreeEntries : \A other \in FreeEntries : e <= other

-----------------------------------------------------------------------------
(* Create and Open. *)

(* The handle is in use, the name does not fit, or the pool is full. *)
OpenRejected(v) ==
  /\ \/ IsOpen(handle[v]) /\ Answer("other", "Status_Error")
     \/ ~IsOpen(handle[v]) /\ Answer("other", "Name_Error")
     \/ ~IsOpen(handle[v]) /\ FreeEntries = {} /\ Answer("other", "Storage_Error")
  /\ UNCHANGED << file, handle, current, disk, streams, openings >>

(* What fopen does with the string modeString picks for an existing, or for a
   missing, external file. *)
Makes(op, mode) == op = "create" \/ mode \in {"out", "append"}

Openable(op, mode, name) == name = Scratch \/ name \in disk \/ Makes(op, mode)

Made(op, mode, name) == IF Makes(op, mode) THEN {name} \ {Scratch} ELSE {}

OpenFailsKeepingHandle(v, op) ==
  /\ ~IsOpen(handle[v])
  /\ FreeEntries # {}
  /\ file' = [file EXCEPT ![TakeFreeEntry] =
                [Unused EXCEPT !.isOpen = TRUE]]
  /\ handle' = [handle EXCEPT ![v] = [entry |-> TakeFreeEntry, stream |-> Null]]
  /\ Answer("other", IF op = "create" THEN "Use_Error" ELSE "Name_Error")
  /\ UNCHANGED << current, disk, streams, openings >>

(* The entry stays free. *)
OpenFails(v, op) ==
  /\ ~IsOpen(handle[v])
  /\ FreeEntries # {}
  /\ Answer("other", IF op = "create" THEN "Use_Error" ELSE "Name_Error")
  /\ UNCHANGED << file, handle, current, disk, streams, openings >>

OpenSucceeds(v, op, mode, name) ==
  LET e == TakeFreeEntry
      stream == openings + 1
  IN  /\ ~IsOpen(handle[v])
      /\ FreeEntries # {}
      /\ Openable(op, mode, name)
      /\ openings < MaxOpenings
      /\ openings' = stream
      /\ streams' = streams \cup {stream}
      /\ disk' = disk \cup Made(op, mode, name)
      /\ file' = [file EXCEPT ![e] =
                    [stream |-> stream, mode |-> mode, isOpen |-> TRUE, name |-> name]]
      /\ handle' = [handle EXCEPT ![v] = [entry |-> e, stream |-> stream]]
      /\ Answer(IF op = "open" THEN "open" ELSE "other", "none")
      /\ UNCHANGED current

Open(v) ==
  \/ OpenRejected(v)
  \/ \E op \in {"create", "open"} : OpenFails(v, op)
  \/ \E op \in {"create", "open"}, mode \in ModesOf(v), name \in Names \cup {Scratch} :
        OpenSucceeds(v, op, mode, name)

-----------------------------------------------------------------------------
(* Close, Delete and Reset, on a handle that passes the check. *)

(* The check refuses, or the file is a standard one. *)
ManageRejected(v, standardError) ==
  /\ \/ Check(handle[v], "any") # "none" /\ Answer("other", Check(handle[v], "any"))
     \/ /\ Check(handle[v], "any") = "none"
        /\ IsStandard(handle[v])
        /\ Answer("other", standardError)
  /\ UNCHANGED << file, handle, current, disk, streams, openings >>

Manageable(v) == Check(handle[v], "any") = "none" /\ ~IsStandard(handle[v])

(* The entry is free again, and this handle is null. *)
Release(v, op, raised) ==
  LET e == handle[v].entry
  IN  /\ streams' = streams \ {file[e].stream}
      /\ file' = [file EXCEPT ![e] = Unused]
      /\ handle' = [handle EXCEPT ![v] = NullReference]
      /\ Answer(op, raised)

CloseAnything(v) ==
  \/ ManageRejected(v, "Mode_Error")
  \/ /\ IsOpen(handle[v])
     /\ Release(v, "other", "none")
     /\ UNCHANGED << current, disk, openings >>

Close(v) ==
  \/ ManageRejected(v, "Mode_Error")
  \/ /\ Manageable(v)
     /\ Release(v, "other", "none")
     /\ UNCHANGED << current, disk, openings >>

Delete(v) ==
  \/ ManageRejected(v, "Use_Error")
  \/ /\ Manageable(v)
     /\ Release(v, "other", "none")
     /\ disk' = disk \ {file[handle[v].entry].name}
     /\ UNCHANGED << current, openings >>

(* The mode ADA_MODE_ANY stands for the one the file has. *)
NewMode(v, mode) == IF mode = "any" THEN file[handle[v].entry].mode ELSE mode

RewoundInAnyMode(v, mode) ==
  LET entry == handle[v].entry
  IN  /\ Manageable(v)
      /\ file[entry].name = Scratch \/ Openable("open", mode, file[entry].name)
      /\ file' = [file EXCEPT ![entry].mode = mode]
      /\ Answer("other", "none")
      /\ disk' = disk \cup Made("open", mode, file[entry].name)
      /\ UNCHANGED << handle, current, streams, openings >>

(* A scratch file is rewound, a named one reopened on the same stream. *)
Rewound(v, mode) ==
  LET entry == handle[v].entry
  IN  /\ Manageable(v)
      /\ Openable("open", NewMode(v, mode), file[entry].name)
      /\ file' = [file EXCEPT ![entry].mode = NewMode(v, mode)]
      /\ disk' = disk \cup Made("open", NewMode(v, mode), file[entry].name)
      /\ Answer("other", "none")
      /\ UNCHANGED << handle, current, streams, openings >>

ReopenFailsStayingOpen(v) ==
  LET e == handle[v].entry
  IN  /\ Manageable(v)
      /\ file[e].name # Scratch
      /\ streams' = streams \ {file[e].stream}
      /\ file' = [file EXCEPT ![e].stream = Null]
      /\ handle' = [handle EXCEPT ![v] = NullReference]
      /\ Answer("reset", "Use_Error")
      /\ UNCHANGED << current, disk, openings >>

(* freopen closes the stream whether or not it can open the file again. *)
ReopenFails(v) ==
  /\ Manageable(v)
  /\ file[handle[v].entry].name # Scratch
  /\ Release(v, "reset", "Use_Error")
  /\ UNCHANGED << current, disk, openings >>

Reset(v) ==
  \/ ManageRejected(v, "Mode_Error")
  \/ \E mode \in ModesOf(v) \cup {"any"} : Rewound(v, mode)
  \/ ReopenFails(v)

-----------------------------------------------------------------------------
(* Everything else. *)

(* Set_Input and Set_Output, which Text_IO alone has. *)
SetCurrent(v, which) ==
  LET error == Check(handle[v], IF which = "input" THEN "in" ELSE "out")
  IN  /\ v \notin DirectVars
      /\ IF error = "none"
         THEN /\ current' = [current EXCEPT ![which] = handle[v]]
              /\ Answer("other", "none")
         ELSE Answer("other", error) /\ UNCHANGED current
      /\ UNCHANGED << file, handle, disk, streams, openings >>

(* Reading, writing, seeking and asking, through a File_Type or by default.
   What such an operation may still raise (End_Error, Device_Error, Data_Error,
   Layout_Error) changes nothing modelled here. *)
Use(reference, required) ==
  LET error == Check(reference, required)
  IN  /\ IF error = "none"
         THEN Operates(reference)
         ELSE Answer("other", error)
      /\ UNCHANGED << file, handle, current, disk, streams, openings >>

(* __ada_put_float writes to __ada_output_stream, which checks nothing. *)
PutFloat ==
  /\ Operates(current["output"])
  /\ UNCHANGED << file, handle, current, disk, streams, openings >>

(* A File_Type is an ordinary record: it can be assigned, from another one or
   from Current_Input, Standard_Output and their like, and it is null again
   each time its declaration is elaborated. *)
Assign(v, reference) ==
  /\ handle' = [handle EXCEPT ![v] = reference]
  /\ Answer("other", "none")
  /\ UNCHANGED << file, current, disk, streams, openings >>

StandardReference(e) == [entry |-> e, stream |-> e]

Assignable(v) ==
  {NullReference}
    \cup { handle[w] : w \in { w \in Vars : w \in DirectVars <=> v \in DirectVars } }
    \cup IF v \in DirectVars
         THEN {}
         ELSE { current["input"], current["output"] }
                \cup { StandardReference(e) : e \in StandardEntries }

(* closeEverything, which exit runs. *)
Exit ==
  /\ last.op # "exit"
  /\ file' = [e \in Entries |->
               IF e \in Pool THEN Unused ELSE file[e]]
  /\ streams' = streams \ { file[e].stream : e \in { e \in Pool : file[e].isOpen } }
  /\ Answer("exit", "none")
  /\ UNCHANGED << handle, current, disk, openings >>

-----------------------------------------------------------------------------

Standard(e) ==
  [ stream |-> e, mode |-> IF e = StdIn THEN "in" ELSE "out", isOpen |-> TRUE,
    name |-> Scratch ]

(* After prepare, which every entry point calls first.  Any of the external
   files may be there already. *)
Init ==
  /\ file = [e \in Entries |-> IF e \in Pool THEN Unused ELSE Standard(e)]
  /\ handle = [v \in Vars |-> NullReference]
  /\ current = [which \in {"input", "output"} |->
                 StandardReference(IF which = "input" THEN StdIn ELSE StdOut)]
  /\ disk \in SUBSET Names
  /\ streams = StandardEntries
  /\ openings = 0
  /\ last = [op |-> "other", raised |-> "none", reached |-> "own"]

Call ==
  \/ \E v \in Vars : Open(v) \/ Close(v) \/ Delete(v) \/ Reset(v)
  \/ \E v \in Vars, which \in {"input", "output"} : SetCurrent(v, which)
  \/ \E v \in Vars, required \in {"in", "out", "any"} : Use(handle[v], required)
  \/ Use(current["input"], "in")
  \/ Use(current["output"], "out")
  \/ PutFloat
  \/ \E v \in Vars : \E reference \in Assignable(v) : Assign(v, reference)

Next == last.op # "exit" /\ (Call \/ Exit)

Spec == Init /\ [][Next]_vars

-----------------------------------------------------------------------------

(***************************************************************************)
(* A stream belongs to exactly one open entry and an open entry to one     *)
(* open stream, on every path: a failed open, a failed reopen, the reuse   *)
(* of an entry and the closing of all files at exit.  No stream is leaked, *)
(* closed twice, or written through after it was closed by an operation    *)
(* that checked its file.                                                  *)
(***************************************************************************)
StreamsAccounted ==
  /\ streams = { file[e].stream : e \in { e \in Entries : file[e].isOpen } }
  /\ \A e \in Entries : file[e].isOpen <=> file[e].stream # Null
  /\ \A e, other \in Entries :
        file[e].isOpen /\ file[e].stream = file[other].stream => e = other

Holders == { handle[v] : v \in Vars } \cup { current["input"], current["output"] }

(***************************************************************************)
(* As long as a file has not itself been closed, every File_Type that was  *)
(* made to denote it, and the current input or output if it is that file,  *)
(* still reaches it: opening, closing, resetting or losing other files     *)
(* never redirects a live handle, however the pool entries are reused.     *)
(***************************************************************************)
HandlesKeepTheirFile ==
  \A reference \in Holders :
    reference.stream \in streams
      => /\ file[reference.entry].isOpen
         /\ file[reference.entry].stream = reference.stream

(* Whatever names a standard file, a copy of it included, cannot close it,
   delete it or turn it the other way round. *)
StandardFilesKept == \A e \in StandardEntries : file[e] = Standard(e)

(* A call that raises leaves every file, handle and current file as it was;
   only a Reset that raises Use_Error has closed the file it was given. *)
FailureIsClean ==
  last'.raised # "none" /\ last'.op # "reset"
    => /\ UNCHANGED << handle, current, disk, streams >>
       /\ \A e \in Entries : file[e].isOpen => file'[e] = file[e]

FailuresChangeNothing == [][FailureIsClean]_vars

(***************************************************************************)
(* "An unopened File_Type is a null handle, which every operation but      *)
(* Is_Open rejects with Status_Error" (adaio.c): so an operation that      *)
(* raises nothing worked on an open stream.                                *)
(***************************************************************************)
UnopenedIsRejected ==
  last.raised = "none" => last.reached # "nothing"

(***************************************************************************)
(* "Returns the file behind a File_Type, or null after raising             *)
(* Status_Error for a file that is not open" (adaio.h): so an operation    *)
(* that raises nothing worked on the file the program opened, never on one *)
(* that took over its entry.                                               *)
(***************************************************************************)
ReachesOwnFile ==
  last.raised = "none" => last.reached # "another"

=============================================================================

----------------------------- MODULE Activation -----------------------------
(***************************************************************************)
(* The execution of a compiled program: subprogram activations, exceptions *)
(* and the storage of run time sized arrays, as the QBE emitter lays them  *)
(* out (adac/emitter) and the run time carries them out (runtime/adart.c). *)
(*                                                                         *)
(* The emitter never builds an exception table.  An exception is pending   *)
(* when the global $__ada_exception is not zero; every call is followed by *)
(* a test of it that jumps to the innermost open handler of the enclosing  *)
(* subprogram, or to the label where the subprogram returns to let its own *)
(* caller run the same test.  One run time call that may raise has no test *)
(* behind it: 'Image of an enumeration value.  What it raises stays        *)
(* pending while ordinary code goes on, to whichever test comes next.      *)
(* Alongside, every statement brackets its temporaries with a checkpoint   *)
(* and a rewind of two allocation lists.                                   *)
(*                                                                         *)
(* The Ada program is the environment: which statement comes next, which   *)
(* handlers a sequence has, what raises.  An activation keeps the stack of *)
(* constructs it has open; the emitter's compile time stacks handlerLabels *)
(* and activeExceptions are the handled and the handler constructs in it.  *)
(***************************************************************************)
EXTENDS Arena, FiniteSets

CONSTANTS
  Exceptions,      \* Exception identities, each with a name of its own.
  None,            \* The zero of $__ada_exception: nothing is pending.
  StorageError, ProgramError, ConstraintError,
  HandlerSets,     \* The exceptions a handled sequence may name.
  MaxFrames,       \* Bound on the number of nested activations.
  MaxOpen          \* Bound on the constructs one activation has open.

(***************************************************************************)
(* A definition named after another one with a fault in it (CatchKeeping-  *)
(* Pending, ExitLoopWithoutRewind ...) is that one as a plausible mistake  *)
(* would have written it.  No behaviour uses it: README.md says which      *)
(* property tells it from the real one.                                    *)
(***************************************************************************)

ASSUME ExceptionAssumption ==
  /\ {StorageError, ProgramError, ConstraintError} \subseteq Exceptions
  /\ None \notin Exceptions
  /\ HandlerSets \subseteq SUBSET Exceptions

ASSUME BoundAssumption == MaxFrames \in Nat /\ MaxOpen \in Nat

VARIABLES
  pending,   \* $__ada_exception
  name,      \* $__ada_exception_name, as the exception that has that name.
  stack,     \* The activations, main program first.
  heap,      \* The blocks allocated and not yet freed.
  transfer,  \* The buffer in the result descriptor of a call that returned.
  pc,        \* Where control stands, see Control below.
  phase,     \* Whether library elaboration or the main procedure runs.
  reported,  \* The name __ada_unhandled printed.
  late,      \* History: code runs behind an 'Image that raised, untested yet.
  lost       \* History: the result buffers no descriptor leads to any more.

vars ==
  << pending, name, stack, heap, transfer, pc, phase, reported, late, lost >>

(***************************************************************************)
(* run     at ordinary code;                                               *)
(* unwind  on a jump taken because an exception is pending;                *)
(* landed  back in the caller, right behind a call instruction;            *)
(* stopped the process has returned from main.                             *)
(***************************************************************************)
Control == { "run", "unwind", "landed", "stopped" }

Marks == Blocks \cup {NoBlock}
Occurrence == [id : Exceptions \cup {None}, name : Exceptions \cup {None}]
NoOccurrence == [id |-> None, name |-> None]

(***************************************************************************)
(* frame    the subprogram itself, always the first construct;             *)
(* decls    a list of local declarations being elaborated;                 *)
(* scope    a statement, a while condition or one array fill element:      *)
(*          whatever storageCheckpoint and rewindStorage bracket;          *)
(* handled  a statement sequence that has exception handlers;              *)
(* handler  the body of a handler that caught an occurrence.               *)
(*                                                                         *)
(* local and temp are the checkpoints taken when the construct was opened. *)
(* arrays and values are history: the declared arrays and the temporaries  *)
(* Ada requires to exist as long as the construct is open.                 *)
(***************************************************************************)
Kinds == { "frame", "decls", "scope", "handled", "handler" }

Construct ==
  [ kind : Kinds, local : Marks, temp : Marks, handles : SUBSET Exceptions,
    occurrence : Occurrence, arrays : SUBSET Blocks, values : SUBSET Blocks ]

Frame ==
  [ open : Seq(Construct), local : Seq(Blocks), temp : Seq(Blocks),
    result : { "none", "value", "array" } ]

(* The globals, the lists of every activation and the constructs it has open
   are of the shape the emitted code gives them. *)
TypeOK ==
  /\ pending \in Exceptions \cup {None}
  /\ name \in Exceptions \cup {None}
  /\ stack \in Seq(Frame)
  /\ heap \subseteq Blocks
  /\ transfer \in Marks
  /\ pc \in Control
  /\ phase \in { "elaborate", "main" }
  /\ reported \in Exceptions \cup {None}
  /\ late \in BOOLEAN
  /\ lost \subseteq Blocks

-----------------------------------------------------------------------------
(* The running activation and its innermost construct. *)

Current == stack[Len(stack)]
Top == Current.open[Len(Current.open)]

Opened(kind) ==
  [ kind |-> kind, local |-> Checkpoint(Current.local),
    temp |-> Checkpoint(Current.temp), handles |-> {},
    occurrence |-> NoOccurrence, arrays |-> {}, values |-> {} ]

Running(kinds) == /\ pc = "run"
                  /\ stack # << >>
                  /\ Top.kind \in kinds

SetCurrent(frame) == stack' = [stack EXCEPT ![Len(stack)] = frame]

(* Opening and closing constructs at the top of the running activation. *)
Open(construct) ==
  /\ Len(Current.open) < MaxOpen
  /\ SetCurrent([Current EXCEPT !.open = Append(@, construct)])

UpTo(k) == SubSeq(Current.open, 1, k)

NewFrame(result) ==
  [ open |-> << [ kind |-> "frame", local |-> NoBlock, temp |-> NoBlock,
                  handles |-> {}, occurrence |-> NoOccurrence,
                  arrays |-> {}, values |-> {} ] >>,
    local |-> << >>, temp |-> << >>, result |-> result ]

(* What rewindStorage leaves of an activation, and what it frees. *)
Rewound(frame, construct) ==
  [frame EXCEPT !.local = Rewind(@, construct.local),
                !.temp = Rewind(@, construct.temp)]

FreedBy(frame, construct) ==
  Freed(frame.temp, construct.temp) \cup Freed(frame.local, construct.local)

(* __ada_array_release of both lists, emitted in front of every ret. *)
ReleasedBy(frame) == Held(frame.local) \cup Held(frame.temp)

(* Code of a statement or of a declaration; library level initializers run in
   __ada_elaborate outside any construct of their own. *)
LibraryLevel == phase = "elaborate" /\ Len(stack) = 1

Executing == \/ Running({"scope", "decls"})
             \/ Running({"frame"}) /\ LibraryLevel

(* An occurrence becomes pending and the code jumps to the open handler. *)
RaiseOccurrence(id, itsName) ==
  /\ pending' = id
  /\ name' = itsName
  /\ pc' = "unwind"
  /\ late' = FALSE

(* The test behind a run time call, whose own outcome raised nothing. *)
Tested ==
  /\ pc' = IF pending = None THEN "run" ELSE "unwind"
  /\ late' = FALSE

(* Control returns to right behind the call that made the activation. *)
LeaveActivation ==
  /\ stack' = SubSeq(stack, 1, Len(stack) - 1)
  /\ pc' = "landed"
  /\ late' = FALSE

-----------------------------------------------------------------------------
(* Statements, declarations and handled sequences in ordinary flow. *)

StartScope ==
  /\ Running(Kinds)
  /\ Open(Opened("scope"))
  /\ UNCHANGED << pending, name, heap, transfer, pc, phase, reported, late, lost >>

EndScopeReleasingAll ==
  /\ Running({"scope"})
  /\ SetCurrent([Current EXCEPT !.local = << >>, !.temp = << >>,
                                !.open = UpTo(Len(Current.open) - 1)])
  /\ heap' = heap \ ReleasedBy(Current)
  /\ UNCHANGED << pending, name, transfer, pc, phase, reported, late, lost >>

EndScope ==
  /\ Running({"scope"})
  /\ SetCurrent([Rewound(Current, Top) EXCEPT !.open = UpTo(Len(Current.open) - 1)])
  /\ heap' = heap \ FreedBy(Current, Top)
  /\ UNCHANGED << pending, name, transfer, pc, phase, reported, late, lost >>

StartDeclarations ==
  /\ Running({"frame", "scope", "decls"})
  /\ Top.kind = "frame" => ~LibraryLevel
  /\ Open(Opened("decls"))
  /\ UNCHANGED << pending, name, heap, transfer, pc, phase, reported, late, lost >>

(* Only the temporaries go; the arrays belong to the enclosing construct. *)
EndDeclarations ==
  /\ Running({"decls"})
  /\ LET n == Len(Current.open)
     IN  SetCurrent(
           [Current EXCEPT
              !.temp = Rewind(@, Top.temp),
              !.open = [UpTo(n - 1) EXCEPT ![n - 1].arrays = @ \cup Top.arrays]])
  /\ heap' = heap \ Freed(Current.temp, Top.temp)
  /\ UNCHANGED << pending, name, transfer, pc, phase, reported, late, lost >>

EnterHandled(handles) ==
  /\ Running({"frame", "scope", "decls"})
  /\ Open([Opened("handled") EXCEPT !.handles = handles])
  /\ UNCHANGED << pending, name, heap, transfer, pc, phase, reported, late, lost >>

(* Falling out of the sequence, or of one of its handlers, jumps behind it. *)
LeaveHandled ==
  /\ Running({"handled", "handler"})
  /\ SetCurrent([Current EXCEPT !.open = UpTo(Len(Current.open) - 1)])
  /\ UNCHANGED << pending, name, heap, transfer, pc, phase, reported, late, lost >>

ExitLoopWithoutRewind(k) ==
  /\ Running({"scope"})
  /\ k \in 2 .. (Len(Current.open) - 1)
  /\ Current.open[k].kind = "scope"
  /\ \A i \in k .. Len(Current.open) : Current.open[i].kind # "decls"
  /\ SetCurrent([Current EXCEPT !.open = UpTo(k - 1)])
  /\ UNCHANGED << pending, name, heap, transfer, pc, phase, reported, late, lost >>

(***************************************************************************)
(* exit jumps behind the loop statement k, whose own rewind comes next.    *)
(***************************************************************************)
ExitLoop(k) ==
  /\ Running({"scope"})
  /\ k \in 2 .. (Len(Current.open) - 1)
  /\ Current.open[k].kind = "scope"
  /\ \A i \in k .. Len(Current.open) : Current.open[i].kind # "decls"
  /\ SetCurrent([Rewound(Current, Current.open[k]) EXCEPT !.open = UpTo(k - 1)])
  /\ heap' = heap \ FreedBy(Current, Current.open[k])
  /\ UNCHANGED << pending, name, transfer, pc, phase, reported, late, lost >>

-----------------------------------------------------------------------------
(* Storage.  The new block is linked before the test looks at the flag. *)

DeclareArray(block) ==
  /\ Running({"decls"})
  /\ block \in Blocks \ heap
  /\ heap' = heap \cup {block}
  /\ SetCurrent([Current EXCEPT !.local = Link(@, block),
                                !.open[Len(Current.open)].arrays = @ \cup {block}])
  /\ Tested
  /\ UNCHANGED << pending, name, transfer, phase, reported, lost >>

AllocateTemporary(block) ==
  /\ Executing
  /\ block \in Blocks \ heap
  /\ heap' = heap \cup {block}
  /\ SetCurrent([Current EXCEPT !.temp = Link(@, block),
                                !.open[Len(Current.open)].values = @ \cup {block}])
  /\ Tested
  /\ UNCHANGED << pending, name, transfer, phase, reported, lost >>

AllocationFailsAfterLinking ==
  /\ Executing
  /\ SetCurrent([Current EXCEPT !.local = Link(@, NoBlock)])
  /\ RaiseOccurrence(StorageError, StorageError)
  /\ UNCHANGED << heap, transfer, phase, reported, lost >>

(* __ada_array_local refuses the request before it links anything. *)
AllocationFails ==
  /\ Executing
  /\ RaiseOccurrence(StorageError, StorageError)
  /\ UNCHANGED << stack, heap, transfer, phase, reported, lost >>

-----------------------------------------------------------------------------
(* Calls and returns. *)

Call(result) ==
  /\ Executing
  /\ Len(stack) < MaxFrames
  /\ stack' = Append(stack, NewFrame(result))
  /\ UNCHANGED << pending, name, heap, transfer, pc, phase, reported, late, lost >>

Return ==
  /\ Running({"scope"})
  /\ ~LibraryLevel
  /\ Current.result # "array"
  /\ heap' = heap \ ReleasedBy(Current)
  /\ LeaveActivation
  /\ UNCHANGED << pending, name, transfer, phase, reported, lost >>

(* The value is copied into a transfer buffer before the lists are released. *)
ReturnArray(block) ==
  /\ Running({"scope"})
  /\ Current.result = "array"
  /\ pending = None
  /\ block \in Blocks \ heap
  /\ transfer' = block
  /\ heap' = (heap \cup {block}) \ ReleasedBy(Current)
  /\ LeaveActivation
  /\ UNCHANGED << pending, name, phase, reported, lost >>

(* With an exception pending the test behind the copy jumps away, and no path
   frees what the descriptor holds. *)
LoseResult(block) ==
  /\ Running({"scope"})
  /\ Current.result = "array"
  /\ pending # None
  /\ block \in Blocks \ heap
  /\ heap' = heap \cup {block}
  /\ lost' = lost \cup {block}
  /\ Tested
  /\ UNCHANGED << pending, name, stack, transfer, phase, reported >>

(* A function that runs off its end raises and returns in one breath. *)
FallOffEnd ==
  /\ Running({"frame"})
  /\ IF Current.result = "none"
     THEN UNCHANGED << pending, name >>
     ELSE /\ pending' = ProgramError
          /\ name' = ProgramError
  /\ heap' = heap \ ReleasedBy(Current)
  /\ LeaveActivation
  /\ UNCHANGED << transfer, phase, reported, lost >>

(* The test behind the call, and the adoption of an array result. *)
CheckAfterCall ==
  /\ pc = "landed"
  /\ stack # << >>
  /\ pending # None
  /\ Tested
  /\ UNCHANGED << pending, name, stack, heap, transfer, phase, reported, lost >>

ResumeUntested ==
  /\ pc = "landed"
  /\ stack # << >>
  /\ transfer = NoBlock
  /\ pc' = "run"
  /\ UNCHANGED << pending, name, stack, heap, transfer, phase, reported, late, lost >>

Resume ==
  /\ pc = "landed"
  /\ stack # << >>
  /\ pending = None
  /\ transfer = NoBlock
  /\ pc' = "run"
  /\ UNCHANGED << pending, name, stack, heap, transfer, phase, reported, late, lost >>

AdoptResult ==
  /\ pc = "landed"
  /\ stack # << >>
  /\ pending = None
  /\ transfer # NoBlock
  /\ SetCurrent([Current EXCEPT !.temp = Link(@, transfer),
                                !.open[Len(Current.open)].values = @ \cup {transfer}])
  /\ transfer' = NoBlock
  /\ pc' = "run"
  /\ UNCHANGED << pending, name, heap, phase, reported, late, lost >>

AdoptionFailsKeepingBuffer ==
  /\ pc = "landed"
  /\ stack # << >>
  /\ pending = None
  /\ transfer # NoBlock
  /\ transfer' = NoBlock
  /\ RaiseOccurrence(StorageError, StorageError)
  /\ UNCHANGED << stack, heap, phase, reported, lost >>

(* __ada_array_adopt frees the buffer it cannot link. *)
AdoptionFails ==
  /\ pc = "landed"
  /\ stack # << >>
  /\ pending = None
  /\ transfer # NoBlock
  /\ heap' = heap \ {transfer}
  /\ transfer' = NoBlock
  /\ RaiseOccurrence(StorageError, StorageError)
  /\ UNCHANGED << stack, phase, reported, lost >>

-----------------------------------------------------------------------------
(* Exceptions. *)

(* A raise statement, a failed check, or a run time routine that raised and
   is tested. *)
Raise(exception) ==
  /\ Executing
  /\ RaiseOccurrence(exception, exception)
  /\ UNCHANGED << stack, heap, transfer, phase, reported, lost >>

(* 'Image of an enumeration value that is none of its type's: the run time
   raises, and the code emitted behind the call takes its empty result. *)
RaiseUntested ==
  /\ Executing
  /\ pending' = ConstraintError
  /\ name' = ConstraintError
  /\ late' = TRUE
  /\ UNCHANGED << stack, heap, transfer, pc, phase, reported, lost >>

(* A run time call that raises nothing but is tested as all others are. *)
Test ==
  /\ Executing
  /\ pending # None
  /\ Tested
  /\ UNCHANGED << pending, name, stack, heap, transfer, phase, reported, lost >>

Outermost(k, kind) ==
  /\ k \in DOMAIN Current.open
  /\ Current.open[k].kind = kind
  /\ \A i \in 1 .. (k - 1) : Current.open[i].kind # kind

(* The construct of that kind nearest to the top of the activation. *)
Innermost(k, kind) ==
  /\ k \in DOMAIN Current.open
  /\ Current.open[k].kind = kind
  /\ \A i \in (k + 1) .. Len(Current.open) : Current.open[i].kind # kind

ReraiseWithGlobalName ==
  /\ Running({"scope"})
  /\ \E k \in DOMAIN Current.open :
        /\ Innermost(k, "handler")
        /\ RaiseOccurrence(Current.open[k].occurrence.id, name)
  /\ UNCHANGED << stack, heap, transfer, phase, reported, lost >>

(* raise; inside a handler restores what that handler saved. *)
Reraise ==
  /\ Running({"scope"})
  /\ \E k \in DOMAIN Current.open :
        /\ Innermost(k, "handler")
        /\ RaiseOccurrence(Current.open[k].occurrence.id,
                           Current.open[k].occurrence.name)
  /\ UNCHANGED << stack, heap, transfer, phase, reported, lost >>

Caught == [id |-> pending, name |-> name]

HandlerFor(construct, occurrence) ==
  [construct EXCEPT !.kind = "handler", !.handles = {}, !.occurrence = occurrence]

CatchKeepingPending(k) ==
  /\ pending \in Current.open[k].handles
  /\ SetCurrent(
       [Rewound(Current, Current.open[k]) EXCEPT
          !.open = Append(UpTo(k - 1), HandlerFor(Current.open[k], Caught))])
  /\ pc' = "run"
  /\ UNCHANGED pending

(* A choice of the handlers names the exception: its body starts. *)
Catch(k) ==
  /\ pending \in Current.open[k].handles
  /\ SetCurrent(
       [Rewound(Current, Current.open[k]) EXCEPT
          !.open = Append(UpTo(k - 1), HandlerFor(Current.open[k], Caught))])
  /\ pending' = None
  /\ pc' = "run"

PassOnToItself(k) ==
  /\ pending \notin Current.open[k].handles
  /\ SetCurrent([Rewound(Current, Current.open[k]) EXCEPT !.open = UpTo(k)])
  /\ UNCHANGED << pending, pc >>

(* None does: on to the handlers of the enclosing sequence. *)
PassOn(k) ==
  /\ pending \notin Current.open[k].handles
  /\ SetCurrent([Rewound(Current, Current.open[k]) EXCEPT !.open = UpTo(k - 1)])
  /\ UNCHANGED << pending, pc >>

(* The dispatch code in front of the handlers of the sequence k. *)
Dispatch(k) ==
  /\ pc = "unwind"
  /\ stack # << >>
  /\ Innermost(k, "handled")
  /\ heap' = heap \ FreedBy(Current, Current.open[k])
  /\ Catch(k) \/ PassOn(k)
  /\ UNCHANGED << name, transfer, phase, reported, late, lost >>

(* No handler is left in this activation: return and let the caller test. *)
Propagate ==
  /\ pc = "unwind"
  /\ stack # << >>
  /\ \A k \in DOMAIN Current.open : Current.open[k].kind # "handled"
  /\ heap' = heap \ ReleasedBy(Current)
  /\ LeaveActivation
  /\ UNCHANGED << pending, name, transfer, phase, reported, lost >>

-----------------------------------------------------------------------------
(* The function main: elaborate the library, then call the main procedure. *)

StartMain ==
  /\ pc = "landed"
  /\ stack = << >>
  /\ phase = "elaborate"
  /\ pending = None
  /\ phase' = "main"
  /\ stack' = << NewFrame("none") >>
  /\ pc' = "run"
  /\ UNCHANGED << pending, name, heap, transfer, reported, late, lost >>

Stop ==
  /\ pc = "landed"
  /\ stack = << >>
  /\ \/ phase = "main"
     \/ pending # None
  /\ reported' = IF pending = None THEN None ELSE name
  /\ pc' = "stopped"
  /\ UNCHANGED << pending, name, stack, heap, transfer, phase, late, lost >>

-----------------------------------------------------------------------------

Init ==
  /\ pending = None
  /\ name = None
  /\ stack = << NewFrame("none") >>
  /\ heap = {}
  /\ transfer = NoBlock
  /\ pc = "run"
  /\ phase = "elaborate"
  /\ reported = None
  /\ late = FALSE
  /\ lost = {}

(* What the emitted code does by itself once an exception is pending or a
   call has returned. *)
Machine ==
  \/ \E k \in 1 .. MaxOpen : Dispatch(k)
  \/ Propagate
  \/ CheckAfterCall
  \/ Resume
  \/ AdoptResult
  \/ AdoptionFails
  \/ StartMain
  \/ Stop

Next ==
  \/ StartScope
  \/ EndScope
  \/ StartDeclarations
  \/ EndDeclarations
  \/ \E handles \in HandlerSets : EnterHandled(handles)
  \/ LeaveHandled
  \/ \E k \in 1 .. MaxOpen : ExitLoop(k)
  \/ \E block \in Blocks : DeclareArray(block)
  \/ \E block \in Blocks : AllocateTemporary(block)
  \/ AllocationFails
  \/ \E result \in { "none", "value", "array" } : Call(result)
  \/ Return
  \/ \E block \in Blocks : ReturnArray(block)
  \/ \E block \in Blocks : LoseResult(block)
  \/ FallOffEnd
  \/ \E exception \in Exceptions : Raise(exception)
  \/ RaiseUntested
  \/ Test
  \/ Reraise
  \/ Machine

Spec == Init /\ [][Next]_vars

(* The process is one thread of straight line code: it does not stop between
   a jump and its target.  The Ada program itself may loop for ever. *)
FairSpec == Spec /\ WF_vars(Machine)

-----------------------------------------------------------------------------
(* Storage: who owns what. *)

Owned(frame) == Held(frame.local) \cup Held(frame.temp)

InTransfer == {transfer} \ {NoBlock}

(***************************************************************************)
(* Every allocated block has exactly one owner: one place in one list of   *)
(* one live activation, or the result descriptor on its way to the caller. *)
(* The exception are the buffers of array results that an exception of an  *)
(* untested 'Image kept from being returned: those are lost, and no more.  *)
(* So nothing else leaks past the activation that allocated it and the     *)
(* rewinds and releases on the different paths out of a subprogram         *)
(* (return, fall off the end, propagate, dispatch, exit, failed adoption)  *)
(* never free a block twice, nor one that is lost.                         *)
(***************************************************************************)
HeapAccounted ==
  /\ heap = InTransfer \cup lost \cup UNION { Owned(stack[f]) : f \in DOMAIN stack }
  /\ transfer \notin lost
  /\ \A f \in DOMAIN stack :
        /\ Distinct(stack[f].local)
        /\ Distinct(stack[f].temp)
        /\ Held(stack[f].local) \cap Held(stack[f].temp) = {}
        /\ transfer \notin Owned(stack[f])
        /\ Owned(stack[f]) \cap lost = {}
        /\ \A g \in DOMAIN stack :
              f # g => Owned(stack[f]) \cap Owned(stack[g]) = {}

Declared(frame) == UNION { frame.open[i].arrays : i \in DOMAIN frame.open }
Temporaries(frame) == UNION { frame.open[i].values : i \in DOMAIN frame.open }

(***************************************************************************)
(* An activation's lists hold exactly the arrays declared in its open      *)
(* constructs and the temporaries of its open statements, also while an    *)
(* exception is on its way: no construct was left, by whatever path, with  *)
(* its storage still held, and no array was freed while its declaration is *)
(* in scope.                                                               *)
(***************************************************************************)
ExactReclaim ==
  \A f \in DOMAIN stack :
    /\ Held(stack[f].local) = Declared(stack[f])
    /\ Held(stack[f].temp) = Temporaries(stack[f])

(***************************************************************************)
(* A checkpoint some open construct will rewind to is still in its list,   *)
(* and the checkpoints are nested as the constructs are, so the loop of    *)
(* __ada_array_rewind always meets the node it stops at and an outer       *)
(* rewind never meets a node an inner one has freed.                       *)
(***************************************************************************)
MarksNested(owner, marks) ==
  /\ \A i \in DOMAIN marks : Live(owner, marks[i])
  /\ \A i, j \in DOMAIN marks :
        i < j => Position(owner, marks[i]) <= Position(owner, marks[j])

CheckpointsLive ==
  \A f \in DOMAIN stack :
    LET open == stack[f].open
    IN  /\ MarksNested(stack[f].local, [i \in DOMAIN open |-> open[i].local])
        /\ MarksNested(stack[f].temp, [i \in DOMAIN open |-> open[i].temp])

-----------------------------------------------------------------------------
(* Exceptions: the two globals. *)

(***************************************************************************)
(* Ordinary code runs with an exception pending only behind an untested    *)
(* 'Image, in the activation that took it or in one that activation called *)
(* (late, which every return clears): no handler starts and no caller goes *)
(* on with what it should have seen, so but for that one attribute a test  *)
(* sees only what its own call raised.  A jump to a handler always has     *)
(* something to dispatch; and a result is in transfer only on a return     *)
(* that raised nothing, so that no array result is dropped by propagation. *)
(***************************************************************************)
PendingDiscipline ==
  /\ pc = "run" /\ pending # None => late
  /\ late => pc = "run" /\ pending = ConstraintError
  /\ pc = "unwind" => pending # None
  /\ transfer # NoBlock => pc = "landed" /\ pending = None

(***************************************************************************)
(* What runtime/adart.h says of a pending exception: the generated code    *)
(* inspects the globals after every call and jumps to the handler.         *)
(***************************************************************************)
InspectedAfterEveryCall == pc = "run" => pending = None

(***************************************************************************)
(* $__ada_exception_name names the pending exception, and every handler    *)
(* holds the name that belongs to the identity it saved, whatever other    *)
(* exceptions its body and its callees raised and handled in between.  So  *)
(* a bare raise re-raises what the handler caught and __ada_unhandled      *)
(* reports the exception that ended the program.                           *)
(***************************************************************************)
OccurrencesNamed ==
  /\ pending # None => name = pending
  /\ \A f \in DOMAIN stack : \A i \in DOMAIN stack[f].open :
        LET construct == stack[f].open[i]
        IN  construct.kind = "handler" =>
              /\ construct.occurrence.id # None
              /\ construct.occurrence.name = construct.occurrence.id
  /\ pc = "stopped" => reported = pending

-----------------------------------------------------------------------------

(***************************************************************************)
(* A pending exception is not carried around for ever: the chain of        *)
(* dispatches and propagating returns ends in a handler or in the process  *)
(* stopping with the exception reported.                                   *)
(***************************************************************************)
UnwindingEnds == pc = "unwind" ~> pc \in { "run", "stopped" }

=============================================================================

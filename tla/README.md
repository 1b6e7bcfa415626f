# Formal models of the Ada compiler

`adac` translates a subset of Ada 83/95 to QBE intermediate language, the `ada`
driver runs it, `qbe` and `cc` in a row, and `runtime/` is linked into every
program. This directory holds TLA+ models of the parts where the behaviour of
the whole depends on a protocol kept by code in many places, the TLC runs that
check them on small instances, and TLAPS proofs for instances of any size.

    tlc -config ActivationStorage.cfg MCActivation     # a run
    tlapm ActivationProofs.tla                         # the proofs of a module

Paths below are relative to the repository; in `PROJECT.json` they begin with
`src/`.

## 1. Inventory

| Component | State it keeps | Operations | Talks to | What makes it correct |
| --- | --- | --- | --- | --- |
| Exceptions of compiled programs (`adac/emitter/QbeExceptions.cpp`, `QbeFunctions.cpp`, `QbeCalls.cpp`, `runtime/adart.c`) | the globals `$__ada_exception` and `$__ada_exception_name`; in each activation what its handlers saved | raise, the test behind a call, dispatch, propagate, re-raise, report at the end | every call and every run time routine | an exception reaches the handler the language names, with the occurrence it was raised with, and nothing else is disturbed |
| Storage of run time sized arrays (`adart.c`, `QbeStorage.cpp`, `QbeArrays.cpp`, `QbeDecl.cpp`) | two linked lists per activation, checkpoints in temporaries, the descriptor of an array result | allocate, checkpoint, rewind, release, hand over, adopt | exceptions, which leave constructs without running their ends | every block has one owner and lives exactly as long as its scope |
| File layer (`runtime/adaio.c`) | a pool of 32 entries, three standard ones, current input and output, the `File_Type` objects of the program | create, open, close, delete, reset, set current, check, all reading and writing | the C library, copies of handles in the program | streams are not leaked or shared, a handle reaches its own file or none |
| Text, direct, sequential and stream operations (`adaio.c`, `runtime/ada/`) | the position of the stream, static buffers for 'Input | words, lines, columns, records, indices | file layer | what is written is read back; limits and end of file raise |
| Integer arithmetic, 'Image, 'Value (`adart.c`) | eight rotating buffers | checked operations at 32 and 64 bits, conversions | emitted code | the exact result or Constraint_Error |
| Unit loader (`adac/UnitLoader.cpp`, `main.cpp`) | states by unit and by path, the list of units | load a source, load a unit, parse with clauses | itself, by recursion; parser; Sema through the list | every unit once, declarations before uses, circles reported and only circles |
| Lexer (`Lexer.cpp`) | position, the token before | words, literals, ticks, delimiters | parser, diagnostics | a text is split into the elements it was written from, literals have their value or are reported |
| Parser (`parser/`) | position, the C++ stack, saved positions of tentative parsing | one function per rule, recovery at semicolons | lexer before it, Sema after it | ends on every text, reports faults where they are, accepts what is balanced, builds Ada's expressions |
| Scopes and Sema (`Scope.cpp`, `sema/`) | nested scopes, symbols, types, expansions of generics | declare, look up, resolve, check choices and aggregates | units in loader order | hiding and overloading as the language has them; no case left uncovered |
| Types (`Type.cpp`, `SemaTypes.cpp`), choices (`SemaChoices.cpp`) | | size, alignment, variant layout, coverage | Sema, emitter | components do not overlap, every value selects one alternative, everywhere the same |
| Emitter (`emitter/`) | per function: temporaries, labels, handler and occurrence stacks, frame offsets, arenas | one routine per kind of node | run time conventions | the first two rows, and loops, calls, frames as in the source program |
| Driver (`ada/`) | files between stages, where the tools are | three child processes | adac, qbe, cc | products of a failed stage do not remain, status 0 means the product is there |
| Numerics (`adanumerics.c`, `ada-numerics-*.adb`) | | elementary functions | | precision |

The hard behaviours. Compiled programs and the compiler have one thread, so
nothing interleaves; what is hard is a convention that dozens of emitting
routines must keep together, with failures possible at each step: an exception
is a flag that only explicit tests notice, storage is freed by code emitted at
the ends of constructs that exceptions, `exit` and `return` skip, files are
shared through pointers that the program can copy, and the loader re-enters
itself through the with clauses it is reading. The hazards, each at its line,
are listed in `PROJECT.json` with the properties that watch them.

## 2. What is modelled, and how it corresponds to the code

### Activation: exceptions and storage (`Arena`, `Activation`)

`Arena` has the allocation lists of `adart.c` as sequences, oldest block first:
`Link`, `Rewind`, `Checkpoint` are `__ada_array_local`, `__ada_array_rewind` and
`storageCheckpoint`.

`Activation` is the machine the emitter produces. Its state is the two globals
(`pending`, `name`), the stack of activations, the heap, and the array buffer
that a return has put into the result descriptor (`transfer`); `late` and `lost` are
history, of exceptions that no test has met yet and of buffers nothing leads to
any more. An activation has its
two lists and the constructs it has open. The emitter knows which construct is
open at a point of the code by its compile time stacks `handlerLabels`,
`activeExceptions`, `handlerStorage` and `loopExits`; as construct nesting is
static within a subprogram, an execution sees the same stacks, and the model
keeps them in `open`:

| construct | code | marks taken |
| --- | --- | --- |
| `frame` | the subprogram (`emitSubprogram`, `__ada_elaborate`) | both lists start empty |
| `decls` | `emitLocalDeclarations` | `temporaryMark` |
| `scope` | one statement of `emitStatements`, a while condition, an element of an array fill | `storageCheckpoint` |
| `handled` | the statements of a block, body or package with handlers | `handlerStorage[dispatch]` |
| `handler` | the body of a handler | none: `occurrence` is the pair `status`, `name` of `emitHandlers` |

`pc` tells ordinary code (`run`) from a jump to a handler or propagation label
(`unwind`) and from the point right behind a call (`landed`), where
`emitExceptionCheck` puts its test. The actions are the emitting routines:

| action | code |
| --- | --- |
| `StartScope`, `EndScope` | `emitStatements`, QbeStatements.cpp:7-16 |
| `ExitLoop(k)` | `exit`, 141-156: a jump behind the loop statement, whose rewind follows |
| `StartDeclarations`, `EndDeclarations` | QbeDecl.cpp:94-189 |
| `EnterHandled`, `LeaveHandled` | the handled sequences of blocks, subprograms and package bodies |
| `DeclareArray`, `AllocateTemporary`, `AllocationFails` | `__ada_array_local`, adart.c:538-563 |
| `Call`, `Return`, `ReturnArray`, `FallOffEnd` | QbeCalls.cpp:110-127, QbeStatements.cpp:158-199, QbeFunctions.cpp:227-245 |
| `CheckAfterCall`, `Resume`, `AdoptResult`, `AdoptionFails` | QbeCalls.cpp:128-142 and `__ada_array_adopt` |
| `Raise`, `Reraise` | `emitRaise`, `__ada_raise`, run time calls that raise and are tested |
| `RaiseUntested` | 'Image of an enumeration value that is none of its type's, QbeAttributes.cpp:47-63, adart.c:85-88 |
| `Test` | `emitExceptionCheck` behind a run time call that raised nothing, QbeExceptions.cpp:46-58 |
| `LoseResult` | the return of an array with an exception pending, QbeStatements.cpp:158-175 |
| `Dispatch` = `Catch` or `PassOn` | `emitHandlers`, QbeExceptions.cpp:60-121 |
| `Propagate` | the propagation label, QbeFunctions.cpp:247-285 |
| `StartMain`, `Stop` | `emitMain` |

The Ada program is the environment: the next construct, call or raise is any
the language allows there. `arrays` and `values` of a construct are history:
what the language requires to exist while the construct is open.

Abstractions: all handlers of one sequence are the set of exceptions they name
(first match and `when others` are alternatives with one effect on this state);
an exception's name is the exception it belongs to (a raise of a renaming stores
the renaming's own name beside the identity of what it renames,
QbeExceptions.cpp:36, and such names are left out); the bounds and contents of
arrays, scalar temporaries and parameters are left out. A release emitted in
front of `ret` is part of the returning action. A call of a run time routine
has no activation here: with the test behind it, one that raises is `Raise` and
any other is `Test`, which is visible only with an exception pending.

That can be in ordinary code, because one run time call that may raise has no
test behind it: the 'Image of an enumeration value, which raises
Constraint_Error for a value outside the type (an uninitialized variable has
one). The code goes on with an empty image. `RaiseUntested` therefore leaves
`pc` where it is, and whatever comes next, comes next with the exception
pending: a block with handlers may be entered, a subprogram called, storage
allocated and linked (the test behind it jumps away afterwards), another
exception raised over it, and the buffer of an array result be filled and then
lost. `late` says that ordinary code runs in such a state.

### What it implements (`HandlerSearch`, `AdaExceptions`, `ActivationRefinement`)

`AdaExceptions` is the promise of the language: a raise is one step to the
innermost handler that names the exception, searched through the callers
(`HandlerSearch`), with no flag, no test and no propagation. It has one region
for every open construct; the `Plain` ones are those no search stops at.
`ActivationRefinement` maps `Activation` to it. While an exception is pending
the abstract program is already in the handler, so the mapping computes where
the exception will land from what is still open; the steps of dispatching and
propagating then change nothing. The exception of an untested 'Image is kept
in `late` of `AdaExceptions` (`RaiseLate`) until a test or a return meets it
(`Notice`): it is delivered from there, which is not what Ada says, and the
abstract program says so openly. `DeliversExceptions` is the abstract
specification under that mapping.
An exception carries no identity beyond its own: to the refinement, a bare raise
of some other exception than the handler's is a raise statement. That a bare
raise of the program is one of the language is the theorem
`BareRaiseRaisesWhatWasCaught`, and that the pair saved by a handler is the one
caught and stays whole is `OccurrencesNamed`.

### FilePool: the file layer

Entries of the pool and the standard ones are `file`; `handle` is what each
`File_Type` object holds and `current` the two pointers of the run time. Each C
stream that is ever opened has a number of its own. A handle is modelled as the
entry it points to together with the number of the stream that entry had when
the pointer was stored. The code keeps the entry only, and no action's effect
depends on the number: it is there so that properties can say which file a
handle was made for. `last` records how the last call ended.

A call is one step: the program is sequential and the exception a call leaves
pending is the business of `Activation`. `Open`, `Close`, `Delete`, `Reset`,
`SetCurrent` follow their functions branch by branch; `Use` stands for all
operations that go through `__ada_file_checked` (reading, writing, positioning,
asking; they differ in the mode they ask for), `PutFloat` for `__ada_put_float`,
which does not. `Assign` is an Ada assignment between `File_Type` objects, the
functions that return the standard and current files, a `Stream_Access`, and the
re-elaboration of a declaration. External files are names, `fopen` may fail for
reasons of its own, and `freopen` as well. Contents are not modelled.

### UnitLoader

`loadUnit` and `parseInto` call each other and the state between two calls
matters, so the C++ stack is the variable `stack`: a frame of `loadUnit` has the
place it has come to, one of `parseInto` the next with clause. `states` is
`m_states`, by unit and by path (a file has two spellings: as `findUnit` puts it
together and as a user may write it), `units` is `m_units`. What the files with
is chosen at the start from `Libraries`. Reading may fail for the files in
`Unreadable`; `circles` and `unread` stand for the two kinds of diagnostics.
All search directories are one. Units found in no file return false without a
message, as in the code.

### Lexer and parser (`Lexer`, `Parser`)

`Lexer` is the loop of `tokenize`: a step skips spacing and comments and makes
one token, reports one illegal character, or meets the end. Characters come
from a small alphabet that holds every class the code tells apart. A literal is
accumulated digit by digit with the limits of `lexNumericLiteral` and
`lexBasedLiteral`, `LongMax` in place of LLONG_MAX: a decimal literal saturates
there or wraps in its exponent, as the code does, and only a based one is
reported. Of a real literal the model has the extent and not the value.

`Parser` has the recursive descent as a machine. A parse function is an
operator that gives, from the current token and the ones after it, the symbols
the function reads next, so `Statement`, `TypeDefinition`, `NameSuffixes` and
the rest read like the functions they are named after. `todo` is the C++ call
stack, `frames` the local variables that matter: positions saved for looking
ahead, names to be closed, and the handlers of `ParseError`. `Expect` is
`expect`, `Throw` an error that unwinds to the nearest handler: in the rules of
recovery that is `skipToSemicolon`, and in `parseParenthesizedOrAggregate` the
second reading. `Expand` replaces the rule at the head of `todo`; `Try`,
`EndTry`, `Speculate`, `EndSpeculation`, `Mark` and `Unmark` are the try blocks
and saved positions, `Open`, `Declared` and `Close` the names of units, blocks
and loops. Of the tree only the operators of a statement are kept, in the order
in which `makeBinary` is called. The rules use no recursion of TLA+: what is
recursive is the stack.

### Declarations and names (`VariantRecords`, `Scopes`, `Calls`)

`VariantRecords` reads a variant part alternative by alternative as
`layoutRecord` does, with `ResolveChoice` and `Uncovered` of `SemaChoices.cpp`
(shared with case statements) and the offsets of the components. Beside the
declaration stand the four places in which an alternative is selected for a
discriminant, in Sema and in three emitting routines: `CaseBody`, `VariantFor`,
`CheckVariant`, `ComparedVariant`. After the declaration 'Size clauses may
follow (`SizeClause`, `analyzeRepresentation`): any whole number of bytes up to
eight is taken, for the record or for the type of a component. `TypeSize` is
`typeSize`, for which what a clause said comes first; the offsets stay, since
the record was laid out before. Components of one size and alignment count as of
one type, and the alignment of a scalar is its size. `Successor` of the last long long is
undefined behaviour in the code, and both outcomes are allowed.

`Scopes` is the tree of scopes as a lookup sees it, innermost last, with
declarations and use clauses; `Lookup` is `Scope::lookup` and `Interpretations`
the filter of `resolveBareName`. Scopes are entered, filled and left in any
order. One name is modelled, since different names never meet.

`Calls` goes on where `Scopes` ends: given the candidates of every name, `Read`
is `analyzeExpr` for the forms an argument may have, `ReadName` is
`resolveBareName`, and `ReadCall` is `analyzeCall` for subprograms: malformed
associations, the filter by the expected result, the context of each argument
(`FormalTypes`, `Context`), the one profile that takes them (`Associates`) and
the defaults. Beside it stands Ada's rule, `Meanings`: all readings of the whole
expression, of which there must be one. The code reads each argument once and
goes back on nothing; `CallsMeanAdas` says what is right about that.

### Driver

`Driver` is `ada` and `adac` in turn: one action per stage, each of which may
fail where the code handles a failure, and the contents of the three files. A
write that the disk refuses goes unnoticed in adac (`shortWrite`). Where tools
and library are looked for (`Toolchain.cpp`) depends on the install, which is
chosen at the start.

### Code the emitter makes (`ForLoop`, `StaticLinks`, `ParameterPassing`)

`ForLoop` is the loop with its labels: head, body, the test for the last
iteration and the step. The slot is as wide as the type, one byte under
`'Size use 8`, and the bounds are words: what is stored is cut to the slot
(`InSlot`) on entry and at each step, and the bound is compared as it is.
`StaticLinks` is the stack of
activations; `walk` is the address the code of `staticLinkFor` has loaded so far
and how many loads it has left, for a call (`Call`, `UseFrame`) or for a variable
of a subprogram around the running one (`Reach`). The tree of subprograms is
constant, and any visible one may be called. `ParameterPassing`
is one call of scalars: the addresses and copies before it, what the body does
to formals and to variables it shares with the caller, the test behind the call,
and the copies back.

### The run time library (`Arithmetic`, `ScalarText`, `TextFiles`, `DirectFiles`, `Streams`)

`Arithmetic` has `__ada_integer_operation` at two widths, the rounding of a
real, and the sizes of arrays; every product is tested against the width it is
computed in, so that what would overflow is visible. `FoldStatic` is what the
compiler computes itself, at 64 bits, and leaves to the run time where it would
overflow. `ScalarText` has the
readers behind 'Value and the buffers behind 'Image, `TextFiles` the Text_IO
operations on one file, which is written, reset and read.

`DirectFiles` are bytes with a position; `DirectIO` is what Ada.Direct_IO
promises, elements with an index, and `ImplementsDirectIO` is the refinement:
the mapping cuts the bytes into elements and divides the position. `Streams` is
Stream_IO under the stream attributes, with the buffers in which 'Input leaves
an array.

### How they share runs

Lexer, declarations, scopes and driver do not call one another while they run,
and neither do the parts of the run time library above. `MCFrontEnd` and
`MCRunTime` therefore put them side by side: `stage` says which part a behaviour
exercises, the others stay in a state in which their properties say nothing.

### Definitions with a fault in them

Next to some definitions stands one like it with a plausible mistake (a rewind
left out, a reset forgotten, the wrong entry taken): `CatchKeepingPending`,
`EntryInTurn`, `EnterLoaded` and so on. No specification uses them. They
document what each property is sensitive to: put in place of the right one, TLC
finds the property violated in the same run. `PROJECT.json` lists the pairs.

## 3. The runs

| run | instance | shows |
| --- | --- | --- |
| `ActivationStorage` | 2 blocks (symmetric), 2 activations, 4 constructs each, 2 exceptions of which handlers name one | `HeapAccounted`, `ExactReclaim`, `CheckpointsLive` |
| `ActivationDelivery` | 1 block, 2 activations, 4 constructs each, 2 exceptions, fairness | `PendingDiscipline`, the refinement, `UnwindingEnds` |
| `ActivationNesting` | no blocks, 1 activation, 7 constructs, 3 exceptions, handlers for one or for all | `OccurrencesNamed`, the refinement |
| `FilePoolSafety` | 2 `Text_IO` handles, pool of 2, 1 external file, 3 openings | `StreamsAccounted`, `HandlesKeepTheirFile`, `StandardFilesKept`, `FailuresChangeNothing` |
| `UnitLoading` | main, a package with a child, another package, every choice of with clauses and missing files of `MCLibraries`, 5 command lines, unreadable files, fairness | `SpecsComeFirst`, `NothingMissing`, `LoadingEnds` |
| `FrontEnd` | the instances of `MCFrontEnd`, below | one property for each question put to the parts before emission and the driver, `ParserFinishes` under fairness |
| `RunTime` | the instances of `MCRunTime`, below | the same for what compiled programs and the run time library do, and the refinement of Direct_IO |
| `ActivationUntested`, `FilePoolUnopenedIsRejected`, `FilePoolReachesOwnFile`, `UnitLoadingReadOnce`, `UnitLoadingCircles` | smaller or equal | the disagreements of section 6 |

Why the bounds are enough to meet the interesting cases. *Storage*: two blocks
let a list hold a declared array under a temporary, both lists be non-empty, and
a caller and its callee own one each; four constructs are a subprogram with a
statement (a loop or block) holding declarations or a handled sequence with a
statement inside, so that every kind of construct is left by every path with
storage on both sides of its mark. *Delivery*: with two activations an
exception leaves one that has no handler for it and is caught, or not, in the
caller; four constructs let a handled sequence be entered between an 'Image that
raises and the test that meets it; a block makes array results, and failing
adoptions, take part. Storage_Error is Program_Error in the first two runs and
handlers name Constraint_Error only, so that both outcomes of every search occur. *Nesting*:
seven constructs are a handler within a handler within the handled sequence of a
third, with the statements in between, which is where the saved pair and the
globals differ. *Files*: the third opening reuses an entry, and the pool of two
is full before that. *Loader*: a circle needs two units, the re-entrant parent a
package and its child, and an interplay of both a third package.
*Front end*: four compilations together use every construct of the grammar, and
each is parsed with every token removed, a parenthesis put in the place of
every second, a semicolon or `end` in the place of every fourth, and cut off at
every sixth; expressions have three operands with every sign and every level of
precedence on either side. Texts are all pairs and triples of lexical elements,
five elements where ticks are, and literals on both sides of the last value
(`LongMax` 127) in three bases with exponents. Variant parts have up to three
alternatives over four values with every kind of bad choice, and at the end of
the integers (`LongLast` 7); layouts combine sizes and alignments that force
padding, and up to two 'Size clauses of 12, 16 or 64 bits follow, which is one
refused, one smaller and one larger than what was laid out, for the record and
for its components. Scopes nest three deep with two clauses each, which is a declaration,
one that hides it and one further out; the driver runs over whole and partial
installs. A call has every choice of one to three out of eight profiles, with
one or two arguments, positional, named or both, among them a literal, an
overloaded enumeration literal, an overloaded function, a procedure, an
aggregate and nested calls that are overloaded in the same way; a third argument
or level adds no rule. *Run time*: all pairs of ints of 4 bits (`IntLast` 7), and the pairs of
long longs of 8 bits (`LongLast` 127) that lie at the boundaries, the latter for static folding as well; every loop with bounds up to two
outside a slot of 3 bits, up and down, whose body runs up to ten times
(`MaxVisits`), two more than the slot has values, so that one without an end is
seen to come round; three
image buffers and four images, so that one is overwritten; calls seven deep in a
program nested four deep with a sibling, so that an older activation of each
subprogram stands below a newer one; one parameter of each mode with actuals
that are the same variable or a component whose index the body changes; files of
five characters, six bytes or four objects, which hold several lines, elements
or arrays, with reads of every kind behind one another.

The storage and nesting questions are split into runs because each needs depth
in another direction. The proofs remove the bounds for `Activation`, its
refinement, `FilePool`, `UnitLoader`, loops, static links, calls, arithmetic, files
of text, of elements and streams, the driver, lookup and variant parts; they remain for the liveness
properties and for the other algorithms on data.

The runs `FrontEnd` and `RunTime` check deadlock: a part that has ended stutters by
`Done`, and any other state without a successor would be an error. The runs of
`Activation` and `UnitLoader` say `CHECK_DEADLOCK FALSE`: a process
stops, and the loader is done. So do those of `FilePool`, where exit ends all.

**Fairness.** `FairSpec` of `Activation` has weak fairness of `Machine` only:
the dispatch code, the propagating returns and the tests behind calls are
straight line code of a single thread that waits for nothing, while the Ada
program itself may loop for ever. `FairSpec` of `UnitLoader` has weak fairness
of `Next`: one thread in a loop of file reads. `Spec` of `MCFrontEnd` has weak
fairness of `Parse`: the parser is one thread that waits for nothing.

## 4. What is proved

The modules of proofs are checked by `tlapm`: `ActivationProofs` (which begins
with lemmas on the lists), `ActivationRefinementProofs`, `FilePoolProofs`,
`FileContentsProofs` (Text_IO, Direct_IO and streams), `UnitLoaderProofs`,
`EmittedCodeProofs` (static links, for loops, calls, checked arithmetic and images),
`FrontEndProofs` (the driver, lookup, and variant parts) and `FoldProofs`, what
holds of any fold and of any function defined by recursion on numbers.
They rest on the constants' assumptions `NoBlockAssumption`,
`ExceptionAssumption`, `BoundAssumption`, `FilePoolAssumption`,
`UnitLoaderAssumption`, `NestingAssumption`, `SlotAssumption`, `LoopAssumption`,
`VisitsAssumption`,
`PassingAssumption`, `WidthAssumption`, `RequestAssumption`, `ImageAssumption`,
`ImagedAssumption`, `TextAssumption`,
`DirectAssumption`, `StreamAssumption`, `DriverAssumption`, `ScopeAssumption` and `PartsAssumption` and on no other. The bounds are any
natural numbers, so the results hold for every depth, size and width.

*Activation* (`InvHolds`, from which `TypeCorrect`, `NothingLeaks`,
`StorageFollowsScope`, `RewindsMeetTheirMark`, `PendingIsTested` and
`OccurrencesKeepTheirName` follow). None of the properties is inductive alone.
`ExactReclaim` says what a list holds as a whole, but a rewind in the middle
needs to know what each prefix holds. The strengthening is `Bracketed`
(ActivationProofs): the marks of the open constructs are live and nested in the
list, and rewinding to the mark of a construct leaves exactly what the
constructs around it hold. Opening, closing, linking and rewinding a bracket
keep it (one lemma each), and `FrameInv` states it for both lists of an
activation. Between activations the `Ledger` says who owns which block; calls,
returns and adoption push, pop and transfer entries. `Suspended` says that a
caller stands where a result can be adopted, and `MainResult` that the outermost
procedure returns no array, without which the process could end with a buffer in
transfer. The step of each action is a lemma of its own. Of the exceptions `Inv` says that
ordinary code runs with nothing pending unless it is `late`, and that `late` ends
with every jump and every return; the `Ledger` has the lost buffers as an entry of
their own, which nothing frees and nothing else holds.

*The refinement* (`ExceptionsAreDelivered`; `BareRaiseRaisesWhatWasCaught`). In
AdaExceptions a raise is one step, so the mapping has to say where an exception
that is pending will land: `AfterRaise` cuts the regions off at the deepest
candidate, `Deepest`. That there is a deepest one when there is any is
well-foundedness of the pairs of activation and construct (`LandingLemma`). The
steps that unwind are steps of the program and none of AdaExceptions: a dispatch
that passes on, a propagating return and a test behind a call only leave what has
no candidate for the exception, so the deepest one, and all around it, are as
they were (`TrimmedLemma`, `UnwindingStep`); a catch makes them what they
were shown to be (`CaughtLemma`). A step of the program that AdaExceptions shares
meets its guards because `Inv` says that ordinary code runs with nothing
pending that is not `late` in both (`RunsQuietly`, `LateLemma`), that `Shape` holds of the constructs, and what `MainResult` and
`Suspended` say of returns. A raise out of a failing adoption is raised in the
caller, which is why the region of the callee has to be gone by then.

*FilePool* (`InvHolds`, from which `PoolTypeCorrect`, `NoStreamLeaks`,
`LiveHandlesAreStable`, `StandardFilesStay` and, as an action property,
`FailuresAreClean`). `HandlesKeepTheirFile` needs `Fresh`: a stream number is
never given twice and no reference has one that is still to come, so an old
reference cannot be taken for one to a newer file; and `StreamsAccounted`, so
that the entry of an open stream cannot be released through another handle
unnoticed.

*StaticLinks* (`LinkInvHolds`, from which `LinksLeadToTheMostRecent` follows). A
walk follows links that earlier calls stored, so the invariant has to speak of
all activations: no subprogram around an activation has been activated between
the one its link leads to and itself (`Linked`). A walk under way has passed no
activation of anything it can still come to, and has as many loads left as its
goal is levels further out (`WalkInv`). `NestingAssumption` states of the tree
what holds of any: levels grow inwards, and what encloses an enclosing
subprogram encloses.

*For loops* (`LoopInvHolds`, from which `LoopVisitsItsRange` follows). `LoopInv`
says at each label what the values visited are: the first n of the range, in
order and as far as the slot has room for them, where the slot holds the next one
at `head` and `body` and the n-th at `last`. Cutting a value to the slot keeps
the remainder by the number of its values (`InSlotKeeps`), so that a step in the
slot and a step of the range agree (`InSlotSteps`). If the bounds are values of
the slot, the step is taken only when the slot is not yet at the bound, and then
nothing is cut, which is the point of the test `LastIteration`. If the bound
is no value of the slot, the loop ends at the head or, where the bound is beyond
the last value of the slot, not at all (`OutOfReach`). Of the bounds `LoopAssumption` says only that
they are integers.

*Calls* (`CallInvHolds`, from which `ParametersAreCopiedBack` follows). `CallInv`
relates the addresses to the actuals as they were before the call, whatever the
body has done to indexes since; `after` is the memory the body left, and while
copies go back, each cell has either that value or the copy of the last formal
so far that was copied to it (`LastCopy`). A step of the copying adds one formal
to those sets, and it is the last of the ones with its variable.

*Checked arithmetic* (`ArithmeticIsExact`), at every width of int and long long.
Division, rounding and sizes are arithmetic once the sign of C's remainder is
known (`DivisionIsC`); that an error is right needs that no other value would have
been (`OneQuotient`, `NoMultiple`). Power by squaring is the loop that could go wrong, because
it gives up at a square that does not fit. `OnTheWay` is its invariant: as long as
nothing overflowed, result and square are powers of the left operand whose
exponents make up the right one, and the bits that are left; after an overflow some
power not beyond the wanted one does not fit. Once a power is too large all
later ones are (`OnceTooLarge`: 0, 1 and -1 never leave the type, all other bases
grow), so that giving up is right, and it is right only because no square is taken
when no bit is left. There are as many rounds as the exponent has bits, and the
reference need not count further than `Huge` has (`BitsExceed`: so many factors
of 2 or more leave long long; from the second power on those of 0, 1 and -1
depend on the parity of the exponent alone). The recursions are on
numbers, which `RecursionExists` and `DescentExists` show to define functions.
`FoldedIsOperation` adds that the compiler folds what the library would answer.
`WidthAssumption` says that a long long is wider than an int. `RequestAssumption` is
the type of the operands, and that a double has no fraction unless its integral part
lies at least 1 inside the limits of long long.

*Images* (`ImageInvHolds`, from which `ImagesAreIntact` follows). `InTheRing` says
that the next buffer of a function is as far behind the one of an image as images
were taken since, so that it comes round to that image only with as many as there
are buffers. What the buffer holds is then read back. A number is written by a
recursion on the number divided by ten and read by a fold over the characters;
between the two stands the number that the digits make (`DecimalDigitsMake`), from
which the reader never is so far ahead that its limit would reject a value of the
type, the lowest one included (`DigitsAreRead`). A literal is found because no other
has its capitals and folding them twice changes nothing (`UpperTwice`).
`ImagedAssumption` says that the literals of a type differ in more than case and
contain no blank, that numbers and characters fit a buffer (64 characters hold
every long long), and that no image is taken of the NUL, where C ends the string.
A literal of 64 characters or more is cut (`Stored`) and not read back, which the
property says and the run has one of.

*Text_IO* (`TextInvHolds`, from which `TextIsKept` follows). The lines that were
written are joined by a fold, and `TextInv` says that the file holds them as far as
they have been written (`LinesGrow`: one more line adds its characters and its
terminator behind what is there). While the file is read, the position is between
two of its characters, and the last reply is true to what lies between
where it began and where it ended (`Faithful`). Each operation reads up to the
first character that stops it, which is a least number (`Stops`); Get_Line,
the words, integers and enumeration literals are parts of the text between two
such places. Skip_Line is a recursion through the text with its line ends
counted (`SkipReads`), and a number is written by a recursion on the number
divided by the base (`DigitsAre`). `TextAssumption` says of what characters items consist, and
that the bounds are natural numbers.

*Direct_IO* (`DirectInvHolds`; `DirectIsImplemented`). The mapping cuts the bytes
into elements and divides the position by the size of one, which maps steps to
steps only if the file is a whole number of elements and the position lies
between two. That is the invariant; short files and positions inside an element
are not reachable through the operations, because each moves by whole elements
or fails before it writes.

*Streams* (`StreamInvHolds`, from which `StreamsRoundTrip` follows). The cells
are the objects written, one behind the other (`Contiguous`), so that behind an
object lies the next one; as long as nothing has raised, the position is behind
the object last read (`InOrder`), and with a position in front of an object the
bounds read are its bounds and nothing can end early. An array that no buffer
holds is left where it is, which is why the property ends there. For the buffers,
the next one is as far ahead of the one an array was left in as arrays have been
read since (`Buffered`), so that it comes round only when all have been taken.
`StreamAssumption` says that an object has a value or bounds.

*Driver* (`DriverInvHolds`, from which `DriverLeavesAWholeProductOrNone`
follows). `Progress` says what the three files hold when a stage begins: its input
is of this run, and what it is to make holds at most something older, which the
maker replaces or the driver removes. `Outcome` is the property without the
search path, of which `Search` says that it is settled when adac starts.
`DriverAssumption` says what the driver can be asked and that the files were there
or not before.

*Lookup* (`NamesMeanTheInnermost`). Each level of a lookup is a fold
over the declarations there, and the lookup is a fold over the levels. TLAPS has
no induction over data, but what a fold needs is first order: the function that
its recursion names exists (`FoldExists`), and its values on the first k numbers
follow one another (`FoldSteps`), both from an induction over a set of numbers
(`Upwards`); all three are in `FoldProofs`. On top of them `SearchedDownTo` is an invariant of the levels
passed: what is found is exactly what no declaration found further in hides, and
the search has ended if one of those cannot be overloaded. One more level keeps
it (`OneMoreLevel`), because what it adds is shown by no level further in, where
it would have been found; and after the end of a search everything further out
is hidden (`NoMoreLevels`). The scopes themselves have to keep their type only, so
the result holds of any nesting.

*Variant parts* (`VariantInvHolds`, from which `AcceptedIsWellFormed`,
`SelectionsHaveOneAnswer` and `EveryValueFits` follow), for any number of
alternatives, choices and components over any integers. `VariantInv` says what has
been achieved alternative by alternative: `KeptApart`, that no value is in two of
the choices kept, within an alternative or across two; `NothingDropped`, that
without a report what was kept is what is written, and others stands last; its
converse `NothingInvented`; and `LaidOut`, that components are in order, those of
an alternative behind the common ones, until a 'Size clause is about one of them
(`SizeClauseInv`; a clause about the record moves nothing). The choices of one alternative and its
components are folds again (`ResolveFold`, `PlaceFold`). What `reportUncovered`
finds is a fold over a finite set in the order of the low bounds. From an
induction on the size of a set (`Smaller`) comes that such a fold is defined
(`GatheredExists`); that an end of the walk without a gap means that every value
is in a choice (`NothingLeft`: for any order, and whether or not the successor of
the last long long wraps, since what it wraps to is not beyond the beginning); and
that a complete part leaves no gap (`NothingFound`: here the order matters, and
that the selector ends earlier). From the invariant every value has one
alternative (`OneAlternative`), and each of the four selections, two of them folds
(`LookFold`, `TestsFold`), is shown to find it (`OneAnswer`). `PartsAssumption` is
the type of a declaration: bounds in the range of long long, components of at least
alignment 1, and a discriminant; of the clauses, that their numbers are integers.
`SizeLemma` is the size: every component is inside what the layout computes, and so inside what a
clause said unless that was less.

*UnitLoader* (`LoaderTypeCorrect`; `LoaderInvHolds`, from which
`DeclarationsComeFirst` and `ProgramsAreComplete` follow). The properties speak
of the order of files, and files are appended by calls that return much later than
they began. The invariant `Frames` therefore says of every call on the stack what
it has achieved (`Settled`: the parent had been read before a specification is
searched, every with clause passed is of a unit that was read), what it waits
for (`Beneath`: the call above it is for the parent, the specification or the
with clause where it stands) and what the result just returned means to it
(`OnTop`). A unit on the stack counts as covered, or bodies that with one another
would never be complete. All of it is claimed while nothing was reported, as the
properties are: a circle ends the compilation with an error.

## 5. What is only model-checked

- `UnwindingEnds`, `LoadingEnds` and `ParserFinishes`: liveness under fairness is
  beyond TLAPS.
- The properties of the run `FrontEnd` that are about the lexer, the parser and
  overload resolution. The parser and overload resolution use RECURSIVE
  operators, and the lexer `SelectSeq`, of which the provers know nothing.
- `ValueExact` of `RunTime`. What a text denotes is given with the texts of the run
  (`meant`), so it says nothing of other texts.

## 6. Where code and comments disagree

The first five have a run in which TLC shows it. The two of the loader, and what
items 10 and 15 say of size clauses, were also seen in what `adac` itself emits.

1. `adart.h:34-35` says that the generated code inspects the globals after every
   call; behind the call of an enumeration's 'Image no test is emitted
   (`QbeAttributes.cpp:47-63`, unlike 'Value below it), and it raises for a value
   outside the type (`InspectedAfterEveryCall`). The exception is met by the next test: a
   handler of a block entered since may catch it, another exception may
   replace it, and `return Color'Image (C);` loses the buffer of its result. The other
   properties of `Activation` say how far this goes: `PendingDiscipline` and the
   refinement, that the delay ends at the next test or return and touches no
   other exception; `HeapAccounted`, that nothing but that buffer is lost.
2. `adaio.c:133-134` says that every operation on an unopened file raises
   Status_Error; `__ada_put_float` (`adart.c:437`) writes to the null stream of
   a current output that was closed (`UnopenedIsRejected`).
3. `adaio.h:30-31` says that a file that is not open is refused; through a copy
   of its handle, or the current output, a closed file reaches whichever file
   took over its entry (`ReachesOwnFile`). `HandlesKeepTheirFile` shows the
   limit of the damage: a handle whose file is still open is never redirected.
4. `UnitLoader.h:27` says that loading a unit that was read does nothing; a
   parent whose body withs its child has the child read twice, and its
   declarations are ambiguous with themselves (`ReadOnce`). The same property
   fails for `adac main.adb p.adb`, where P is read as `./p.adb` on behalf of
   Main and as `p.adb` again; this case is outside the run.
5. `UnitLoader.cpp:178-179` says that a body may name its unit back; while the
   specification of A is read, the body of B that withs A is refused
   (`CirclesAreReal`), though the program is legal and is accepted if B is
   asked for first.

Met while modelling and kept in the models as the code has it. The properties
are stated so that they hold of it; there is no run to show these alone.

6. A decimal literal beyond long long is not reported: its digits saturate and
   its exponent wraps (`Lexer.cpp:245-266`). `LiteralsExact` therefore claims a
   report for based literals only (`Lexer.cpp:318-329`).
7. `Scope.cpp:56-58` tells how inner declarations hide outer ones. An inner subprogram does
   not hide an outer object of its name, and a use clause in an inner scope
   hides a declaration further out, since the levels are walked with the used
   packages of each. `InnermostProfileWins` says what the walk does guarantee.
8. End_Of_File is false in front of a last line terminator, though Get raises
   End_Error there; Get_Line of a line exactly as long as the string steps over
   the terminator.
9. An image passed as an `in` String parameter is the static buffer itself: the
   callee sees it change once it takes as many images as there are buffers.
10. A loop whose parameter's subtype has static bounds is not checked against
    them at run time (`QbeStatements.cpp:84-95`); `loop.checked` is the other case.
    With a type of one byte (`'Size use 8`), `for I in Stream_Element range 250 ..
    256 loop` wraps and does not end, though `src/README.md:145-146` has the loop
    test its final value so that it does. `LoopVisitsRange` says
    which loops end and what the body of the others gets.
11. adac does not ask its output stream whether everything was written
    (`adac/main.cpp:257`): with a full disk it ends with 0 and a part of the file.
    A stage that fails leaves the part of its own output it has made.
12. Reset of a Direct_IO file to Out_File empties it if it has a name and only
    rewinds it if it is a scratch file. Reads and writes follow one another
    without a seek between them, which the C standard does not allow and the
    GNU library does.

13. A procedure named as an argument of an overloaded call, where the profiles
    differ in that formal, is read without an expected type. It has no type
    then, which is compatible with every formal (`SemaTypes.cpp:745`), and if
    one profile is left the call is accepted. `CallsMeanAdas` says so.
14. `adaio.c:196` says that Open insists that the file is there; `modeString` opens
    for writing with "wb" or "ab", which make it.
15. A 'Size clause is taken without a look at the type (`SemaTypes.cpp:458-484`;
    `src/TODO.md:182` has the validation open). `for D'Size use 8` on a record of two
    Integers allocates fewer bytes than its components need, and arrays of it
    overlap; a clause for the type of a component, behind the record, leaves the
    next component inside the wider one. `ComponentsFit` says what holds
    without such clauses and what holds in spite of them.
16. A raise of a renamed exception reports the name of the renaming
    (`QbeExceptions.cpp:36`). Names of renamings are not modelled.
17. `UnitLoader.cpp:34-35` says that a child cannot be looked at before its parent.
    A child unit that is named on the command line goes through `loadSource`,
    which reads no parent: `adac` then reports that what the parent declares is
    not declared. `SpecsComeFirst` leaves the parents of named units out.

## 7. Not modelled

Numerics (floating point), real literals, images and readers of reals, the
wording of diagnostics, the QBE backend and the C library (external: their
outcomes are nondeterministic where the run time distinguishes them). Of Sema:
conversions, slices and aggregates, attributes (but for the images and values of
`ScalarText` and the missing test behind one of them), static evaluation of reals and
the expansion of generics; of the emitter: the translation of expressions,
aggregates and array operations apart from their storage, checks and
exceptions. Both are case analysis over a tree that each node passes once, with
no state that outlives a node beyond what `Scopes` and `Activation` have.

## 8. Plan

Done: `Arena`, `Activation`, `AdaExceptions` and the refinement; `FilePool`;
`UnitLoader`; the proofs of section 4; the front end, the driver and the run time
library as described in section 2.

Next are proofs, in this order:

1. `FilePool` as an implementation of an abstract pool in which a handle denotes a
   file and not an entry.

-------------------------- MODULE ParameterPassing --------------------------
(***************************************************************************)
(* The scalar parameters of a call (src/adac/emitter/QbeCalls.cpp).  An    *)
(* actual that may be assigned is addressed once and its formal is a       *)
(* temporary of its own: copied in before the call, copied back after it   *)
(* in the order of declaration, each with a range check, unless the call   *)
(* raised.  The body meanwhile sees the same variables the caller does.    *)
(***************************************************************************)
EXTENDS Integers, Sequences

CONSTANTS
    Formals,    \* The formals in order: [mode, low, high] with the subtype's bounds.
    Calls,      \* The calls: sequences of actuals, each a variable or Indexed.
    Cells,      \* The variables, which a body reaches as well.
    Index,      \* The one among them that selects the component of
    Indexed,    \* this actual, an array component:
    Component,  \* the component of each value of Index.
    CellLow, CellHigh,  \* The subtype of every variable.
    Garbage,    \* What an uninitialized temporary may hold.
    MaxWrites   \* Bounds the assignments of a body.

ASSUME PassingAssumption ==
    /\ Index \in Cells /\ Indexed \notin Cells
    /\ CellLow \in Int /\ CellHigh \in Int
    /\ Component \in [CellLow..CellHigh -> Cells]
    /\ Formals \in Seq([mode : {"in", "in_out", "out"}, low : Int, high : Int])
    /\ Calls \subseteq [DOMAIN Formals -> Cells \cup {Indexed}]
    /\ Garbage \subseteq Int
    /\ MaxWrites \in Nat

VARIABLES
    actuals,        \* one of Calls
    memory,         \* the value of each variable
    phase,          \* actuals, body, back, done or raised
    nextFormal,     \* the formal whose actual is evaluated or copied back next
    addresses,      \* the variable each evaluated actual designates
    temporaries,    \* the value of each formal
    pending,        \* whether the body left with an exception
    writes,         \* assignments the body has made
    before, after   \* memory when the call began, and when the body ended

callVars == <<actuals, memory, phase, nextFormal, addresses, temporaries, pending, writes, before, after>>

Within(x, low, high) == low <= x /\ x <= high
Designated(actual, store) == IF actual = Indexed THEN Component[store[Index]] ELSE actual
CopiedBack(i) == Formals[i].mode \in {"in_out", "out"}

\* emitAddress, and for a formal that is read the value with its range check.
\* The check fails before anything is called.
EvaluateActual ==
    LET formal == Formals[nextFormal]
        cell == Designated(actuals[nextFormal], memory)
        value == memory[cell]
    IN  /\ phase = "actuals" /\ nextFormal \in DOMAIN Formals
        /\ IF formal.mode # "out" /\ ~Within(value, formal.low, formal.high)
           THEN phase' = "raised" /\ UNCHANGED <<nextFormal, addresses, temporaries>>
           ELSE /\ nextFormal' = nextFormal + 1
                /\ addresses' = Append(addresses, cell)
                /\ \E start \in IF formal.mode = "out" THEN Garbage ELSE {value} :
                       temporaries' = Append(temporaries, start)
                /\ UNCHANGED phase
        /\ UNCHANGED <<actuals, memory, writes, pending, before, after>>

EnterBody ==
    /\ phase = "actuals" /\ nextFormal > Len(Formals)
    /\ phase' = "body"
    /\ UNCHANGED <<actuals, memory, nextFormal, addresses, temporaries, writes, pending, before, after>>

\* The body assigns to a formal that is no constant, within its subtype.
AssignFormal(i, value) ==
    /\ phase = "body" /\ writes < MaxWrites
    /\ CopiedBack(i) /\ Within(value, Formals[i].low, Formals[i].high)
    /\ temporaries' = [temporaries EXCEPT ![i] = value]
    /\ writes' = writes + 1
    /\ UNCHANGED <<actuals, memory, phase, nextFormal, addresses, pending, before, after>>

\* Or to a variable, an actual of this call perhaps, or the index of one.
AssignVariable(cell, value) ==
    /\ phase = "body" /\ writes < MaxWrites
    /\ Within(value, CellLow, CellHigh)
    /\ memory' = [memory EXCEPT ![cell] = value]
    /\ writes' = writes + 1
    /\ UNCHANGED <<actuals, phase, nextFormal, addresses, temporaries, pending, before, after>>

\* emitExceptionCheck: where the caller goes once the call has returned; without
\* the check it would always go on and copy back.
Unchecked(raising) == "back"
AfterCall(raising) == IF raising THEN "raised" ELSE "back"

LeaveBody ==
    /\ phase = "body"
    /\ pending' \in BOOLEAN
    /\ phase' = AfterCall(pending')
    /\ nextFormal' = 1
    /\ after' = memory
    /\ UNCHANGED <<actuals, memory, addresses, temporaries, writes, before>>

\* Where a formal is copied back to: the address taken before the call, not the
\* one its actual would have by now.
AddressOfActual(i) == addresses[i]

CopyBack ==
    /\ phase = "back" /\ nextFormal \in DOMAIN Formals
    /\ IF CopiedBack(nextFormal) /\ ~Within(temporaries[nextFormal], CellLow, CellHigh)
       THEN phase' = "raised" /\ UNCHANGED <<memory, nextFormal>>
       ELSE /\ nextFormal' = nextFormal + 1
            /\ memory' = IF CopiedBack(nextFormal)
                         THEN [memory EXCEPT ![AddressOfActual(nextFormal)] = temporaries[nextFormal]]
                         ELSE memory
            /\ UNCHANGED phase
    /\ UNCHANGED <<actuals, addresses, temporaries, writes, pending, before, after>>

FinishCall ==
    /\ phase = "back" /\ nextFormal > Len(Formals)
    /\ phase' = "done"
    /\ UNCHANGED <<actuals, memory, nextFormal, addresses, temporaries, writes, pending, before, after>>

CallInit ==
    /\ actuals \in Calls
    /\ memory \in [Cells -> CellLow..CellHigh]
    /\ phase = "actuals" /\ nextFormal = 1
    /\ addresses = <<>> /\ temporaries = <<>>
    /\ pending = FALSE /\ writes = 0 /\ before = memory /\ after = memory

CallNext ==
    \/ EvaluateActual \/ EnterBody \/ LeaveBody \/ CopyBack \/ FinishCall
    \/ \E i \in DOMAIN Formals : \E value \in Formals[i].low..Formals[i].high : AssignFormal(i, value)
    \/ \E cell \in Cells, value \in CellLow..CellHigh : AssignVariable(cell, value)

CallSpec == CallInit /\ [][CallNext]_callVars

-----------------------------------------------------------------------------

\* A call changes nothing but what its body assigns and, when the body returns,
\* the variables its actuals named when it was made: each receives its formal's
\* last value, the later formal winning where two name one variable.  When a
\* copy back fails its range check those before it have happened and none after
\* it; when an actual fails, or the body raises, none has.
CopiedBackInOrder ==
    LET \* The formals before the k-th that are copied back to a variable.
        copies(k, cell) ==
            {i \in 1..(k - 1) : CopiedBack(i) /\ Designated(actuals[i], before) = cell}
        \* Whether memory is as it is once the formals before the k-th are copied back.
        copied(k) ==
            \A cell \in Cells :
                \/ copies(k, cell) = {} /\ memory[cell] = after[cell]
                \/ \E i \in copies(k, cell) :
                      (\A j \in copies(k, cell) : j <= i) /\ memory[cell] = temporaries[i]
        failed == {i \in DOMAIN temporaries : CopiedBack(i) /\ ~Within(temporaries[i], CellLow, CellHigh)}
        outside == {i \in DOMAIN temporaries :
                       ~Within(temporaries[i], Formals[i].low, Formals[i].high)}
    IN  CASE phase = "actuals" -> memory = before
          [] phase = "body" -> \A i \in outside : Formals[i].mode = "out"
          [] phase = "back" -> ~pending /\ copied(nextFormal)
          [] phase = "done" -> ~pending /\ failed = {} /\ copied(Len(Formals) + 1)
          [] phase = "raised" /\ pending -> memory = after
          [] phase = "raised" /\ ~pending /\ Len(temporaries) < Len(Formals) -> memory = before
          [] OTHER -> /\ nextFormal \in failed
                      /\ \A i \in failed : nextFormal <= i
                      /\ copied(nextFormal)
=============================================================================

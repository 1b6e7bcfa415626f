------------------------------ MODULE ForLoop ------------------------------
(***************************************************************************)
(* A for loop as it is emitted (src/adac/emitter/QbeStatements.cpp).  The  *)
(* parameter lives in a slot as wide as its type, which a size clause may  *)
(* make one byte, so the loop must stop without ever stepping past the     *)
(* last value of that type.  The bounds are words.  Nothing checks them    *)
(* against the type if its subtype is static: the one the loop starts from *)
(* is cut to the slot, the other is compared with as it is.                *)
(***************************************************************************)
EXTENDS Integers, Sequences, SequencesExt

CONSTANTS
    Loops,      \* The loops that run: [low, high, isReverse, first, last, checked], where
                \* first..last is the parameter's subtype and checked says that its
                \* bounds are only known at run time.
    SlotLow, SlotHigh, \* The values a slot holds.
    MaxVisits   \* Bound on how often a body runs: some loops have no end.

ASSUME SlotAssumption == SlotLow \in Int /\ SlotHigh \in Int /\ SlotLow <= SlotHigh

\* The bounds of range and subtype may be any, also such as no slot holds.
ASSUME LoopAssumption ==
    \A l \in Loops : /\ l.low \in Int /\ l.high \in Int /\ l.first \in Int /\ l.last \in Int
                     /\ l.isReverse \in BOOLEAN /\ l.checked \in BOOLEAN
ASSUME VisitsAssumption == MaxVisits \in Nat

VARIABLES
    loop,       \* one of Loops
    label,      \* what runs next: enter, head, body, last, done
    slot,       \* the loop parameter
    bound,      \* the bound, evaluated once, in a slot as wide as a word
    visited,    \* the values the body ran with
    left        \* how the loop ended early: "none", "exit" or "Constraint_Error"

loopVars == <<loop, label, slot, bound, visited, left>>

\* What is read back of a word stored in the slot.
InSlot(x) == ((x - SlotLow) % (SlotHigh - SlotLow + 1)) + SlotLow
Step == IF loop.isReverse THEN -1 ELSE 1

\* A range that is not null is checked against bounds known only at run time.
RangeCheckFails ==
    /\ loop.checked /\ loop.low <= loop.high
    /\ \E x \in {loop.low, loop.high} : x < loop.first \/ loop.last < x

EnterLoop ==
    /\ label = "enter"
    /\ IF RangeCheckFails
       THEN /\ label' = "done" /\ left' = "Constraint_Error"
            /\ UNCHANGED <<slot, bound>>
       ELSE /\ label' = "head"
            /\ slot' = InSlot(IF loop.isReverse THEN loop.high ELSE loop.low)
            /\ bound' = IF loop.isReverse THEN loop.low ELSE loop.high
            /\ UNCHANGED left
    /\ UNCHANGED <<loop, visited>>

TestHead ==
    /\ label = "head"
    /\ label' = IF (loop.isReverse /\ slot >= bound) \/ (~loop.isReverse /\ slot <= bound) THEN "body" ELSE "done"
    /\ UNCHANGED <<loop, slot, bound, visited, left>>

\* The body may leave the loop; it cannot assign to the parameter.
RunBody ==
    /\ label = "body"
    /\ Len(visited) < MaxVisits
    /\ visited' = Append(visited, slot)
    /\ \/ label' = "last" /\ UNCHANGED left
       \/ label' = "done" /\ left' = "exit"
    /\ UNCHANGED <<loop, slot, bound>>

\* Only a value other than the bound is stepped; the head alone would not end a
\* loop whose bound is the last value a slot holds.
NeverTheLast == FALSE
LastIteration == slot = bound

StepLoop ==
    /\ label = "last"
    /\ IF LastIteration THEN label' = "done" /\ UNCHANGED slot
                        ELSE label' = "head" /\ slot' = InSlot(slot + Step)
    /\ UNCHANGED <<loop, bound, visited, left>>

LoopInit ==
    /\ loop \in Loops
    /\ label = "enter" /\ slot = SlotLow /\ bound = SlotLow
    /\ visited = <<>> /\ left = "none"
LoopNext == EnterLoop \/ TestHead \/ RunBody \/ StepLoop

LoopSpec == LoopInit /\ [][LoopNext]_loopVars

-----------------------------------------------------------------------------

Count == IF loop.high < loop.low THEN 0 ELSE loop.high - loop.low + 1
Value(i) == IF loop.isReverse THEN loop.high - i + 1 ELSE loop.low + i - 1

InSlotRange(x) == SlotLow <= x /\ x <= SlotHigh

\* The bound lies ahead of every value a slot can have.
OutOfReach == IF loop.isReverse THEN loop.low < SlotLow ELSE loop.high > SlotHigh

\* A loop whose bounds are values of the slot runs its body once for each value of
\* the range, in order, ascending or descending, up to where it leaves the loop: a
\* null range runs nothing and a range that ends at the last value of the type ends
\* there.  With other bounds the body gets what is left of the values in the slot,
\* over and over if the bound is out of reach: only exit ends such a loop.  A range
\* outside a subtype with run time bounds runs nothing and raises Constraint_Error.
LoopVisitsRange ==
    LET fits == InSlotRange(loop.low) /\ InSlotRange(loop.high)
        outside == loop.checked /\ Count > 0 /\ (loop.low < loop.first \/ loop.last < loop.high)
    IN  /\ \A i \in DOMAIN visited : visited[i] = IF fits THEN Value(i) ELSE InSlot(Value(i))
        /\ fits => Len(visited) <= Count
        /\ (visited # <<>>) => ~outside
        /\ label = "done" =>
               CASE left = "none" -> (fits => Len(visited) = Count) /\ ~OutOfReach /\ ~outside
                 [] left = "exit" -> visited # <<>>
                 [] left = "Constraint_Error" -> outside
=============================================================================

----------------------------- MODULE Arithmetic -----------------------------
(***************************************************************************)
(* The checked arithmetic of compiled programs (src/runtime/adart.c): the  *)
(* operations the emitter does not open code, rounding, and the sizes of   *)
(* arrays; and what the compiler computes of it (SemaStatic.cpp).  An int  *)
(* goes up to IntLast and a long long up to LongLast; everything is        *)
(* computed in long long, so each operator says where that overflows.      *)
(***************************************************************************)
EXTENDS Integers

CONSTANTS
    Requests,   \* What may be asked: records with a kind and its operands.
    IntLast,    \* INT_MAX
    LongLast    \* LLONG_MAX

ASSUME WidthAssumption == IntLast \in Nat \ {0} /\ LongLast \in Nat /\ IntLast < LongLast

VARIABLES request, answer   \* answer: [raised, value], or nothing yet: [pending]

arithmeticVars == <<request, answer>>

\* A type has as many values below zero as from zero up to its highest one.
Lowest(highest) == -highest - 1
FitsIn(x, highest) == Lowest(highest) <= x /\ x <= highest
SizeMax == 2 * LongLast + 1

Operations == {"+", "-", "*", "/", "rem", "mod", "**"}
Fitting(set, highest) == {q \in set : FitsIn(q.left, highest) /\ FitsIn(q.right, highest)}

\* Operands are values of the type; only a Boolean is the operand of not, and a
\* double of the size of a long long has no fraction.
ASSUME RequestAssumption ==
    \A q \in Requests :
        \/ \E highest \in {IntLast, LongLast} :
              q \in Fitting([kind : {"operation"}, operation : Operations, highest : {highest}, left : Int, right : Int], highest)
        \/ q \in Fitting([kind : {"static"}, unary : {"+", "-", "abs"}, operation : Operations \cup {"none"},
                          left : Int, right : Int], LongLast)
        \/ q \in [kind : {"static"}, unary : {"not"}, operation : {"none"}, left : {0, 1}, right : Int]
        \/ q \in [kind : {"round"}, quarters : Int] /\ (FitsIn(q.quarters \div 4, LongLast - 1) \/ q.quarters % 4 = 0)
        \/ q \in [kind : {"size", "local", "result"}, first : Int, last : Int, element : Int]

Raises == [raised |-> TRUE, value |-> 0]
Returns(x) == [raised |-> FALSE, value |-> x]
Checked(x, highest) == IF FitsIn(x, highest) THEN Returns(x) ELSE Raises

Magnitude(x) == IF x < 0 THEN -x ELSE x
\* C's division: towards zero, the remainder with the sign of the dividend.
Quotient(x, y) ==
    IF (x < 0) = (y < 0) THEN Magnitude(x) \div Magnitude(y) ELSE -(Magnitude(x) \div Magnitude(y))
Remainder(x, y) == x - y * Quotient(x, y)

-----------------------------------------------------------------------------
(* __ada_integer_operation.                                                *)

Divide(operation, left, right) ==
    IF right = 0 THEN Raises
    ELSE IF left = Lowest(LongLast) /\ right = -1
    THEN IF operation = "/" THEN Raises ELSE Returns(0)
    ELSE LET r == Remainder(left, right) IN
         CASE operation = "/" -> Returns(Quotient(left, right))
           [] operation = "rem" -> Returns(r)
           [] operation = "mod" -> Returns(IF r # 0 /\ (r < 0) # (right < 0) THEN r + right ELSE r)

\* A product is used only if it fits long long and the type.
Product(x, y, highest) ==
    IF FitsIn(x * y, LongLast) THEN Checked(x * y, highest) ELSE Raises

\* Repeated squaring: the square is taken, and tested, only while bits of the
\* exponent are left.  (AlwaysNeeded is a mutant.)
AlwaysNeeded(exponent) == TRUE
StillNeeded(exponent) == exponent # 0
Round(loop, highest) ==
    LET times == IF loop.rest % 2 = 1 THEN Product(loop.result, loop.square, highest) ELSE Returns(loop.result)
        rest == loop.rest \div 2
        next == IF StillNeeded(rest) THEN Product(loop.square, loop.square, highest) ELSE Returns(loop.square)
    IN  IF loop.rest = 0 \/ loop.overflow THEN loop
        ELSE [square |-> next.value, rest |-> rest, result |-> times.value, overflow |-> times.raised \/ next.raised]

\* A round for each bit of the exponent.
BitsOf[n \in Nat] == IF n = 0 THEN 0 ELSE 1 + BitsOf[n \div 2]
Raised(left, right, highest) ==
    LET after[n \in Nat] ==
            IF n = 0 THEN [square |-> left, rest |-> right, result |-> 1, overflow |-> FALSE]
            ELSE Round(after[n - 1], highest)
        last == after[BitsOf[right]]
    IN  IF right < 0 \/ last.overflow THEN Raises ELSE Returns(last.result)

IntegerOperation(operation, highest, left, right) ==
    LET result ==
            CASE operation = "+" -> Checked(left + right, LongLast)
              [] operation = "-" -> Checked(left - right, LongLast)
              [] operation = "*" -> Checked(left * right, LongLast)
              [] operation \in {"/", "rem", "mod"} -> Divide(operation, left, right)
              [] operation = "**" -> Raised(left, right, highest)
    IN  IF result.raised THEN Raises ELSE Checked(result.value, highest)

\* __ada_round_to_integer, of a value given in quarters.
RoundToInteger(quarters) ==
    IF ~(quarters >= 4 * Lowest(LongLast) /\ quarters < 4 * (LongLast + 1)) THEN Raises
    ELSE LET result == Quotient(quarters, 4)
             fraction == quarters - 4 * result
         IN  CASE fraction >= 2 -> Returns(result + 1)
               [] fraction <= -2 -> Returns(result - 1)
               [] OTHER -> Returns(result)

-----------------------------------------------------------------------------
(* Sema::foldStatic: a static expression is computed by the compiler, in   *)
(* long long.  What raises here is not static and is left to the run time. *)

FoldUnary(operation, operand) ==
    CASE operation = "+" \/ (operation = "abs" /\ operand >= 0) -> Returns(operand)
      [] operation = "-" \/ (operation = "abs" /\ operand < 0) -> Checked(-operand, LongLast)
      [] operation = "not" -> Returns(IF operand # 0 THEN 0 ELSE 1)

\* The power is computed by the loop of Raised.
FoldBinary(operation, left, right) ==
    CASE operation = "+" -> Checked(left + right, LongLast)
      [] operation = "-" -> Checked(left - right, LongLast)
      [] operation = "*" -> Checked(left * right, LongLast)
      [] operation \in {"/", "rem", "mod"} -> Divide(operation, left, right)
      [] operation = "**" -> Raised(left, right, LongLast)

\* A unary operator, whose result may be the left operand of a binary one.
FoldStatic(expression) ==
    LET left == FoldUnary(expression.unary, expression.left) IN
    IF left.raised \/ expression.operation = "none" THEN left
    ELSE FoldBinary(expression.operation, left.value, expression.right)

-----------------------------------------------------------------------------
(* The sizes of arrays.  Bounds are ints; their difference is a long long. *)

Length(first, last) == IF last < first THEN 0 ELSE last - first + 1

\* __ada_array_size: the stride of a row, whose count must fit an int.
ArraySize(first, last, element) ==
    IF \/ Length(first, last) > IntLast
       \/ element < 0
       \/ element # 0 /\ Length(first, last) > LongLast \div element
    THEN Raises
    ELSE Returns(Length(first, last) * element)

\* __ada_array_local: a size_t, allocated with at least one byte.
ArrayLocal(first, last, element) ==
    IF \/ Length(first, last) > IntLast
       \/ element < 0
       \/ element # 0 /\ Length(first, last) > SizeMax \div element
    THEN Raises
    ELSE LET size == Length(first, last) * element IN Returns(IF size = 0 THEN 1 ELSE size)

\* __ada_array_result: the transfer buffer of an unconstrained result.
ArrayResult(first, last, element) ==
    IF \/ element < 0
       \/ element # 0 /\ Length(first, last) > LongLast \div element
    THEN Raises
    ELSE LET size == Length(first, last) * element IN Returns(IF size = 0 THEN 1 ELSE size)

-----------------------------------------------------------------------------

Answer ==
    /\ "pending" \in DOMAIN answer
    /\ answer' =
         CASE request.kind = "operation" ->
                IntegerOperation(request.operation, request.highest, request.left, request.right)
           [] request.kind = "static" -> FoldStatic(request)
           [] request.kind = "round" -> RoundToInteger(request.quarters)
           [] request.kind = "size" -> ArraySize(request.first, request.last, request.element)
           [] request.kind = "local" -> ArrayLocal(request.first, request.last, request.element)
           [] request.kind = "result" -> ArrayResult(request.first, request.last, request.element)
    /\ UNCHANGED request

ArithmeticInit == request \in Requests /\ answer = [pending |-> TRUE]
ArithmeticNext == Answer
ArithmeticSpec == ArithmeticInit /\ [][ArithmeticNext]_arithmeticVars

-----------------------------------------------------------------------------
(* What the answers promise.                                               *)

\* l ** r in unbounded integers; Huge once it has left long long for good, as
\* that many factors of 2 or more do.
Huge == SizeMax + 1
ExactPower(l, r) ==
    LET p[n \in Nat] ==
            IF n = 0 THEN 1
            ELSE LET before == p[n - 1] IN IF Magnitude(before) >= Huge THEN Huge ELSE before * l
    IN  IF r <= BitsOf[Huge] THEN p[r] ELSE IF Magnitude(l) > 1 THEN Huge ELSE p[2 + (r % 2)]

\* value is what Ada defines for the operation, which exists.
IsExact(operation, l, r, value) ==
    CASE operation = "+" -> value = l + r
      [] operation = "-" -> value = l - r
      [] operation = "*" -> value = l * r
      [] operation = "/" ->
            r # 0 /\ Magnitude(l - value * r) < Magnitude(r) /\ (l - value * r) * l >= 0
      [] operation = "rem" ->
            r # 0 /\ (l - value) % Magnitude(r) = 0 /\ Magnitude(value) < Magnitude(r) /\ value * l >= 0
      [] operation = "mod" ->
            r # 0 /\ (l - value) % Magnitude(r) = 0 /\ Magnitude(value) < Magnitude(r) /\ value * r >= 0

Exactly(operation, l, r, highest) ==
    IF operation = "**"
    THEN IF r >= 0 /\ FitsIn(ExactPower(l, r), highest) THEN answer = Returns(ExactPower(l, r)) ELSE answer.raised
    ELSE IF answer.raised
    THEN ~\E value \in Lowest(highest)..highest : IsExact(operation, l, r, value)
    ELSE FitsIn(answer.value, highest) /\ IsExact(operation, l, r, answer.value)

UnaryValue(unary, x) ==
    CASE unary = "not" -> 1 - x
      [] unary = "-" \/ (unary = "abs" /\ x < 0) -> -x
      [] OTHER -> x

\* An operation answers what Ada defines when that is a value of the type and
\* raises Constraint_Error exactly when it is not, however the computation gets
\* there: a square that is never used, the lowest number divided by -1, the
\* sign of mod.  The same holds of what the compiler folds, so that it can decide
\* for the run time.  A rounding is to the nearest integer, away from zero on a tie;
\* a size is exact or Storage_Error is raised, and nothing wraps.
ArithmeticExact ==
    ("pending" \notin DOMAIN answer) =>
        CASE request.kind = "operation" ->
                Exactly(request.operation, request.left, request.right, request.highest)
          [] request.kind = "static" ->
                LET left == UnaryValue(request.unary, request.left) IN
                IF ~FitsIn(left, LongLast) THEN answer.raised
                ELSE IF request.operation = "none" THEN answer = Returns(left)
                ELSE Exactly(request.operation, left, request.right, LongLast)
          [] request.kind = "round" ->
                LET error(x) == request.quarters - 4 * x IN
                IF answer.raised
                THEN \A x \in Lowest(LongLast)..LongLast : Magnitude(error(x)) > 2
                ELSE /\ FitsIn(answer.value, LongLast)
                     /\ Magnitude(error(answer.value)) <= 2
                     /\ Magnitude(error(answer.value)) = 2 =>
                            error(answer.value) * request.quarters < 0
          [] request.kind \in {"size", "local", "result"} ->
                LET exact == Length(request.first, request.last) * request.element IN
                IF answer.raised
                THEN \/ request.element < 0 \/ exact > LongLast
                     \/ Length(request.first, request.last) > IntLast
                ELSE /\ answer.value = exact \/ (exact = 0 /\ answer.value = 1)
                     /\ exact <= SizeMax
=============================================================================

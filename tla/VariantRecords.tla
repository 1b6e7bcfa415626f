--------------------------- MODULE VariantRecords ---------------------------
(***************************************************************************)
(* Record types with a variant part, and case statements: what semantic    *)
(* analysis makes of the choices (src/adac/sema/SemaChoices.cpp), where it *)
(* places the components (layoutRecord), and the four places the emitter   *)
(* and the type table select an alternative for a discriminant:            *)
(*   - the body of a case statement with the same choices,                 *)
(*   - variantFor, when the discriminant is known to the compiler,         *)
(*   - checkVariant, the test before a component is reached,               *)
(*   - the dispatch of compareRecords, the equality of two records.        *)
(* The first two steps are the loop over the alternatives, a step each.    *)
(* A 'Size clause behind the declaration (analyzeRepresentation) changes   *)
(* the size of the type, or of a component's, and moves no component.      *)
(***************************************************************************)
EXTENDS Integers, Sequences, FiniteSets, SequencesExt

CONSTANTS
    Parts,       \* What may be declared: [low, high, common, alternatives].
    LongLast,    \* LLONG_MAX.
    SizeBits,    \* What a 'Size clause may say.
    MaxSizeClauses  \* The bound on the clauses that follow the declaration.

Longs == -LongLast - 1..LongLast
ChoiceRanges == [low : Longs, high : Longs, static : BOOLEAN]
FieldRanges == [name : STRING, size : Nat, alignment : Nat \ {0}]

ASSUME PartsAssumption ==
    /\ LongLast \in Nat
    /\ Parts \subseteq
          [low : Longs, high : Longs, common : Seq(FieldRanges),
           alternatives : Seq([isOthers : BOOLEAN, choices : Seq(ChoiceRanges), fields : Seq(FieldRanges)])]
    /\ \A p \in Parts : p.common # <<>>
    /\ SizeBits \subseteq Int /\ MaxSizeClauses \in Nat

VARIABLES
    part,        \* the declaration: the range of its discriminant, the components
                 \* every value has, and alternatives of [isOthers, choices, fields]
    resolved,    \* per alternative read so far, its isOthers and the choices kept
    covered,     \* what the choices have accounted for so far, in order
    offset,      \* the end of what was placed last
    baseOffset,  \* and of the components common to all alternatives
    placed,      \* the components: [name, at, size, alignment, variant]
    errors,      \* what was reported
    declared,    \* the declaration has been read to its end
    byteSize,    \* what a 'Size clause said of the record type, in bytes; 0 is nothing
    clauses,     \* how many clauses followed the declaration
    resized      \* history: one of them was about the type of a component

sizeVars == <<byteSize, clauses, resized>>
variantVars ==
    <<part, resolved, covered, offset, baseOffset, placed, errors, declared, byteSize, clauses, resized>>

PartAlternatives == part.alternatives
SawOthers == \E i \in DOMAIN resolved : resolved[i].isOthers

-----------------------------------------------------------------------------
(* Choices.                                                                *)

\* (OverlapInside, a mutant, misses ranges that share one bound.)
OverlapInside(left, right) == left.low < right.high /\ right.low < left.high
Overlap(left, right) == left.low <= right.high /\ right.low <= left.high

\* What resolveChoice says of a choice; a subtype mark is the range it covers.
ResolveChoice(choice, before) ==
    IF ~choice.static THEN "nonstatic"
    ELSE IF choice.low > choice.high THEN "empty"
    ELSE IF choice.low < part.low \/ choice.high > part.high THEN "outside"
    ELSE IF \E i \in DOMAIN before : Overlap(choice, before[i]) THEN "overlapping"
    ELSE "ok"

\* The choices of one alternative, in order; those in error are left out.
ResolveNext(acc, choice) ==
    LET answer == ResolveChoice(choice, acc.covered) IN
    IF answer = "ok"
    THEN [acc EXCEPT !.covered = Append(@, choice), !.kept = Append(@, choice)]
    ELSE [acc EXCEPT !.errors = @ \cup {answer}]
Resolve(choices) ==
    FoldLeft(ResolveNext, [covered |-> covered, kept |-> <<>>, errors |-> {}], choices)

\* std::sort by the low bound; the choices kept never share one.
LastByLow(choices) == CHOOSE c \in choices : \A d \in choices : d.low <= c.low

\* `choice.high + 1', which overflows at the end of long long: the build may
\* wrap it or compare as if it did not.
Successor(high, wraps) == IF high = LongLast /\ wraps THEN -LongLast - 1 ELSE high + 1

\* The gaps reportUncovered finds between the choices, walked in order.
Walk(acc, choice, wraps) ==
    [gaps |-> IF choice.low > acc.next THEN acc.gaps \cup {<<acc.next, choice.low - 1>>} ELSE acc.gaps,
     next |-> Successor(choice.high, wraps)]
Uncovered(wraps) ==
    LET end == MapThenFoldSet(LAMBDA choice, acc : Walk(acc, choice, wraps),
                              [gaps |-> {}, next |-> part.low],
                              LAMBDA choice : choice, LastByLow, ToSet(covered))
    IN  end.gaps \cup (IF end.next <= part.high THEN {<<end.next, part.high>>} ELSE {})

-----------------------------------------------------------------------------
(* Layout.                                                                 *)

AlignUp(at, alignment) ==
    IF at % alignment # 0 THEN at + alignment - (at % alignment) ELSE at

\* `place': a name already taken is reported and takes no storage.
PlaceNext(acc, field, variant) ==
    IF \E i \in DOMAIN acc.placed : acc.placed[i].name = field.name
    THEN [acc EXCEPT !.errors = @ \cup {"duplicate"}]
    ELSE LET at == AlignUp(acc.offset, field.alignment) IN
         [acc EXCEPT
            !.offset = at + field.size,
            !.placed = Append(@, [name |-> field.name, at |-> at, size |-> field.size,
                                  alignment |-> field.alignment, variant |-> variant])]
Place(fields, variant, start) ==
    FoldLeft(LAMBDA acc, field : PlaceNext(acc, field, variant),
             [offset |-> start, placed |-> placed, errors |-> {}], fields)

\* Every alternative starts where the common components left off.  (A mutant
\* starts each right behind the discriminant.)
AfterDiscriminant == Head(placed).at + Head(placed).size
VariantBase == baseOffset

Largest(set) == CHOOSE x \in set : \A y \in set : y <= x
TypeAlignment == Largest({1} \cup {f.alignment : f \in ToSet(placed)})
LaidOutSize == AlignUp(Largest({0} \cup {f.at + f.size : f \in ToSet(placed)}), TypeAlignment)
\* What a clause said comes before what the components need.
TypeSize == IF byteSize > 0 THEN byteSize ELSE LaidOutSize
\* What an element of an array of the type takes.
ElementSize == AlignUp(TypeSize, TypeAlignment)

-----------------------------------------------------------------------------
(* The declaration.                                                        *)

PlaceCommon ==
    /\ ~declared /\ placed = <<>>
    /\ LET all == Place(part.common, 0, 0) IN
          /\ offset' = all.offset /\ baseOffset' = all.offset
          /\ placed' = all.placed
          /\ errors' = errors \cup all.errors
    /\ UNCHANGED <<part, resolved, covered, declared, sizeVars>>

Alternative ==
    /\ ~declared /\ placed # <<>>
    /\ Len(resolved) < Len(PartAlternatives)
    /\ LET variant == PartAlternatives[Len(resolved) + 1]
           choices == Resolve(variant.choices)
           fields == Place(variant.fields, Len(resolved) + 1, VariantBase)
       IN  /\ resolved' = Append(resolved, [isOthers |-> variant.isOthers, choices |-> choices.kept])
           /\ covered' = choices.covered
           /\ offset' = fields.offset
           /\ placed' = fields.placed
           /\ errors' = errors \cup choices.errors \cup fields.errors
                          \cup (IF SawOthers THEN {"misplaced"} ELSE {})
    /\ UNCHANGED <<part, baseOffset, declared, sizeVars>>

\* reportUncovered, without an others.
EndPart ==
    /\ ~declared /\ placed # <<>>
    /\ Len(resolved) = Len(PartAlternatives)
    /\ \E wraps \in BOOLEAN :
          errors' = errors \cup (IF ~SawOthers /\ Uncovered(wraps) # {} THEN {"uncovered"} ELSE {})
    /\ declared' = TRUE
    /\ UNCHANGED <<part, resolved, covered, offset, baseOffset, placed, sizeVars>>

\* A clause takes any whole number of bytes up to eight, and asks nothing of
\* the type.  What was said of a component's type is seen by typeSize, which
\* asks again, and not by the place the layout gave the component: components
\* of one size and alignment are of one type here, and the alignment of a
\* scalar type is its size.
WholeBytes(bits) == bits > 0 /\ bits % 8 = 0 /\ bits <= 64
Resized(field, bytes, scalar) ==
    [i \in DOMAIN placed |->
        IF placed[i].size = field.size /\ placed[i].alignment = field.alignment
        THEN [name |-> placed[i].name, at |-> placed[i].at, size |-> bytes,
              alignment |-> IF scalar THEN bytes ELSE placed[i].alignment,
              variant |-> placed[i].variant]
        ELSE placed[i]]

SizeOfRecord(bytes) ==
    /\ byteSize' = bytes
    /\ UNCHANGED <<placed, errors, resized>>
SizeOfComponent(bytes) ==
    /\ \E field \in ToSet(placed), scalar \in BOOLEAN :
          /\ scalar => field.size = field.alignment
          /\ placed' = Resized(field, bytes, scalar)
    /\ resized' = TRUE
    /\ UNCHANGED <<errors, byteSize>>
SizeRefused ==
    /\ errors' = errors \cup {"size"}
    /\ UNCHANGED <<placed, byteSize, resized>>

SizeClause(bits) ==
    /\ declared /\ clauses < MaxSizeClauses
    /\ clauses' = clauses + 1
    /\ \/ WholeBytes(bits) /\ (SizeOfRecord(bits \div 8) \/ SizeOfComponent(bits \div 8))
       \/ ~WholeBytes(bits) /\ SizeRefused
    /\ UNCHANGED <<part, resolved, covered, offset, baseOffset, declared>>

-----------------------------------------------------------------------------
(* Selecting an alternative for a value; 0 is none.                        *)

RangeTest(value, choice) ==
    IF choice.low = choice.high THEN value = choice.low
    ELSE value >= choice.low /\ value <= choice.high
Names(i, value) == \E k \in DOMAIN resolved[i].choices : RangeTest(value, resolved[i].choices[k])

OthersLabel ==
    IF SawOthers THEN CHOOSE i \in DOMAIN resolved :
                        resolved[i].isOthers /\ \A j \in DOMAIN resolved : resolved[j].isOthers => j <= i
    ELSE 0

\* The tests of a case statement are tried alternative by alternative.
CaseBody(value) ==
    LET matching == {i \in DOMAIN resolved : ~resolved[i].isOthers /\ Names(i, value)} IN
    IF matching = {} THEN OthersLabel ELSE CHOOSE i \in matching : \A j \in matching : i <= j

\* variantFor remembers the others alternative and goes on looking.
VariantFor(value) ==
    LET look(answer, i) ==
            IF answer.found THEN answer
            ELSE IF resolved[i].isOthers THEN [answer EXCEPT !.variant = i]
            ELSE IF Names(i, value) THEN [found |-> TRUE, variant |-> i]
            ELSE answer
    IN  FoldLeft(look, [found |-> FALSE, variant |-> 0], [i \in DOMAIN resolved |-> i]).variant

\* checkVariant: may a component of alternative i be reached in a record with
\* this discriminant?  (A mutant lets those of others be reached always.)
CheckVariantLoose(i, value) == resolved[i].isOthers \/ Names(i, value)
CheckVariant(i, value) ==
    IF resolved[i].isOthers
    THEN \A j \in DOMAIN resolved : resolved[j].isOthers \/ ~Names(j, value)
    ELSE Names(i, value)

\* The alternative whose components compareRecords compares, once the common
\* components, the discriminant among them, were found equal.
ComparedVariant(value) ==
    LET test(label, i) ==
            IF label = 0 /\ ~resolved[i].isOthers /\ Names(i, value) THEN i ELSE label
        passed == FoldLeft(test, 0, [i \in DOMAIN resolved |-> i])
    IN  IF passed = 0 THEN OthersLabel ELSE passed

\* The components emitDefaultInit writes when the discriminant is known.
DefaultsWritten(value) ==
    {f \in ToSet(placed) : f.variant = 0 \/ f.variant = VariantFor(value)}

-----------------------------------------------------------------------------

VariantInit ==
    /\ part \in Parts
    /\ resolved = <<>>
    /\ covered = <<>>
    /\ offset = 0 /\ baseOffset = 0
    /\ placed = <<>>
    /\ errors = {}
    /\ declared = FALSE
    /\ byteSize = 0 /\ clauses = 0 /\ resized = FALSE

VariantNext == PlaceCommon \/ Alternative \/ EndPart \/ \E bits \in SizeBits : SizeClause(bits)
VariantSpec == VariantInit /\ [][VariantNext]_variantVars

-----------------------------------------------------------------------------
(* What a declaration that is accepted promises.                           *)

Written(i) == UNION {c.low..c.high : c \in ToSet(PartAlternatives[i].choices)}
ChoicesAt == UNION {{i} \X DOMAIN PartAlternatives[i].choices : i \in DOMAIN PartAlternatives}
WrittenAt(t) == PartAlternatives[t[1]].choices[t[2]]

\* The choices as Ada has them: static, not empty, inside the selector, each
\* value in one choice at most, others last, and nothing left over without it.
WellFormed ==
    /\ \A t \in ChoicesAt : /\ WrittenAt(t).static
                            /\ WrittenAt(t).low \in part.low..WrittenAt(t).high
                            /\ WrittenAt(t).high <= part.high
    /\ \A t, u \in ChoicesAt :
          t # u => \A v \in part.low..part.high :
                      ~(v \in WrittenAt(t).low..WrittenAt(t).high /\ v \in WrittenAt(u).low..WrittenAt(u).high)
    /\ \A i \in DOMAIN PartAlternatives : PartAlternatives[i].isOthers => i = Len(PartAlternatives)
    /\ \/ \E i \in DOMAIN PartAlternatives : PartAlternatives[i].isOthers
       \/ part.low..part.high \subseteq UNION {Written(i) : i \in DOMAIN PartAlternatives}

\* A set of choices is accepted exactly when it is well formed, in whatever
\* order they are written.  A selector that ends at LLONG_MAX is the exception:
\* where `choice.high + 1' wraps, a complete part may be rejected, but an
\* incomplete one is never accepted.
ChoicesExact ==
    declared =>
        /\ (errors \subseteq {"duplicate", "size"}) => WellFormed
        /\ (WellFormed /\ part.high < LongLast) => errors \subseteq {"duplicate", "size"}

\* For every value of the discriminant the four selections agree on one
\* alternative, and its components alone may be reached.
SelectionsAgree ==
    (declared /\ errors = {}) =>
        \A v \in part.low..part.high :
            /\ CaseBody(v) # 0
            /\ VariantFor(v) = CaseBody(v) /\ ComparedVariant(v) = CaseBody(v)
            /\ \A i \in DOMAIN resolved : CheckVariant(i, v) <=> i = CaseBody(v)

\* The components a value has, for every discriminant, are disjoint and aligned
\* until a clause changes the size of a component's type behind the layout; they
\* are inside the size of the type unless a clause gave it a smaller one than
\* they need, which the code does not compare; the elements of an array stay
\* aligned whatever the clauses, and the defaults write no other component.
ComponentsFit ==
    (declared /\ errors = {}) =>
        \A v \in part.low..part.high :
            LET present == {f \in ToSet(placed) : f.variant = 0 \/ CheckVariant(f.variant, v)} IN
            /\ ~resized =>
                  /\ \A f \in present : f.at % f.alignment = 0
                  /\ \A f, g \in present : f # g => f.at + f.size <= g.at \/ g.at + g.size <= f.at
            /\ (byteSize = 0 \/ LaidOutSize <= byteSize) => \A f \in present : f.at + f.size <= TypeSize
            /\ ElementSize % TypeAlignment = 0
            /\ DefaultsWritten(v) \subseteq present
=============================================================================

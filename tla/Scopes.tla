------------------------------- MODULE Scopes -------------------------------
(***************************************************************************)
(* What a name means (src/adac/Scope.cpp, src/adac/sema/SemaNames.cpp).    *)
(* Scopes nest, each with its declarations and the packages it uses; a     *)
(* lookup gathers candidates from the innermost scope outwards, and a bare *)
(* name is then resolved by what is expected of it.  One name is modelled, *)
(* since different names never meet.                                       *)
(***************************************************************************)
EXTENDS Integers, Sequences, SequencesExt

CONSTANTS
    Symbols,        \* The declarations of the name: [kind, profile, result, bare], where bare
                    \* says that a call may leave out every parameter.
    Packages,       \* The packages a use clause may name,
    DeclaredIn,     \* and what each declares, in order.
    Results,        \* The types an expression may be expected to have.
    MaxScopes, MaxClauses   \* Bound the scopes, and the declarations and use clauses of one.

ASSUME ScopeAssumption ==
    /\ DeclaredIn \in [Packages -> Seq(Symbols)]
    /\ MaxScopes \in Nat \ {0} /\ MaxClauses \in Nat

VARIABLE scopes     \* innermost last: [local, used]

scopeVars == <<scopes>>
Depth == Len(scopes)

Overloadable(symbol) == symbol.kind \in {"subprogram", "literal"}

\* A literal has its type for a profile.  Two subprograms that differ only in
\* what they return are not the same.
ParametersOnly(x, y) == x.kind = y.kind /\ Overloadable(x) /\ x.profile = y.profile
SameProfile(x, y) ==
    /\ x.kind = y.kind /\ Overloadable(x)
    /\ x.profile = y.profile /\ x.result = y.result

\* A scope without a declaration of the name shows those of the packages it uses.
AtLevel(k) ==
    IF scopes[k].local # <<>> THEN scopes[k].local
    ELSE FoldLeft(LAMBDA found, p : found \o DeclaredIn[p], <<>>, scopes[k].used)

\* One turn of the loop in Scope::lookup: what inner scopes gave hides the same
\* profile here, a declaration two packages show is found once, and what cannot
\* be overloaded ends the search.
LookupLevel(acc, level) ==
    LET hidden(s) == \E t \in Range(acc.candidates) : SameProfile(t, s)
        add(candidates, s) ==
            IF hidden(s) \/ s \in Range(candidates) THEN candidates ELSE Append(candidates, s)
    IN  IF acc.ended THEN acc
        ELSE [candidates |-> FoldLeft(add, acc.candidates, level),
              ended |-> \E s \in Range(level) : ~hidden(s) /\ ~Overloadable(s)]

Lookup == FoldLeft(LookupLevel, [candidates |-> <<>>, ended |-> FALSE], [i \in 1..Depth |-> AtLevel(Depth + 1 - i)]).candidates

\* matchesResult and typesCompatible: no expectation accepts every function.
Interprets(symbol, expected) ==
    IF symbol.kind = "subprogram" THEN symbol.bare /\ expected \in {"any", symbol.result}
    ELSE expected \in {"any", symbol.profile}

\* resolveBareName: the set of what the name may stand for; more than one, or
\* none, is an error.
Interpretations(candidates, expected) ==
    LET plain == {i \in DOMAIN candidates : ~Overloadable(candidates[i])} IN
    IF plain # {} THEN {candidates[Min(plain)]}
    ELSE {s \in Range(candidates) : Interprets(s, expected)}

-----------------------------------------------------------------------------

Clauses == Len(scopes[Depth].local) + Len(scopes[Depth].used)
Packaged == UNION {Range(DeclaredIn[p]) : p \in Packages}

\* An object is refused where its name is taken; what can be overloaded is not.
Declare(symbol) ==
    /\ Clauses < MaxClauses
    /\ symbol \notin Packaged /\ \A k \in 1..Depth : symbol \notin Range(scopes[k].local)
    /\ Overloadable(symbol) \/ scopes[Depth].local = <<>>
    /\ scopes' = [scopes EXCEPT ![Depth].local = Append(@, symbol)]

\* addUseScope: a package is used once.
UsePackage(p) ==
    /\ Clauses < MaxClauses
    /\ scopes' = [scopes EXCEPT ![Depth].used = IF p \in Range(@) THEN @ ELSE Append(@, p)]

EnterScope ==
    /\ Depth < MaxScopes
    /\ scopes' = Append(scopes, [local |-> <<>>, used |-> <<>>])

LeaveScope ==
    /\ Depth > 1
    /\ scopes' = SubSeq(scopes, 1, Depth - 1)

ScopeInit == scopes = <<[local |-> <<>>, used |-> <<>>]>>
ScopeNext ==
    \/ \E s \in Symbols : Declare(s)
    \/ \E p \in Packages : UsePackage(p)
    \/ EnterScope \/ LeaveScope
ScopeSpec == ScopeInit /\ [][ScopeNext]_scopeVars

-----------------------------------------------------------------------------

\* A declaration is a candidate unless a scope further in has one of the same
\* kind, parameters and result, or one that cannot be overloaded, that is itself
\* visible: no overload gets lost behind one with another result, no name has
\* two meanings with one profile from two scopes, each is found once, and what
\* fits the context stays a meaning of the name unless an object has that name.
InnermostProfileWins ==
    LET candidates == Lookup
        found == Range(candidates)
        shown == [k \in 1..Depth |-> Range(AtLevel(k))]
        homographs(x, y) == <<x.kind, x.profile, x.result>> = <<y.kind, y.profile, y.result>>
        hides(t, s) == ~Overloadable(t) \/ homographs(t, s)
        \* Nothing found further in than level k hides s.
        reaches(s, k) == \A j \in (k + 1)..Depth : \A t \in shown[j] \cap found : ~hides(t, s)
    IN  /\ \A s \in Symbols : s \in found <=> \E k \in 1..Depth : s \in shown[k] /\ reaches(s, k)
        /\ Len(candidates) = Cardinality(found)
        /\ \A s, t \in found :
               (s # t /\ homographs(s, t)) => \E k \in 1..Depth : {s, t} \subseteq shown[k]
        /\ \A expected \in Results, s \in found :
               (Overloadable(s) /\ Interprets(s, expected)) =>
                   \/ s \in Interpretations(candidates, expected)
                   \/ \E k \in 1..Depth : \E t \in shown[k] \cap found : ~Overloadable(t)
=============================================================================

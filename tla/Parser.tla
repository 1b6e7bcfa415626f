------------------------------- MODULE Parser -------------------------------
(***************************************************************************)
(* The recursive descent parser of adac (src/adac/parser).  A parse        *)
(* function is a rule: the symbols it reads next, chosen by the current    *)
(* token and the tokens after it exactly where the function tests them.    *)
(* The C++ call stack is `todo' (what is still to be read, innermost       *)
(* first), its local variables are `frames', and an exception of type      *)
(* ParseError cuts both back to the nearest handler.                       *)
(*                                                                         *)
(* A token is its kind, written as Ada spells it: identifiers are the      *)
(* members of Ids ("Base" is the attribute's name), "str" is a string      *)
(* literal, "pow" the string literal "**", the only operator that may be   *)
(* declared.  The syntax tree is not kept, except for the operators of an  *)
(* expression in the order makeBinary is called.                           *)
(***************************************************************************)
EXTENDS Integers, Sequences, FiniteSets, SequencesExt

CONSTANT Sources   \* What may be parsed: records of at least the tokens, which
                   \* end with "eof", and the function that is called, start.

VARIABLES
    source,     \* what is being parsed, one of Sources
    pos,        \* m_position, from 1
    todo,       \* the symbols still to be read
    frames,     \* saved positions, names to be closed, handlers of ParseError
    last,       \* what the last function returned: name, unit, kind of expression
    tree,       \* the operators and operands of the statement being read, postfix
    reports,    \* the positions errors were reported at
    lost        \* some construct was given up, or closed with a wrong name

parserVars == <<source, pos, todo, frames, last, tree, reports, lost>>

Ids == {"id", "id2", "Base"}
AttributeNames == Ids \cup {"range", "access", "delta", "digits"}
Relational == {"=", "/=", "<", "<=", ">", ">="}

\* TokenKind, with "identifier" for what expect() asks for.
TokenKinds == Ids \cup Relational \cup
    {"identifier", "int", "real", "char", "str", "pow", "eof",
     "abort", "abs", "accept", "access", "all", "and", "array", "at", "begin", "body", "case",
     "constant", "declare", "delay", "delta", "digits", "do", "else", "elsif", "end", "entry",
     "exception", "exit", "for", "function", "generic", "goto", "if", "in", "is", "limited",
     "loop", "mod", "new", "not", "null", "of", "or", "others", "out", "package", "pragma",
     "private", "procedure", "raise", "range", "record", "rem", "renames", "return", "reverse",
     "select", "separate", "subtype", "task", "terminate", "then", "type", "use", "when",
     "while", "with", "xor",
     "&", "'", "(", ")", "*", "+", ",", "-", ".", "/", ":", ";", "|",
     "=>", "..", "**", ":=", "<<", ">>", "<>"}

UnaryOps == {"1 " \o op : op \in {"+", "-", "not", "abs"}}
BinaryOps == {"2 " \o op : op \in Relational \cup
    {"and", "and then", "or", "or else", "xor", "in", "not in",
     "+", "-", "&", "*", "/", "mod", "rem", "**"}}

Tokens == source.tokens
Look(n) == IF pos + n > Len(Tokens) THEN "eof" ELSE Tokens[pos + n]
Cur == Look(0)
Before == Tokens[pos - 1]
After(p) == IF p < Len(Tokens) THEN p + 1 ELSE p

\* Where the scan of `while (!check(A) && !check(B)) advance()' stops.
FirstOf(kinds) ==
    CHOOSE p \in pos..Len(Tokens) :
        /\ Tokens[p] \in kinds \cup {"eof"}
        /\ \A q \in pos..(p - 1) : Tokens[q] \notin kinds \cup {"eof"}

\* The end of the longest 'A.B.C' that starts at pos.
CompoundEnd ==
    CHOOSE p \in pos..Len(Tokens) :
        /\ \A q \in pos..p : Tokens[q] \in (IF (q - pos) % 2 = 0 THEN Ids ELSE {"."})
        /\ (p - pos) % 2 = 0
        /\ ~(Tokens[p + 1] = "." /\ Tokens[p + 2] \in Ids)

CompoundParts == SelectSeq(SubSeq(Tokens, pos, CompoundEnd), LAMBDA t : t \in Ids)

When(token) == IF Cur = token THEN <<token>> ELSE <<>>
More(separator, item) == IF Cur = separator THEN <<separator, item>> ELSE <<>>
Bounds == <<"SimpleExpression", "..", "SimpleExpression">>
NamedAssociation == Cur \in Ids /\ Look(1) = "=>"

-----------------------------------------------------------------------------
(* Parser.cpp: compilation units.                                          *)

\* "!try", X, Y: X inside try, Y after it, whether or not X threw.
Compilation == IF Cur = "eof" THEN <<>> ELSE <<"!try", "CompilationItem", "Compilation">>
CompilationItem == <<"ContextClause", "LibraryUnit">>
Declarations == IF Cur = "eof" THEN <<>> ELSE <<"!try", "DeclarativeItem", "Declarations">>

ContextClause ==
    CASE Cur = "with" -> <<"with", "NameList", ";", "ContextClause">>
      [] Cur = "use" -> <<"UseClause", "ContextClause">>
      [] Cur = "pragma" -> <<"Pragma", "ContextClause">>
      [] OTHER -> <<>>

LibraryUnit ==
    CASE Cur = "eof" -> <<>>
      [] Cur = "generic" -> <<"GenericDeclaration">>
      [] Cur \in {"procedure", "function"} -> <<"Subprogram">>
      [] Cur = "package" -> <<"Package">>
      [] OTHER -> <<"!fail">>

-----------------------------------------------------------------------------
(* ParserDecl.cpp.                                                         *)

DeclarativePart(stop) ==
    IF Cur \in {"eof", "begin", "end", "exception"} \cup stop THEN <<>>
    ELSE <<"!try", "DeclarativeItem", IF stop = {} THEN "DeclarativePart" ELSE "PublicPart">>

DeclarativeItem ==
    CASE Cur = "generic" -> <<"GenericDeclaration">>
      [] Cur = "type" -> <<"TypeDecl">>
      [] Cur = "subtype" -> <<"subtype", "identifier", "is", "SubtypeIndication", ";">>
      [] Cur \in {"procedure", "function"} -> <<"Subprogram">>
      [] Cur = "package" -> <<"Package">>
      [] Cur = "use" -> <<"UseClause">>
      [] Cur = "pragma" -> <<"Pragma">>
      [] Cur = "for" ->
            <<"for", "CompoundName", "'", "identifier", "use", "Expression", ";">>
      [] Cur \in Ids -> <<"IdentifierList", ":", "ObjectRest">>
      [] OTHER -> <<"!fail">>

ObjectRest ==
    CASE Cur = "exception" -> <<"exception", "Renaming", ";">>
      [] Cur = "constant" /\ Look(1) = ":=" -> <<"constant", ":=", "Expression", ";">>
      [] OTHER -> When("constant") \o <<"SubtypeIndication", "Default", ";">>

UseClause == <<"use", "OptionalType", "NameList", ";">>
Pragma == <<"pragma", "!skip", ";">>

-----------------------------------------------------------------------------
(* ParserStatements.cpp.                                                   *)

Statements ==
    IF Cur \in {"end", "else", "elsif", "when", "exception", "eof"} THEN <<>>
    ELSE <<"!try", "Statement", "Statements">>

HandlerList ==
    IF Cur = "when" THEN <<"when", "HandlerHead", "=>", "Statements", "HandlerList">> ELSE <<>>
HandlerHead ==
    CASE Cur \in Ids /\ Look(1) = ":" -> <<"identifier", ":", "HandlerChoices">>
      [] OTHER -> <<"HandlerChoices">>
HandlerChoices == IF Cur = "others" THEN <<"others">> ELSE <<"ExceptionNames">>

Statement ==
    CASE Cur = "null" -> <<"null", ";">>
      [] Cur = "if" -> <<"if", "IfBranches", "ElsePart", "end", "if", ";">>
      [] Cur = "case" -> <<"case", "Expression", "is", "Alternatives", "end", "case", ";">>
      [] Cur \in {"while", "for", "loop"} -> <<"!unnamed", "Loop">>
      [] Cur \in {"declare", "begin"} -> <<"!unnamed", "Block">>
      [] Cur = "exit" -> <<"exit", "OptionalIdentifier", "ExitWhen", ";">>
      [] Cur = "return" -> <<"return", "ReturnValue", ";">>
      [] Cur = "raise" -> <<"raise", "RaiseName", ";">>
      [] Cur = "pragma" -> <<"Pragma">>
      [] Cur \in Ids /\ Look(1) = ":" /\ Look(2) \in {"loop", "while", "for"} ->
            <<"!label", "identifier", ":", "Loop">>
      [] Cur \in Ids /\ Look(1) = ":" /\ Look(2) \in {"declare", "begin"} ->
            <<"!label", "identifier", ":", "Block">>
      [] OTHER -> <<"Primary", "AssignOrCall">>

AssignOrCall == IF Cur = ":=" THEN <<":=", "Expression", ";">> ELSE <<";">>

IfBranches == <<"Expression", "then", "Statements", "MoreBranches">>
Alternatives ==
    IF Cur = "when" THEN <<"when", "Choices", "=>", "Statements", "Alternatives">> ELSE <<>>
ChoicePart == IF Cur = "others" THEN <<"others">> ELSE <<"ChoiceList">>
ChoiceList == <<"ChoiceRange", "MoreChoices">>

\* A mutant: a loop that any `end' closes.
LoopBodyAnyEnd == <<"loop", "Statements", "end", "!close", ";">>
LoopBody == <<"loop", "Statements", "end", "loop", "!close", ";">>
Loop ==
    CASE Cur = "while" -> <<"while", "Expression">> \o LoopBody
      [] Cur = "for" ->
            <<"for", "identifier", "in", "OptionalReverse", "DiscreteRange">> \o LoopBody
      [] OTHER -> LoopBody

Block ==
    (IF Cur = "declare" THEN <<"declare", "DeclarativePart">> ELSE <<>>)
        \o <<"begin", "Statements", "Handlers", "end", "!close", ";">>

-----------------------------------------------------------------------------
(* ParserTypes.cpp.                                                        *)

TypeDecl == <<"type", "identifier", "Discriminants", "TypeRest">>
TypeRest == IF Cur = ";" THEN <<";">> ELSE <<"is", "TypeDefinition", ";">>

TypeDefinition ==
    CASE Cur = "(" -> <<"(", "Literals", ")">>
      [] Cur = "private" \/ (Cur = "limited" /\ Look(1) = "private") ->
            When("limited") \o <<"private">>
      [] Cur = "range" -> <<"range">> \o Bounds
      [] Cur = "digits" -> <<"digits", "SimpleExpression", "RangeConstraint">>
      [] Cur = "array" -> <<"array", "(", "IndexList", ")", "of", "SubtypeIndication">>
      [] Cur = "null" /\ Look(1) = "record" -> <<"null", "record">>
      [] Cur = "record" -> <<"record", "Components", "VariantPart", "end", "record">>
      [] Cur \in {"new", "access"} -> <<Cur, "SubtypeIndication">>
      [] OTHER -> <<"!fail">>

Literals ==
    CASE Cur \in Ids -> <<"identifier", "MoreLiterals">>
      [] Cur = "char" -> <<"char", "MoreLiterals">>
      [] OTHER -> <<"!fail">>

ArrayIndex == IF Cur \in Ids THEN <<"!mark", "SubtypeMark", "ArrayIndexRest">> ELSE Bounds
ArrayIndexRest ==
    CASE Cur = "range" -> <<"!unmark", "range", "BoxOrRange">>
      [] Cur = ".." -> <<"!rewind">> \o Bounds
      [] OTHER -> <<"!unmark">>
BoxOrRange == IF Cur = "<>" THEN <<"<>">> ELSE Bounds

DiscriminantList == <<"IdentifierList", ":", "SubtypeIndication", "Default", "MoreDiscriminants">>

\* The source reads a subtype and its default once more for each further name of
\* a list, from the same position and so to the same end: they are read once here.
Components ==
    CASE Cur \in {"end", "when", "case", "eof"} -> <<>>
      [] Cur = "null" -> <<"null", ";", "Components">>
      [] OTHER -> <<"IdentifierList", ":", "SubtypeIndication", "Default", ";", "Components">>

VariantPart ==
    IF Cur = "case" THEN <<"case", "identifier", "is", "Variants", "end", "case", ";">> ELSE <<>>
Variants == IF Cur = "when" THEN <<"when", "Choices", "=>", "Components", "Variants">> ELSE <<>>

SubtypeIndication == <<"SubtypeMark", "DigitsConstraint", "Constraint">>
Constraint ==
    CASE Cur = "range" -> <<"range">> \o Bounds
      [] Cur = "(" -> <<"(", "IndexConstraints", ")">>
      [] OTHER -> <<>>

\* A name is a type mark only where the range ends; otherwise it is read again.
DiscreteRange ==
    IF Cur \in Ids THEN <<"!mark", "SubtypeMark", "DiscreteRest">> ELSE <<"RangeExpression">>
DiscreteRest ==
    CASE Cur = "range" -> <<"!unmark", "range">> \o Bounds
      [] Cur \in {"loop", ";", ")", ",", "=>", "|", "then", "and", "or", "xor"} -> <<"!unmark">>
      [] OTHER -> <<"!rewind", "RangeExpression">>
\* (X'Range is read three times over, to the same end: for itself, its First and Last.)
RangeExpression == <<"SimpleExpression", "RangeRest">>
RangeRest == IF last.kind = "range" THEN <<>> ELSE <<"..", "SimpleExpression">>

-----------------------------------------------------------------------------
(* ParserSubprograms.cpp, ParserPackages.cpp, ParserGenerics.cpp.          *)

SubprogramSpec ==
    IF Cur = "function"
    THEN <<"function", "Designator", "!name", "Parameters", "return", "SubtypeIndication">>
    ELSE <<"procedure", "CompoundName", "!name", "Parameters">>
Designator ==
    CASE Cur = "pow" -> <<"!designator", "pow">>
      [] Cur = "str" -> <<"str", "!fail">>
      [] OTHER -> <<"CompoundName">>
ParameterList ==
    <<"IdentifierList", ":", "Mode", "SubtypeIndication", "Default", "MoreParameters">>
Mode == IF Cur = "in" THEN <<"in", "OptionalOut">> ELSE When("out")

SubprogramRest == IF Cur = ";" THEN <<"!declared", ";">> ELSE <<"is", "SubprogramIs">>
SubprogramIs ==
    CASE Cur = "new" -> <<"new", "!instance", "Instantiation">>
      [] Cur = "separate" -> <<"separate", "!declared", ";">>
      [] OTHER -> <<"DeclarativePart", "begin", "Statements", "Handlers", "end", "!close", ";">>

PackageRest ==
    IF Cur = "body"
    THEN <<"body", "CompoundName", "!name", "is", "DeclarativePart", "PackageInit", "end",
           "!closeBody", ";">>
    ELSE <<"CompoundName", "!name", "is", "PackageIs">>
PackageIs ==
    IF Cur = "new" THEN <<"new", "!instance", "Instantiation">>
    ELSE <<"PublicPart", "PrivatePart", "end", "!close", ";">>

GenericDeclaration == <<"generic", "Formals", "GenericUnit", "!generic", "GenericBodies">>
GenericUnit == IF Cur = "package" THEN <<"Package">> ELSE <<"Subprogram">>
Formals ==
    CASE Cur \in {"package", "procedure", "function"} -> <<>>
      [] Cur = "type" -> <<"type", "identifier", "is", "!skip", ";", "Formals">>
      [] Cur \in Ids -> <<"identifier", ":", "OptionalIn", "OptionalOut", "SubtypeIndication",
                          "Default", ";", "Formals">>
      [] OTHER -> <<"!fail">>

\* The body of a generic has no 'generic' of its own: it is the unit that
\* follows and bears the same name.
GenericBodies ==
    LET name == Last(frames).name IN
    CASE Cur = "package" /\ Look(1) = "body" /\ <<Look(2)>> = name ->
            <<"Package", "GenericBodies">>
      [] Cur \in {"procedure", "function"} /\ <<Look(1)>> = name ->
            <<"Subprogram", "GenericBodies">>
      [] OTHER -> <<"!unmark">>

Instantiation == <<"CompoundName", "Actuals", ";">>
ActualList ==
    (IF NamedAssociation THEN <<"identifier", "=>">> ELSE <<>>) \o <<"Expression", "MoreActuals">>

-----------------------------------------------------------------------------
(* ParserExpr.cpp and parseNameSuffixes of ParserNames.cpp.  "2 op" and    *)
(* "1 op" stand for makeBinary and for the building of a UnaryExpr.        *)

Expression == <<"Relation", "Logical">>
Logical ==
    CASE Cur = "and" /\ Look(1) = "then" -> <<"and", "then", "Relation", "2 and then", "Logical">>
      [] Cur = "or" /\ Look(1) = "else" -> <<"or", "else", "Relation", "2 or else", "Logical">>
      [] <<Cur, Look(1)>> \notin {<<"and", "then">>, <<"or", "else">>} /\ Cur \in {"and", "or", "xor"} ->
            <<Cur, "Relation", "2 " \o Cur, "Logical">>
      [] OTHER -> <<>>

RelationRest ==
    CASE Cur \in Relational -> <<Cur, "SimpleExpression", "2 " \o Cur>>
      [] Cur = "not" /\ Look(1) = "in" -> <<"not", "in", "DiscreteRange", "2 not in">>
      [] Cur = "in" -> <<"in", "DiscreteRange", "2 in">>
      [] OTHER -> <<>>

\* A mutant: the sign belongs to the first factor alone.
SignOfFirstFactor ==
    IF Cur \in {"+", "-"} THEN <<Cur, "Factor", "1 " \o Cur, "Multiplying", "Adding">>
    ELSE <<"Term", "Adding">>
SimpleExpression ==
    IF Cur \in {"+", "-"} THEN <<Cur, "Term", "1 " \o Cur, "Adding">> ELSE <<"Term", "Adding">>
Adding == IF Cur \in {"+", "-", "&"} THEN <<Cur, "Term", "2 " \o Cur, "Adding">> ELSE <<>>
Term == <<"Factor", "Multiplying">>
Multiplying ==
    IF Cur \in {"*", "/", "mod", "rem"} THEN <<Cur, "Factor", "2 " \o Cur, "Multiplying">> ELSE <<>>
Factor ==
    IF Cur \in {"not", "abs"} THEN <<Cur, "Factor", "1 " \o Cur>> ELSE <<"Primary", "Power">>
Power == IF Cur = "**" THEN <<"**", "Primary", "2 **">> ELSE <<>>

Primary ==
    CASE Cur \in {"int", "real", "char", "null"} -> <<"!leaf", Cur>>
      [] Cur = "str" \/ (Cur = "pow" /\ Look(1) # "(") -> <<"!leaf", Cur, "Suffixes">>
      [] Cur = "pow" /\ Look(1) = "(" -> <<"!leafMark", "pow", "Suffixes">>
      [] Cur = "new" -> <<"new", "SubtypeIndication", "AllocatorValue", "!other">>
      [] Cur = "(" -> <<"Parenthesized">>
      [] Cur \in Ids -> <<"!leafMark", "identifier", "Suffixes">>
      [] OTHER -> <<"!fail">>
AllocatorValue == IF Cur = "'" /\ Look(1) = "(" THEN <<"'", "Parenthesized">> ELSE <<>>

\* "!speculate", X, Y: X is tried; the aggregate is read instead if X throws
\* or does not end at a parenthesis.
\* A mutant: `others' is left for the speculation to trip over.
AlwaysSpeculates == <<"!speculate", "(", "Expression", "!speculated">>
Parenthesized ==
    IF Look(1) = "others" THEN <<"Aggregate">> ELSE <<"!speculate", "(", "Expression", "!speculated">>
Aggregate == <<"(", "AggregateParts", ")", "!other">>
AggregateParts ==
    IF Cur = "others" THEN <<"others", "=>", "Expression", "MoreParts">>
    ELSE <<"!mark", "Expression", "ComponentRest", "MoreParts">>
ComponentRest ==
    IF Cur \in {"..", "|", "=>"} THEN <<"!rewind", "ChoiceList", "=>", "Expression">>
    ELSE <<"!unmark">>

NameSuffixes ==
    CASE Cur = "." /\ Look(1) \in Ids \cup {"all", "pow"} ->
            <<".", Look(1), "!selected", "Suffixes">>
      [] Cur = "(" -> <<"(", "Arguments", ")", "!other", "Suffixes">>
      [] Cur = "'" /\ Look(1) = "(" ->
            IF last.kind = "mark" THEN <<"'", "(", "Expression", ")", "!other", "Suffixes">>
            ELSE <<"'", "(", "!fail">>
      [] Cur = "'" /\ Look(1) # "(" ->
            IF Look(1) \in AttributeNames THEN <<"'", Look(1), "AttributeRest", "Suffixes">>
            ELSE <<"!fail">>
      [] OTHER -> <<>>
Arguments == IF Cur = ")" THEN <<>> ELSE <<"ArgumentList">>
ArgumentList ==
    (IF NamedAssociation THEN <<"identifier", "=>">> ELSE <<>>)
        \o <<"Expression", "UpToExpression", "MoreArguments">>
AttributeRest ==
    LET kind == IF Before = "range" THEN "!range" ELSE "!other" IN
    IF Before = "Base"
    THEN IF Cur = "(" /\ last.kind # "mark" THEN <<"!fail">> ELSE <<"!selected">>
    ELSE IF Cur = "(" THEN <<"(", "AttributeArguments", ")", kind>> ELSE <<kind>>

-----------------------------------------------------------------------------

Rule(symbol) ==
    CASE symbol = "Expression" -> Expression
      [] symbol = "Logical" -> Logical
      [] symbol = "Relation" -> <<"SimpleExpression", "RelationRest">>
      [] symbol = "RelationRest" -> RelationRest
      [] symbol = "SimpleExpression" -> SimpleExpression
      [] symbol = "Adding" -> Adding
      [] symbol = "Term" -> Term
      [] symbol = "Multiplying" -> Multiplying
      [] symbol = "Factor" -> Factor
      [] symbol = "Power" -> Power
      [] symbol = "Primary" -> Primary
      [] symbol = "AllocatorValue" -> AllocatorValue
      [] symbol = "Parenthesized" -> Parenthesized
      [] symbol = "Aggregate" -> Aggregate
      [] symbol = "AggregateParts" -> AggregateParts
      [] symbol = "ComponentRest" -> ComponentRest
      [] symbol = "MoreParts" -> More(",", "AggregateParts")
      [] symbol = "Suffixes" -> NameSuffixes
      [] symbol = "Arguments" -> Arguments
      [] symbol = "ArgumentList" -> ArgumentList
      [] symbol = "UpToExpression" -> More("..", "Expression")
      [] symbol = "MoreArguments" -> More(",", "ArgumentList")
      [] symbol = "AttributeRest" -> AttributeRest
      [] symbol = "AttributeArguments" -> <<"Expression", "MoreAttributeArguments">>
      [] symbol = "MoreAttributeArguments" -> More(",", "AttributeArguments")
      [] symbol = "Compilation" -> Compilation
      [] symbol = "CompilationItem" -> CompilationItem
      [] symbol = "Declarations" -> Declarations
      [] symbol = "ContextClause" -> ContextClause
      [] symbol = "LibraryUnit" -> LibraryUnit
      [] symbol = "NameList" -> <<"CompoundName", "MoreNames">>
      [] symbol = "MoreNames" -> More(",", "NameList")
      [] symbol = "DeclarativePart" -> DeclarativePart({})
      [] symbol = "PublicPart" -> DeclarativePart({"private"})
      [] symbol = "PrivatePart" ->
            IF Cur = "private" THEN <<"private", "DeclarativePart">> ELSE <<>>
      [] symbol = "DeclarativeItem" -> DeclarativeItem
      [] symbol = "ObjectRest" -> ObjectRest
      [] symbol = "Renaming" -> More("renames", "CompoundName")
      [] symbol = "Default" -> More(":=", "Expression")
      [] symbol = "UseClause" -> UseClause
      [] symbol = "OptionalType" -> When("type")
      [] symbol = "Pragma" -> Pragma
      [] symbol = "IdentifierList" -> <<"identifier", "MoreIdentifiers">>
      [] symbol = "MoreIdentifiers" -> More(",", "IdentifierList")
      [] symbol = "Statements" -> Statements
      [] symbol = "Handlers" ->
            IF Cur = "exception" THEN <<"exception", "HandlerList">> ELSE <<>>
      [] symbol = "HandlerList" -> HandlerList
      [] symbol = "HandlerHead" -> HandlerHead
      [] symbol = "HandlerChoices" -> HandlerChoices
      [] symbol = "ExceptionNames" -> <<"CompoundName", "MoreExceptionNames">>
      [] symbol = "MoreExceptionNames" -> More("|", "ExceptionNames")
      [] symbol = "Statement" -> Statement
      [] symbol = "AssignOrCall" -> AssignOrCall
      [] symbol = "IfBranches" -> IfBranches
      [] symbol = "MoreBranches" -> More("elsif", "IfBranches")
      [] symbol = "ElsePart" -> More("else", "Statements")
      [] symbol = "Alternatives" -> Alternatives
      [] symbol = "Choices" -> ChoicePart
      [] symbol = "ChoiceList" -> ChoiceList
      [] symbol = "ChoiceRange" -> <<"SimpleExpression", "UpTo">>
      [] symbol = "UpTo" -> More("..", "SimpleExpression")
      [] symbol = "MoreChoices" -> More("|", "ChoiceList")
      [] symbol = "Loop" -> Loop
      [] symbol = "OptionalReverse" -> When("reverse")
      [] symbol = "Block" -> Block
      [] symbol = "OptionalIdentifier" -> IF Cur \in Ids THEN <<"identifier">> ELSE <<>>
      [] symbol = "ExitWhen" -> More("when", "Expression")
      [] symbol = "ReturnValue" -> IF Cur = ";" THEN <<>> ELSE <<"Expression">>
      [] symbol = "RaiseName" -> IF Cur \in Ids THEN <<"CompoundName">> ELSE <<>>
      [] symbol = "TypeDecl" -> TypeDecl
      [] symbol = "Discriminants" -> IF Cur = "(" THEN <<"(", "DiscriminantList", ")">> ELSE <<>>
      [] symbol = "DiscriminantList" -> DiscriminantList
      [] symbol = "MoreDiscriminants" -> More(";", "DiscriminantList")
      [] symbol = "TypeRest" -> TypeRest
      [] symbol = "TypeDefinition" -> TypeDefinition
      [] symbol = "Literals" -> Literals
      [] symbol = "MoreLiterals" -> More(",", "Literals")
      [] symbol = "RangeConstraint" -> IF Cur = "range" THEN <<"range">> \o Bounds ELSE <<>>
      [] symbol = "IndexList" -> <<"ArrayIndex", "MoreIndexes">>
      [] symbol = "MoreIndexes" -> More(",", "IndexList")
      [] symbol = "ArrayIndex" -> ArrayIndex
      [] symbol = "ArrayIndexRest" -> ArrayIndexRest
      [] symbol = "BoxOrRange" -> BoxOrRange
      [] symbol = "Components" -> Components
      [] symbol = "VariantPart" -> VariantPart
      [] symbol = "Variants" -> Variants
      [] symbol = "SubtypeMark" -> <<"CompoundName", "BaseSuffixes">>
      [] symbol = "BaseSuffixes" ->
            IF Cur = "'" /\ Look(1) = "Base" THEN <<"'", "Base", "BaseSuffixes">> ELSE <<>>
      [] symbol = "SubtypeIndication" -> SubtypeIndication
      [] symbol = "DigitsConstraint" -> More("digits", "SimpleExpression")
      [] symbol = "Constraint" -> Constraint
      [] symbol = "IndexConstraints" -> <<"ChoiceRange", "MoreConstraints">>
      [] symbol = "MoreConstraints" -> More(",", "IndexConstraints")
      [] symbol = "DiscreteRange" -> DiscreteRange
      [] symbol = "DiscreteRest" -> DiscreteRest
      [] symbol = "RangeExpression" -> RangeExpression
      [] symbol = "RangeRest" -> RangeRest
      [] symbol = "Subprogram" -> <<"SubprogramSpec", "SubprogramRest">>
      [] symbol = "SubprogramSpec" -> SubprogramSpec
      [] symbol = "Designator" -> Designator
      [] symbol = "Parameters" -> IF Cur = "(" THEN <<"(", "ParameterList", ")">> ELSE <<>>
      [] symbol = "ParameterList" -> ParameterList
      [] symbol = "MoreParameters" -> More(";", "ParameterList")
      [] symbol = "Mode" -> Mode
      [] symbol = "OptionalIn" -> When("in")
      [] symbol = "OptionalOut" -> When("out")
      [] symbol = "SubprogramRest" -> SubprogramRest
      [] symbol = "SubprogramIs" -> SubprogramIs
      [] symbol = "Package" -> <<"package", "PackageRest">>
      [] symbol = "PackageRest" -> PackageRest
      [] symbol = "PackageIs" -> PackageIs
      [] symbol = "PackageInit" ->
            IF Cur = "begin" THEN <<"begin", "Statements", "Handlers">> ELSE <<>>
      [] symbol = "GenericDeclaration" -> GenericDeclaration
      [] symbol = "GenericUnit" -> GenericUnit
      [] symbol = "Formals" -> Formals
      [] symbol = "GenericBodies" -> GenericBodies
      [] symbol = "Instantiation" -> Instantiation
      [] symbol = "Actuals" -> IF Cur = "(" THEN <<"(", "ActualList", ")">> ELSE <<>>
      [] symbol = "ActualList" -> ActualList
      [] symbol = "MoreActuals" -> More(",", "ActualList")

-----------------------------------------------------------------------------
\* Symbols that are neither tokens nor functions: what the functions do
\* between reading one thing and the next.
Notes == {"CompoundName", "!fail", "!skip", "!try", "!caught", "!speculate", "!speculated",
          "!mark", "!unmark", "!rewind", "!name", "!label", "!unnamed", "!generic",
          "!declared", "!instance", "!close", "!closeBody",
          "!leaf", "!leafMark", "!selected", "!other", "!range", "!designator"}

Operators == UnaryOps \cup BinaryOps
Built == Operators \cup {"!leaf", "!leafMark", "!selected", "!other", "!range", "!designator"}
NotRules == TokenKinds \cup Operators \cup Notes

(* The steps.  todo is never empty while the parser runs, and its head is  *)
(* what the innermost function does next.                                  *)

Finished == todo = <<>>
Next1(symbol) == todo # <<>> /\ Head(todo) = symbol
Continue == todo' = Tail(todo)
Top == Last(frames)

Frame(kind, rest, name) ==
    [kind |-> kind, pos |-> pos, rest |-> rest, name |-> name, tree |-> tree]
Push(frame) == frames' = Append(frames, frame)
Pop == frames' = Front(frames)

\* skipToSemicolon(), the end of every try block: m_position is moved past a
\* semicolon, so that the loop around the try block always makes progress.
\* (Mutants stop at the semicolon, or look for the next `end'.)
SkipTo == FirstOf({";"})
SkipPastEnd == After(FirstOf({"end"}))
SkipPast == After(FirstOf({";"}))

\* fail(): the error is reported and ParseError thrown.  parseDeclarations,
\* parseDeclarativePart, parseSequenceOfStatements and parseCompilation catch
\* it and skip past the next semicolon; a speculation goes back instead.
Throw ==
    LET caught == CHOOSE i \in DOMAIN frames :
                    /\ frames[i].kind \in {"recover", "speculate"}
                    /\ \A j \in (i + 1)..Len(frames) : frames[j].kind \in {"mark", "name"}
        handler == frames[caught]
        rest == SubSeq(todo, Len(todo) - handler.rest + 1, Len(todo))
    IN  /\ reports' = reports \cup {pos}
        /\ frames' = SubSeq(frames, 1, caught - 1)
        /\ IF handler.kind = "recover"
           THEN /\ pos' = SkipPast
                /\ todo' = rest
                /\ lost' = TRUE
                /\ UNCHANGED tree
           ELSE /\ pos' = handler.pos
                /\ todo' = <<"Aggregate">> \o rest
                /\ tree' = handler.tree
                /\ UNCHANGED lost
        /\ UNCHANGED <<source, last>>

\* A function is entered, or a decision inside it taken.
Expand ==
    /\ ~Finished
    /\ Head(todo) \notin NotRules
    /\ todo' = Rule(Head(todo)) \o Tail(todo)
    /\ UNCHANGED <<source, pos, frames, last, tree, reports, lost>>

\* expect() and advance().
Expect ==
    /\ ~Finished
    /\ Head(todo) \in TokenKinds
    /\ IF Cur = Head(todo) \/ (Head(todo) = "identifier" /\ Cur \in Ids)
       THEN /\ pos' = After(pos)
            /\ Continue
            /\ UNCHANGED <<source, frames, last, tree, reports, lost>>
       ELSE Throw

Fail == Next1("!fail") /\ Throw

CompoundName ==
    /\ Next1("CompoundName")
    /\ IF Cur \in Ids
       THEN /\ pos' = CompoundEnd + 1
            /\ last' = [last EXCEPT !.name = CompoundParts]
            /\ Continue
            /\ UNCHANGED <<source, frames, tree, reports, lost>>
       ELSE Throw

\* The tokens of a pragma, or of a formal type, up to the semicolon.
Skip ==
    /\ Next1("!skip")
    /\ pos' = FirstOf({";"})
    /\ Continue
    /\ UNCHANGED <<source, frames, last, tree, reports, lost>>

\* The try blocks: "!try" X Y becomes X "!caught" Y.
Try ==
    /\ Next1("!try")
    /\ Push(Frame("recover", Len(todo) - 2, <<>>))
    /\ todo' = <<todo[2], "!caught">> \o SubSeq(todo, 3, Len(todo))
    /\ tree' = <<>>
    /\ UNCHANGED <<source, pos, last, reports, lost>>

EndTry ==
    /\ Next1("!caught")
    /\ Pop
    /\ Continue
    /\ UNCHANGED <<source, pos, last, tree, reports, lost>>

Speculate ==
    /\ Next1("!speculate")
    /\ Push(Frame("speculate", Len(todo) - 4, <<>>))
    /\ Continue
    /\ UNCHANGED <<source, pos, last, tree, reports, lost>>

EndSpeculation ==
    /\ Next1("!speculated")
    /\ Pop
    /\ IF Cur = ")"
       THEN /\ todo' = <<")", "Suffixes">> \o Tail(todo)
            /\ UNCHANGED <<pos, tree>>
       ELSE /\ todo' = <<"Aggregate">> \o Tail(todo)
            /\ pos' = Top.pos
            /\ tree' = Top.tree
    /\ UNCHANGED <<source, last, reports, lost>>

\* m_position is kept in a local variable, and put back.
Mark ==
    /\ Next1("!mark")
    /\ Push(Frame("mark", 0, <<>>))
    /\ Continue
    /\ UNCHANGED <<source, pos, last, tree, reports, lost>>

Unmark ==
    /\ ~Finished
    /\ Head(todo) \in {"!unmark", "!rewind"}
    /\ Pop
    /\ Continue
    /\ IF Head(todo) = "!rewind" THEN pos' = Top.pos /\ tree' = Top.tree ELSE UNCHANGED <<pos, tree>>
    /\ UNCHANGED <<source, last, reports, lost>>

\* The name a unit, a loop or a block will be closed with.
Open ==
    /\ ~Finished
    /\ Head(todo) \in {"!name", "!label", "!unnamed", "!generic"}
    /\ IF Head(todo) = "!generic" /\ ~last.isUnit
       THEN Throw
       ELSE /\ Push(Frame("name", 0,
                    CASE Head(todo) = "!name" -> last.name
                      [] Head(todo) = "!label" -> <<Cur>>
                      [] Head(todo) = "!unnamed" -> <<>>
                      [] Head(todo) = "!generic" -> last.unit))
            /\ Continue
            /\ UNCHANGED <<source, pos, last, tree, reports, lost>>

\* A declaration ends without a closing name.
Declared ==
    /\ ~Finished
    /\ Head(todo) \in {"!declared", "!instance"}
    /\ last' = [last EXCEPT !.unit = Top.name, !.isUnit = Head(todo) = "!declared"]
    /\ Pop
    /\ Continue
    /\ UNCHANGED <<source, pos, tree, reports, lost>>

\* parseClosingName: a wrong name is reported and parsing goes on; a unit may
\* be closed with the last part of its name.
Close ==
    /\ ~Finished
    /\ Head(todo) \in {"!close", "!closeBody"}
    /\ IF Cur = "str" /\ Top.name = <<"pow">>
       THEN /\ todo' = <<"str", "!fail">> \o Tail(todo)
            /\ UNCHANGED <<source, pos, frames, last, tree, reports, lost>>
       ELSE /\ pos' = CASE Cur = "pow" /\ Top.name = <<"pow">> -> After(pos)
                         [] Cur \in Ids -> CompoundEnd + 1
                         [] OTHER -> pos
            /\ LET wrong ==
                     /\ Cur \in Ids
                     /\ CompoundParts # Top.name
                     /\ ~(Len(Top.name) > 1 /\ CompoundParts = <<Last(Top.name)>>)
               IN  /\ reports' = IF wrong THEN reports \cup {pos} ELSE reports
                   /\ lost' = (lost \/ wrong)
            /\ last' = [last EXCEPT !.unit = Top.name, !.isUnit = Head(todo) = "!close"]
            /\ Pop
            /\ Continue
            /\ UNCHANGED <<source, tree>>

\* The kind of the expression built, and the operators in the order they are
\* built.  "mark": its name can be flattened to a type mark (typeMarkName).
Build ==
    /\ ~Finished
    /\ Head(todo) \in Built
    /\ tree' = CASE Head(todo) \in Operators -> Append(tree, Head(todo))
                 [] Head(todo) \in {"!leaf", "!leafMark"} -> Append(tree, Cur)
                 [] OTHER -> tree
    /\ last' = CASE Head(todo) = "!leafMark" -> [last EXCEPT !.kind = "mark"]
                 [] Head(todo) = "!selected" /\ last.kind = "mark" -> last
                 [] Head(todo) = "!range" -> [last EXCEPT !.kind = "range"]
                 [] Head(todo) = "!designator" -> [last EXCEPT !.name = <<"pow">>]
                 [] OTHER -> [last EXCEPT !.kind = "other"]
    /\ Continue
    /\ UNCHANGED <<source, pos, frames, reports, lost>>

-----------------------------------------------------------------------------

ParserInit ==
    /\ source \in Sources
    /\ pos = 1
    /\ todo = <<source.start>>
    /\ frames = <<>>
    /\ last = [name |-> <<>>, unit |-> <<>>, isUnit |-> FALSE, kind |-> "other"]
    /\ tree = <<>>
    /\ reports = {}
    /\ lost = FALSE

ParserNext ==
    \/ Expand \/ Expect \/ Fail \/ CompoundName \/ Skip
    \/ Try \/ EndTry \/ Speculate \/ EndSpeculation
    \/ Mark \/ Unmark \/ Open \/ Declared \/ Close \/ Build
-----------------------------------------------------------------------------
(* What parsing promises.                                                  *)

\* The speculative reading of a parenthesis as an expression
\* (parseParenthesizedOrAggregate) leaves no error of its own behind, and no
\* handler outlives its function: there is a report exactly when some construct
\* was given up or closed wrongly.
NoSpuriousReport == Finished => frames = <<>> /\ (reports # {} <=> lost)

\* The tokens the parser may pass over without reading them: those of a pragma
\* and those of a generic formal type.
InPragma(p) == \E q \in 1..p : /\ Tokens[q] = "pragma"
                               /\ \A r \in q..(p - 1) : Tokens[r] # ";"
InFormalType(p) == \E q \in 1..p : /\ Tokens[q] = "generic"
                                   /\ \A r \in q..p : Tokens[r] \notin {"package", "procedure", "function"}
Counted == {p \in DOMAIN Tokens : ~InPragma(p) /\ ~InFormalType(p)}
Count(token, before) ==
    Cardinality({p \in Counted : Tokens[p] = token /\ p > 1 /\ (before # {} => Tokens[p - 1] \in before)})

\* A text that is accepted is balanced, whatever was damaged in it: every
\* parenthesis is closed, and every if, case, loop and record has its end,
\* which error recovery and the speculative parse could both lose.
AcceptedIsBalanced ==
    (Finished /\ reports = {}) =>
        /\ Count("(", {}) = Count(")", {})
        /\ \A word \in {"if", "case", "loop"} : Count(word, {}) = 2 * Count(word, {"end"})
        /\ Count("record", {}) - Count("record", {"null"}) = 2 * Count("record", {"end"})

\* The reference for expressions: an operator of the lowest precedence, the
\* rightmost of them, is applied last.
Level(e, i) ==
    LET unary == i = 1 \/ e[i - 1] \notin Ids \cup {"int", "real", "char"} IN
    CASE e[i] \in {"and", "or", "xor"} -> 1
      [] e[i] \in Relational -> 2
      [] e[i] \in {"+", "-", "&"} -> IF unary THEN 4 ELSE 3
      [] e[i] \in {"*", "/", "mod", "rem"} -> 5
      [] e[i] \in {"not", "abs"} -> 6
      [] e[i] = "**" -> 7
      [] OTHER -> 8
Postfix(e) ==
    LET tied(a, b) == {i \in a..b : \A j \in a..b : Level(e, i) <= Level(e, j)}
        top(a, b) == CHOOSE i \in tied(a, b) : \A j \in tied(a, b) : j <= i
        read[a \in 1..Len(e), b \in 1..Len(e)] ==
            CASE a = b -> <<e[a]>>
              [] Level(e, a) \in {4, 6} /\ a \in tied(a, b) ->
                    read[a + 1, b] \o <<"1 " \o e[a]>>
              [] OTHER ->
                    read[a, top(a, b) - 1] \o read[top(a, b) + 1, b] \o <<"2 " \o e[top(a, b)]>>
    IN  read[1, Len(e)]

\* An assignment that is accepted gets the tree Ada's precedence rules give its
\* expression: the operators are built in the order of the reference.
TreeIsAdas ==
    (Finished /\ source.start = "Statements" /\ reports = {}) =>
        tree = <<Head(Tokens)>> \o Postfix(SubSeq(Tokens, 3, Len(Tokens) - 2))

\* Every text is parsed to its end, however damaged it is.
ParserFinishes == <>Finished
=============================================================================

------------------------- MODULE EmittedCodeProofs -------------------------
(***************************************************************************)
(* What holds of the code emitted for subprograms and statements: for every*)
(* tree of subprograms, every slot a loop parameter may have and every     *)
(* call: links lead to the right activation, a loop visits its range, and  *)
(* parameters are copied back in order.  And of what it calls: at every    *)
(* width of its integers each answer of the arithmetic is exact or an      *)
(* error, and 'Value reads from every image the value it was made of.      *)
(***************************************************************************)
EXTENDS StaticLinks, ForLoop, ParameterPassing, Arithmetic, ScalarText, FoldProofs, TLAPS

-----------------------------------------------------------------------------
(* Static links.  The property is not inductive: a walk that starts now    *)
(* follows links that were stored by earlier calls.  The strengthening     *)
(* says of every activation that nothing it is nested in was activated     *)
(* between the one its link leads to and itself.                           *)

Activations == [sub : Subprograms, link : Nat]
Walks == [goal : Subprograms \cup {None}, callee : Subprograms \cup {None}, at : Nat, loads : Nat]

\* What a subprogram can reach: itself and what it is nested in.
Scope(s) == Enclosing[s] \cup {s}

LinkTypeOK == stack \in Seq(Activations) /\ walk \in Walks

\* The link of a nested subprogram is an activation of its owner, below it, and
\* no subprogram around it has been activated in between.
Linked(i) ==
    Owner[stack[i].sub] # None =>
        /\ stack[i].link \in 1..(i - 1)
        /\ stack[stack[i].link].sub = Owner[stack[i].sub]
        /\ \A j \in (stack[i].link + 1)..(i - 1) : stack[j].sub \notin Enclosing[stack[i].sub]

LinksInv == \A i \in DOMAIN stack : Linked(i)

\* A walk has its goal ahead, as many levels out as it has loads left, and has
\* passed no activation of a subprogram it can still come to.
WalkInv ==
    walk.goal # None =>
        /\ walk.at \in 1..Top
        /\ NeedsFrame(stack[walk.at].sub)
        /\ walk.goal \in Scope(stack[walk.at].sub)
        /\ walk.loads = Level[stack[walk.at].sub] - Level[walk.goal]
        /\ \A j \in (walk.at + 1)..Top : stack[j].sub \notin Scope(stack[walk.at].sub)
        /\ walk.callee # None => Owner[walk.callee] = walk.goal

LinkInv == LinkTypeOK /\ LinksInv /\ WalkInv

-----------------------------------------------------------------------------

\* What the tree of subprograms gives for one of them that is nested.
LEMMA Nesting ==
    ASSUME NEW s \in Subprograms, Owner[s] # None
    PROVE  /\ Owner[s] \in Subprograms
           /\ Level[s] = Level[Owner[s]] + 1
           /\ Enclosing[s] = Scope(Owner[s])
           /\ NeedsFrame(Owner[s])
BY NestingAssumption DEF Scope, NeedsFrame

\* Levels grow inwards, and what encloses an enclosing subprogram encloses.
LEMMA Levels ==
    ASSUME NEW s \in Subprograms
    PROVE  /\ Level[s] \in Nat
           /\ Enclosing[s] \subseteq Subprograms
           /\ \A u \in Enclosing[s] : Level[u] < Level[s] /\ Level[u] \in Nat /\ Enclosing[u] \subseteq Enclosing[s]
           /\ Owner[s] = None => Enclosing[s] = {}
BY NestingAssumption

\* What the activations of a stack are.
LEMMA Stacked ==
    ASSUME stack \in Seq(Activations)
    PROVE  /\ Top \in Nat /\ DOMAIN stack = 1..Top /\ (stack # <<>> => Top > 0)
           /\ \A i \in 1..Top : stack[i].sub \in Subprograms /\ stack[i].link \in Nat
<1>1. Top \in Nat /\ DOMAIN stack = 1..Top /\ (stack # <<>> => Top > 0)
  BY DEF Top
<1>2. \A i \in 1..Top : stack[i] \in Activations
  BY DEF Top
<1> QED
  BY <1>1, <1>2 DEF Activations

\* A walk that begins at the running activation, or at its link, is in order.
LEMMA WalkBegins ==
    ASSUME LinkInv, stack # <<>>,
           NEW s \in Scope(Running), NEW callee \in Subprograms \cup {None},
           callee # None => Owner[callee] = s,
           s = Running => callee # None
    PROVE  LET w == StaticLinkFor(s, callee) IN
           /\ w \in Walks
           /\ w.goal = s /\ w.callee = callee
           /\ w.at \in 1..Top
           /\ NeedsFrame(stack[w.at].sub)
           /\ s \in Scope(stack[w.at].sub)
           /\ w.loads = Level[stack[w.at].sub] - Level[s]
           /\ \A j \in (w.at + 1)..Top : stack[j].sub \notin Scope(stack[w.at].sub)
<1>1. Top \in Nat /\ Top > 0 /\ Top \in DOMAIN stack /\ Running \in Subprograms
  BY Stacked DEF LinkInv, LinkTypeOK, Running
<1>2. s \in Subprograms /\ Level[s] \in Nat /\ Level[Running] \in Nat
  BY <1>1, Levels DEF Scope
<1>3. CASE s = Running
  <2>1. NeedsFrame(Running)
    BY <1>3 DEF NeedsFrame
  <2>2. StaticLinkFor(s, callee) = [goal |-> s, callee |-> callee, at |-> Top, loads |-> 0]
    BY <1>3, <2>1 DEF StaticLinkFor
  <2> QED
    BY <1>1, <1>2, <1>3, <2>1, <2>2 DEF Walks, Scope, Running
<1>4. CASE s # Running
  <2> DEFINE link == stack[Top].link
  <2>1. s \in Enclosing[Running] /\ Level[s] < Level[Running] /\ Owner[Running] # None
    BY <1>1, <1>4, Levels DEF Scope
  <2>2. /\ link \in 1..(Top - 1) /\ stack[link].sub = Owner[Running]
        /\ \A j \in (link + 1)..(Top - 1) : stack[j].sub \notin Enclosing[Running]
    BY <1>1, <2>1 DEF LinkInv, LinksInv, Linked, Running
  <2>3. /\ Owner[Running] \in Subprograms /\ Level[Running] = Level[Owner[Running]] + 1
        /\ Enclosing[Running] = Scope(Owner[Running]) /\ NeedsFrame(Owner[Running])
    BY <1>1, <2>1, Nesting
  <2>4. Running \notin Scope(Owner[Running])
    BY <1>1, <2>3, Levels
  <2>5. Level[Owner[Running]] \in Nat /\ Level[s] <= Level[Owner[Running]]
    BY <1>2, <2>1, <2>3, Levels
  <2>6. StaticLinkFor(s, callee)
          = [goal |-> s, callee |-> callee, at |-> link, loads |-> Loads(Level[Running], Level[s])]
    BY <1>2, <2>1 DEF StaticLinkFor
  <2>7. Loads(Level[Running], Level[s]) = Level[Owner[Running]] - Level[s]
    BY <1>2, <2>3, <2>5 DEF Loads
  <2>8. \A j \in (link + 1)..Top : stack[j].sub \notin Scope(Owner[Running])
    BY <1>1, <2>2, <2>3, <2>4 DEF Running
  <2> QED
    BY <1>1, <1>2, <2>1, <2>2, <2>3, <2>5, <2>6, <2>7, <2>8 DEF Walks
<1> QED
  BY <1>3, <1>4

-----------------------------------------------------------------------------
(* Each action keeps the invariant.                                        *)

\* Before the first call there is no activation and no walk.
LEMMA LinkInitInv == LinkInit => LinkInv
BY DEF LinkInit, LinkInv, LinkTypeOK, LinksInv, WalkInv, Idle, Walks

\* A new activation whose link is in order leaves the others as they are.
LEMMA Pushed ==
    ASSUME LinkTypeOK, LinksInv, NEW s \in Subprograms, NEW link \in Nat,
           stack' = Append(stack, [sub |-> s, link |-> link]),
           Owner[s] # None =>
               /\ link \in 1..Top /\ stack[link].sub = Owner[s]
               /\ \A j \in (link + 1)..Top : stack[j].sub \notin Enclosing[s]
    PROVE  stack' \in Seq(Activations) /\ LinksInv'
<1>1. stack \in Seq(Activations) /\ Top \in Nat /\ Len(stack') = Top + 1
  BY DEF LinkTypeOK, Top
<1>2. /\ DOMAIN stack = 1..Top /\ DOMAIN stack' = 1..(Top + 1)
      /\ \A i \in 1..Top : stack'[i] = stack[i]
      /\ stack'[Top + 1] = [sub |-> s, link |-> link]
  BY <1>1 DEF Top
<1>3. stack' \in Seq(Activations)
  BY <1>1 DEF Activations
<1>4. ASSUME NEW i \in 1..Top PROVE Linked(i)'
  BY <1>1, <1>2, <1>4 DEF LinksInv, Linked
<1>5. ASSUME NEW i \in Nat, i = Top + 1 PROVE Linked(i)'
  BY <1>1, <1>2, <1>5 DEF Linked
<1> QED
  BY <1>1, <1>2, <1>3, <1>4, <1>5 DEF LinksInv

\* A call begins its walk to the frame of the declaring subprogram.
LEMMA CallKeeps == ASSUME LinkInv, NEW s \in Subprograms, Call(s) PROVE LinkInv'
<1>1. CASE Owner[s] = None
  <2>1. stack' = Append(stack, [sub |-> s, link |-> 0]) /\ walk' = walk /\ walk.goal = None
    BY <1>1 DEF Call, Idle
  <2>2. stack' \in Seq(Activations) /\ LinksInv'
    BY <1>1, <2>1, Pushed DEF LinkInv
  <2> QED
    BY <2>1, <2>2 DEF LinkInv, LinkTypeOK, WalkInv
<1>2. CASE Owner[s] # None
  <2>1. stack # <<>> /\ Owner[s] \in Scope(Running) /\ walk' = StaticLinkFor(Owner[s], s) /\ stack' = stack
    BY <1>2 DEF Call, Scope
  <2>2. s # None
    BY NestingAssumption
  <2>3. LinksInv'
    BY <2>1 DEF LinkInv, LinksInv, Linked
  <2>4. walk' \in Walks /\ WalkInv'
    BY <2>1, <2>2, WalkBegins DEF WalkInv, Top
  <2> QED
    BY <2>1, <2>3, <2>4 DEF LinkInv, LinkTypeOK
<1> QED
  BY <1>1, <1>2

\* So does a variable of a subprogram around the running one.
LEMMA ReachKeeps == ASSUME LinkInv, NEW s \in Subprograms, Reach(s) PROVE LinkInv'
<1>1. stack # <<>> /\ s \in Scope(Running) /\ walk' = StaticLinkFor(s, None) /\ stack' = stack
  BY DEF Reach, Scope
<1>2. Running \in Subprograms /\ s \in Enclosing[Running]
  BY <1>1, Stacked DEF Reach, LinkInv, LinkTypeOK, Running
<1>3. s # Running
  BY <1>2, Levels
<1>4. LinksInv'
  BY <1>1 DEF LinkInv, LinksInv, Linked
<1>5. walk' \in Walks /\ WalkInv'
  BY <1>1, <1>3, WalkBegins DEF WalkInv, Top
<1> QED
  BY <1>1, <1>4, <1>5 DEF LinkInv, LinkTypeOK

\* A load goes from an activation to that of its owner; the goal is ahead, or no
\* load would be left, and nothing in between is in the owner's scope.
LEMMA LoadKeeps == ASSUME LinkInv, LoadLink PROVE LinkInv'
<1> DEFINE here == walk.at
           sub == stack[here].sub
           next == stack[here].link
<1>1. /\ stack \in Seq(Activations) /\ walk \in Walks /\ Top \in Nat
      /\ DOMAIN stack = 1..Top
  BY DEF LinkInv, LinkTypeOK, Top
<1>2. /\ here \in 1..Top /\ NeedsFrame(sub) /\ walk.goal \in Scope(sub)
      /\ walk.loads = Level[sub] - Level[walk.goal]
      /\ \A j \in (here + 1)..Top : stack[j].sub \notin Scope(sub)
      /\ walk.callee # None => Owner[walk.callee] = walk.goal
      /\ walk.goal # None /\ walk.loads > 0
  BY DEF LinkInv, WalkInv, LoadLink
<1>3. sub \in Subprograms /\ walk.goal \in Subprograms
  BY <1>1, <1>2, Stacked DEF Walks
<1>4. walk.goal \in Enclosing[sub] /\ Owner[sub] # None
  BY <1>2, <1>3, Levels DEF Scope
<1>5. /\ next \in 1..(here - 1) /\ stack[next].sub = Owner[sub]
      /\ \A j \in (next + 1)..(here - 1) : stack[j].sub \notin Enclosing[sub]
  BY <1>1, <1>2, <1>4 DEF LinkInv, LinksInv, Linked
<1>6. /\ Owner[sub] \in Subprograms /\ Level[sub] = Level[Owner[sub]] + 1
      /\ Enclosing[sub] = Scope(Owner[sub]) /\ NeedsFrame(Owner[sub])
  BY <1>3, <1>4, Nesting
<1>7. stack' = stack /\ walk' = [walk EXCEPT !.at = next, !.loads = walk.loads - 1]
  BY <1>1, <1>2 DEF LoadLink, FirstWord
<1>8. /\ walk'.goal = walk.goal /\ walk'.callee = walk.callee
      /\ walk'.at = next /\ walk'.loads = walk.loads - 1 /\ walk' \in Walks
  <2>1. next \in Nat /\ walk.loads - 1 \in Nat
    BY <1>1, <1>2, <1>5 DEF Walks
  <2> QED
    BY <1>1, <1>7, <2>1 DEF Walks
<1>9. \A j \in (next + 1)..Top : stack[j].sub \notin Scope(Owner[sub])
  <2>1. sub \notin Enclosing[sub]
    BY <1>3, Levels
  <2>2. \A j \in (here + 1)..Top : stack[j].sub \notin Enclosing[sub]
    BY <1>2 DEF Scope
  <2>3. ASSUME NEW j \in (next + 1)..Top
        PROVE  stack[j].sub \notin Enclosing[sub]
    <3>1. j \in (next + 1)..(here - 1) \/ j = here \/ j \in (here + 1)..Top
      BY <1>1, <1>2, <1>5
    <3> QED
      BY <1>5, <2>1, <2>2, <3>1
  <2> QED
    BY <1>6, <2>3
<1>10. walk.loads - 1 = Level[Owner[sub]] - Level[walk.goal]
  BY <1>2, <1>3, <1>6, Levels
<1>11. WalkInv'
  <2>1. /\ walk'.at \in 1..Top' /\ stack'[walk'.at].sub = Owner[sub] /\ Top' = Top
        /\ \A j \in (walk'.at + 1)..Top' : stack'[j].sub \notin Scope(Owner[sub])
    <3>1. Top' = Top
      BY <1>7 DEF Top
    <3>2. next \in 1..Top
      BY <1>1, <1>2, <1>5
    <3> QED
      BY <1>5, <1>7, <1>8, <1>9, <3>1, <3>2
  <2>2. walk'.goal \in Scope(Owner[sub]) /\ walk'.loads = Level[Owner[sub]] - Level[walk'.goal]
    BY <1>4, <1>6, <1>8, <1>10
  <2> QED
    BY <1>2, <1>6, <1>8, <2>1, <2>2 DEF WalkInv
<1>12. LinksInv'
  BY <1>7 DEF LinkInv, LinksInv, Linked
<1> QED
  BY <1>1, <1>7, <1>8, <1>11, <1>12 DEF LinkInv, LinkTypeOK

\* With no load left the walk is at its goal.
LEMMA AtGoal ==
    ASSUME LinkInv, walk.goal # None, walk.loads = 0
    PROVE  stack[walk.at].sub = walk.goal
<1>1. /\ walk.at \in DOMAIN stack /\ stack[walk.at].sub \in Subprograms
      /\ walk.goal \in Scope(stack[walk.at].sub)
      /\ 0 = Level[stack[walk.at].sub] - Level[walk.goal]
  BY Stacked DEF LinkInv, LinkTypeOK, WalkInv
<1> QED
  BY <1>1, Levels DEF Scope

\* The walk ends, and a call stores what it found.
LEMMA UseKeeps == ASSUME LinkInv, UseFrame PROVE LinkInv'
<1>1. walk' = Idle /\ walk.goal # None /\ walk.loads = 0 /\ walk \in Walks
  BY DEF UseFrame, LinkInv, LinkTypeOK
<1>2. WalkInv' /\ walk' \in Walks
  BY <1>1 DEF WalkInv, Idle, Walks
<1>3. CASE walk.callee = None
  <2>1. stack' = stack
    BY <1>3 DEF UseFrame
  <2> QED
    BY <1>2, <2>1 DEF LinkInv, LinkTypeOK, LinksInv, Linked
<1>4. CASE walk.callee # None
  <2>1. stack' = Append(stack, [sub |-> walk.callee, link |-> walk.at])
    BY <1>4 DEF UseFrame
  <2>2. walk.callee \in Subprograms /\ walk.at \in Nat /\ walk.at \in 1..Top
    BY <1>1, <1>4 DEF Walks, LinkInv, WalkInv
  <2>3. Owner[walk.callee] = walk.goal /\ stack[walk.at].sub = walk.goal
    BY <1>1, <1>4, AtGoal DEF LinkInv, WalkInv
  <2>4. Enclosing[walk.callee] = Scope(walk.goal)
    BY <1>1, <2>2, <2>3, Nesting
  <2>5. \A j \in (walk.at + 1)..Top : stack[j].sub \notin Enclosing[walk.callee]
    BY <1>1, <2>3, <2>4 DEF LinkInv, WalkInv
  <2>6. stack' \in Seq(Activations) /\ LinksInv'
    BY <2>1, <2>2, <2>3, <2>5, Pushed DEF LinkInv
  <2> QED
    BY <1>2, <2>6 DEF LinkInv, LinkTypeOK
<1> QED
  BY <1>3, <1>4

\* A return takes the newest activation away.
LEMMA LeaveKeeps == ASSUME LinkInv, Leave PROVE LinkInv'
<1>1. /\ stack \in Seq(Activations) /\ Top \in Nat /\ Top > 0
      /\ stack' = SubSeq(stack, 1, Top - 1) /\ walk' = walk /\ walk.goal = None
  BY DEF Leave, LinkInv, LinkTypeOK, Top, Idle
<1>2. stack' \in Seq(Activations) /\ DOMAIN stack' = 1..(Top - 1) /\ \A i \in 1..(Top - 1) : stack'[i] = stack[i]
  BY <1>1 DEF Top
<1>3. ASSUME NEW i \in 1..(Top - 1) PROVE Linked(i)'
  <2>1. Linked(i)
    BY <1>1, <1>3 DEF LinkInv, LinksInv, Top
  <2> QED
    BY <1>1, <1>2, <1>3, <2>1 DEF Linked
<1>4. WalkInv'
  BY <1>1 DEF WalkInv
<1> QED
  BY <1>1, <1>2, <1>3, <1>4 DEF LinkInv, LinkTypeOK, LinksInv

\* Every step keeps the invariant.
LEMMA LinkStep == LinkInv /\ [LinkNext]_linkVars => LinkInv'
<1> SUFFICES ASSUME LinkInv, [LinkNext]_linkVars PROVE LinkInv'
  OBVIOUS
<1>1. CASE \E s \in Subprograms : Call(s)
  BY <1>1, CallKeeps
<1>2. CASE \E s \in Subprograms : Reach(s)
  BY <1>2, ReachKeeps
<1>3. CASE LoadLink
  BY <1>3, LoadKeeps
<1>4. CASE UseFrame
  BY <1>4, UseKeeps
<1>5. CASE Leave
  BY <1>5, LeaveKeeps
<1>6. CASE UNCHANGED linkVars
  BY <1>6 DEF linkVars, LinkInv, LinkTypeOK, LinksInv, Linked, WalkInv, Top
<1> QED
  BY <1>1, <1>2, <1>3, <1>4, <1>5, <1>6 DEF LinkNext

-----------------------------------------------------------------------------

\* The links of all activations, and a walk under way, are in order in every
\* reachable state, whatever the program's subprograms are nested in.
THEOREM LinkInvHolds == LinkSpec => []LinkInv
  BY LinkInitInv, LinkStep, PTL DEF LinkSpec

\* A subprogram that needs the variables of one around it reaches those of its
\* most recent activation (staticLinkFor, addressOf), through live frames only.
THEOREM LinksLeadToTheMostRecent == LinkSpec => []LinkIsMostRecent
<1>1. LinkInv => LinkIsMostRecent
  <2> SUFFICES ASSUME LinkInv, walk.goal # None
               PROVE  /\ walk.at \in DOMAIN stack /\ NeedsFrame(stack[walk.at].sub)
                      /\ walk.loads = 0 =>
                            /\ stack[walk.at].sub = walk.goal
                            /\ \A j \in (walk.at + 1)..Top : stack[j].sub # walk.goal
    BY DEF LinkIsMostRecent
  <2>1. walk.at \in DOMAIN stack /\ NeedsFrame(stack[walk.at].sub)
    BY DEF LinkInv, LinkTypeOK, WalkInv, Top
  <2>2. ASSUME walk.loads = 0
        PROVE  stack[walk.at].sub = walk.goal /\ \A j \in (walk.at + 1)..Top : stack[j].sub # walk.goal
    BY <2>2, AtGoal DEF LinkInv, WalkInv, Scope
  <2> QED
    BY <2>1, <2>2
<1> QED
  BY <1>1, LinkInvHolds, PTL

-----------------------------------------------------------------------------
(* For loops.  The loop's position in the range is not a variable of the   *)
(* emitted code: it is the number of times the body has run, and the slot  *)
(* holds what is left of the value at it, which each label places before   *)
(* or after the body.  Only with bounds that are values of the slot is     *)
(* that value the slot's, and the bound at the end of the range.           *)

Fits == InSlotRange(loop.low) /\ InSlotRange(loop.high)
Bound == IF loop.isReverse THEN loop.low ELSE loop.high
Outside == loop.checked /\ Count > 0 /\ (loop.low < loop.first \/ loop.last < loop.high)

LoopTypeOK ==
    /\ loop \in Loops
    /\ label \in {"enter", "head", "body", "last", "done"}
    /\ slot \in SlotLow..SlotHigh /\ bound \in Int
    /\ visited \in Seq(Int)
    /\ left \in {"none", "exit", "Constraint_Error"}

\* The values so far are what the slot makes of the first of the range.
VisitedInOrder == \A i \in 1..Len(visited) : visited[i] = InSlot(Value(i))

\* A loop under way passed the check, and its bound is the other end.
UnderWay == label \in {"head", "body", "last"} => left = "none" /\ ~Outside /\ bound = Bound

\* Where the slot stands.
SlotInStep ==
    /\ label \in {"head", "body"} => slot = InSlot(Value(Len(visited) + 1))
    /\ label = "last" => slot = InSlot(Value(Len(visited))) /\ visited # <<>>

\* Only a null range comes to the head with nothing left.
WithinRange ==
    Fits => /\ Len(visited) <= Count
            /\ label = "head" => Len(visited) < Count \/ Count = 0
            /\ label = "body" => Len(visited) < Count

HowItEnded ==
    /\ label = "enter" => visited = <<>> /\ left = "none"
    /\ label = "done" =>
           CASE left = "none" -> (Fits => Len(visited) = Count) /\ ~OutOfReach /\ ~Outside
             [] left = "exit" -> visited # <<>> /\ ~Outside
             [] OTHER -> visited = <<>> /\ Outside

LoopInv == LoopTypeOK /\ VisitedInOrder /\ UnderWay /\ SlotInStep /\ WithinRange /\ HowItEnded

\* What the operators of a loop depend on does not change while it runs.
LEMMA SameLoop ==
    ASSUME loop' = loop
    PROVE  /\ Count' = Count /\ Outside' = Outside /\ Fits' = Fits /\ Bound' = Bound
           /\ OutOfReach' = OutOfReach /\ \A i : Value(i)' = Value(i) /\ InSlot(Value(i))' = InSlot(Value(i))
BY DEF Count, Outside, Fits, InSlotRange, Bound, OutOfReach, Value, InSlot

\* A multiple that is smaller than what it is a multiple of is 0.
LEMMA NoMultiple ==
    ASSUME NEW k \in Int, NEW m \in Int, Magnitude(k * m) < Magnitude(m)
    PROVE  k = 0
<1>1. k * m \in Int
    OBVIOUS
<1>2. ASSUME k >= 1  PROVE FALSE
    <2>1. CASE m >= 0
        <3>1. k * m >= m
            BY <1>2, <2>1, Z3
        <3> QED BY <1>1, <2>1, <3>1 DEF Magnitude
    <2>2. CASE m < 0
        <3>1. k * m <= m
            BY <1>2, <2>2, Z3
        <3> QED BY <1>1, <2>2, <3>1 DEF Magnitude
    <2> QED BY <2>1, <2>2
<1>3. ASSUME k <= -1  PROVE FALSE
    <2>1. CASE m >= 0
        <3>1. k * m <= -m
            BY <1>3, <2>1, Z3
        <3> QED BY <1>1, <2>1, <3>1 DEF Magnitude
    <2>2. CASE m < 0
        <3>1. k * m >= -m
            BY <1>3, <2>2, Z3
        <3> QED BY <1>1, <2>2, <3>1 DEF Magnitude
    <2> QED BY <2>1, <2>2
<1> QED BY <1>2, <1>3

\* What is left over a multiple is the remainder.
LEMMA OneRemainder ==
    ASSUME NEW w \in Nat \ {0}, NEW q \in Int, NEW r \in 0..(w - 1)
    PROVE  (w * q + r) % w = r
<1> DEFINE x == w * q + r
           k == x \div w
           t == x % w
<1>1. x \in Int
    OBVIOUS
<1> HIDE DEF x
<1>2. k \in Int /\ t \in Int /\ x = w * k + t /\ 0 <= t /\ t < w
    BY <1>1, Z3
<1> HIDE DEF k, t
<1>3. (q - k) * w = t - r
    BY <1>2, Z3 DEF x
<1>4. q - k \in Int /\ Magnitude((q - k) * w) < Magnitude(w)
    BY <1>2, <1>3 DEF Magnitude
<1>5. q - k = 0
    BY <1>4, NoMultiple
<1>6. t = r
    BY <1>2, <1>3, <1>5
<1> QED BY <1>6 DEF x, t

\* A value of the slot's type is stored as it is, and every other one as such.
LEMMA InSlotKeeps ==
    /\ \A x \in Int : InSlot(x) \in SlotLow..SlotHigh
    /\ \A x \in SlotLow..SlotHigh : InSlot(x) = x
<1>1. ASSUME NEW x \in Int
      PROVE  InSlot(x) \in SlotLow..SlotHigh /\ (x \in SlotLow..SlotHigh => InSlot(x) = x)
    <2> DEFINE w == SlotHigh - SlotLow + 1
               d == x - SlotLow
    <2>1. w \in Int /\ w > 0 /\ d \in Int /\ (x \in SlotLow..SlotHigh => 0 <= d /\ d < w)
        BY SlotAssumption
    <2>2. d % w \in 0..(w - 1) /\ (0 <= d /\ d < w => d % w = d)
        <3> HIDE DEF w, d
        <3> QED BY <2>1, SMT
    <2> QED BY <2>1, <2>2, SlotAssumption DEF InSlot
<1> QED BY <1>1, SlotAssumption

\* One step from what the slot holds is what it makes of one step.
LEMMA InSlotSteps ==
    ASSUME NEW x \in Int, NEW d \in {-1, 1}
    PROVE  InSlot(InSlot(x) + d) = InSlot(x + d)
<1> DEFINE w == SlotHigh - SlotLow + 1
           a == x - SlotLow
           q == a \div w
           r == a % w
<1>1. w \in Nat \ {0} /\ a \in Int
    BY SlotAssumption
<1>2. ASSUME NEW y, NEW z, y - SlotLow = z
      PROVE  InSlot(y) = (z % w) + SlotLow
    BY <1>2, Zenon DEF InSlot
<1>3. InSlot(x) = r + SlotLow
    BY <1>2, Zenon
<1>4. (x + d) - SlotLow = a + d
    BY SlotAssumption
<1> HIDE DEF w, a
<1>5. q \in Int /\ r \in 0..(w - 1) /\ a = w * q + r
    BY <1>1, Z3
<1> HIDE DEF q, r
<1>6. (r + SlotLow + d) - SlotLow = r + d
    BY <1>1, <1>5, SlotAssumption
<1>7. (r + d) % w = (a + d) % w
    <2>1. CASE r + d \in 0..(w - 1)
        <3>1. r + d = w * 0 + (r + d) /\ a + d = w * q + (r + d)
            BY <1>1, <1>5, Z3
        <3>2. (w * 0 + (r + d)) % w = r + d
            BY <1>1, <2>1, OneRemainder
        <3>3. (w * q + (r + d)) % w = r + d
            BY <1>1, <1>5, <2>1, OneRemainder
        <3> QED BY <3>1, <3>2, <3>3, Zenon
    <2>2. CASE r + d = w
        <3>1. r + d = w * 1 + 0 /\ a + d = w * (q + 1) + 0 /\ q + 1 \in Int /\ 0 \in 0..(w - 1)
            BY <1>1, <1>5, <2>2, Z3
        <3>2. (w * 1 + 0) % w = 0
            BY <1>1, <3>1, OneRemainder
        <3>3. (w * (q + 1) + 0) % w = 0
            BY <1>1, <3>1, OneRemainder
        <3> QED BY <3>1, <3>2, <3>3, Zenon
    <2>3. CASE r + d = -1
        <3>1. r + d = w * (-1) + (w - 1) /\ a + d = w * (q - 1) + (w - 1) /\ q - 1 \in Int
              /\ -1 \in Int /\ w - 1 \in 0..(w - 1)
            BY <1>1, <1>5, <2>3, Z3
        <3>2. (w * (-1) + (w - 1)) % w = w - 1
            BY <1>1, <3>1, OneRemainder
        <3>3. (w * (q - 1) + (w - 1)) % w = w - 1
            BY <1>1, <3>1, OneRemainder
        <3> QED BY <3>1, <3>2, <3>3, Zenon
    <2> QED BY <1>1, <1>5, <2>1, <2>2, <2>3
<1>8. InSlot(InSlot(x) + d) = ((r + d) % w) + SlotLow
    BY <1>2, <1>3, <1>6, Zenon
<1>9. InSlot(x + d) = ((a + d) % w) + SlotLow
    BY <1>2, <1>4, Zenon
<1> QED BY <1>7, <1>8, <1>9, Zenon

\* What the assumption says of the loop that runs.
LEMMA TheLoop ==
    ASSUME LoopTypeOK
    PROVE  /\ loop.low \in Int /\ loop.high \in Int /\ loop.first \in Int /\ loop.last \in Int
           /\ loop.isReverse \in BOOLEAN /\ loop.checked \in BOOLEAN
           /\ SlotLow \in Int /\ SlotHigh \in Int /\ SlotLow <= SlotHigh
           /\ Count \in Nat /\ Len(visited) \in Nat
           /\ \A i \in Int : Value(i) \in Int
<1>1. /\ loop.low \in Int /\ loop.high \in Int /\ loop.first \in Int /\ loop.last \in Int
      /\ loop.isReverse \in BOOLEAN /\ loop.checked \in BOOLEAN
    BY LoopAssumption DEF LoopTypeOK
<1>2. Count \in Nat
    BY <1>1 DEF Count
<1>3. \A i \in Int : Value(i) \in Int
    BY <1>1 DEF Value
<1> QED BY <1>1, <1>2, <1>3, SlotAssumption DEF LoopTypeOK

\* The slot holds every value of a range whose bounds it holds.
LEMMA SlotHolds ==
    ASSUME LoopTypeOK, Fits, NEW i \in Int, i = 1 \/ i \in 1..Count
    PROVE  InSlot(Value(i)) = Value(i)
<1>1. /\ loop.low \in SlotLow..SlotHigh /\ loop.high \in SlotLow..SlotHigh
      /\ SlotLow \in Int /\ SlotHigh \in Int
    <2>1. loop.low \in Int /\ loop.high \in Int
        BY TheLoop
    <2>2. SlotLow <= loop.low /\ loop.low <= SlotHigh /\ SlotLow <= loop.high /\ loop.high <= SlotHigh
        BY DEF Fits, InSlotRange
    <2> QED BY <2>1, <2>2, SlotAssumption
<1>2. Value(i) \in SlotLow..SlotHigh
    <2>1. CASE i = 1
        BY <1>1, <2>1 DEF Value
    <2>2. CASE i \in 1..Count
        BY <1>1, <2>2 DEF Value, Count
    <2> QED BY <2>1, <2>2
<1> QED BY <1>2, InSlotKeeps

\* LoopInv holds before a loop runs, and each of its steps keeps it.
LEMMA LoopInitInv == LoopInit => LoopInv
<1> SUFFICES ASSUME LoopInit PROVE LoopInv
    OBVIOUS
<1>1. LoopTypeOK
    BY SlotAssumption DEF LoopInit, LoopTypeOK
<1> QED BY <1>1, TheLoop
    DEF LoopInit, LoopInv, VisitedInOrder, UnderWay, SlotInStep, WithinRange, HowItEnded

\* The bounds are evaluated and the slot is set to the first value.
LEMMA EnterLoopInv == LoopInv /\ EnterLoop => LoopInv'
<1> SUFFICES ASSUME LoopInv, EnterLoop PROVE LoopInv'
    OBVIOUS
<1>a. LoopTypeOK /\ loop' = loop
    BY DEF LoopInv, EnterLoop
<1>b. /\ loop.low \in Int /\ loop.high \in Int /\ loop.first \in Int /\ loop.last \in Int
      /\ loop.isReverse \in BOOLEAN /\ loop.checked \in BOOLEAN
      /\ Count \in Nat /\ Len(visited) \in Nat /\ slot \in SlotLow..SlotHigh /\ slot \in Int
      /\ SlotLow \in Int /\ SlotHigh \in Int
    BY <1>a, TheLoop, SlotAssumption DEF LoopTypeOK
<1>1. RangeCheckFails <=> Outside
    BY <1>b DEF RangeCheckFails, Outside, Count
<1>2. LoopTypeOK'
    BY <1>a, TheLoop, InSlotKeeps DEF LoopTypeOK, EnterLoop
<1>4. visited = <<>> /\ visited' = <<>> /\ left = "none" /\ Len(visited) = 0
    BY DEF EnterLoop, LoopInv, HowItEnded
<1>5. VisitedInOrder'
    BY <1>4 DEF VisitedInOrder
<1>6. Value(1) = IF loop.isReverse THEN loop.high ELSE loop.low
    BY <1>a, TheLoop DEF Value
<1>7. CASE Outside
    <2>1. label' = "done" /\ left' = "Constraint_Error"
        BY <1>1, <1>7 DEF EnterLoop
    <2>2. UnderWay' /\ SlotInStep' /\ HowItEnded'
        BY <1>a, <1>4, <1>7, <2>1, SameLoop DEF UnderWay, SlotInStep, HowItEnded
    <2>3. WithinRange'
        BY <1>a, <1>4, <2>1, SameLoop, TheLoop DEF WithinRange
    <2> QED BY <1>2, <1>5, <2>2, <2>3 DEF LoopInv
<1>8. CASE ~Outside
    <2>1. label' = "head" /\ left' = "none" /\ slot' = InSlot(Value(1)) /\ bound' = Bound
        BY <1>1, <1>4, <1>6, <1>8 DEF EnterLoop, Bound
    <2>2. UnderWay' /\ HowItEnded'
        BY <1>a, <1>8, <2>1, SameLoop DEF UnderWay, HowItEnded
    <2>3. SlotInStep'
        BY <1>a, <1>4, <2>1, SameLoop DEF SlotInStep
    <2>4. WithinRange'
        BY <1>a, <1>4, <2>1, SameLoop, TheLoop DEF WithinRange
    <2> QED BY <1>2, <1>5, <2>2, <2>3, <2>4 DEF LoopInv
<1> QED BY <1>7, <1>8

\* The head lets only ranges with a value pass.
LEMMA TestHeadInv == LoopInv /\ TestHead => LoopInv'
<1> SUFFICES ASSUME LoopInv, TestHead PROVE LoopInv'
    OBVIOUS
<1>a. LoopTypeOK /\ loop' = loop /\ visited' = visited /\ slot' = slot /\ bound' = bound /\ left' = left
    BY DEF LoopInv, TestHead
<1>b. /\ loop.low \in Int /\ loop.high \in Int /\ loop.first \in Int /\ loop.last \in Int
      /\ loop.isReverse \in BOOLEAN /\ loop.checked \in BOOLEAN
      /\ Count \in Nat /\ Len(visited) \in Nat /\ slot \in SlotLow..SlotHigh /\ slot \in Int
      /\ SlotLow \in Int /\ SlotHigh \in Int
    BY <1>a, TheLoop, SlotAssumption DEF LoopTypeOK
<1>1. LoopTypeOK'
    BY DEF LoopInv, LoopTypeOK, TestHead
<1>2. VisitedInOrder'
    BY <1>a, SameLoop DEF LoopInv, VisitedInOrder
<1>3. /\ label' = IF (loop.isReverse /\ slot >= Bound) \/ (~loop.isReverse /\ slot <= Bound) THEN "body" ELSE "done"
      /\ slot = InSlot(Value(Len(visited) + 1)) /\ left = "none" /\ ~Outside /\ bound = Bound
    BY DEF TestHead, LoopInv, UnderWay, SlotInStep
\* With bounds the slot holds the body runs again exactly if a value is left.
<1>4. ASSUME Fits
      PROVE  label' = (IF Len(visited) < Count THEN "body" ELSE "done") /\ Len(visited) <= Count
    <2>1. Len(visited) <= Count /\ (Len(visited) < Count \/ Count = 0)
        BY <1>4 DEF TestHead, LoopInv, WithinRange
    <2>2. Len(visited) + 1 = 1 \/ Len(visited) + 1 \in 1..Count
        BY <1>b, <2>1
    <2>3. slot = Value(Len(visited) + 1)
        BY <1>3, <1>4, <1>a, <1>b, <2>2, SlotHolds
    <2>4. CASE loop.isReverse
        BY <1>3, <1>b, <2>1, <2>3, <2>4 DEF Value, Count, Bound
    <2>5. CASE ~loop.isReverse
        BY <1>3, <1>b, <2>1, <2>3, <2>5 DEF Value, Count, Bound
    <2> QED BY <2>1, <2>4, <2>5
\* No value of a slot is past a bound that no slot holds.
<1>5. label' = "done" => ~OutOfReach
    BY <1>3, <1>a, <1>b DEF OutOfReach, Bound
<1>6. label' \in {"body", "done"}
    BY <1>3
<1>7. UnderWay'
    BY <1>3, <1>a, SameLoop DEF UnderWay
<1>8. SlotInStep'
    BY <1>3, <1>6, <1>a, SameLoop DEF SlotInStep
<1>9. WithinRange'
    BY <1>4, <1>6, <1>a, SameLoop DEF WithinRange
<1>10. HowItEnded'
    <2>1. label' = "done" => (Fits => Len(visited) = Count)
        BY <1>4, <1>b
    <2> QED BY <1>3, <1>5, <1>6, <1>a, <2>1, SameLoop DEF HowItEnded
<1> QED BY <1>1, <1>2, <1>7, <1>8, <1>9, <1>10 DEF LoopInv

\* The body sees the value the position in the range stands for.
LEMMA RunBodyInv == LoopInv /\ RunBody => LoopInv'
<1> SUFFICES ASSUME LoopInv, RunBody PROVE LoopInv'
    OBVIOUS
<1>a. LoopTypeOK /\ loop' = loop /\ slot' = slot /\ bound' = bound /\ left = "none" /\ ~Outside /\ bound = Bound
    BY DEF LoopInv, RunBody, UnderWay
<1>b. /\ loop.low \in Int /\ loop.high \in Int /\ loop.first \in Int /\ loop.last \in Int
      /\ loop.isReverse \in BOOLEAN /\ loop.checked \in BOOLEAN
      /\ Count \in Nat /\ Len(visited) \in Nat /\ slot \in SlotLow..SlotHigh /\ slot \in Int
      /\ SlotLow \in Int /\ SlotHigh \in Int
    BY <1>a, TheLoop, SlotAssumption DEF LoopTypeOK
<1>1. /\ visited' \in Seq(Int) /\ visited' # <<>> /\ Len(visited') = Len(visited) + 1
      /\ \A i \in 1..Len(visited) : visited'[i] = visited[i]
      /\ visited'[Len(visited) + 1] = slot
    BY SlotAssumption DEF RunBody, LoopInv, LoopTypeOK
<1>2. slot = InSlot(Value(Len(visited) + 1)) /\ (Fits => Len(visited) < Count)
    BY DEF RunBody, LoopInv, SlotInStep, WithinRange
<1>3. LoopTypeOK'
    BY <1>1 DEF RunBody, LoopInv, LoopTypeOK
<1>4. VisitedInOrder'
    <2>1. ASSUME NEW i \in 1..Len(visited') PROVE visited'[i] = InSlot(Value(i))
        <3>1. CASE i \in 1..Len(visited)
            BY <1>1, <3>1 DEF LoopInv, VisitedInOrder
        <3>2. CASE i = Len(visited) + 1
            BY <1>1, <1>2, <3>2
        <3> QED BY <1>1, <1>a, <3>1, <3>2, TheLoop
    <2> QED BY <1>a, <2>1, SameLoop DEF VisitedInOrder
<1>5. (label' = "last" /\ left' = "none") \/ (label' = "done" /\ left' = "exit")
    BY <1>a DEF RunBody
<1>6. UnderWay' /\ HowItEnded'
    BY <1>1, <1>5, <1>a, SameLoop DEF UnderWay, HowItEnded
<1>7. SlotInStep'
    BY <1>1, <1>2, <1>5, <1>a, SameLoop DEF SlotInStep
<1>8. WithinRange'
    <2>1. Fits => Len(visited') <= Count
        BY <1>1, <1>2, <1>b
    <2> QED BY <1>5, <1>a, <2>1, SameLoop DEF WithinRange
<1> QED BY <1>3, <1>4, <1>6, <1>7, <1>8 DEF LoopInv

\* With bounds the slot holds the step is taken only in front of a further value.
LEMMA StepLoopInv == LoopInv /\ StepLoop => LoopInv'
<1> SUFFICES ASSUME LoopInv, StepLoop PROVE LoopInv'
    OBVIOUS
<1>a. /\ LoopTypeOK /\ loop' = loop /\ visited' = visited /\ bound' = bound /\ left' = left
      /\ left = "none" /\ ~Outside /\ bound = Bound
    BY DEF LoopInv, StepLoop, UnderWay
<1>b. /\ loop.low \in Int /\ loop.high \in Int /\ loop.first \in Int /\ loop.last \in Int
      /\ loop.isReverse \in BOOLEAN /\ loop.checked \in BOOLEAN
      /\ Count \in Nat /\ Len(visited) \in Nat /\ slot \in SlotLow..SlotHigh /\ slot \in Int
      /\ SlotLow \in Int /\ SlotHigh \in Int
    BY <1>a, TheLoop, SlotAssumption DEF LoopTypeOK
<1>1. slot = InSlot(Value(Len(visited))) /\ Len(visited) \in Nat \ {0} /\ visited # <<>>
    BY DEF LoopInv, LoopTypeOK, SlotInStep, StepLoop
<1>2. VisitedInOrder'
    BY <1>a, SameLoop DEF LoopInv, VisitedInOrder
\* Only the last value of the range is the bound.
<1>3. ASSUME Fits
      PROVE  Len(visited) <= Count /\ (slot = Bound <=> Len(visited) = Count)
    <2>1. Len(visited) <= Count
        BY <1>3 DEF LoopInv, WithinRange
    <2>2. slot = Value(Len(visited))
        BY <1>1, <1>3, <1>a, <1>b, <2>1, SlotHolds
    <2>3. CASE loop.isReverse
        BY <1>1, <1>b, <2>1, <2>2, <2>3 DEF Value, Count, Bound
    <2>4. CASE ~loop.isReverse
        BY <1>1, <1>b, <2>1, <2>2, <2>4 DEF Value, Count, Bound
    <2> QED BY <2>1, <2>3, <2>4
<1>4. CASE LastIteration
    <2>1. LoopTypeOK' /\ label' = "done" /\ slot = Bound
        BY <1>4, <1>a DEF StepLoop, LastIteration, LoopTypeOK
    <2>2. ~OutOfReach
        BY <1>b, <2>1 DEF OutOfReach, Bound
    <2>3. UnderWay' /\ SlotInStep'
        BY <2>1 DEF UnderWay, SlotInStep
    <2>4. WithinRange'
        BY <1>3, <1>a, <2>1, SameLoop DEF WithinRange
    <2>5. HowItEnded'
        BY <1>3, <1>a, <2>1, <2>2, SameLoop DEF HowItEnded
    <2> QED BY <1>2, <2>1, <2>3, <2>4, <2>5 DEF LoopInv
<1>5. CASE ~LastIteration
    <2>1. label' = "head" /\ slot' = InSlot(slot + Step) /\ slot # Bound
        BY <1>5, <1>a DEF StepLoop, LastIteration
    <2>2. Step \in {-1, 1} /\ Value(Len(visited)) + Step = Value(Len(visited) + 1)
        <3>1. CASE loop.isReverse
            BY <1>b, <3>1 DEF Step, Value
        <3>2. CASE ~loop.isReverse
            BY <1>b, <3>2 DEF Step, Value
        <3> QED BY <3>1, <3>2
    <2>3. slot' = InSlot(Value(Len(visited) + 1))
        <3>1. Value(Len(visited)) \in Int
            BY <1>a, <1>b, TheLoop
        <3>2. slot' = InSlot(InSlot(Value(Len(visited))) + Step)
            BY <1>1, <2>1
        <3> QED BY <2>2, <3>1, <3>2, InSlotSteps
    <2>4. slot' \in SlotLow..SlotHigh
        BY <1>1, <1>a, <2>3, InSlotKeeps, TheLoop
    <2>5. LoopTypeOK'
        BY <1>5, <2>1, <2>4 DEF StepLoop, LoopInv, LoopTypeOK
    <2>6. UnderWay' /\ HowItEnded'
        BY <1>a, <2>1, SameLoop DEF UnderWay, HowItEnded
    <2>7. SlotInStep'
        BY <1>a, <2>1, <2>3, SameLoop DEF SlotInStep
    <2>8. WithinRange'
        <3>1. Fits => Len(visited) < Count
            BY <1>1, <1>3, <1>b, <2>1
        <3> QED BY <1>3, <1>a, <2>1, <3>1, SameLoop DEF WithinRange
    <2> QED BY <1>2, <2>5, <2>6, <2>7, <2>8 DEF LoopInv
<1> QED BY <1>4, <1>5

\* The position in the range that each label stands for is kept by every step of
\* the emitted loop, whatever the width of its slot and whatever its bounds.
THEOREM LoopInvHolds == LoopSpec => []LoopInv
<1>1. LoopInv /\ [LoopNext]_loopVars => LoopInv'
    <2> SUFFICES ASSUME LoopInv, [LoopNext]_loopVars PROVE LoopInv'
        OBVIOUS
    <2>1. CASE UNCHANGED loopVars
        BY <2>1, SameLoop
        DEF loopVars, LoopInv, LoopTypeOK, VisitedInOrder, UnderWay, SlotInStep, WithinRange, HowItEnded
    <2> QED BY <2>1, EnterLoopInv, TestHeadInv, RunBodyInv, StepLoopInv DEF LoopNext
<1> QED BY <1>1, LoopInitInv, PTL DEF LoopSpec

\* The body of a for loop whose bounds its slot holds runs once for each value of
\* the range, in order, also where the range ends at the last value of its type,
\* which the slot cannot be stepped past; with other bounds it runs for what is
\* left of the values in the slot, and never ends by itself if the bound is out of
\* reach of the slot (emitStatement).
THEOREM LoopVisitsItsRange == LoopSpec => []LoopVisitsRange
<1>1. LoopInv => LoopVisitsRange
    <2> SUFFICES ASSUME LoopInv PROVE LoopVisitsRange
        OBVIOUS
    <2>1. DOMAIN visited = 1..Len(visited) /\ LoopTypeOK
        BY DEF LoopInv, LoopTypeOK
    <2>2. visited # <<>> => ~Outside
        BY DEF LoopInv, LoopTypeOK, UnderWay, HowItEnded
    <2>3. Fits => Len(visited) <= Count
        BY DEF LoopInv, WithinRange
    <2>4. \A i \in 1..Len(visited) : visited[i] = IF Fits THEN Value(i) ELSE InSlot(Value(i))
        <3>1. ASSUME NEW i \in 1..Len(visited) PROVE visited[i] = IF Fits THEN Value(i) ELSE InSlot(Value(i))
            <4>1. visited[i] = InSlot(Value(i))
                BY DEF LoopInv, VisitedInOrder
            <4>2. Fits => i \in 1..Count /\ i \in Int
                BY <2>1, <2>3, TheLoop
            <4> QED BY <2>1, <4>1, <4>2, SlotHolds
        <3> QED BY <3>1
    <2>5. label = "done" =>
              CASE left = "none" -> (Fits => Len(visited) = Count) /\ ~OutOfReach /\ ~Outside
                [] left = "exit" -> visited # <<>>
                [] left = "Constraint_Error" -> Outside
        BY <2>1 DEF LoopInv, LoopTypeOK, HowItEnded
    <2> QED
        BY <2>1, <2>2, <2>3, <2>4, <2>5 DEF LoopVisitsRange, Fits, Outside
<1> QED BY <1>1, LoopInvHolds, PTL

-----------------------------------------------------------------------------
(* Calls.  That a variable has the last value copied back to it is kept by *)
(* each copy only if the address is the one taken before the call, so the  *)
(* invariant says of every evaluated actual what its address is.           *)

FormalRecords == [mode : {"in", "in_out", "out"}, low : Int, high : Int]
Stores == [Cells -> CellLow..CellHigh]

CallTypeOK ==
    /\ actuals \in Calls
    /\ memory \in Stores /\ before \in Stores /\ after \in Stores
    /\ phase \in {"actuals", "body", "back", "done", "raised"}
    /\ nextFormal \in 1..(Len(Formals) + 1)
    /\ addresses \in Seq(Cells) /\ temporaries \in Seq(Int)
    /\ pending \in BOOLEAN

Target(i) == Designated(actuals[i], before)
Copies(k, cell) == {i \in 1..(k - 1) : CopiedBack(i) /\ Target(i) = cell}
LastCopy(k, cell) ==
    \/ Copies(k, cell) = {} /\ memory[cell] = after[cell]
    \/ \E i \in Copies(k, cell) : (\A j \in Copies(k, cell) : j <= i) /\ memory[cell] = temporaries[i]
Copied(k) == \A cell \in Cells : LastCopy(k, cell)
TooWide(i) == CopiedBack(i) /\ ~Within(temporaries[i], CellLow, CellHigh)

\* The actuals evaluated so far, and what the body may find in their formals.
Evaluated ==
    /\ Len(addresses) = Len(temporaries) /\ Len(temporaries) <= Len(Formals)
    /\ phase = "actuals" => Len(temporaries) = nextFormal - 1
    /\ phase \in {"body", "back", "done"} => Len(temporaries) = Len(Formals)
    /\ \A i \in 1..Len(temporaries) :
           /\ addresses[i] = Target(i)
           /\ Formals[i].mode # "out" => Within(temporaries[i], Formals[i].low, Formals[i].high)

\* What memory holds.
MemoryHolds ==
    /\ phase \in {"actuals", "body", "back", "done"} => ~pending
    /\ phase = "actuals" => memory = before
    /\ phase \in {"back", "done"} =>
           /\ Copied(nextFormal)
           /\ \A i \in 1..(nextFormal - 1) : ~TooWide(i)
    /\ phase = "done" => nextFormal = Len(Formals) + 1
    /\ phase = "raised" =>
           \/ pending /\ memory = after
           \/ ~pending /\ Len(temporaries) < Len(Formals) /\ memory = before
           \/ /\ ~pending /\ Len(temporaries) = Len(Formals)
              /\ nextFormal <= Len(Formals) /\ TooWide(nextFormal)
              /\ Copied(nextFormal)
              /\ \A i \in 1..(nextFormal - 1) : ~TooWide(i)

CallInv == CallTypeOK /\ Evaluated /\ MemoryHolds

-----------------------------------------------------------------------------

\* An actual designates a variable, whatever the store.
LEMMA ActualDesignates ==
    ASSUME NEW i \in 1..Len(Formals), NEW actual, actual \in Calls, NEW store \in Stores
    PROVE  Designated(actual[i], store) \in Cells
<1>1. DOMAIN Formals = 1..Len(Formals)
    BY PassingAssumption
<1>2. actual[i] \in Cells \cup {Indexed}
    BY <1>1, PassingAssumption
<1>3. store[Index] \in CellLow..CellHigh
    BY PassingAssumption DEF Stores
<1> QED BY <1>2, <1>3, PassingAssumption DEF Designated

\* What the assumption says of the formals.
LEMMA TheFormals ==
    /\ Len(Formals) \in Nat /\ DOMAIN Formals = 1..Len(Formals)
    /\ \A i \in 1..Len(Formals) : Formals[i] \in FormalRecords
<1>1. Formals \in Seq(FormalRecords)
    BY PassingAssumption DEF FormalRecords
<1> QED BY <1>1

\* CallInv holds as a call begins, and each of its steps keeps it.
LEMMA CallInitInv == CallInit => CallInv
<1> SUFFICES ASSUME CallInit PROVE CallInv
    OBVIOUS
<1>1. CallTypeOK
    <2>1. /\ actuals \in Calls /\ phase = "actuals" /\ pending \in BOOLEAN
          /\ memory \in Stores /\ before \in Stores /\ after \in Stores
        BY DEF CallInit, Stores
    <2>2. nextFormal \in 1..(Len(Formals) + 1) /\ addresses \in Seq(Cells) /\ temporaries \in Seq(Int)
        BY TheFormals DEF CallInit
    <2> QED BY <2>1, <2>2 DEF CallTypeOK
<1>2. Evaluated /\ MemoryHolds
    BY TheFormals DEF CallInit, Evaluated, MemoryHolds
<1> QED BY <1>1, <1>2 DEF CallInv

\* An address or a copy is taken, one actual after the other.
LEMMA EvaluateActualInv == CallInv /\ EvaluateActual => CallInv'
<1> SUFFICES ASSUME CallInv, EvaluateActual PROVE CallInv'
    OBVIOUS
<1> DEFINE formal == Formals[nextFormal]
           cell == Designated(actuals[nextFormal], memory)
           value == memory[cell]
<1>1. /\ phase = "actuals" /\ nextFormal \in 1..Len(Formals) /\ formal \in FormalRecords
      /\ cell \in Cells /\ value \in CellLow..CellHigh /\ cell = Target(nextFormal)
      /\ memory = before /\ ~pending /\ Len(temporaries) = nextFormal - 1
    BY TheFormals, ActualDesignates
    DEF CallInv, CallTypeOK, Evaluated, MemoryHolds, EvaluateActual, Target, Stores
<1>2. /\ \A i : Target(i)' = Target(i)
      /\ UNCHANGED <<actuals, memory, pending, before, after>>
    BY DEF EvaluateActual, Target
<1>3. CASE phase' = "raised" /\ UNCHANGED <<nextFormal, addresses, temporaries>>
    BY <1>1, <1>2, <1>3, TheFormals DEF CallInv, CallTypeOK, Evaluated, MemoryHolds
<1>4. CASE /\ ~(formal.mode # "out" /\ ~Within(value, formal.low, formal.high))
           /\ nextFormal' = nextFormal + 1 /\ addresses' = Append(addresses, cell)
           /\ \E start \in IF formal.mode = "out" THEN Garbage ELSE {value} :
                  temporaries' = Append(temporaries, start)
           /\ UNCHANGED phase
    <2>1. PICK start \in IF formal.mode = "out" THEN Garbage ELSE {value} :
              temporaries' = Append(temporaries, start)
        BY <1>4
    <2>2. start \in Int /\ (formal.mode # "out" => Within(start, formal.low, formal.high))
        <3>1. CASE formal.mode = "out"
            BY <2>1, <3>1, PassingAssumption
        <3>2. CASE formal.mode # "out"
            <4>1. start = value /\ value \in Int
                BY <1>1, <2>1, <3>2, PassingAssumption
            <4> QED BY <1>4, <3>2, <4>1
        <3> QED BY <3>1, <3>2
    <2>3. CallTypeOK'
        BY <1>1, <1>2, <1>4, <2>1, <2>2, TheFormals DEF CallInv, CallTypeOK
    <2>4. /\ Len(addresses') = Len(temporaries') /\ Len(temporaries') = nextFormal' - 1
          /\ Len(temporaries') <= Len(Formals)
        BY <1>1, <1>4, <2>1, <2>2, TheFormals DEF CallInv, CallTypeOK, Evaluated
    <2>5. ASSUME NEW i \in 1..Len(temporaries')
          PROVE  /\ addresses'[i] = Target(i)
                 /\ Formals[i].mode # "out" => Within(temporaries'[i], Formals[i].low, Formals[i].high)
        <3>1. CASE i = nextFormal
            BY <1>1, <1>4, <2>1, <2>2, <3>1 DEF CallInv, CallTypeOK, Evaluated
        <3>2. CASE i # nextFormal
            <4>1. i \in 1..Len(temporaries) /\ i \in 1..Len(addresses)
                BY <1>1, <1>4, <2>4, <3>2 DEF CallInv, CallTypeOK, Evaluated
            <4>2. addresses'[i] = addresses[i] /\ temporaries'[i] = temporaries[i]
                BY <1>1, <1>4, <2>1, <2>2, <4>1 DEF CallInv, CallTypeOK
            <4> QED BY <4>1, <4>2 DEF CallInv, Evaluated
        <3> QED BY <3>1, <3>2
    <2>6. Evaluated'
        BY <1>1, <1>2, <1>4, <2>4, <2>5 DEF Evaluated
    <2>7. MemoryHolds'
        BY <1>1, <1>2, <1>4 DEF MemoryHolds
    <2> QED BY <2>3, <2>6, <2>7 DEF CallInv
<1> QED BY <1>3, <1>4 DEF EvaluateActual

\* The body begins with what was evaluated.
LEMMA EnterBodyInv == CallInv /\ EnterBody => CallInv'
<1> SUFFICES ASSUME CallInv, EnterBody PROVE CallInv'
    OBVIOUS
<1>1. CallTypeOK'
    BY DEF CallInv, CallTypeOK, EnterBody
<1>2. Evaluated'
    BY TheFormals DEF CallInv, CallTypeOK, Evaluated, EnterBody, Target
<1>3. MemoryHolds'
    BY DEF CallInv, MemoryHolds, EnterBody
<1> QED BY <1>1, <1>2, <1>3 DEF CallInv

\* The body changes a formal.
LEMMA AssignFormalInv ==
    ASSUME NEW i \in DOMAIN Formals, NEW value \in Formals[i].low..Formals[i].high, CallInv, AssignFormal(i, value)
    PROVE  CallInv'
<1>1. /\ i \in 1..Len(Formals) /\ Formals[i].low \in Int /\ Formals[i].high \in Int
      /\ value \in Int /\ Len(temporaries) = Len(Formals) /\ phase = "body" /\ phase' = "body"
    BY TheFormals DEF AssignFormal, CallInv, Evaluated, FormalRecords
<1>2. /\ temporaries' \in Seq(Int) /\ Len(temporaries') = Len(temporaries)
      /\ \A j \in 1..Len(temporaries) : temporaries'[j] = IF j = i THEN value ELSE temporaries[j]
    <2>1. temporaries \in Seq(Int)
        BY DEF CallInv, CallTypeOK
    <2>2. temporaries' = [temporaries EXCEPT ![i] = value]
        BY DEF AssignFormal
    <2> QED BY <1>1, <2>1, <2>2
<1>3. CallTypeOK'
    BY <1>2 DEF AssignFormal, CallInv, CallTypeOK
<1>4. Evaluated'
    BY <1>1, <1>2 DEF AssignFormal, CallInv, Evaluated, Target
<1>5. MemoryHolds'
    BY <1>1 DEF AssignFormal, CallInv, MemoryHolds
<1> QED BY <1>3, <1>4, <1>5 DEF CallInv

\* The body changes a variable it shares with the caller.
LEMMA AssignVariableInv ==
    ASSUME NEW cell \in Cells, NEW value \in CellLow..CellHigh, CallInv, AssignVariable(cell, value)
    PROVE  CallInv'
<1>1. CallTypeOK'
    BY DEF AssignVariable, CallInv, CallTypeOK, Stores
<1>2. Evaluated'
    BY DEF AssignVariable, CallInv, Evaluated, Target
<1>3. MemoryHolds'
    BY DEF AssignVariable, CallInv, MemoryHolds
<1> QED BY <1>1, <1>2, <1>3 DEF CallInv

\* The body returns or raises.
LEMMA LeaveBodyInv == CallInv /\ LeaveBody => CallInv'
<1> SUFFICES ASSUME CallInv, LeaveBody PROVE CallInv'
    OBVIOUS
<1>1. CallTypeOK'
    BY TheFormals DEF LeaveBody, AfterCall, CallInv, CallTypeOK
<1>2. Evaluated'
    BY DEF LeaveBody, AfterCall, CallInv, Evaluated, Target
<1>3. Copied(1)'
    BY DEF LeaveBody, Copied, LastCopy, Copies
<1>4. MemoryHolds'
    BY <1>3 DEF LeaveBody, AfterCall, CallInv, CallTypeOK, MemoryHolds
<1> QED BY <1>1, <1>2, <1>4 DEF CallInv

\* One copy goes back to the address taken before the call.
LEMMA CopyBackInv == CallInv /\ CopyBack => CallInv'
<1> SUFFICES ASSUME CallInv, CopyBack PROVE CallInv'
    OBVIOUS
<1>. PICK k \in 1..Len(Formals) : k = nextFormal
    BY TheFormals DEF CopyBack
<1>1. /\ phase = "back" /\ k = nextFormal /\ k \in Nat /\ Len(temporaries) = Len(Formals) /\ ~pending
      /\ addresses[k] = Target(k) /\ Copied(k) /\ \A i \in 1..(k - 1) : ~TooWide(i)
      /\ temporaries[k] \in Int /\ addresses[k] \in Cells
    BY TheFormals DEF CopyBack, CallInv, CallTypeOK, Evaluated, MemoryHolds
<1>2. /\ \A i : Target(i)' = Target(i) /\ TooWide(i)' = TooWide(i)
      /\ UNCHANGED <<actuals, addresses, temporaries, pending, before, after>>
    BY DEF CopyBack, Target, TooWide
<1>3. Evaluated'
    BY <1>1, <1>2 DEF CopyBack, CallInv, Evaluated
<1>4. CASE TooWide(k)
    <2>1. phase' = "raised" /\ UNCHANGED <<memory, nextFormal>>
        BY <1>4 DEF CopyBack, TooWide
    <2>2. CallTypeOK'
        BY <1>2, <2>1 DEF CallInv, CallTypeOK
    <2>3. Copied(k)'
        BY <1>1, <1>2, <2>1 DEF Copied, LastCopy, Copies
    <2>4. MemoryHolds'
        BY <1>1, <1>2, <1>4, <2>1, <2>3, TheFormals DEF MemoryHolds
    <2> QED BY <1>3, <2>2, <2>4 DEF CallInv
<1>5. CASE ~TooWide(k)
    <2>1. /\ nextFormal' = k + 1 /\ phase' = "back"
          /\ memory' = IF CopiedBack(k) THEN [memory EXCEPT ![Target(k)] = temporaries[k]] ELSE memory
        BY <1>1, <1>5 DEF CopyBack, TooWide, AddressOfActual
    <2>2. memory' \in Stores
        <3>1. CASE CopiedBack(k)
            <4>1. temporaries[k] \in CellLow..CellHigh
                BY <1>1, <1>5, <3>1, PassingAssumption DEF TooWide, Within
            <4> QED BY <2>1, <3>1, <4>1 DEF CallInv, CallTypeOK, Stores
        <3> QED BY <2>1, <3>1 DEF CallInv, CallTypeOK
    <2>3. CallTypeOK'
        BY <1>1, <1>2, <2>1, <2>2, TheFormals DEF CallInv, CallTypeOK
    <2>4. ASSUME NEW cell \in Cells PROVE LastCopy(k + 1, cell)'
        <3>1. Copies(k + 1, cell)' =
                  IF CopiedBack(k) /\ Target(k) = cell THEN Copies(k, cell) \cup {k} ELSE Copies(k, cell)
            <4>1. 1..((k + 1) - 1) = 1..(k - 1) \cup {k}
                BY <1>1
            <4>2. Copies(k + 1, cell)' = {i \in 1..((k + 1) - 1) : CopiedBack(i) /\ Target(i) = cell}
                BY <1>2 DEF Copies, CopiedBack
            <4> QED BY <4>1, <4>2 DEF Copies
        <3>2. CASE CopiedBack(k) /\ Target(k) = cell
            <4>1. memory'[cell] = temporaries'[k]
                BY <1>2, <2>1, <3>2 DEF CallInv, CallTypeOK, Stores
            <4>2. \A j \in Copies(k + 1, cell)' : j <= k
                BY <1>1, <3>1, <3>2 DEF Copies
            <4> QED BY <3>1, <3>2, <4>1, <4>2 DEF LastCopy
        <3>3. CASE ~(CopiedBack(k) /\ Target(k) = cell)
            <4>1. memory'[cell] = memory[cell]
                BY <2>1, <3>3 DEF CallInv, CallTypeOK, Stores
            <4>2. LastCopy(k, cell)
                BY <1>1 DEF Copied
            <4> QED BY <1>2, <3>1, <3>3, <4>1, <4>2 DEF LastCopy
        <3> QED BY <3>2, <3>3
    <2>5. Copied(k + 1)'
        BY <2>4 DEF Copied
    <2>6. \A i \in 1..k : ~TooWide(i)
        BY <1>1, <1>5
    <2>7. \A i \in 1..(nextFormal' - 1) : ~TooWide(i)'
        BY <1>1, <1>2, <2>1, <2>6
    <2>8. Copied(nextFormal)'
        BY <2>1, <2>5
    <2>9. MemoryHolds'
        BY <1>1, <1>2, <2>1, <2>7, <2>8 DEF MemoryHolds
    <2> QED BY <1>3, <2>3, <2>9 DEF CallInv
<1> QED BY <1>4, <1>5

\* All copies are back.
LEMMA FinishCallInv == CallInv /\ FinishCall => CallInv'
<1> SUFFICES ASSUME CallInv, FinishCall PROVE CallInv'
    OBVIOUS
<1>1. CallTypeOK'
    BY DEF CallInv, CallTypeOK, FinishCall
<1>2. Evaluated'
    BY DEF CallInv, Evaluated, FinishCall, Target
<1>3. Copied(nextFormal)' = Copied(nextFormal) /\ \A i : TooWide(i)' = TooWide(i)
    BY DEF FinishCall, Copied, LastCopy, Copies, Target, TooWide
<1>4. nextFormal = Len(Formals) + 1
    BY TheFormals DEF CallInv, CallTypeOK, FinishCall
<1>5. MemoryHolds'
    BY <1>3, <1>4 DEF CallInv, MemoryHolds, FinishCall
<1> QED BY <1>1, <1>2, <1>5 DEF CallInv

\* The addresses taken before a call, the values of its formals and what memory
\* holds belong together in every state of the call.
THEOREM CallInvHolds == CallSpec => []CallInv
<1>1. CallInv /\ [CallNext]_callVars => CallInv'
    <2> SUFFICES ASSUME CallInv, [CallNext]_callVars PROVE CallInv'
        OBVIOUS
    <2>1. CASE UNCHANGED callVars
        BY <2>1 DEF callVars, CallInv, CallTypeOK, Evaluated, MemoryHolds, Copied, LastCopy, Copies, Target, TooWide
    <2> QED BY <2>1, EvaluateActualInv, EnterBodyInv, LeaveBodyInv, CopyBackInv, FinishCallInv,
              AssignFormalInv, AssignVariableInv DEF CallNext
<1> QED BY <1>1, CallInitInv, PTL DEF CallSpec

\* A call changes what its body assigns and, once the body has returned, the
\* variables its actuals named before it, each by the last formal copied there;
\* a call that raises copies nothing back (emitCall).
THEOREM ParametersAreCopiedBack == CallSpec => []CopiedBackInOrder
<1>1. CallInv => CopiedBackInOrder
    <2> SUFFICES ASSUME CallInv PROVE CopiedBackInOrder
        OBVIOUS
    <2>1. DOMAIN temporaries = 1..Len(temporaries) /\ Len(temporaries) \in Nat
        BY DEF CallInv, CallTypeOK
    <2> QED
        BY <2>1, TheFormals
        DEF CallInv, CallTypeOK, Evaluated, MemoryHolds, CopiedBackInOrder, Copied, LastCopy, Copies, Target, TooWide
<1> QED BY <1>1, CallInvHolds, PTL

-----------------------------------------------------------------------------
(* Division. *)

\* What the library's division of numbers computes.
LEMMA DividedNumbers ==
    ASSUME NEW a \in Nat, NEW b \in Nat \ {0}
    PROVE  /\ a \div b \in Nat /\ a % b \in Nat
           /\ a = b * (a \div b) + (a % b) /\ a % b < b
           /\ a \div b <= a
<1>1. a \div b \in Int /\ a % b \in Int /\ a = b * (a \div b) + (a % b) /\ 0 <= a % b /\ a % b < b
    BY Z3
<1> DEFINE q == a \div b
           r == a % b
<1> HIDE DEF q, r
<1>2. q \in Int /\ r \in Int /\ a = b * q + r /\ 0 <= r /\ r < b
    BY <1>1 DEF q, r
<1>3. q >= 0
    <2> SUFFICES ASSUME q <= -1  PROVE FALSE
        BY <1>2
    <2>1. b * q <= -b
        BY <1>2, Z3
    <2> QED BY <1>2, <2>1
<1>4. q <= b * q
    BY <1>2, <1>3, Z3
<1>5. q <= a
    BY <1>2, <1>4
<1> QED BY <1>2, <1>3, <1>5 DEF q, r

\* Every multiple leaves the remainder 0.
LEMMA MultipleLeavesNothing ==
    ASSUME NEW k \in Int, NEW m \in Nat \ {0}
    PROVE  (k * m) % m = 0
<1> DEFINE x == k * m
           q == x \div m
           r == x % m
<1>1. x \in Int
    OBVIOUS
<1> HIDE DEF x
<1>2. q \in Int /\ r \in Int /\ x = m * q + r /\ 0 <= r /\ r < m
    BY <1>1, Z3
<1> HIDE DEF q, r
<1>3. (k - q) * m = r
    BY <1>2, Z3 DEF x
<1>4. k - q \in Int /\ Magnitude((k - q) * m) < Magnitude(m)
    BY <1>2, <1>3 DEF Magnitude
<1>5. k - q = 0
    BY <1>4, NoMultiple
<1>6. r = 0
    BY <1>2, <1>3, <1>5
<1> QED BY <1>6 DEF x, r

\* C's division: the remainder is smaller than the divisor and has the sign of
\* the dividend.
LEMMA DivisionIsC ==
    ASSUME NEW x \in Int, NEW y \in Int \ {0}
    PROVE  /\ Quotient(x, y) \in Int /\ Remainder(x, y) \in Int
           /\ x = y * Quotient(x, y) + Remainder(x, y)
           /\ Magnitude(Remainder(x, y)) < Magnitude(y)
           /\ x >= 0 => Remainder(x, y) >= 0
           /\ x <= 0 => Remainder(x, y) <= 0
           /\ Magnitude(Quotient(x, y)) <= Magnitude(x)
<1> DEFINE a == Magnitude(x)
           b == Magnitude(y)
           q == a \div b
           r == a % b
<1>1. a \in Nat /\ b \in Nat \ {0}
    BY DEF Magnitude
<1> HIDE DEF a, b
<1>2. q \in Nat /\ r \in Nat /\ a = b * q + r /\ r < b /\ q <= a
    BY <1>1, DividedNumbers
<1> HIDE DEF q, r
<1>3. Quotient(x, y) = IF (x < 0) = (y < 0) THEN q ELSE -q
    BY DEF Quotient, a, b, q
<1>4. /\ x < 0 => a = -x
      /\ ~(x < 0) => a = x
      /\ y < 0 => b = -y
      /\ ~(y < 0) => b = y
    BY DEF a, b, Magnitude
<1>5. Quotient(x, y) \in Int /\ Magnitude(Quotient(x, y)) <= a
    BY <1>1, <1>2, <1>3 DEF Magnitude
<1>6. Remainder(x, y) = IF x < 0 THEN -r ELSE r
    <2>1. y * q \in Int /\ y * (-q) = -(y * q) /\ (-y) * q = -(y * q)
        BY <1>2, Z3
    <2>2. Remainder(x, y) = x - y * Quotient(x, y)
        BY DEF Remainder
    <2>3. CASE x < 0 /\ y < 0
        <3>1. -x = (-y) * q + r
            BY <1>2, <1>4, <2>3
        <3> QED BY <1>2, <1>3, <2>1, <2>2, <2>3, <3>1
    <2>4. CASE x < 0 /\ ~(y < 0)
        <3>1. -x = y * q + r
            BY <1>2, <1>4, <2>4
        <3> QED BY <1>2, <1>3, <2>1, <2>2, <2>4, <3>1
    <2>5. CASE ~(x < 0) /\ y < 0
        <3>1. x = (-y) * q + r
            BY <1>2, <1>4, <2>5
        <3> QED BY <1>2, <1>3, <2>1, <2>2, <2>5, <3>1
    <2>6. CASE ~(x < 0) /\ ~(y < 0)
        <3>1. x = y * q + r
            BY <1>2, <1>4, <2>6
        <3> QED BY <1>2, <1>3, <2>1, <2>2, <2>6, <3>1
    <2> QED BY <2>3, <2>4, <2>5, <2>6
<1>7. x = 0 => r = 0
    <2> SUFFICES ASSUME x = 0  PROVE r = 0
        OBVIOUS
    <2>1. a = 0
        BY <1>4
    <2>2. b * q >= 0
        BY <1>1, <1>2, Z3
    <2>3. b * q \in Int
        BY <1>1, <1>2
    <2> QED BY <1>2, <2>1, <2>2, <2>3
<1>8. Remainder(x, y) \in Int /\ Magnitude(Remainder(x, y)) = r
    BY <1>2, <1>6 DEF Magnitude
<1>9. x = y * Quotient(x, y) + Remainder(x, y)
    <2>1. y * Quotient(x, y) \in Int
        BY <1>5
    <2> QED BY <2>1 DEF Remainder
<1> QED BY <1>2, <1>5, <1>6, <1>7, <1>8, <1>9 DEF a, b

-----------------------------------------------------------------------------
(* Powers. *)

\* p is the powers of l.
IsPower(p, l) == p \in [Nat -> Int] /\ p[0] = 1 /\ \A n \in Nat : p[n + 1] = p[n] * l

LEMMA PowerExists ==
    ASSUME NEW l \in Int
    PROVE  \E p : IsPower(p, l)
<1> DEFINE Onward == [n \in Nat |-> [x \in Int |-> x * l]]
<1>1. Onward \in [Nat -> [Int -> Int]] /\ \A n \in Nat : \A x \in Int : Onward[n][x] = x * l
    OBVIOUS
<1> HIDE DEF Onward
<1>2. PICK p \in [Nat -> Int] : \A n \in Nat : p[n] = IF n = 0 THEN 1 ELSE Onward[n][p[n - 1]]
    <2> DEFINE S == Int
    <2>1. Advances(S, 1, Onward)
        BY <1>1 DEF Advances
    <2> HIDE DEF S
    <2>2. \E p \in [Nat -> S] : \A n \in Nat : Follows(p, n, 1, Onward)
        BY <2>1, RecursionExists
    <2> QED BY <2>2 DEF S, Follows
<1>3. p[0] = 1
    BY <1>2
<1>4. ASSUME NEW n \in Nat  PROVE p[n + 1] = p[n] * l
    <2>1. n + 1 \in Nat /\ n + 1 # 0 /\ (n + 1) - 1 = n
        OBVIOUS
    <2>2. p[n + 1] = Onward[n + 1][p[n]]
        BY <1>2, <2>1
    <2> QED BY <1>1, <2>1, <2>2
<1>5. IsPower(p, l)
    BY <1>3, <1>4 DEF IsPower
<1> QED BY <1>5

LEMMA PowersAdd ==
    ASSUME NEW l \in Int, NEW p, IsPower(p, l), NEW a \in Nat, NEW b \in Nat
    PROVE  p[a + b] = p[a] * p[b]
<1> DEFINE G == {k \in 0..b : p[a + k] = p[a] * p[k]}
<1>1. p \in [Nat -> Int] /\ p[0] = 1 /\ \A n \in Nat : p[n + 1] = p[n] * l
    BY DEF IsPower
<1>2. 0 \in G
    <2>1. p[a + 0] = p[a] /\ p[a] * p[0] = p[a]
        BY <1>1
    <2> QED BY <2>1
<1>3. ASSUME NEW k \in 1..b, k - 1 \in G  PROVE k \in G
    <2> DEFINE j == k - 1
    <2>1. j \in Nat /\ k = j + 1 /\ a + j \in Nat /\ a + k = (a + j) + 1
        OBVIOUS
    <2>2. p[a + j] = p[a] * p[j]
        BY <1>3
    <2> HIDE DEF j
    <2>3. p[a + k] = p[a + j] * l /\ p[k] = p[j] * l
        BY <1>1, <2>1
    <2>4. p[a] \in Int /\ p[j] \in Int
        BY <1>1, <2>1
    <2>5. (p[a] * p[j]) * l = p[a] * (p[j] * l)
        BY <2>4, Z3
    <2>6. p[a + k] = p[a] * p[k]
        BY <2>2, <2>3, <2>5
    <2> QED BY <2>6
<1> HIDE DEF G
<1>4. b \in G
    BY <1>2, <1>3, Upwards
<1> QED BY <1>4 DEF G

\* The powers of 0, 1 and -1 are these again, and from the second on the same
\* for all even and for all odd exponents.
LEMMA SmallPowers ==
    ASSUME NEW l \in -1..1, NEW p, IsPower(p, l), NEW n \in Nat
    PROVE  /\ p[n] \in -1..1
           /\ n >= 2 => p[n] = p[2 + (n % 2)]
<1> DEFINE Cyclic(k) == IF k = 0 THEN 1 ELSE IF l = 0 THEN 0 ELSE IF l = 1 \/ k % 2 = 0 THEN 1 ELSE -1
<1>1. p \in [Nat -> Int] /\ p[0] = 1 /\ \A k \in Nat : p[k + 1] = p[k] * l
    BY DEF IsPower
<1>2. l = -1 \/ l = 0 \/ l = 1
    OBVIOUS
<1>3. ASSUME NEW m \in Nat  PROVE p[m] = Cyclic(m)
    <2> DEFINE G == {k \in 0..m : p[k] = Cyclic(k)}
    <2>1. 0 \in G
        BY <1>1
    <2>2. ASSUME NEW k \in 1..m, k - 1 \in G  PROVE k \in G
        <3> DEFINE j == k - 1
        <3>1. j \in Nat /\ k = j + 1 /\ k # 0 /\ p[j] = Cyclic(j)
            BY <2>2
        <3>2. k % 2 = IF j % 2 = 0 THEN 1 ELSE 0
            BY <3>1
        <3> HIDE DEF j
        <3>3. p[k] = Cyclic(j) * l
            <4>1. p[j + 1] = p[j] * l
                BY <1>1, <3>1
            <4> HIDE DEF Cyclic
            <4> QED BY <3>1, <4>1
        <3>4. Cyclic(j) * l = Cyclic(k)
            <4>1. CASE l = 0
                BY <3>1, <4>1
            <4>2. CASE l = 1
                BY <3>1, <4>2
            <4>3. CASE l = -1
                <5>1. CASE j = 0
                    BY <3>1, <3>2, <4>3, <5>1
                <5>2. CASE j # 0 /\ j % 2 = 0
                    BY <3>1, <3>2, <4>3, <5>2
                <5>3. CASE j # 0 /\ j % 2 # 0
                    BY <3>1, <3>2, <4>3, <5>3
                <5> QED BY <5>1, <5>2, <5>3
            <4> QED BY <1>2, <4>1, <4>2, <4>3
        <3> QED BY <3>3, <3>4
    <2> HIDE DEF G
    <2>3. m \in G
        BY <2>1, <2>2, Upwards
    <2> QED BY <2>3 DEF G
<1>4. n >= 2 => Cyclic(n) = Cyclic(2 + (n % 2))
    <2>1. n % 2 \in {0, 1} /\ 2 + (n % 2) \in Nat /\ (2 + (n % 2)) % 2 = n % 2
        OBVIOUS
    <2> QED BY <2>1
<1>5. 2 + (n % 2) \in Nat
    OBVIOUS
<1>6. Cyclic(n) \in -1..1
    OBVIOUS
<1> QED BY <1>3, <1>4, <1>5, <1>6

\* Those of any other number grow.
LEMMA PowersGrow ==
    ASSUME NEW l \in Int, Magnitude(l) >= 2, NEW p, IsPower(p, l), NEW a \in Nat, NEW b \in Nat
    PROVE  Magnitude(p[a]) >= 1 /\ (b > 0 => Magnitude(p[a + b]) >= 2 * Magnitude(p[a]))
<1>1. p \in [Nat -> Int] /\ p[0] = 1 /\ \A n \in Nat : p[n + 1] = p[n] * l
    BY DEF IsPower
<1>2. \A n \in Nat : p[n] \in Int /\ Magnitude(p[n]) \in Nat /\ p[n + 1] \in Int /\ Magnitude(p[n + 1]) \in Nat
    BY <1>1 DEF Magnitude
<1>3. ASSUME NEW n \in Nat  PROVE Magnitude(p[n + 1]) >= 2 * Magnitude(p[n])
    <2> DEFINE x == p[n]
    <2>1. x \in Int /\ x * l \in Int /\ p[n + 1] = x * l
        BY <1>1
    <2> HIDE DEF x
    <2>2. l >= 2 \/ l <= -2
        BY DEF Magnitude
    <2>3. CASE x >= 0
        <3>1. l >= 2 => x * l >= 2 * x
            BY <2>1, <2>3, Z3
        <3>2. l <= -2 => x * l <= -(2 * x)
            BY <2>1, <2>3, Z3
        <3>3. Magnitude(x * l) >= 2 * Magnitude(x)
            BY <2>1, <2>2, <2>3, <3>1, <3>2 DEF Magnitude
        <3> QED BY <2>1, <3>3 DEF x
    <2>4. CASE x < 0
        <3>1. l >= 2 => x * l <= 2 * x
            BY <2>1, <2>4, Z3
        <3>2. l <= -2 => x * l >= -(2 * x)
            BY <2>1, <2>4, Z3
        <3>3. Magnitude(x * l) >= 2 * Magnitude(x)
            BY <2>1, <2>2, <2>4, <3>1, <3>2 DEF Magnitude
        <3> QED BY <2>1, <3>3 DEF x
    <2> QED BY <2>1, <2>3, <2>4
<1>4. Magnitude(p[a]) >= 1
    <2> DEFINE G == {k \in 0..a : Magnitude(p[k]) >= 1}
    <2>1. 0 \in G
        BY <1>1 DEF Magnitude
    <2>2. ASSUME NEW k \in 1..a, k - 1 \in G  PROVE k \in G
        <3> DEFINE j == k - 1
        <3>1. j \in Nat /\ k = j + 1 /\ Magnitude(p[j]) >= 1
            BY <2>2
        <3> HIDE DEF j
        <3>2. Magnitude(p[k]) >= 1
            BY <1>2, <1>3, <3>1
        <3> QED BY <3>2
    <2> HIDE DEF G
    <2>3. a \in G
        BY <2>1, <2>2, Upwards
    <2> QED BY <2>3 DEF G
<1>5. b > 0 => Magnitude(p[a + b]) >= 2 * Magnitude(p[a])
    <2> DEFINE G == {k \in 0..b : k = 0 \/ Magnitude(p[a + k]) >= 2 * Magnitude(p[a])}
    <2>1. 0 \in G
        OBVIOUS
    <2>2. ASSUME NEW k \in 1..b, k - 1 \in G  PROVE k \in G
        <3> DEFINE j == k - 1
        <3>1. j \in Nat /\ a + j \in Nat /\ a + k = (a + j) + 1
            OBVIOUS
        <3>2. j = 0 \/ Magnitude(p[a + j]) >= 2 * Magnitude(p[a])
            BY <2>2
        <3> HIDE DEF j
        <3>3. Magnitude(p[a + k]) >= 2 * Magnitude(p[a + j])
            BY <1>3, <3>1
        <3>4. Magnitude(p[a]) \in Nat /\ Magnitude(p[a + j]) \in Nat /\ Magnitude(p[a + k]) \in Nat
            BY <1>2, <3>1
        <3>5. j = 0 => a + j = a
            OBVIOUS
        <3>6. Magnitude(p[a + k]) >= 2 * Magnitude(p[a])
            <4>1. CASE j = 0
                BY <3>3, <3>5, <4>1
            <4>2. CASE Magnitude(p[a + j]) >= 2 * Magnitude(p[a])
                BY <3>3, <3>4, <4>2
            <4> QED BY <3>2, <4>1, <4>2
        <3> QED BY <3>6
    <2> HIDE DEF G
    <2>3. b \in G
        BY <2>1, <2>2, Upwards
    <2> QED BY <2>3 DEF G
<1> QED BY <1>4, <1>5

\* A power that does not fit is not followed by one that does.
LEMMA OnceTooLarge ==
    ASSUME NEW l \in Int, NEW p, IsPower(p, l), NEW highest \in Nat \ {0},
           NEW a \in Nat, NEW b \in Nat, a <= b, ~FitsIn(p[a], highest)
    PROVE  ~FitsIn(p[b], highest)
<1>1. p[a] \in Int /\ p[b] \in Int
    BY DEF IsPower
<1>2. CASE Magnitude(l) < 2
    <2>1. l \in -1..1
        BY <1>2 DEF Magnitude
    <2>2. p[a] \in -1..1
        BY <2>1, SmallPowers
    <2> QED BY <2>2 DEF FitsIn, Lowest
<1>3. CASE Magnitude(l) >= 2 /\ a < b
    <2> DEFINE c == b - a
    <2>1. c \in Nat /\ c > 0 /\ a + c = b
        BY <1>3
    <2> HIDE DEF c
    <2>2. Magnitude(p[a + c]) >= 2 * Magnitude(p[a])
        BY <1>3, <2>1, PowersGrow
    <2>3. Magnitude(p[a]) >= highest + 1
        BY <1>1 DEF FitsIn, Lowest, Magnitude
    <2>4. Magnitude(p[b]) \in Nat /\ Magnitude(p[a]) \in Nat
        BY <1>1 DEF Magnitude
    <2>5. Magnitude(p[b]) > highest + 1
        BY <2>1, <2>2, <2>3, <2>4
    <2> QED BY <1>1, <2>5 DEF FitsIn, Lowest, Magnitude
<1>4. CASE a = b
    BY <1>4
<1>5. Magnitude(l) \in Nat
    BY DEF Magnitude
<1> QED BY <1>2, <1>3, <1>4, <1>5

\* Bits are counted by halving.
LEMMA BitsAre ==
    /\ BitsOf \in [Nat -> Nat]
    /\ BitsOf[0] = 0
    /\ \A n \in Nat \ {0} : n \div 2 \in Nat /\ n \div 2 < n /\ BitsOf[n] = 1 + BitsOf[n \div 2]
<1> DEFINE S == Nat
           Bottom == [n \in 0..(1 - 1) |-> 0]
           Onward == [n \in Nat |-> [x \in S |-> 1 + x]]
           Down == [n \in Nat |-> n \div 2]
<1>1. \A n \in Nat : n \div 2 \in Nat /\ (n >= 1 => n \div 2 < n)
    OBVIOUS
<1>2. Bottom \in [0..(1 - 1) -> S] /\ Bottom[0] = 0 /\ Onward \in [Nat -> [S -> S]]
    OBVIOUS
<1>3. Down \in [Nat -> Nat] /\ \A n \in Nat : n >= 1 => Down[n] < n
    BY <1>1
<1>4. \A n \in Nat : Down[n] = n \div 2 /\ \A x \in S : Onward[n][x] = 1 + x
    OBVIOUS
<1> HIDE DEF S, Bottom, Onward, Down
<1>5. Descends(S, 1, Bottom, Onward, Down)
    BY <1>2, <1>3 DEF Descends
<1>6. PICK d \in [Nat -> S] : \A n \in Nat : Descent(d, n, 1, Bottom, Onward, Down)
    BY <1>5, DescentExists
<1>7. ASSUME NEW n \in Nat  PROVE d[n] = IF n = 0 THEN 0 ELSE 1 + d[n \div 2]
    <2>1. d[n] = IF n < 1 THEN Bottom[n] ELSE Onward[n][d[Down[n]]]
        BY <1>6 DEF Descent
    <2>2. d[n \div 2] \in S /\ Down[n] = n \div 2 /\ (n < 1 <=> n = 0)
        BY <1>1, <1>4
    <2>3. Onward[n][d[n \div 2]] = 1 + d[n \div 2]
        BY <1>4, <2>2
    <2> QED BY <1>2, <2>1, <2>2, <2>3
<1>8. d = [n \in Nat |-> IF n = 0 THEN 0 ELSE 1 + d[n \div 2]]
    BY <1>7
<1> DEFINE bits == CHOOSE f : f = [n \in Nat |-> IF n = 0 THEN 0 ELSE 1 + f[n \div 2]]
<1>9. BitsOf = bits
    BY DEF BitsOf
<1>10. bits = [n \in Nat |-> IF n = 0 THEN 0 ELSE 1 + bits[n \div 2]]
    BY <1>8
<1> HIDE DEF bits
<1> DEFINE bad == {n \in Nat : bits[n] \notin Nat}
<1>11. bad = {}
    <2> SUFFICES ASSUME bad # {}  PROVE FALSE
        OBVIOUS
    <2>1. bad \in SUBSET Nat
        OBVIOUS
    <2> HIDE DEF bad
    <2>2. PICK n \in bad : \A other \in bad : n <= other
        BY <2>1, LeastNumber
    <2>3. n \in Nat /\ bits[n] \notin Nat
        BY DEF bad
    <2>4. bits[n] = IF n = 0 THEN 0 ELSE 1 + bits[n \div 2]
        BY <1>10, <2>3
    <2>5. n # 0 /\ n \div 2 \in Nat /\ n \div 2 < n
        BY <1>1, <2>3, <2>4
    <2>6. n \div 2 \notin bad
        BY <2>2, <2>3, <2>5
    <2>7. bits[n \div 2] \in Nat
        BY <2>5, <2>6 DEF bad
    <2> QED BY <2>3, <2>4, <2>5, <2>7
<1>12. \A n \in Nat : bits[n] \in Nat
    BY <1>11
<1>13. bits \in [Nat -> Nat] /\ bits[0] = 0
    BY <1>10, <1>12
<1>14. \A n \in Nat \ {0} : n \div 2 \in Nat /\ n \div 2 < n /\ bits[n] = 1 + bits[n \div 2]
    BY <1>1, <1>10
<1> QED BY <1>9, <1>13, <1>14

\* As many factors as a number has bits exceed it.
LEMMA BitsExceed ==
    ASSUME NEW l \in Int, Magnitude(l) >= 2, NEW p, IsPower(p, l), NEW m \in Nat
    PROVE  Magnitude(p[BitsOf[m]]) >= m + 1
<1>1. p \in [Nat -> Int] /\ p[0] = 1
    BY DEF IsPower
<1>2. \A n \in Nat : Magnitude(p[n]) \in Nat
    BY <1>1 DEF Magnitude
<1> DEFINE bad == {n \in Nat : ~(Magnitude(p[BitsOf[n]]) >= n + 1)}
<1>3. bad = {}
    <2> SUFFICES ASSUME bad # {}  PROVE FALSE
        OBVIOUS
    <2>1. bad \in SUBSET Nat
        OBVIOUS
    <2> HIDE DEF bad
    <2>2. PICK n \in bad : \A other \in bad : n <= other
        BY <2>1, LeastNumber
    <2>3. n \in Nat /\ ~(Magnitude(p[BitsOf[n]]) >= n + 1)
        BY DEF bad
    <2>4. n # 0
        BY <1>1, <2>3, BitsAre DEF Magnitude
    <2> DEFINE h == n \div 2
    <2>5. h \in Nat /\ h < n /\ BitsOf[n] = 1 + BitsOf[h] /\ BitsOf[h] \in Nat /\ BitsOf[n] \in Nat
        BY <2>3, <2>4, BitsAre
    <2>6. n <= 2 * h + 1
        BY <2>3
    <2> HIDE DEF h
    <2>7. h \notin bad
        BY <2>2, <2>3, <2>5
    <2>8. Magnitude(p[BitsOf[h]]) >= h + 1
        BY <2>5, <2>7 DEF bad
    <2> DEFINE c == BitsOf[h]
    <2>9. c \in Nat /\ c + 1 = BitsOf[n]
        BY <2>5
    <2>10. Magnitude(p[c + 1]) >= 2 * Magnitude(p[c])
        <3>1. 1 \in Nat /\ 1 > 0
            OBVIOUS
        <3> QED BY <2>9, <3>1, PowersGrow
    <2> QED BY <1>2, <2>3, <2>5, <2>6, <2>8, <2>9, <2>10
<1> QED BY <1>3

\* The reference: the power, or Huge once some power has left long long.
LEMMA ExactPowerIs ==
    ASSUME NEW l \in Int, NEW r \in Nat, NEW p, IsPower(p, l), NEW highest \in {IntLast, LongLast}
    PROVE  /\ FitsIn(p[r], highest) => ExactPower(l, r) = p[r]
           /\ ~FitsIn(p[r], highest) => ~FitsIn(ExactPower(l, r), highest)
<1> DEFINE Next(x) == IF Magnitude(x) >= Huge THEN Huge ELSE x * l
           Onward == [n \in Nat |-> [x \in Int |-> Next(x)]]
<1>1. IntLast \in Nat \ {0} /\ LongLast \in Nat \ {0} /\ IntLast < LongLast /\ highest <= LongLast /\ highest \in Nat \ {0}
    BY WidthAssumption
<1>2. Huge \in Int /\ Huge = 2 * LongLast + 2
    BY <1>1 DEF Huge, SizeMax
<1>3. \A x \in Int : Next(x) \in Int
    BY <1>2
<1>4. \E d : d = [n \in Nat |-> IF n = 0 THEN 1 ELSE Next(d[n - 1])]
    <2> HIDE DEF Next
    <2>1. Onward \in [Nat -> [Int -> Int]] /\ \A n \in Nat : \A x \in Int : Onward[n][x] = Next(x)
        BY <1>3
    <2> HIDE DEF Onward
    <2>2. PICK d \in [Nat -> Int] : \A n \in Nat : d[n] = IF n = 0 THEN 1 ELSE Onward[n][d[n - 1]]
        <3> DEFINE S == Int
        <3>1. Advances(S, 1, Onward)
            BY <2>1 DEF Advances
        <3> HIDE DEF S
        <3>2. \E d \in [Nat -> S] : \A n \in Nat : Follows(d, n, 1, Onward)
            BY <3>1, RecursionExists
        <3> QED BY <3>2 DEF S, Follows
    <2>3. \A n \in Nat : n # 0 => n - 1 \in Nat
        OBVIOUS
    <2>4. \A n \in Nat : d[n] = IF n = 0 THEN 1 ELSE Next(d[n - 1])
        BY <2>1, <2>2, <2>3
    <2>5. d = [n \in Nat |-> IF n = 0 THEN 1 ELSE Next(d[n - 1])]
        BY <2>2, <2>4
    <2> QED BY <2>5
<1> DEFINE e == CHOOSE f : f = [n \in Nat |-> IF n = 0 THEN 1 ELSE Next(f[n - 1])]
<1>5. e = [n \in Nat |-> IF n = 0 THEN 1 ELSE Next(e[n - 1])]
    BY <1>4
<1>ref. ExactPower(l, r) = IF r <= BitsOf[Huge] THEN e[r] ELSE IF Magnitude(l) > 1 THEN Huge ELSE e[2 + (r % 2)]
    BY DEF ExactPower
<1> HIDE DEF e
<1>6. p \in [Nat -> Int] /\ p[0] = 1 /\ \A n \in Nat : p[n + 1] = p[n] * l
    BY DEF IsPower
<1>7. ASSUME NEW m \in Nat
      PROVE  /\ FitsIn(p[m], highest) => e[m] = p[m]
             /\ ~FitsIn(p[m], highest) => ~FitsIn(e[m], highest)
    <2> DEFINE G == {k \in 0..m : e[k] = p[k] \/ (e[k] = Huge /\ \E j \in 0..k : ~FitsIn(p[j], LongLast))}
    <2>1. 0 \in G
        BY <1>5, <1>6
    <2>2. ASSUME NEW k \in 1..m, k - 1 \in G  PROVE k \in G
        <3> DEFINE j == k - 1
        <3>1. j \in Nat /\ k = j + 1 /\ k \in Nat \ {0} /\ p[j] \in Int
            BY <1>6
        <3>2. e[k] = Next(e[j])
            BY <1>5, <3>1
        <3>3. e[j] = p[j] \/ (e[j] = Huge /\ \E i \in 0..j : ~FitsIn(p[i], LongLast))
            BY <2>2
        <3> HIDE DEF j
        <3>4. CASE e[j] = p[j] /\ Magnitude(p[j]) < Huge
            <4>1. e[k] = p[k]
                BY <1>2, <1>6, <3>1, <3>2, <3>4 DEF Magnitude
            <4> QED BY <4>1
        <3>5. CASE e[j] = p[j] /\ Magnitude(p[j]) >= Huge
            <4>1. e[k] = Huge
                BY <3>2, <3>5
            <4>2. ~FitsIn(p[j], LongLast)
                BY <1>1, <1>2, <3>1, <3>5 DEF FitsIn, Lowest, Magnitude
            <4>3. j \in 0..k
                BY <3>1
            <4> QED BY <4>1, <4>2, <4>3
        <3>6. CASE e[j] = Huge /\ \E i \in 0..j : ~FitsIn(p[i], LongLast)
            <4>1. e[k] = Huge
                BY <1>1, <1>2, <3>2, <3>6 DEF Magnitude
            <4>2. 0..j \subseteq 0..k
                BY <3>1
            <4> QED BY <3>6, <4>1, <4>2
        <3>7. Magnitude(p[j]) \in Int
            BY <3>1 DEF Magnitude
        <3>8. Magnitude(p[j]) < Huge \/ Magnitude(p[j]) >= Huge
            BY <1>2, <3>7
        <3> QED BY <3>3, <3>4, <3>5, <3>6, <3>8
    <2> HIDE DEF G
    <2>3. m \in G
        BY <2>1, <2>2, Upwards
    <2>4. p[m] \in Int
        BY <1>6
    <2>5. CASE e[m] = p[m]
        BY <2>5
    <2>6. CASE e[m] = Huge /\ \E j \in 0..m : ~FitsIn(p[j], LongLast)
        <3>1. PICK j \in 0..m : ~FitsIn(p[j], LongLast)
            BY <2>6
        <3>2. ~FitsIn(p[m], LongLast)
            BY <1>1, <3>1, OnceTooLarge
        <3>3. ~FitsIn(p[m], highest)
            BY <1>1, <2>4, <3>2 DEF FitsIn, Lowest
        <3>4. ~FitsIn(Huge, highest)
            BY <1>1, <1>2 DEF FitsIn, Lowest
        <3> QED BY <2>6, <3>3, <3>4
    <2> QED BY <2>3, <2>5, <2>6 DEF G
<1>8. BitsOf[Huge] \in Nat /\ BitsOf[Huge] >= 1 /\ Huge \in Nat \ {0}
    <2>1. Huge \in Nat \ {0}
        BY <1>1, <1>2
    <2>2. BitsOf[Huge] = 1 + BitsOf[Huge \div 2] /\ Huge \div 2 \in Nat
        BY <2>1, BitsAre
    <2>3. BitsOf[Huge] \in Nat /\ BitsOf[Huge \div 2] \in Nat
        BY <2>1, <2>2, BitsAre
    <2> QED BY <2>1, <2>2, <2>3
<1>9. CASE r <= BitsOf[Huge]
    BY <1>ref, <1>7, <1>9
<1>10. CASE r > BitsOf[Huge] /\ Magnitude(l) > 1
    <2>1. Magnitude(l) >= 2
        BY <1>10 DEF Magnitude
    <2>2. Magnitude(p[BitsOf[Huge]]) >= Huge + 1
        BY <1>8, <2>1, BitsExceed
    <2>3. p[BitsOf[Huge]] \in Int
        BY <1>6, <1>8
    <2>4. ~FitsIn(p[BitsOf[Huge]], highest)
        BY <1>1, <1>2, <2>2, <2>3 DEF FitsIn, Lowest, Magnitude
    <2>5. ~FitsIn(p[r], highest)
        BY <1>1, <1>8, <1>10, <2>4, OnceTooLarge
    <2>6. ~FitsIn(Huge, highest)
        BY <1>1, <1>2 DEF FitsIn, Lowest
    <2> QED BY <1>ref, <1>8, <1>10, <2>5, <2>6
<1>11. CASE r > BitsOf[Huge] /\ ~(Magnitude(l) > 1)
    <2>1. l \in -1..1
        BY <1>11 DEF Magnitude
    <2>2. r >= 2 /\ 2 + (r % 2) \in Nat
        BY <1>8, <1>11
    <2>3. p[r] = p[2 + (r % 2)]
        BY <2>1, <2>2, SmallPowers
    <2>4. ExactPower(l, r) = e[2 + (r % 2)]
        BY <1>ref, <1>8, <1>11
    <2>5. /\ FitsIn(p[2 + (r % 2)], highest) => e[2 + (r % 2)] = p[2 + (r % 2)]
          /\ ~FitsIn(p[2 + (r % 2)], highest) => ~FitsIn(e[2 + (r % 2)], highest)
        BY <1>7, <2>2
    <2> QED BY <2>3, <2>4, <2>5
<1> QED BY <1>8, <1>9, <1>10, <1>11

\* What is left of a power when the loop has gone some way: result times
\* square to the rest of the exponent; or some power that is too large.
LoopStates == [square : Int, rest : Nat, result : Int, overflow : BOOLEAN]
OnTheWay(state, p, right, highest) ==
    /\ state \in LoopStates
    /\ ~state.overflow =>
          /\ FitsIn(state.square, highest) /\ FitsIn(state.result, highest)
          /\ \E d \in Nat \ {0}, e \in Nat :
                state.square = p[d] /\ state.result = p[e] /\ e + d * state.rest = right
    /\ state.overflow => \E k \in 0..right : ~FitsIn(p[k], highest)

LEMMA ProductIs ==
    ASSUME NEW x \in Int, NEW y \in Int, NEW highest \in {IntLast, LongLast}
    PROVE  Product(x, y, highest) = IF FitsIn(x * y, highest) THEN Returns(x * y) ELSE Raises
<1>1. IntLast \in Nat /\ LongLast \in Nat /\ highest \in Nat /\ highest <= LongLast
    BY WidthAssumption
<1>2. x * y \in Int
    OBVIOUS
<1>3. FitsIn(x * y, highest) => FitsIn(x * y, LongLast)
    BY <1>1, <1>2 DEF FitsIn, Lowest
<1> QED BY <1>3 DEF Product, Checked

LEMMA Halves ==
    ASSUME NEW n \in Nat
    PROVE  /\ n \div 2 \in Nat /\ n % 2 \in {0, 1} /\ n = 2 * (n \div 2) + (n % 2)
           /\ n # 0 => n \div 2 < n
OBVIOUS

LEMMA RoundKeeps ==
    ASSUME NEW l \in Int, NEW p, IsPower(p, l), NEW right \in Nat, NEW highest \in {IntLast, LongLast},
           NEW state, OnTheWay(state, p, right, highest)
    PROVE  /\ OnTheWay(Round(state, highest), p, right, highest)
           /\ ~Round(state, highest).overflow /\ state.rest # 0 => Round(state, highest).rest = state.rest \div 2
           /\ state.rest = 0 \/ state.overflow => Round(state, highest) = state
<1> DEFINE times == IF state.rest % 2 = 1 THEN Product(state.result, state.square, highest) ELSE Returns(state.result)
           rest == state.rest \div 2
           next == IF StillNeeded(rest) THEN Product(state.square, state.square, highest) ELSE Returns(state.square)
           reached == [square |-> next.value, rest |-> rest, result |-> times.value, overflow |-> times.raised \/ next.raised]
<1>1. Round(state, highest) = IF state.rest = 0 \/ state.overflow THEN state ELSE reached
    BY DEF Round
<1>2. /\ state \in LoopStates /\ state.square \in Int /\ state.rest \in Nat /\ state.result \in Int /\ state.overflow \in BOOLEAN
    BY DEF OnTheWay, LoopStates
<1>3. CASE state.rest = 0 \/ state.overflow
    BY <1>1, <1>3
<1>4. CASE state.rest # 0 /\ ~state.overflow
    <2>1. /\ FitsIn(state.square, highest) /\ FitsIn(state.result, highest)
          /\ \E d \in Nat \ {0}, e \in Nat : state.square = p[d] /\ state.result = p[e] /\ e + d * state.rest = right
        BY <1>4 DEF OnTheWay
    <2>2. PICK d \in Nat \ {0}, e \in Nat : state.square = p[d] /\ state.result = p[e] /\ e + d * state.rest = right
        BY <2>1
    <2>3. rest \in Nat /\ state.rest % 2 \in {0, 1} /\ state.rest = 2 * rest + (state.rest % 2) /\ rest < state.rest
        BY <1>2, <1>4, Halves
    <2> DEFINE bit == state.rest % 2
               D == IF rest # 0 THEN d + d ELSE d
               E == IF bit = 1 THEN e + d ELSE e
    <2>4. D \in Nat \ {0} /\ E \in Nat /\ d * bit \in Nat /\ d * rest \in Nat
        BY <2>2, <2>3
    <2>5. times = IF FitsIn(p[E], highest) THEN Returns(p[E]) ELSE Raises
        <3>1. CASE bit = 1
            <4>1. p[E] = state.result * state.square
                <5>1. p[e + d] = p[e] * p[d]
                    BY PowersAdd
                <5> QED BY <2>2, <3>1, <5>1
            <4>2. times = Product(state.result, state.square, highest)
                BY <3>1
            <4>3. Product(state.result, state.square, highest) =
                      IF FitsIn(state.result * state.square, highest) THEN Returns(state.result * state.square) ELSE Raises
                BY <1>2, ProductIs
            <4> HIDE DEF times, E
            <4> QED BY <4>1, <4>2, <4>3
        <3>2. CASE bit # 1
            BY <2>1, <2>2, <3>2
        <3> QED BY <3>1, <3>2
    <2>6. next = IF FitsIn(p[D], highest) THEN Returns(p[D]) ELSE Raises
        <3>1. CASE rest # 0
            <4>1. p[D] = state.square * state.square
                <5>1. p[d + d] = p[d] * p[d]
                    BY PowersAdd
                <5> QED BY <2>2, <3>1, <5>1
            <4>2. next = Product(state.square, state.square, highest)
                BY <3>1 DEF StillNeeded
            <4>3. Product(state.square, state.square, highest) =
                      IF FitsIn(state.square * state.square, highest) THEN Returns(state.square * state.square) ELSE Raises
                BY <1>2, ProductIs
            <4> HIDE DEF next, D
            <4> QED BY <4>1, <4>2, <4>3
        <3>2. CASE rest = 0
            BY <2>1, <2>2, <3>2 DEF StillNeeded
        <3> QED BY <3>1, <3>2
    <2>7. E + D * rest = right
        <3>1. d * state.rest = 2 * (d * rest) + d * bit
            <4> HIDE DEF rest, bit
            <4>1. state.rest = 2 * rest + bit /\ bit \in Int /\ rest \in Int /\ d \in Int
                BY <2>2, <2>3 DEF bit
            <4> QED BY <4>1, Z3
        <3>2. D * rest = 2 * (d * rest)
            <4>1. CASE rest # 0
                <5>1. D = 2 * d
                    BY <2>2, <4>1
                <5> HIDE DEF D, rest
                <5>2. d \in Int /\ rest \in Int
                    BY <2>2, <2>3
                <5> QED BY <5>1, <5>2, Z3
            <4>2. CASE rest = 0
                <5>1. D * rest = 0 /\ d * rest = 0
                    BY <2>4, <4>2
                <5> QED BY <5>1
            <4> QED BY <4>1, <4>2
        <3>3. E = e + d * bit
            <4>1. CASE bit = 1
                BY <2>2, <4>1
            <4>2. CASE bit = 0
                BY <2>2, <4>2
            <4> QED BY <2>3, <4>1, <4>2
        <3> HIDE DEF D, E, rest, bit
        <3> QED BY <2>2, <2>4, <3>1, <3>2, <3>3
    <2> HIDE DEF D, E, bit, times, next, rest
    <2>8. D * rest \in Nat /\ E <= right /\ (rest # 0 => D <= right)
        <3>1. D * rest \in Nat
            BY <2>3, <2>4
        <3>2. rest # 0 => D <= D * rest
            BY <2>3, <2>4, Z3
        <3> QED BY <2>3, <2>4, <2>7, <3>1, <3>2
    <2>9. p \in [Nat -> Int]
        BY DEF IsPower
    <2>10. times.value \in Int /\ times.raised \in BOOLEAN /\ next.value \in Int /\ next.raised \in BOOLEAN
        BY <2>4, <2>5, <2>6, <2>9 DEF Returns, Raises
    <2>11. reached \in LoopStates
        BY <2>3, <2>10 DEF LoopStates
    <2>12. ASSUME ~reached.overflow
           PROVE  /\ FitsIn(reached.square, highest) /\ FitsIn(reached.result, highest)
                  /\ reached.square = p[D] /\ reached.result = p[E] /\ E + D * reached.rest = right
        BY <2>5, <2>6, <2>7, <2>12 DEF Returns, Raises
    <2>13. ASSUME reached.overflow  PROVE \E k \in 0..right : ~FitsIn(p[k], highest)
        <3>1. CASE times.raised
            <4>1. ~FitsIn(p[E], highest)
                BY <2>5, <3>1 DEF Returns
            <4> QED BY <2>4, <2>8, <4>1
        <3>2. CASE next.raised
            <4>1. ~FitsIn(p[D], highest)
                BY <2>6, <3>2 DEF Returns
            <4>2. rest # 0
                BY <2>1, <2>2, <4>1 DEF D
            <4> QED BY <2>4, <2>8, <4>1, <4>2
        <3> QED BY <2>13, <3>1, <3>2
    <2>14. reached.rest = rest
        OBVIOUS
    <2> HIDE DEF reached
    <2>15. OnTheWay(reached, p, right, highest)
        BY <2>4, <2>11, <2>12, <2>13 DEF OnTheWay
    <2>16. Round(state, highest) = reached
        BY <1>1, <1>4
    <2> QED BY <1>4, <2>3, <2>14, <2>15, <2>16
<1> QED BY <1>2, <1>3, <1>4

\* The loop raises the left operand to the right one, if the power fits.
LEMMA RaisedIs ==
    ASSUME NEW operand \in Int, NEW right \in Nat, NEW highest \in {IntLast, LongLast}, FitsIn(operand, highest),
           NEW p, IsPower(p, operand)
    PROVE  Raised(operand, right, highest) = IF FitsIn(p[right], highest) THEN Returns(p[right]) ELSE Raises
<1> DEFINE start == [square |-> operand, rest |-> right, result |-> 1, overflow |-> FALSE]
           reached == CHOOSE f : f = [n \in Nat |-> IF n = 0 THEN start ELSE Round(f[n - 1], highest)]
           S == {state \in LoopStates : OnTheWay(state, p, right, highest)}
           Onward == [n \in Nat |-> [state \in S |-> Round(state, highest)]]
<1>1. Raised(operand, right, highest) =
          IF right < 0 \/ reached[BitsOf[right]].overflow THEN Raises ELSE Returns(reached[BitsOf[right]].result)
    BY DEF Raised
<1>2. highest \in Nat \ {0}
    BY WidthAssumption
<1>3. p \in [Nat -> Int] /\ p[0] = 1 /\ \A n \in Nat : p[n + 1] = p[n] * operand
    BY DEF IsPower
<1>4. start \in S
    <2>1. start \in LoopStates
        BY DEF LoopStates
    <2>2. FitsIn(1, highest)
        BY <1>2 DEF FitsIn, Lowest
    <2>3. p[1] = operand
        <3>1. 0 \in Nat /\ 0 + 1 = 1
            OBVIOUS
        <3>2. p[0 + 1] = p[0] * operand
            BY <1>3, <3>1
        <3> QED BY <1>3, <3>1, <3>2
    <2>4. 1 \in Nat \ {0} /\ 0 \in Nat /\ 0 + 1 * right = right
        OBVIOUS
    <2>5. /\ FitsIn(start.square, highest) /\ FitsIn(start.result, highest)
          /\ start.square = p[1] /\ start.result = p[0] /\ 0 + 1 * start.rest = right /\ ~start.overflow
        BY <1>3, <2>2, <2>3, <2>4
    <2> HIDE DEF start
    <2>6. OnTheWay(start, p, right, highest)
        BY <2>1, <2>4, <2>5 DEF OnTheWay
    <2> QED BY <2>1, <2>6
<1>5. \A state \in S : Round(state, highest) \in S
    <2> SUFFICES ASSUME NEW state \in LoopStates, OnTheWay(state, p, right, highest)
                 PROVE  Round(state, highest) \in S
        OBVIOUS
    <2>1. OnTheWay(Round(state, highest), p, right, highest)
        BY RoundKeeps
    <2>2. Round(state, highest) \in LoopStates
        BY <2>1 DEF OnTheWay
    <2> QED BY <2>1, <2>2
<1>6. start.rest = right
    OBVIOUS
<1> HIDE DEF S, start
<1>7. reached = [n \in Nat |-> IF n = 0 THEN start ELSE Round(reached[n - 1], highest)]
    <2>1. Onward \in [Nat -> [S -> S]] /\ \A n \in Nat : \A state \in S : Onward[n][state] = Round(state, highest)
        BY <1>5
    <2> HIDE DEF Onward
    <2>20. Advances(S, start, Onward)
        BY <1>4, <2>1 DEF Advances
    <2>21. \E d \in [Nat -> S] : \A n \in Nat : Follows(d, n, start, Onward)
        BY <2>20, RecursionExists
    <2>2. PICK d \in [Nat -> S] : \A n \in Nat : d[n] = IF n = 0 THEN start ELSE Onward[n][d[n - 1]]
        BY <2>21 DEF Follows
    <2>3. \A n \in Nat : n # 0 => n - 1 \in Nat
        OBVIOUS
    <2>4. \A n \in Nat : d[n] = IF n = 0 THEN start ELSE Round(d[n - 1], highest)
        BY <2>1, <2>2, <2>3
    <2>5. d = [n \in Nat |-> IF n = 0 THEN start ELSE Round(d[n - 1], highest)]
        BY <2>4
    <2> QED BY <2>5
<1> HIDE DEF reached
<1> DEFINE rounds == BitsOf[right]
<1>15. rounds \in Nat
    BY BitsAre
<1> HIDE DEF rounds
<1> DEFINE Left(state) == state.overflow \/ state.rest = 0
           G == {n \in 0..rounds : reached[n] \in S /\ (Left(reached[n]) \/ BitsOf[reached[n].rest] + n = rounds)}
<1>8. 0 \in G
    BY <1>4, <1>6, <1>7, <1>15 DEF rounds
<1>9. ASSUME NEW n \in 1..rounds, n - 1 \in G  PROVE n \in G
    <2> DEFINE j == n - 1
    <2>1. j \in Nat /\ n = j + 1 /\ n \in Nat \ {0}
        BY <1>15
    <2>2. reached[j] \in S /\ (Left(reached[j]) \/ BitsOf[reached[j].rest] + j = rounds)
        BY <1>9
    <2>3. reached[n] = Round(reached[j], highest)
        BY <1>7, <2>1
    <2> HIDE DEF j
    <2>4. reached[n] \in S
        BY <1>5, <2>2, <2>3
    <2>5. OnTheWay(reached[j], p, right, highest) /\ reached[j].rest \in Nat /\ reached[n].rest \in Nat
        BY <2>2, <2>4 DEF S, LoopStates
    <2>6. /\ ~reached[n].overflow /\ reached[j].rest # 0 => reached[n].rest = reached[j].rest \div 2
          /\ Left(reached[j]) => reached[n] = reached[j]
        BY <2>3, <2>5, RoundKeeps
    <2>7. Left(reached[n]) \/ BitsOf[reached[n].rest] + n = rounds
        <3>1. CASE Left(reached[j])
            BY <2>6, <3>1
        <3>2. CASE ~Left(reached[j]) /\ ~reached[n].overflow
            <4>1. BitsOf[reached[j].rest] + j = rounds /\ reached[j].rest \in Nat \ {0}
                BY <2>2, <2>5, <3>2
            <4>2. reached[n].rest = reached[j].rest \div 2
                BY <2>6, <3>2
            <4>3. BitsOf[reached[j].rest] = 1 + BitsOf[reached[n].rest] /\ BitsOf[reached[n].rest] \in Nat
                BY <2>5, <4>1, <4>2, BitsAre
            <4> QED BY <1>15, <2>1, <4>1, <4>3
        <3> QED BY <3>1, <3>2
    <2>8. n \in 0..rounds
        BY <1>15
    <2> QED BY <2>4, <2>7, <2>8
<1> HIDE DEF G
<1>10. rounds \in G
    BY <1>8, <1>9, <1>15, Upwards
<1> DEFINE state == reached[rounds]
<1>11. state \in S /\ (Left(state) \/ BitsOf[state.rest] + rounds = rounds)
    BY <1>10 DEF G
<1> HIDE DEF state
<1>12. OnTheWay(state, p, right, highest) /\ state.rest \in Nat /\ state.overflow \in BOOLEAN
    BY <1>11 DEF S, LoopStates
<1>13. CASE state.overflow
    <2>1. PICK k \in 0..right : ~FitsIn(p[k], highest)
        BY <1>12, <1>13 DEF OnTheWay
    <2>2. ~FitsIn(p[right], highest)
        BY <1>2, <2>1, OnceTooLarge
    <2> QED BY <1>1, <1>13, <2>2 DEF state, rounds
<1>14. CASE ~state.overflow
    <2>1. state.rest = 0
        <3> SUFFICES ASSUME state.rest # 0  PROVE FALSE
            OBVIOUS
        <3>1. BitsOf[state.rest] = 1 + BitsOf[state.rest \div 2] /\ state.rest \div 2 \in Nat
            BY <1>12, BitsAre
        <3>2. BitsOf[state.rest] \in Nat /\ BitsOf[state.rest \div 2] \in Nat
            BY <1>12, <3>1, BitsAre
        <3>3. BitsOf[state.rest] + rounds = rounds
            BY <1>11, <1>14
        <3> QED BY <1>15, <3>1, <3>2, <3>3
    <2>2. /\ FitsIn(state.result, highest)
          /\ \E d \in Nat \ {0}, e \in Nat : state.square = p[d] /\ state.result = p[e] /\ e + d * state.rest = right
        BY <1>12, <1>14 DEF OnTheWay
    <2>3. PICK d \in Nat \ {0}, e \in Nat : state.result = p[e] /\ e + d * state.rest = right
        BY <2>2
    <2>4. e = right
        BY <2>1, <2>3
    <2>5. ~(right < 0)
        OBVIOUS
    <2> QED BY <1>1, <1>14, <2>2, <2>3, <2>4, <2>5 DEF state, rounds
<1> QED BY <1>13, <1>14

-----------------------------------------------------------------------------
(* The operations. *)

\* Exactly, of any answer.
ExactAnswer(operation, l, r, highest, a) ==
    IF operation = "**"
    THEN IF r >= 0 /\ FitsIn(ExactPower(l, r), highest) THEN a = Returns(ExactPower(l, r)) ELSE a.raised
    ELSE IF a.raised
    THEN ~\E value \in Lowest(highest)..highest : IsExact(operation, l, r, value)
    ELSE FitsIn(a.value, highest) /\ IsExact(operation, l, r, a.value)

\* Either an error or a value of long long.
Outcomes == {Raises} \cup {Returns(x) : x \in {y \in Int : FitsIn(y, LongLast)}}

LEMMA Widths ==
    ASSUME NEW highest \in {IntLast, LongLast}
    PROVE  /\ highest \in Nat \ {0} /\ LongLast \in Nat /\ IntLast \in Nat /\ highest <= LongLast
           /\ \A x \in Int : FitsIn(x, highest) => FitsIn(x, LongLast)
           /\ \A x \in Int : FitsIn(x, highest) <=> x \in Lowest(highest)..highest
           /\ \A x \in Lowest(highest)..highest : x \in Int
BY WidthAssumption DEF FitsIn, Lowest

\* Sums, differences and products.
LEMMA SumsAreExact ==
    ASSUME NEW operation \in {"+", "-", "*"}, NEW highest \in {IntLast, LongLast}, NEW l \in Int, NEW r \in Int
    PROVE  ExactAnswer(operation, l, r, highest, IntegerOperation(operation, highest, l, r))
<1> DEFINE x == CASE operation = "+" -> l + r [] operation = "-" -> l - r [] operation = "*" -> l * r
           a == IntegerOperation(operation, highest, l, r)
<1>1. x \in Int
    OBVIOUS
<1>2. \A value : IsExact(operation, l, r, value) <=> value = x
    BY DEF IsExact
<1>3. a = LET result == Checked(x, LongLast) IN IF result.raised THEN Raises ELSE Checked(result.value, highest)
    BY DEF IntegerOperation
<1> HIDE DEF x
<1>4. a = IF FitsIn(x, highest) THEN Returns(x) ELSE Raises
    BY <1>1, <1>3, Widths DEF Checked, Raises, Returns
<1> HIDE DEF a
<1>5. operation # "**"
    OBVIOUS
<1>6. CASE FitsIn(x, highest)
    <2>1. ~a.raised /\ a.value = x
        BY <1>4, <1>6 DEF Returns
    <2> QED BY <1>2, <1>5, <1>6, <2>1 DEF ExactAnswer, a
<1>7. CASE ~FitsIn(x, highest)
    <2>1. a.raised
        BY <1>4, <1>7 DEF Raises
    <2>2. \A value \in Lowest(highest)..highest : value # x
        BY <1>1, <1>7, Widths
    <2> QED BY <1>2, <1>5, <2>1, <2>2 DEF ExactAnswer, a
<1> QED BY <1>6, <1>7

\* A quotient is the only one.
LEMMA OneQuotient ==
    ASSUME NEW l \in Int, NEW r \in Int \ {0}, NEW value \in Int, IsExact("/", l, r, value)
    PROVE  value = Quotient(l, r)
<1> DEFINE q == Quotient(l, r)
           remains == l - value * r
           rest == Remainder(l, r)
<1>1. /\ q \in Int /\ rest \in Int /\ l = r * q + rest /\ Magnitude(rest) < Magnitude(r)
      /\ l >= 0 => rest >= 0
      /\ l <= 0 => rest <= 0
    BY DivisionIsC
<1>2. value * r \in Int /\ remains \in Int /\ Magnitude(remains) < Magnitude(r) /\ remains * l >= 0
    BY DEF IsExact
<1> HIDE DEF q, rest
<1>3. (l > 0 => remains >= 0) /\ (l < 0 => remains <= 0)
    <2> HIDE DEF remains
    <2>1. l > 0 /\ remains < 0 => remains * l < 0
        BY <1>2, Z3
    <2>2. l < 0 /\ remains > 0 => remains * l < 0
        BY <1>2, Z3
    <2>3. remains * l \in Int
        BY <1>2
    <2> QED BY <1>2, <2>1, <2>2, <2>3
<1>4. (q - value) * r = remains - rest
    <2>1. value * r = l - remains
        BY <1>2
    <2>2. r * q = l - rest
        <3>1. r * q \in Int
            BY <1>1
        <3> QED BY <1>1, <3>1
    <2>3. (q - value) * r = r * q - value * r
        BY <1>1, Z3
    <2> HIDE DEF remains
    <2> QED BY <1>1, <1>2, <2>1, <2>2, <2>3
<1> HIDE DEF remains
<1>5. CASE l = 0
    <2>1. rest = 0
        BY <1>1, <1>5
    <2>2. q - value \in Int /\ Magnitude((q - value) * r) < Magnitude(r)
        BY <1>1, <1>2, <1>4, <2>1
    <2>3. q - value = 0
        BY <2>2, NoMultiple
    <2> QED BY <1>1, <2>3 DEF q
<1>6. CASE l # 0
    <2>1. Magnitude(remains - rest) < Magnitude(r)
        BY <1>1, <1>2, <1>3, <1>6 DEF Magnitude
    <2>2. q - value \in Int /\ Magnitude((q - value) * r) < Magnitude(r)
        BY <1>1, <1>4, <2>1
    <2>3. q - value = 0
        BY <2>2, NoMultiple
    <2> QED BY <1>1, <2>3 DEF q
<1> QED BY <1>5, <1>6

\* What the library answers to a division that does not overflow.
LEMMA DivideIs ==
    ASSUME NEW operation \in {"/", "rem", "mod"}, NEW l \in Int, NEW r \in Int \ {0}
    PROVE  Divide(operation, l, r) =
               IF l = Lowest(LongLast) /\ r = -1 /\ operation = "/" THEN Raises
               ELSE Returns(CASE operation = "/" -> Quotient(l, r)
                              [] operation = "rem" -> Remainder(l, r)
                              [] operation = "mod" ->
                                   IF Remainder(l, r) # 0 /\ (Remainder(l, r) < 0) # (r < 0)
                                   THEN Remainder(l, r) + r ELSE Remainder(l, r))
<1>1. CASE l = Lowest(LongLast) /\ r = -1
    <2>1. Remainder(l, r) = 0
        <3>1. Remainder(l, r) \in Int /\ Magnitude(Remainder(l, r)) < Magnitude(r)
            BY DivisionIsC
        <3> QED BY <1>1, <3>1 DEF Magnitude
    <2> QED BY <1>1, <2>1 DEF Divide
<1>2. CASE ~(l = Lowest(LongLast) /\ r = -1)
    BY <1>2 DEF Divide
<1> QED BY <1>1, <1>2

LEMMA QuotientsAreExact ==
    ASSUME NEW highest \in {IntLast, LongLast}, NEW l \in Int, NEW r \in Int,
           FitsIn(l, highest), FitsIn(r, highest)
    PROVE  ExactAnswer("/", l, r, highest, IntegerOperation("/", highest, l, r))
<1> DEFINE a == IntegerOperation("/", highest, l, r)
           q == Quotient(l, r)
           result == Divide("/", l, r)
<1>1. a = IF result.raised THEN Raises ELSE Checked(result.value, highest)
    BY DEF IntegerOperation
<1>2. CASE r = 0
    <2>1. a.raised
        BY <1>1, <1>2 DEF Divide, Raises
    <2>2. \A value : ~IsExact("/", l, r, value)
        BY <1>2 DEF IsExact
    <2> QED BY <2>1, <2>2 DEF ExactAnswer
<1>3. CASE r # 0
    <2>1. /\ q \in Int /\ l = r * q + Remainder(l, r) /\ Remainder(l, r) \in Int
          /\ Magnitude(Remainder(l, r)) < Magnitude(r)
          /\ l >= 0 => Remainder(l, r) >= 0
          /\ l <= 0 => Remainder(l, r) <= 0
        BY <1>3, DivisionIsC
    <2>2. IsExact("/", l, r, q)
        <3> DEFINE rest == Remainder(l, r)
        <3>1. q * r \in Int /\ q * r = r * q
            BY <2>1, Z3
        <3> HIDE DEF q, rest
        <3>2. l - q * r = rest
            BY <2>1, <3>1 DEF rest
        <3>3. rest * l >= 0
            <4>1. l >= 0 => rest * l >= 0
                BY <2>1, Z3 DEF rest
            <4>2. l <= 0 => rest * l >= 0
                BY <2>1, Z3 DEF rest
            <4> QED BY <4>1, <4>2
        <3> QED BY <1>3, <2>1, <3>2, <3>3 DEF IsExact, rest
    <2>3. a = IF FitsIn(q, highest) THEN Returns(q) ELSE Raises
        <3>1. result = IF l = Lowest(LongLast) /\ r = -1 THEN Raises ELSE Returns(q)
            BY <1>3, DivideIs
        <3>2. CASE l = Lowest(LongLast) /\ r = -1
            <4>1. Remainder(l, r) = 0
                BY <2>1, <3>2 DEF Magnitude
            <4>2. r * q = -q
                BY <2>1, <3>2
            <4>3. q = -l
                <5>1. q \in Int /\ l = r * q + 0
                    BY <2>1, <4>1
                <5> HIDE DEF q
                <5> QED BY <4>2, <5>1
            <4>4. ~FitsIn(q, highest)
                BY <3>2, <4>3, Widths DEF FitsIn, Lowest
            <4> QED BY <1>1, <3>1, <3>2, <4>4 DEF Raises
        <3>3. CASE ~(l = Lowest(LongLast) /\ r = -1)
            BY <1>1, <3>1, <3>3 DEF Returns, Checked
        <3> QED BY <3>2, <3>3
    <2> HIDE DEF a, q
    <2>4. CASE FitsIn(q, highest)
        <3>1. ~a.raised /\ a.value = q
            BY <2>3, <2>4 DEF Returns
        <3> QED BY <2>2, <2>4, <3>1 DEF ExactAnswer, a
    <2>5. CASE ~FitsIn(q, highest)
        <3>1. a.raised
            BY <2>3, <2>5 DEF Raises
        <3>2. \A value \in Lowest(highest)..highest : ~IsExact("/", l, r, value)
            BY <1>3, <2>1, <2>5, Widths, OneQuotient DEF q
        <3> QED BY <3>1, <3>2 DEF ExactAnswer, a
    <2> QED BY <2>4, <2>5
<1> QED BY <1>2, <1>3

LEMMA RemaindersAreExact ==
    ASSUME NEW operation \in {"rem", "mod"}, NEW highest \in {IntLast, LongLast}, NEW l \in Int, NEW r \in Int,
           FitsIn(r, highest)
    PROVE  ExactAnswer(operation, l, r, highest, IntegerOperation(operation, highest, l, r))
<1> DEFINE a == IntegerOperation(operation, highest, l, r)
           rest == Remainder(l, r)
           result == Divide(operation, l, r)
<1>1. a = IF result.raised THEN Raises ELSE Checked(result.value, highest)
    BY DEF IntegerOperation
<1>2. CASE r = 0
    <2>1. a.raised
        BY <1>1, <1>2 DEF Divide, Raises
    <2>2. \A value : ~IsExact(operation, l, r, value)
        BY <1>2 DEF IsExact
    <2> QED BY <2>1, <2>2 DEF ExactAnswer
<1>3. CASE r # 0
    <2> DEFINE turns == operation = "mod" /\ rest # 0 /\ (rest < 0) # (r < 0)
               q == Quotient(l, r)
               v == IF turns THEN rest + r ELSE rest
               k == IF turns THEN q - 1 ELSE q
               m == Magnitude(r)
    <2>1. /\ q \in Int /\ l = r * q + rest /\ rest \in Int /\ Magnitude(rest) < m
          /\ l >= 0 => rest >= 0
          /\ l <= 0 => rest <= 0
        BY <1>3, DivisionIsC
    <2>2. result = Returns(v)
        BY <1>3, DivideIs
    <2> HIDE DEF result, rest, q
    <2>3. v \in Int /\ k \in Int /\ Magnitude(v) < m /\ m \in Nat \ {0}
        BY <1>3, <2>1 DEF Magnitude
    <2>4. l - v = k * r
        <3>1. r * q \in Int /\ r * q = q * r /\ (q - 1) * r = q * r - r
            BY <2>1, Z3
        <3>2. CASE turns
            <4>1. v = rest + r /\ k = q - 1
                BY <3>2
            <4> HIDE DEF turns, v, k
            <4> QED BY <2>1, <3>1, <4>1
        <3>3. CASE ~turns
            <4>1. v = rest /\ k = q
                BY <3>3
            <4> HIDE DEF turns, v, k
            <4> QED BY <2>1, <3>1, <4>1
        <3> QED BY <3>2, <3>3
    <2>5. operation = "rem" => ((l >= 0 => v >= 0) /\ (l <= 0 => v <= 0))
        BY <2>1
    <2>6. operation = "mod" => ((r >= 0 => v >= 0) /\ (r <= 0 => v <= 0))
        BY <1>3, <2>1 DEF Magnitude
    <2> HIDE DEF turns, v, k
    <2>7. (l - v) % m = 0
        <3>1. CASE r >= 0
            <4>1. k * r = k * m
                BY <3>1 DEF Magnitude
            <4> QED BY <2>3, <2>4, <4>1, MultipleLeavesNothing
        <3>2. CASE r < 0
            <4>1. r = -m /\ m \in Int
                BY <3>2 DEF Magnitude
            <4> HIDE DEF m
            <4>2. k * r = (-k) * m
                BY <2>3, <4>1, Z3
            <4>3. -k \in Int
                BY <2>3
            <4> QED BY <2>3, <2>4, <4>2, <4>3, MultipleLeavesNothing
        <3> QED BY <3>1, <3>2
    <2>8. \A x \in Int : (x >= 0 => v >= 0) /\ (x <= 0 => v <= 0) => v * x >= 0
        <3> TAKE x \in Int
        <3>1. x >= 0 /\ v >= 0 => v * x >= 0
            BY <2>3, Z3
        <3>2. x <= 0 /\ v <= 0 => v * x >= 0
            BY <2>3, Z3
        <3> QED BY <3>1, <3>2
    <2>9. IsExact(operation, l, r, v)
        <3>1. CASE operation = "rem"
            <4>1. v * l >= 0
                BY <2>5, <2>8, <3>1
            <4> QED BY <1>3, <2>3, <2>7, <3>1, <4>1 DEF IsExact
        <3>2. CASE operation = "mod"
            <4>1. v * r >= 0
                BY <2>6, <2>8, <3>2
            <4> QED BY <1>3, <2>3, <2>7, <3>2, <4>1 DEF IsExact
        <3> QED BY <3>1, <3>2
    <2>10. FitsIn(v, highest)
        BY <2>3, Widths DEF Magnitude, FitsIn, Lowest
    <2>11. a = Returns(v)
        BY <1>1, <2>2, <2>10 DEF Returns, Checked
    <2>12. ~a.raised /\ a.value = v
        BY <2>11 DEF Returns
    <2> QED BY <2>9, <2>10, <2>12 DEF ExactAnswer
<1> QED BY <1>2, <1>3

LEMMA PowersAreExact ==
    ASSUME NEW highest \in {IntLast, LongLast}, NEW l \in Int, NEW r \in Int, FitsIn(l, highest)
    PROVE  ExactAnswer("**", l, r, highest, IntegerOperation("**", highest, l, r))
<1> DEFINE a == IntegerOperation("**", highest, l, r)
           result == Raised(l, r, highest)
<1>1. a = IF result.raised THEN Raises ELSE Checked(result.value, highest)
    BY DEF IntegerOperation
<1>2. CASE r < 0
    <2>1. a.raised
        BY <1>1, <1>2 DEF Raised, Raises
    <2> QED BY <1>2, <2>1 DEF ExactAnswer
<1>3. CASE r >= 0
    <2>1. r \in Nat
        BY <1>3
    <2>2. PICK p : IsPower(p, l)
        BY PowerExists
    <2>3. result = IF FitsIn(p[r], highest) THEN Returns(p[r]) ELSE Raises
        BY <2>1, <2>2, RaisedIs
    <2>4. a = IF FitsIn(p[r], highest) THEN Returns(p[r]) ELSE Raises
        BY <1>1, <2>3 DEF Returns, Raises, Checked
    <2>5. /\ FitsIn(p[r], highest) => ExactPower(l, r) = p[r]
          /\ ~FitsIn(p[r], highest) => ~FitsIn(ExactPower(l, r), highest)
        BY <2>1, <2>2, ExactPowerIs
    <2> HIDE DEF a
    <2>6. CASE FitsIn(p[r], highest)
        BY <1>3, <2>4, <2>5, <2>6 DEF ExactAnswer, a
    <2>7. CASE ~FitsIn(p[r], highest)
        <3>1. a.raised
            BY <2>4, <2>7 DEF Raises
        <3> QED BY <2>5, <2>7, <3>1 DEF ExactAnswer, a
    <2> QED BY <2>6, <2>7
<1> QED BY <1>2, <1>3

\* __ada_integer_operation is exact.
LEMMA OperationsAreExact ==
    ASSUME NEW operation \in Operations, NEW highest \in {IntLast, LongLast}, NEW l \in Int, NEW r \in Int,
           FitsIn(l, highest), FitsIn(r, highest)
    PROVE  ExactAnswer(operation, l, r, highest, IntegerOperation(operation, highest, l, r))
<1>1. CASE operation \in {"+", "-", "*"}
    BY <1>1, SumsAreExact
<1>2. CASE operation = "/"
    BY <1>2, QuotientsAreExact
<1>3. CASE operation \in {"rem", "mod"}
    BY <1>3, RemaindersAreExact
<1>4. CASE operation = "**"
    BY <1>4, PowersAreExact
<1> QED BY <1>1, <1>2, <1>3, <1>4 DEF Operations

\* What the compiler folds is what the library would answer at the width of a
\* long long.
LEMMA FoldedIsOperation ==
    ASSUME NEW operation \in Operations, NEW l \in Int, NEW r \in Int, FitsIn(l, LongLast), FitsIn(r, LongLast)
    PROVE  FoldBinary(operation, l, r) = IntegerOperation(operation, LongLast, l, r)
<1> DEFINE a == IntegerOperation(operation, LongLast, l, r)
           result == FoldBinary(operation, l, r)
<1>1. a = IF result.raised THEN Raises ELSE Checked(result.value, LongLast)
    BY DEF IntegerOperation, FoldBinary, Operations
<1>2. result = Raises \/ \E x \in Int : FitsIn(x, LongLast) /\ result = Returns(x)
    <2>1. CASE operation \in {"+", "-", "*"}
        <3>1. \A x \in Int : Checked(x, LongLast) = Raises \/ (FitsIn(x, LongLast) /\ Checked(x, LongLast) = Returns(x))
            BY DEF Checked
        <3>2. l + r \in Int /\ l - r \in Int /\ l * r \in Int
            OBVIOUS
        <3>3. result = CASE operation = "+" -> Checked(l + r, LongLast)
                         [] operation = "-" -> Checked(l - r, LongLast)
                         [] operation = "*" -> Checked(l * r, LongLast)
            BY <2>1 DEF FoldBinary
        <3> HIDE DEF result
        <3> QED BY <2>1, <3>1, <3>2, <3>3
    <2>2. CASE operation \in {"/", "rem", "mod"}
        <3>1. result = Divide(operation, l, r)
            BY <2>2 DEF FoldBinary
        <3>2. CASE r = 0
            BY <3>1, <3>2 DEF Divide
        <3>3. CASE r # 0
            <4> DEFINE q == Quotient(l, r)
                       rest == Remainder(l, r)
            <4>1. /\ q \in Int /\ rest \in Int /\ l = r * q + rest /\ Magnitude(rest) < Magnitude(r)
                  /\ Magnitude(q) <= Magnitude(l)
                BY <3>3, DivisionIsC
            <4>2. result = IF l = Lowest(LongLast) /\ r = -1 /\ operation = "/" THEN Raises
                           ELSE Returns(CASE operation = "/" -> q
                                          [] operation = "rem" -> rest
                                          [] operation = "mod" ->
                                               IF rest # 0 /\ (rest < 0) # (r < 0) THEN rest + r ELSE rest)
                BY <2>2, <3>1, <3>3, DivideIs
            <4> HIDE DEF result, q, rest
            <4>3. LongLast \in Nat
                BY WidthAssumption
            <4>4. FitsIn(rest, LongLast)
                BY <3>3, <4>1, <4>3 DEF Magnitude, FitsIn, Lowest
            <4>5. rest # 0 /\ (rest < 0) # (r < 0) => rest + r \in Int /\ FitsIn(rest + r, LongLast)
                BY <3>3, <4>1, <4>3 DEF Magnitude, FitsIn, Lowest
            <4>6. ~(l = Lowest(LongLast) /\ r = -1) => FitsIn(q, LongLast)
                <5> SUFFICES ASSUME ~(l = Lowest(LongLast) /\ r = -1), ~FitsIn(q, LongLast)  PROVE FALSE
                    OBVIOUS
                <5>1. l = Lowest(LongLast) /\ q = LongLast + 1
                    BY <4>1, <4>3 DEF Magnitude, FitsIn, Lowest
                <5>2. r * q = l - rest /\ r * q \in Int
                    <6>1. r * q \in Int
                        BY <4>1
                    <6> QED BY <4>1, <6>1
                <5>3. r = -1
                    <6>1. r >= 0 => r * q >= 0
                        BY <4>1, <4>3, <5>1, Z3
                    <6>2. r <= -2 => r * q <= -(2 * q)
                        BY <4>1, <4>3, <5>1, Z3
                    <6>3. l - rest < 0
                        <7>1. r >= 0 => rest > l
                            BY <3>3, <4>1, <4>3, <5>1 DEF Magnitude, Lowest, FitsIn
                        <7>2. r < 0 => rest > l
                            BY <3>3, <4>1, <4>3, <5>1 DEF Magnitude, Lowest, FitsIn
                        <7> QED BY <4>1, <7>1, <7>2
                    <6>4. l - rest > -(2 * q)
                        BY <3>3, <4>1, <4>3, <5>1 DEF Magnitude, Lowest, FitsIn
                    <6> QED BY <3>3, <4>1, <4>3, <5>1, <5>2, <6>1, <6>2, <6>3, <6>4
                <5> QED BY <5>1, <5>3
            <4> QED BY <2>2, <4>1, <4>2, <4>4, <4>5, <4>6
        <3> QED BY <3>2, <3>3
    <2>3. CASE operation = "**"
        <3>1. result = Raised(l, r, LongLast)
            BY <2>3 DEF FoldBinary
        <3>2. CASE r < 0
            BY <3>1, <3>2 DEF Raised
        <3>3. CASE r >= 0
            <4>1. r \in Nat
                BY <3>3
            <4>2. PICK p : IsPower(p, l)
                BY PowerExists
            <4>3. result = IF FitsIn(p[r], LongLast) THEN Returns(p[r]) ELSE Raises
                BY <3>1, <4>1, <4>2, RaisedIs
            <4>4. p[r] \in Int
                BY <4>1, <4>2 DEF IsPower
            <4> HIDE DEF result
            <4> QED BY <4>3, <4>4
        <3> QED BY <3>2, <3>3
    <2> QED BY <2>1, <2>2, <2>3 DEF Operations
<1> HIDE DEF a, result
<1>3. CASE result = Raises
    BY <1>1, <1>3 DEF Raises, a, result
<1>4. CASE result # Raises
    <2>1. PICK x \in Int : FitsIn(x, LongLast) /\ result = Returns(x)
        BY <1>2, <1>4
    <2>2. a = Returns(x)
        BY <1>1, <2>1 DEF Returns, Checked
    <2> QED BY <2>1, <2>2 DEF a, result
<1> QED BY <1>3, <1>4

LEMMA UnaryIs ==
    ASSUME NEW unary \in {"+", "-", "abs", "not"}, NEW x \in Int, FitsIn(x, LongLast),
           unary = "not" => x \in {0, 1}
    PROVE  /\ UnaryValue(unary, x) \in Int
           /\ FoldUnary(unary, x) =
                 IF FitsIn(UnaryValue(unary, x), LongLast) THEN Returns(UnaryValue(unary, x)) ELSE Raises
<1>1. LongLast \in Nat \ {0}
    BY WidthAssumption
<1>2. CASE unary = "+"
    BY <1>2 DEF UnaryValue, FoldUnary
<1>3. CASE unary = "-"
    BY <1>3 DEF UnaryValue, FoldUnary, Checked
<1>4. CASE unary = "abs" /\ x >= 0
    <2>1. UnaryValue(unary, x) = x /\ FoldUnary(unary, x) = Returns(x)
        BY <1>4 DEF UnaryValue, FoldUnary
    <2> QED BY <2>1
<1>5. CASE unary = "abs" /\ x < 0
    <2>1. UnaryValue(unary, x) = -x /\ FoldUnary(unary, x) = Checked(-x, LongLast)
        BY <1>5 DEF UnaryValue, FoldUnary
    <2> QED BY <2>1 DEF Checked
<1>6. CASE unary = "not"
    <2>1. x \in {0, 1} /\ UnaryValue(unary, x) = 1 - x /\ FoldUnary(unary, x) = Returns(IF x # 0 THEN 0 ELSE 1)
        BY <1>6 DEF UnaryValue, FoldUnary
    <2>2. 1 - x = (IF x # 0 THEN 0 ELSE 1) /\ 1 - x \in {0, 1}
        BY <2>1
    <2>3. FitsIn(1 - x, LongLast)
        BY <1>1, <2>2 DEF FitsIn, Lowest
    <2> QED BY <2>1, <2>2, <2>3
<1> QED BY <1>2, <1>3, <1>4, <1>5, <1>6

-----------------------------------------------------------------------------
(* Rounding. *)

RoundedTo(quarters, a) ==
    IF a.raised
    THEN \A x \in Lowest(LongLast)..LongLast : Magnitude(quarters - 4 * x) > 2
    ELSE /\ FitsIn(a.value, LongLast)
         /\ Magnitude(quarters - 4 * a.value) <= 2
         /\ Magnitude(quarters - 4 * a.value) = 2 => (quarters - 4 * a.value) * quarters < 0

LEMMA RoundingIsExact ==
    ASSUME NEW quarters \in Int, FitsIn(quarters \div 4, LongLast - 1) \/ quarters % 4 = 0
    PROVE  RoundedTo(quarters, RoundToInteger(quarters))
<1> DEFINE q == Quotient(quarters, 4)
           f == Remainder(quarters, 4)
           a == RoundToInteger(quarters)
           x == IF f >= 2 THEN q + 1 ELSE IF f <= -2 THEN q - 1 ELSE q
           near == quarters >= 4 * Lowest(LongLast) /\ quarters < 4 * (LongLast + 1)
<1>1. LongLast \in Nat
    BY WidthAssumption
<1>2. /\ q \in Int /\ f \in Int /\ quarters = 4 * q + f /\ -4 < f /\ f < 4
      /\ quarters >= 0 => f >= 0
      /\ quarters <= 0 => f <= 0
    <2>1. 4 \in Int \ {0} /\ Magnitude(4) = 4
        BY DEF Magnitude
    <2>2. /\ q \in Int /\ f \in Int /\ quarters = 4 * q + f /\ Magnitude(f) < 4
          /\ quarters >= 0 => f >= 0
          /\ quarters <= 0 => f <= 0
        BY <2>1, DivisionIsC
    <2> HIDE DEF q, f
    <2> QED BY <2>2 DEF Magnitude
<1>3. f = quarters - 4 * q
    BY <1>2
<1>4. a = IF near THEN Returns(x) ELSE Raises
    BY <1>2, <1>3 DEF RoundToInteger
<1> HIDE DEF q, f, a
<1>5. /\ x \in Int /\ Magnitude(quarters - 4 * x) <= 2
      /\ Magnitude(quarters - 4 * x) = 2 => (f = 2 /\ quarters - 4 * x = -2) \/ (f = -2 /\ quarters - 4 * x = 2)
    BY <1>2 DEF Magnitude
<1>6. quarters % 4 = 0 => \E k \in Int : quarters = 4 * k
    <2>1. quarters \div 4 \in Int /\ (quarters % 4 = 0 => quarters = 4 * (quarters \div 4))
        OBVIOUS
    <2> QED BY <2>1
<1>7. CASE near
    <2>1. FitsIn(x, LongLast)
        <3>1. CASE quarters % 4 = 0
            <4>1. PICK k \in Int : quarters = 4 * k
                BY <1>6, <3>1
            <4>2. f = 0 /\ q = k
                BY <1>2, <4>1
            <4> QED BY <1>1, <1>7, <4>1, <4>2 DEF FitsIn, Lowest
        <3>2. CASE FitsIn(quarters \div 4, LongLast - 1)
            <4>1. quarters \div 4 \in Int /\ 4 * (quarters \div 4) <= quarters /\ quarters < 4 * (quarters \div 4) + 4
                OBVIOUS
            <4>2. -LongLast <= quarters \div 4 /\ quarters \div 4 <= LongLast - 1
                BY <1>1, <3>2, <4>1 DEF FitsIn, Lowest
            <4>3. -(4 * LongLast) <= quarters /\ quarters < 4 * LongLast
                BY <1>1, <4>1, <4>2
            <4> QED BY <1>1, <1>2, <4>3 DEF FitsIn, Lowest
        <3> QED BY <3>1, <3>2
    <2>2. Magnitude(quarters - 4 * x) = 2 => (quarters - 4 * x) * quarters < 0
        <3>1. f = 2 => quarters > 0
            BY <1>2
        <3>2. f = -2 => quarters < 0
            BY <1>2
        <3> HIDE DEF x
        <3> SUFFICES ASSUME Magnitude(quarters - 4 * x) = 2  PROVE (quarters - 4 * x) * quarters < 0
            OBVIOUS
        <3>3. CASE f = 2 /\ quarters - 4 * x = -2
            <4>1. (quarters - 4 * x) * quarters = -(2 * quarters)
                BY <3>3
            <4> QED BY <3>1, <3>3, <4>1
        <3>4. CASE f = -2 /\ quarters - 4 * x = 2
            <4>1. (quarters - 4 * x) * quarters = 2 * quarters
                BY <3>4
            <4> QED BY <3>2, <3>4, <4>1
        <3> QED BY <1>5, <3>3, <3>4
    <2>3. ~a.raised /\ a.value = x
        BY <1>4, <1>7 DEF Returns
    <2> HIDE DEF x
    <2> QED BY <1>5, <2>1, <2>2, <2>3 DEF RoundedTo, a
<1>8. CASE ~near
    <2>1. a.raised
        BY <1>4, <1>8 DEF Raises
    <2>2. \A y \in Lowest(LongLast)..LongLast : Magnitude(quarters - 4 * y) > 2
        <3> TAKE y \in Lowest(LongLast)..LongLast
        <3>1. y \in Int /\ -LongLast - 1 <= y /\ y <= LongLast
            BY <1>1 DEF Lowest
        <3>2. CASE quarters % 4 = 0
            <4>1. PICK k \in Int : quarters = 4 * k
                BY <1>6, <3>2
            <4>2. k < -LongLast - 1 \/ k >= LongLast + 1
                BY <1>1, <1>8, <4>1 DEF Lowest
            <4> QED BY <1>1, <3>1, <4>1, <4>2 DEF Magnitude
        <3>3. CASE FitsIn(quarters \div 4, LongLast - 1)
            <4>1. quarters \div 4 \in Int /\ 4 * (quarters \div 4) <= quarters /\ quarters < 4 * (quarters \div 4) + 4
                OBVIOUS
            <4>2. -LongLast <= quarters \div 4 /\ quarters \div 4 <= LongLast - 1
                BY <1>1, <3>3, <4>1 DEF FitsIn, Lowest
            <4> QED BY <1>1, <1>8, <4>1, <4>2 DEF Lowest
        <3> QED BY <3>2, <3>3
    <2> QED BY <2>1, <2>2 DEF RoundedTo, a
<1> HIDE DEF near
<1> QED BY <1>7, <1>8

-----------------------------------------------------------------------------
(* Sizes. *)

SizeIs(first, last, element, a) ==
    IF a.raised
    THEN element < 0 \/ Length(first, last) * element > LongLast \/ Length(first, last) > IntLast
    ELSE /\ a.value = Length(first, last) * element \/ (Length(first, last) * element = 0 /\ a.value = 1)
         /\ Length(first, last) * element <= SizeMax

\* A length that is not greater than the quotient is one whose product fits.
LEMMA FitsByDivision ==
    ASSUME NEW n \in Nat, NEW element \in Nat \ {0}, NEW limit \in Nat
    PROVE  n > limit \div element <=> n * element > limit
<1> DEFINE q == limit \div element
           r == limit % element
<1>1. q \in Nat /\ r \in Nat /\ limit = element * q + r /\ r < element
    BY DividedNumbers
<1> HIDE DEF q, r
<1>2. element * q \in Nat /\ n * element \in Nat
    BY <1>1
<1>3. n <= q => n * element <= element * q
    BY <1>1, Z3
<1>4. n >= q + 1 => n * element >= element * q + element
    BY <1>1, Z3
<1> QED BY <1>1, <1>2, <1>3, <1>4 DEF q

LEMMA SizesAreExact ==
    ASSUME NEW first \in Int, NEW last \in Int, NEW element \in Int
    PROVE  /\ SizeIs(first, last, element, ArraySize(first, last, element))
           /\ SizeIs(first, last, element, ArrayLocal(first, last, element))
           /\ SizeIs(first, last, element, ArrayResult(first, last, element))
<1> DEFINE n == Length(first, last)
           exact == n * element
<1>1. n \in Nat /\ LongLast \in Nat /\ IntLast \in Nat /\ SizeMax \in Nat /\ SizeMax >= LongLast /\ exact \in Int
    BY WidthAssumption DEF Length, SizeMax
<1> HIDE DEF n
<1>2. element > 0 => (n > LongLast \div element <=> exact > LongLast) /\ (n > SizeMax \div element <=> exact > SizeMax)
    BY <1>1, FitsByDivision
<1>3. element = 0 => exact = 0
    BY <1>1
<1>4. ArraySize(first, last, element) =
          IF n > IntLast \/ element < 0 \/ (element # 0 /\ n > LongLast \div element) THEN Raises ELSE Returns(exact)
    BY DEF ArraySize, n
<1>5. ArrayLocal(first, last, element) =
          IF n > IntLast \/ element < 0 \/ (element # 0 /\ n > SizeMax \div element) THEN Raises
          ELSE Returns(IF exact = 0 THEN 1 ELSE exact)
    BY DEF ArrayLocal, n
<1>6. ArrayResult(first, last, element) =
          IF element < 0 \/ (element # 0 /\ n > LongLast \div element) THEN Raises
          ELSE Returns(IF exact = 0 THEN 1 ELSE exact)
    BY DEF ArrayResult, n
<1> HIDE DEF exact
<1>7. \A a : SizeIs(first, last, element, a) <=>
          IF a.raised THEN element < 0 \/ exact > LongLast \/ n > IntLast
          ELSE (a.value = exact \/ (exact = 0 /\ a.value = 1)) /\ exact <= SizeMax
    BY DEF SizeIs, n, exact
<1>8. SizeIs(first, last, element, ArraySize(first, last, element))
    BY <1>1, <1>2, <1>3, <1>4, <1>7 DEF Raises, Returns
<1>9. SizeIs(first, last, element, ArrayLocal(first, last, element))
    BY <1>1, <1>2, <1>3, <1>5, <1>7 DEF Raises, Returns
<1>10. SizeIs(first, last, element, ArrayResult(first, last, element))
    BY <1>1, <1>2, <1>3, <1>6, <1>7 DEF Raises, Returns
<1> QED BY <1>8, <1>9, <1>10

-----------------------------------------------------------------------------
(* The answers. *)

\* ArithmeticExact, of any answer to a request.
RightAnswer(q, a) ==
    CASE q.kind = "operation" -> ExactAnswer(q.operation, q.left, q.right, q.highest, a)
      [] q.kind = "static" ->
            IF ~FitsIn(UnaryValue(q.unary, q.left), LongLast) THEN a.raised
            ELSE IF q.operation = "none" THEN a = Returns(UnaryValue(q.unary, q.left))
            ELSE ExactAnswer(q.operation, UnaryValue(q.unary, q.left), q.right, LongLast, a)
      [] q.kind = "round" -> RoundedTo(q.quarters, a)
      [] q.kind \in {"size", "local", "result"} -> SizeIs(q.first, q.last, q.element, a)

AnswerTo(q) ==
    CASE q.kind = "operation" -> IntegerOperation(q.operation, q.highest, q.left, q.right)
      [] q.kind = "static" -> FoldStatic(q)
      [] q.kind = "round" -> RoundToInteger(q.quarters)
      [] q.kind = "size" -> ArraySize(q.first, q.last, q.element)
      [] q.kind = "local" -> ArrayLocal(q.first, q.last, q.element)
      [] q.kind = "result" -> ArrayResult(q.first, q.last, q.element)

LEMMA StaticIsExact ==
    ASSUME NEW q, q.kind = "static", q.unary \in {"+", "-", "abs", "not"},
           q.operation \in Operations \cup {"none"}, q.left \in Int, q.right \in Int,
           FitsIn(q.left, LongLast), q.unary = "not" => q.left \in {0, 1} /\ q.operation = "none",
           q.operation # "none" => FitsIn(q.right, LongLast)
    PROVE  RightAnswer(q, FoldStatic(q))
<1> DEFINE folded == FoldUnary(q.unary, q.left)
           x == UnaryValue(q.unary, q.left)
<1>1. x \in Int /\ folded = IF FitsIn(x, LongLast) THEN Returns(x) ELSE Raises
    BY UnaryIs
<1>2. FoldStatic(q) = IF folded.raised \/ q.operation = "none" THEN folded ELSE FoldBinary(q.operation, folded.value, q.right)
    BY DEF FoldStatic
<1>3. \A a : RightAnswer(q, a) <=>
          IF ~FitsIn(x, LongLast) THEN a.raised
          ELSE IF q.operation = "none" THEN a = Returns(x)
          ELSE ExactAnswer(q.operation, x, q.right, LongLast, a)
    BY DEF RightAnswer
<1> HIDE DEF folded, x
<1>4. CASE ~FitsIn(x, LongLast)
    BY <1>1, <1>2, <1>3, <1>4 DEF Raises
<1>5. CASE FitsIn(x, LongLast) /\ q.operation = "none"
    BY <1>1, <1>2, <1>3, <1>5 DEF Returns
<1>6. CASE FitsIn(x, LongLast) /\ q.operation # "none"
    <2>1. ~folded.raised /\ folded.value = x
        BY <1>1, <1>6 DEF Returns
    <2>2. q.operation \in Operations
        BY <1>6
    <2>3. FoldStatic(q) = FoldBinary(q.operation, x, q.right)
        BY <1>2, <1>6, <2>1
    <2>4. FoldStatic(q) = IntegerOperation(q.operation, LongLast, x, q.right)
        BY <1>1, <1>6, <2>2, <2>3, FoldedIsOperation
    <2>5. ExactAnswer(q.operation, x, q.right, LongLast, FoldStatic(q))
        BY <1>1, <1>6, <2>2, <2>4, OperationsAreExact
    <2> QED BY <1>3, <1>6, <2>5
<1> QED BY <1>4, <1>5, <1>6

\* Every request is answered right.
LEMMA AnswersAreRight ==
    ASSUME NEW q \in Requests
    PROVE  RightAnswer(q, AnswerTo(q))
<1>1. CASE \E highest \in {IntLast, LongLast} :
              q \in Fitting([kind : {"operation"}, operation : Operations, highest : {highest}, left : Int, right : Int], highest)
    <2>1. /\ q.kind = "operation" /\ q.operation \in Operations /\ q.highest \in {IntLast, LongLast}
          /\ q.left \in Int /\ q.right \in Int /\ FitsIn(q.left, q.highest) /\ FitsIn(q.right, q.highest)
        BY <1>1 DEF Fitting
    <2>2. AnswerTo(q) = IntegerOperation(q.operation, q.highest, q.left, q.right)
        BY <2>1 DEF AnswerTo
    <2>3. ExactAnswer(q.operation, q.left, q.right, q.highest, AnswerTo(q))
        BY <2>1, <2>2, OperationsAreExact
    <2> QED BY <2>1, <2>3 DEF RightAnswer
<1>2. CASE q \in Fitting([kind : {"static"}, unary : {"+", "-", "abs"}, operation : Operations \cup {"none"},
                          left : Int, right : Int], LongLast)
    <2>1. /\ q.kind = "static" /\ q.unary \in {"+", "-", "abs"} /\ q.operation \in Operations \cup {"none"}
          /\ q.left \in Int /\ q.right \in Int /\ FitsIn(q.left, LongLast) /\ FitsIn(q.right, LongLast)
        BY <1>2 DEF Fitting
    <2>2. AnswerTo(q) = FoldStatic(q)
        BY <2>1 DEF AnswerTo
    <2> QED BY <2>1, <2>2, StaticIsExact
<1>3. CASE q \in [kind : {"static"}, unary : {"not"}, operation : {"none"}, left : {0, 1}, right : Int]
    <2>1. q.kind = "static" /\ q.unary = "not" /\ q.operation = "none" /\ q.left \in {0, 1} /\ q.right \in Int
        BY <1>3
    <2>2. FitsIn(q.left, LongLast)
        BY <2>1, WidthAssumption DEF FitsIn, Lowest
    <2>3. AnswerTo(q) = FoldStatic(q)
        BY <2>1 DEF AnswerTo
    <2> QED BY <2>1, <2>2, <2>3, StaticIsExact
<1>4. CASE q \in [kind : {"round"}, quarters : Int] /\ (FitsIn(q.quarters \div 4, LongLast - 1) \/ q.quarters % 4 = 0)
    <2>1. q.kind = "round" /\ q.quarters \in Int
        BY <1>4
    <2>2. AnswerTo(q) = RoundToInteger(q.quarters)
        BY <2>1 DEF AnswerTo
    <2>3. RoundedTo(q.quarters, AnswerTo(q))
        BY <1>4, <2>1, <2>2, RoundingIsExact
    <2> QED BY <2>1, <2>3 DEF RightAnswer
<1>5. CASE q \in [kind : {"size", "local", "result"}, first : Int, last : Int, element : Int]
    <2>1. q.kind \in {"size", "local", "result"} /\ q.first \in Int /\ q.last \in Int /\ q.element \in Int
        BY <1>5
    <2>2. AnswerTo(q) \in {ArraySize(q.first, q.last, q.element), ArrayLocal(q.first, q.last, q.element),
                           ArrayResult(q.first, q.last, q.element)}
        BY <2>1 DEF AnswerTo
    <2>3. SizeIs(q.first, q.last, q.element, AnswerTo(q))
        BY <2>1, <2>2, SizesAreExact
    <2> QED BY <2>1, <2>3 DEF RightAnswer
<1> QED BY <1>1, <1>2, <1>3, <1>4, <1>5, RequestAssumption

ArithmeticInv ==
    /\ request \in Requests
    /\ "pending" \in DOMAIN answer \/ RightAnswer(request, answer)

\* What was right stays right, and is what ArithmeticExact says.
LEMMA RightIsExact ==
    ASSUME ArithmeticInv
    PROVE  ArithmeticExact
<1>1. CASE "pending" \in DOMAIN answer
    BY <1>1 DEF ArithmeticExact
<1>2. CASE "pending" \notin DOMAIN answer
    <2>1. RightAnswer(request, answer)
        BY <1>2 DEF ArithmeticInv
    <2> QED BY <1>2, <2>1 DEF RightAnswer, ArithmeticExact, ExactAnswer, Exactly, RoundedTo, SizeIs
<1> QED BY <1>1, <1>2

\* Constraint_Error is raised exactly when the result of an operation is not a
\* value of its type, at every width of int and long long, and what is answered
\* is what Ada defines; so with what the compiler folds, rounding and sizes.
THEOREM ArithmeticIsExact == ArithmeticSpec => []ArithmeticExact
<1>1. ArithmeticInit => ArithmeticInv
    BY DEF ArithmeticInit, ArithmeticInv
<1>2. ArithmeticInv /\ [ArithmeticNext]_arithmeticVars => ArithmeticInv'
    <2> SUFFICES ASSUME ArithmeticInv, [ArithmeticNext]_arithmeticVars  PROVE ArithmeticInv'
        OBVIOUS
    <2>1. CASE Answer
        <3>1. answer' = AnswerTo(request) /\ request' = request /\ request \in Requests
            BY <2>1 DEF Answer, AnswerTo, ArithmeticInv
        <3>2. RightAnswer(request, AnswerTo(request))
            BY <3>1, AnswersAreRight
        <3> QED BY <3>1, <3>2 DEF ArithmeticInv
    <2>2. CASE UNCHANGED arithmeticVars
        BY <2>2 DEF ArithmeticInv, arithmeticVars
    <2> QED BY <2>1, <2>2 DEF ArithmeticNext
<1> QED BY <1>1, <1>2, RightIsExact, PTL DEF ArithmeticSpec

-----------------------------------------------------------------------------
(* Images.  What is read back follows from what is in the buffer, and that *)
(* is what was put there as long as the function has not come round to it. *)

Decimals == {Numerals[d] : d \in 1..10}

\* Numerals are numbers below ten and no other sign.
LEMMA NumeralFacts ==
    /\ \A d \in 0..9 : Numerals[d + 1] \in Decimals /\ NumeralOf(Numerals[d + 1]) = d
    /\ \A c \in Decimals :
          /\ NumeralOf(c) \in 0..9
          /\ c # Blank /\ c # Separator /\ c # "+" /\ c # "-"
<1> DEFINE written == {"0", "1", "2", "3", "4", "5", "6", "7", "8", "9"}
<1>1. \A c \in Decimals : c \in written
    BY DEF Decimals, Numerals
<1>2. \A c \in written : c # Blank /\ c # Separator
    BY Zenon DEF Blank, Separator
<1>3. \A c \in written : c # "+" /\ c # "-"
    BY Zenon
<1>4. \A d, e \in 1..16 : Numerals[d] = Numerals[e] => d = e
    BY DEF Numerals
<1>5. ASSUME NEW d \in 0..9  PROVE Numerals[d + 1] \in Decimals /\ NumeralOf(Numerals[d + 1]) = d
    <2>1. d + 1 \in 1..10 /\ d + 1 \in 1..16
        OBVIOUS
    <2>2. \E e \in 1..16 : Numerals[e] = Numerals[d + 1]
        BY <2>1
    <2>3. (CHOOSE e \in 1..16 : Numerals[e] = Numerals[d + 1]) = d + 1
        BY <1>4, <2>1
    <2>4. NumeralOf(Numerals[d + 1]) = (CHOOSE e \in 1..16 : Numerals[e] = Numerals[d + 1]) - 1
        BY <2>2 DEF NumeralOf
    <2>5. NumeralOf(Numerals[d + 1]) = (d + 1) - 1
        BY <2>3, <2>4, Zenon
    <2> QED BY <2>1, <2>5 DEF Decimals
<1>6. ASSUME NEW c \in Decimals  PROVE NumeralOf(c) \in 0..9
    <2>1. PICK d \in 1..10 : c = Numerals[d]
        BY DEF Decimals
    <2>2. d - 1 \in 0..9 /\ (d - 1) + 1 = d
        OBVIOUS
    <2> QED BY <1>5, <2>1, <2>2
<1> QED BY <1>1, <1>2, <1>3, <1>5, <1>6

\* The number that decimal digits make.
ByDigits(text) == [k \in 1..Len(text) |-> [x \in Nat |-> 10 * x + NumeralOf(text[k])]]
Makes(text, n) == \E run : Gathers(run, Nat, Len(text), 0, ByDigits(text)) /\ run[Len(text)] = n

LEMMA OneDigit ==
    ASSUME NEW d \in 0..9
    PROVE  Makes(<<Numerals[d + 1]>>, d)
<1> DEFINE text == <<Numerals[d + 1]>>
           run == [k \in 0..1 |-> IF k = 0 THEN 0 ELSE d]
<1>1. Len(text) = 1 /\ text[1] = Numerals[d + 1]
    OBVIOUS
<1>2. ByDigits(text)[1][0] = d
    BY <1>1, NumeralFacts DEF ByDigits
<1>3. run \in [0..1 -> Nat] /\ run[0] = 0 /\ run[1] = d
    OBVIOUS
<1> HIDE DEF text, run
<1>4. \A k \in 1..1 : k = 1 /\ k - 1 = 0
    OBVIOUS
<1>5. Gathers(run, Nat, Len(text), 0, ByDigits(text))
    BY <1>1, <1>2, <1>3, <1>4 DEF Gathers
<1>6. Makes(text, d)
    BY <1>1, <1>3, <1>5 DEF Makes
<1> QED BY <1>6 DEF text

\* A further digit makes ten times the number and that digit.
LEMMA OneMoreDigit ==
    ASSUME NEW text \in Seq(Decimals), NEW n \in Nat, Makes(text, n), NEW d \in 0..9
    PROVE  Makes(Append(text, Numerals[d + 1]), 10 * n + d)
<1> DEFINE more == Append(text, Numerals[d + 1])
           l == Len(text)
           m == l + 1
<1>1. /\ l \in Nat /\ Len(more) = m /\ more[m] = Numerals[d + 1]
      /\ \A k \in 1..l : more[k] = text[k]
    BY NumeralFacts
<1>2. PICK run : Gathers(run, Nat, l, 0, ByDigits(text)) /\ run[l] = n
    BY DEF Makes
<1>3. run \in [0..l -> Nat] /\ run[0] = 0 /\ \A k \in 1..l : run[k] = ByDigits(text)[k][run[k - 1]]
    BY <1>2 DEF Gathers
<1>r. l = Len(text)
    OBVIOUS
<1> HIDE DEF more, l
<1> DEFINE other == [k \in 0..m |-> IF k = m THEN 10 * n + d ELSE run[k]]
<1>4. \A k \in 0..l : k \in 0..m /\ k # m
    BY <1>1
<1>5. \A k \in 0..m : k \in 0..l \/ k = m
    BY <1>1
<1>6. other \in [0..m -> Nat] /\ other[0] = 0 /\ other[m] = 10 * n + d /\ \A k \in 0..l : other[k] = run[k]
    BY <1>1, <1>3, <1>4, <1>5
<1> HIDE DEF other
<1>7. ASSUME NEW k \in 1..m  PROVE other[k] = ByDigits(more)[k][other[k - 1]]
    <2>1. ByDigits(more)[k] = [x \in Nat |-> 10 * x + NumeralOf(more[k])]
        BY <1>1 DEF ByDigits
    <2>2. CASE k = m
        <3>1. k - 1 = l /\ l \in 0..l
            BY <1>1, <2>2
        <3>2. other[k - 1] = n
            BY <1>2, <1>6, <3>1
        <3>3. NumeralOf(more[k]) = d
            BY <1>1, <2>2, NumeralFacts
        <3> QED BY <1>6, <2>1, <2>2, <3>2, <3>3
    <2>3. CASE k # m
        <3>1. k \in 1..l /\ k \in 0..l /\ k - 1 \in 0..l
            BY <1>1, <2>3
        <3>2. other[k] = ByDigits(text)[k][run[k - 1]] /\ other[k - 1] = run[k - 1] /\ run[k - 1] \in Nat
            BY <1>3, <1>6, <3>1
        <3>3. ByDigits(text)[k] = [x \in Nat |-> 10 * x + NumeralOf(text[k])]
            BY <1>r, <3>1 DEF ByDigits
        <3> QED BY <1>1, <2>1, <3>1, <3>2, <3>3
    <2> QED BY <2>2, <2>3
<1>8. Gathers(other, Nat, Len(more), 0, ByDigits(more))
    BY <1>1, <1>6, <1>7 DEF Gathers
<1>9. Makes(more, 10 * n + d)
    BY <1>1, <1>6, <1>8 DEF Makes
<1> QED BY <1>9 DEF more

\* The digits that are written make the number they were written for.
LEMMA DecimalDigitsMake ==
    ASSUME NEW value \in Nat
    PROVE  /\ DecimalDigits(value) \in Seq(Decimals) /\ Len(DecimalDigits(value)) >= 1
           /\ Makes(DecimalDigits(value), value)
<1> DEFINE S == Seq(Decimals)
           Lowly(n) == <<Numerals[n + 1]>>
           Longer(x, n) == Append(x, Numerals[(n % 10) + 1])
           digits == CHOOSE f : f = [n \in Nat |-> IF n < 10 THEN Lowly(n) ELSE Longer(f[n \div 10], n)]
           Bottom == [n \in 0..(10 - 1) |-> Lowly(n)]
           Onward == [n \in Nat |-> [x \in S |-> Longer(x, n)]]
           Down == [n \in Nat |-> n \div 10]
<1>1. DecimalDigits(value) = digits[value]
    BY DEF DecimalDigits
<1>2. \A n \in Nat : n % 10 \in 0..9 /\ n \div 10 \in Nat /\ (n >= 10 => n \div 10 < n) /\ n = 10 * (n \div 10) + (n % 10)
    OBVIOUS
<1>3. \A n \in 0..(10 - 1) : Lowly(n) \in S /\ n \in 0..9
    BY NumeralFacts
<1>4. \A n \in Nat : \A x \in S : Longer(x, n) \in S
    BY <1>2, NumeralFacts
<1>5. \A n \in 0..9 : Makes(Lowly(n), n) /\ Len(Lowly(n)) = 1
    BY OneDigit
<1>6. ASSUME NEW n \in Nat, NEW x \in S, Makes(x, n \div 10)
      PROVE  Makes(Longer(x, n), n) /\ Len(Longer(x, n)) >= 1
    <2>1. Makes(Longer(x, n), 10 * (n \div 10) + (n % 10))
        BY <1>2, <1>6, OneMoreDigit
    <2>2. Len(Longer(x, n)) = Len(x) + 1 /\ Len(x) \in Nat
        BY <1>2, NumeralFacts
    <2> QED BY <1>2, <2>1, <2>2
<1> HIDE DEF S, Lowly, Longer
<1>7. Bottom \in [0..(10 - 1) -> S] /\ Onward \in [Nat -> [S -> S]]
    BY <1>3, <1>4
<1>8. Down \in [Nat -> Nat] /\ \A n \in Nat : n >= 10 => Down[n] < n
    BY <1>2
<1>9. Descends(S, 10, Bottom, Onward, Down)
    BY <1>7, <1>8 DEF Descends
<1>b. /\ \A n \in 0..(10 - 1) : Bottom[n] = Lowly(n)
      /\ \A n \in Nat : Down[n] = n \div 10 /\ \A x \in S : Onward[n][x] = Longer(x, n)
    OBVIOUS
<1> HIDE DEF Bottom, Onward, Down
<1>10. PICK d \in [Nat -> S] : \A n \in Nat : Descent(d, n, 10, Bottom, Onward, Down)
    BY <1>9, DescentExists
<1>11. ASSUME NEW n \in Nat  PROVE d[n] = IF n < 10 THEN Lowly(n) ELSE Longer(d[n \div 10], n)
    <2>1. d[n] = IF n < 10 THEN Bottom[n] ELSE Onward[n][d[Down[n]]]
        BY <1>10 DEF Descent
    <2>2. d[n \div 10] \in S
        BY <1>2
    <2>3. n < 10 => n \in 0..(10 - 1)
        OBVIOUS
    <2> QED BY <1>b, <2>1, <2>2, <2>3
<1>12. d = [n \in Nat |-> IF n < 10 THEN Lowly(n) ELSE Longer(d[n \div 10], n)]
    BY <1>11
<1>13. digits = [n \in Nat |-> IF n < 10 THEN Lowly(n) ELSE Longer(digits[n \div 10], n)]
    BY <1>12
<1> HIDE DEF digits
<1> DEFINE bad == {n \in Nat : ~(digits[n] \in S /\ Len(digits[n]) >= 1 /\ Makes(digits[n], n))}
<1>14. bad = {}
    <2> SUFFICES ASSUME bad # {}  PROVE FALSE
        OBVIOUS
    <2>1. bad \in SUBSET Nat
        OBVIOUS
    <2> HIDE DEF bad
    <2>2. PICK n \in bad : \A other \in bad : n <= other
        BY <2>1, LeastNumber
    <2>3. n \in Nat /\ ~(digits[n] \in S /\ Len(digits[n]) >= 1 /\ Makes(digits[n], n))
        BY DEF bad
    <2>4. digits[n] = IF n < 10 THEN Lowly(n) ELSE Longer(digits[n \div 10], n)
        BY <1>13, <2>3
    <2>5. ~(n < 10)
        <3> SUFFICES ASSUME n < 10  PROVE FALSE
            OBVIOUS
        <3>1. n \in 0..9 /\ n \in 0..(10 - 1)
            BY <2>3
        <3>2. digits[n] = Lowly(n)
            BY <2>4
        <3>3. Lowly(n) \in S /\ Makes(Lowly(n), n) /\ Len(Lowly(n)) >= 1
            <4>1. Makes(Lowly(n), n) /\ Len(Lowly(n)) = 1
                BY <1>5, <3>1
            <4> QED BY <1>3, <3>1, <4>1
        <3> QED BY <2>3, <3>2, <3>3
    <2>6. n \div 10 \in Nat /\ n \div 10 < n
        BY <1>2, <2>3, <2>5
    <2>7. n \div 10 \notin bad
        BY <2>2, <2>3, <2>6
    <2>8. digits[n \div 10] \in S /\ Makes(digits[n \div 10], n \div 10)
        BY <2>6, <2>7 DEF bad
    <2>9. digits[n] = Longer(digits[n \div 10], n)
        BY <2>4, <2>5
    <2> QED BY <1>4, <1>6, <2>3, <2>8, <2>9
<1> QED BY <1>1, <1>14 DEF S

\* How far a numeral has been read.
Reads == [state : {"reading", "bad", "stopped"}, value : Nat, digits : Nat, separator : BOOLEAN, end : Nat]
Reading(text, limit) == [k \in 1..Len(text) |-> [acc \in Reads |-> NumeralWith(acc, text[k], 10, limit)]]

\* A digit that stays within the limit is read.
LEMMA ReadDigit ==
    ASSUME NEW acc \in Reads, NEW c \in Decimals, NEW limit \in Nat
    PROVE  /\ NumeralWith(acc, c, 10, limit) \in Reads
           /\ acc.state = "reading" /\ 10 * acc.value + NumeralOf(c) <= limit =>
                 NumeralWith(acc, c, 10, limit) =
                    [state |-> "reading", value |-> 10 * acc.value + NumeralOf(c), digits |-> acc.digits + 1,
                     separator |-> FALSE, end |-> acc.end + 1]
<1>1. NumeralOf(c) \in 0..9 /\ c # Separator
    BY NumeralFacts
<1> DEFINE v == NumeralOf(c)
           next == [state |-> "reading", value |-> 10 * acc.value + v, digits |-> acc.digits + 1,
                    separator |-> FALSE, end |-> acc.end + 1]
<1>2. NumeralWith(acc, c, 10, limit) =
          IF acc.state # "reading" THEN acc
          ELSE IF v > limit \/ acc.value > (limit - v) \div 10 THEN [acc EXCEPT !.state = "bad"]
          ELSE next
    BY <1>1 DEF NumeralWith
<1>3. v \in 0..9
    BY <1>1
<1> HIDE DEF v
<1>4. acc.value \in Nat /\ acc.digits + 1 \in Nat /\ acc.end + 1 \in Nat /\ 10 * acc.value + v \in Nat
    BY <1>3 DEF Reads
<1>5. next \in Reads /\ [acc EXCEPT !.state = "bad"] \in Reads
    BY <1>4 DEF Reads
<1>6. ASSUME 10 * acc.value + v <= limit
      PROVE  ~(v > limit) /\ ~(acc.value > (limit - v) \div 10)
    BY <1>3, <1>4, <1>6
<1>7. NumeralWith(acc, c, 10, limit) \in Reads
    <2> HIDE DEF next
    <2> QED BY <1>2, <1>5
<1>8. ASSUME acc.state = "reading", 10 * acc.value + v <= limit
      PROVE  NumeralWith(acc, c, 10, limit) = next
    <2> HIDE DEF next
    <2> QED BY <1>2, <1>6, <1>8
<1> QED BY <1>7, <1>8 DEF v

\* So are all the digits of a number within it.
LEMMA DigitsAreRead ==
    ASSUME NEW text \in Seq(Decimals), Len(text) >= 1, NEW n \in Nat, Makes(text, n),
           NEW limit \in Nat, n <= limit
    PROVE  ReadNumeral(text, 1, 10, limit) = [ok |-> TRUE, value |-> n, end |-> Len(text) + 1]
<1> DEFINE l == Len(text)
           base == [state |-> "reading", value |-> 0, digits |-> 0, separator |-> FALSE, end |-> 1]
           S == Reads
           F == Reading(text, limit)
           Onto(g, s) == IF s = {} THEN base ELSE NumeralWith(g[s \ {Max(s)}], text[Max(s)], 10, limit)
           h == CHOOSE g : g = [s \in SUBSET (DOMAIN text) |-> Onto(g, s)]
           read == FoldLeft(LAMBDA acc, c : NumeralWith(acc, c, 10, limit), base, text)
<1>1. l \in Nat /\ DOMAIN text = 1..l /\ l >= 1 /\ l = Len(text)
    OBVIOUS
<1>2. SubSeq(text, 1, Len(text)) = text
    OBVIOUS
<1>3. ReadNumeral(text, 1, 10, limit) =
          [ok |-> read.state # "bad" /\ read.digits > 0 /\ ~read.separator, value |-> read.value, end |-> read.end]
    BY <1>2 DEF ReadNumeral
<1>4. read = h[DOMAIN text]
    BY DEF FoldLeft, MapThenFoldSet
<1>5. base \in S
    BY DEF Reads
<1>6. \A i \in 1..l : text[i] \in Decimals
    OBVIOUS
<1>7. F \in [1..l -> [S -> S]] /\ \A i \in 1..l : \A x \in S : F[i][x] = NumeralWith(x, text[i], 10, limit)
    BY <1>6, ReadDigit DEF Reading
<1>8. base = [state |-> "reading", value |-> 0, digits |-> 0, separator |-> FALSE, end |-> 1]
    OBVIOUS
<1> HIDE DEF l, base, F, Onto, read
<1>9. Folds(S, l, base, F)
    BY <1>1, <1>5, <1>7 DEF Folds
<1>10. PICK g : IsFold(g, S, l, base, F)
    BY <1>9, FoldExists
<1>11. ASSUME NEW s \in SUBSET (1..l)  PROVE g[s] = Onto(g, s)
    <2>1. CASE s = {}
        BY <1>10, <2>1 DEF IsFold, Onto
    <2>2. CASE s # {}
        <3>1. g[s \ {Max(s)}] \in S
            BY <1>10 DEF IsFold
        <3> QED BY <1>7, <1>10, <2>2, <3>1 DEF IsFold, Onto
    <2> QED BY <2>1, <2>2
<1>12. g = [s \in SUBSET (DOMAIN text) |-> Onto(g, s)]
    BY <1>1, <1>10, <1>11 DEF IsFold
<1>13. h = [s \in SUBSET (DOMAIN text) |-> Onto(h, s)]
    BY <1>12
<1> HIDE DEF h
<1>14. Recurs(h, S, l, base, F)
    BY <1>1, <1>7, <1>13 DEF Recurs, Onto
<1>15. PICK run : Gathers(run, S, l, base, F) /\ run[l] = h[1..l]
    BY <1>9, <1>14, FoldSteps
<1>16. PICK value : Gathers(value, Nat, l, 0, ByDigits(text)) /\ value[l] = n
    BY <1>1 DEF Makes
<1>17. /\ value \in [0..l -> Nat] /\ value[0] = 0
       /\ \A k \in 1..l : value[k] = 10 * value[k - 1] + NumeralOf(text[k])
    <2>1. value \in [0..l -> Nat] /\ value[0] = 0 /\ \A k \in 1..l : value[k] = ByDigits(text)[k][value[k - 1]]
        BY <1>16 DEF Gathers
    <2>2. ASSUME NEW k \in 1..l  PROVE value[k] = 10 * value[k - 1] + NumeralOf(text[k])
        <3>1. k - 1 \in 0..l
            BY <1>1
        <3> QED BY <1>1, <2>1, <3>1 DEF ByDigits
    <2> QED BY <2>1, <2>2
<1>18. \A k \in 0..l : value[k] <= n
    <2> DEFINE G == {k \in 0..l : value[l - k] <= n}
    <2>1. 0 \in G
        BY <1>1, <1>16
    <2>2. ASSUME NEW k \in 1..l, k - 1 \in G  PROVE k \in G
        <3> DEFINE j == l - k
        <3>1. j \in 0..l /\ j + 1 \in 1..l /\ l - (k - 1) = j + 1 /\ (j + 1) - 1 = j /\ k \in 0..l /\ j + 1 \in 0..l
            BY <1>1
        <3>2. value[j + 1] <= n
            BY <2>2, <3>1
        <3>j. j = l - k
            OBVIOUS
        <3> HIDE DEF j
        <3>3. value[j + 1] = 10 * value[j] + NumeralOf(text[j + 1]) /\ value[j] \in Nat /\ NumeralOf(text[j + 1]) \in 0..9
            BY <1>6, <1>17, <3>1, NumeralFacts
        <3>4. value[j] <= n
            BY <3>2, <3>3
        <3> QED BY <3>1, <3>4, <3>j
    <2> HIDE DEF G
    <2>3. \A k \in 0..l : k \in G
        BY <1>1, <2>1, <2>2, Upwards
    <2>4. ASSUME NEW k \in 0..l  PROVE value[k] <= n
        <3>1. l - k \in 0..l /\ l - (l - k) = k
            BY <1>1
        <3> QED BY <2>3, <3>1 DEF G
    <2> QED BY <2>4
<1> DEFINE Sofar(k) == [state |-> "reading", value |-> value[k], digits |-> k, separator |-> FALSE, end |-> k + 1]
           G == {k \in 0..l : run[k] = Sofar(k)}
<1>19. 0 \in G
    BY <1>1, <1>8, <1>15, <1>17 DEF Gathers
<1>20. ASSUME NEW k \in 1..l, k - 1 \in G  PROVE k \in G
    <2> DEFINE j == k - 1
    <2>1. j \in 0..l /\ j \in Nat /\ k = j + 1 /\ k - 1 = j /\ run[j] = Sofar(j) /\ k \in 0..l
        BY <1>1, <1>20
    <2> HIDE DEF j
    <2>2. Sofar(j) \in Reads /\ Sofar(j).state = "reading" /\ Sofar(j).value = value[j]
          /\ Sofar(j).digits = j /\ Sofar(j).end = j + 1
        BY <1>17, <2>1 DEF Reads
    <2>3. run[k] = F[k][run[j]]
        BY <1>15, <2>1 DEF Gathers
    <2>4. run[k] = NumeralWith(Sofar(j), text[k], 10, limit)
        BY <1>7, <2>1, <2>2, <2>3
    <2>5. value[k] = 10 * value[j] + NumeralOf(text[k]) /\ value[k] <= n /\ value[k] \in Nat
        BY <1>17, <1>18, <2>1
    <2>6. 10 * value[j] + NumeralOf(text[k]) <= limit
        BY <2>5
    <2>7. NumeralWith(Sofar(j), text[k], 10, limit) =
              [state |-> "reading", value |-> 10 * value[j] + NumeralOf(text[k]), digits |-> j + 1,
               separator |-> FALSE, end |-> (j + 1) + 1]
        <3> HIDE DEF Sofar
        <3>1. text[k] \in Decimals
            BY <1>6
        <3> QED BY <2>2, <2>6, <3>1, ReadDigit
    <2> QED BY <2>1, <2>4, <2>5, <2>7
<1> HIDE DEF G
<1>21. l \in G
    <2>1. \A k \in 0..l : k \in G
        BY <1>1, <1>19, <1>20, Upwards
    <2> QED BY <1>1, <2>1
<1>22. run[l] = Sofar(l)
    BY <1>21 DEF G
<1>23. read = [state |-> "reading", value |-> n, digits |-> l, separator |-> FALSE, end |-> l + 1]
    BY <1>1, <1>4, <1>15, <1>16, <1>22
<1>24. read.state # "bad" /\ read.digits > 0 /\ ~read.separator /\ read.value = n /\ read.end = l + 1
    BY <1>1, <1>23
<1> QED BY <1>1, <1>3, <1>24

\* The blanks before the first and behind the last other character go.
LEMMA TrimIs ==
    ASSUME NEW S, NEW text \in Seq(S), NEW p \in DOMAIN text, NEW q \in DOMAIN text,
           text[p] # Blank, text[q] # Blank,
           \A i \in DOMAIN text : text[i] # Blank => p <= i /\ i <= q
    PROVE  Trim(text) = SubSeq(text, p, q)
<1> DEFINE ink == {i \in DOMAIN text : text[i] # Blank}
           first == CHOOSE i \in ink : \A j \in ink : i <= j
           last == CHOOSE i \in ink : \A j \in ink : j <= i
<1>1. ink \in SUBSET Int /\ p \in ink /\ q \in ink /\ \A i \in ink : p <= i /\ i <= q
    OBVIOUS
<1>2. Trim(text) = IF ink = {} THEN <<>> ELSE SubSeq(text, first, last)
    BY DEF Trim
<1> HIDE DEF ink
<1>3. first = p
    <2>1. \A i \in ink : (\A j \in ink : i <= j) <=> i = p
        BY <1>1
    <2> QED BY <1>1, <2>1
<1>4. last = q
    <2>1. \A i \in ink : (\A j \in ink : j <= i) <=> i = q
        BY <1>1
    <2> QED BY <1>1, <2>1
<1> QED BY <1>1, <1>2, <1>3, <1>4

\* What is not a # nor an e ends a numeral of base ten.
LEMMA UnsignedIs ==
    ASSUME NEW text \in Seq(Decimals), Len(text) >= 1, NEW n \in Nat, Makes(text, n),
           NEW limit \in Nat, n <= limit
    PROVE  Unsigned(text, ReadNumeral(text, 1, 10, limit), limit) = n
<1> DEFINE first == ReadNumeral(text, 1, 10, limit)
           next == Len(text) + 1
<1>1. first.ok /\ first.value = n /\ first.end = next
    BY DigitsAreRead
<1>2. CharAt(text, next) = "NUL"
    <2>1. next \notin DOMAIN text
        OBVIOUS
    <2> QED BY <2>1 DEF CharAt
<1> HIDE DEF first
<1>3. Ending(text, next, 10, n, limit) = n
    BY <1>2 DEF Ending
<1>4. Unsigned(text, first, limit) = Ending(text, first.end, 10, first.value, limit)
    <2>1. CharAt(text, first.end) # "#"
        BY <1>1, <1>2
    <2> QED BY <1>1, <2>1 DEF Unsigned
<1> QED BY <1>1, <1>3, <1>4 DEF first

\* Both signs: the blank goes, and the minus sign allows for one more.
LEMMA NumberIsRead ==
    ASSUME NEW value \in (-ValueMax - 1)..ValueMax
    PROVE  ValueLongInteger(ImageText("integer", value), -ValueMax - 1, ValueMax) = Gives(value)
<1> DEFINE n == IF value < 0 THEN -value ELSE value
           digits == DecimalDigits(n)
           l == Len(digits)
           limit == IF value < 0 THEN ValueMax + 1 ELSE ValueMax
           sign == IF value < 0 THEN "-" ELSE Blank
           text == <<sign>> \o digits
<1>1. ValueMax \in Nat /\ value \in Int /\ n \in Nat /\ limit \in Nat /\ n <= limit
    BY ImagedAssumption
<1>2. digits \in Seq(Decimals) /\ l >= 1 /\ l \in Nat /\ Makes(digits, n)
    BY <1>1, DecimalDigitsMake
<1>3. ImageText("integer", value) = text
    BY DEF ImageText
<1>n. n = (IF value < 0 THEN -value ELSE value) /\ limit = (IF value < 0 THEN ValueMax + 1 ELSE ValueMax)
    OBVIOUS
<1> HIDE DEF n, digits, limit
<1>4. Unsigned(digits, ReadNumeral(digits, 1, 10, limit), limit) = n
    BY <1>1, <1>2, UnsignedIs
<1>5. digits[1] \in Decimals /\ \A k \in 1..l : digits[k] \in Decimals /\ digits[k] # Blank
    <2>1. \A k \in 1..l : digits[k] \in Decimals
        BY <1>2
    <2> QED BY <1>2, <2>1, NumeralFacts
<1>6. CharAt(digits, 1) = digits[1] /\ digits[1] # "+" /\ digits[1] # "-"
    BY <1>2, <1>5, NumeralFacts DEF CharAt
<1>7. /\ text \in Seq(Decimals \cup {sign}) /\ Len(text) = l + 1 /\ text[1] = sign
      /\ \A k \in 1..l : text[k + 1] = digits[k]
    BY <1>2
<1>8. \A k \in 2..(l + 1) : text[k] = digits[k - 1] /\ text[k] # Blank
    <2> SUFFICES ASSUME NEW k \in 2..(l + 1)  PROVE text[k] = digits[k - 1] /\ text[k] # Blank
        OBVIOUS
    <2>1. k - 1 \in 1..l /\ (k - 1) + 1 = k
        BY <1>2
    <2> QED BY <1>5, <1>7, <2>1
<1>9. SubSeq(text, 2, l + 1) = digits /\ Tail(text) = digits
    BY <1>2, <1>7, <1>8
<1> HIDE DEF l, text
<1>10. /\ value >= 0 => InRange(n, FALSE, -ValueMax - 1, ValueMax) = Gives(value)
       /\ value < 0 => InRange(n, TRUE, -ValueMax - 1, ValueMax) = Gives(value)
    BY <1>1, <1>n DEF InRange
<1>11. CASE value >= 0
    <2>1. Trim(text) = digits
        <3>1. 2 \in DOMAIN text /\ l + 1 \in DOMAIN text /\ text[2] # Blank /\ text[l + 1] # Blank
            BY <1>2, <1>7, <1>8
        <3>2. \A i \in DOMAIN text : text[i] # Blank => 2 <= i /\ i <= l + 1
            BY <1>1, <1>2, <1>7, <1>11
        <3> QED BY <1>7, <1>9, <3>1, <3>2, TrimIs
    <2>2. Signed(digits, -ValueMax - 1, ValueMax) = InRange(n, FALSE, -ValueMax - 1, ValueMax)
        <3>1. CharAt(digits, 1) \notin {"+", "-"} /\ (CharAt(digits, 1) = "-") = FALSE
            BY <1>6
        <3>2. Limit(FALSE) = limit
            BY <1>1, <1>n, <1>11 DEF Limit
        <3> QED BY <1>4, <3>1, <3>2 DEF Signed
    <2> QED BY <1>1, <1>3, <1>10, <1>11, <2>1, <2>2 DEF ValueLongInteger
<1>12. CASE value < 0
    <2>1. text[1] = "-" /\ "-" # Blank
        <3>1. "-" # Blank
            BY Zenon DEF Blank
        <3> QED BY <1>7, <1>12, <3>1
    <2>2. Trim(text) = text
        <3>1. 1 \in DOMAIN text /\ l + 1 \in DOMAIN text /\ text[l + 1] # Blank
            BY <1>2, <1>7, <1>8
        <3>2. \A i \in DOMAIN text : 1 <= i /\ i <= l + 1
            BY <1>2, <1>7
        <3>3. Trim(text) = SubSeq(text, 1, l + 1)
            BY <1>7, <2>1, <3>1, <3>2, TrimIs
        <3> QED BY <1>2, <1>7, <3>3
    <2>3. CharAt(text, 1) = "-"
        BY <1>2, <1>7, <2>1 DEF CharAt
    <2>4. Signed(text, -ValueMax - 1, ValueMax) = InRange(n, TRUE, -ValueMax - 1, ValueMax)
        BY <1>1, <1>4, <1>9, <1>n, <1>12, <2>3 DEF Signed, Limit
    <2> QED BY <1>1, <1>3, <1>10, <1>12, <2>2, <2>4 DEF ValueLongInteger
<1> QED BY <1>1, <1>11, <1>12

\* A character, even a blank or a quote, stands between two quotes.
LEMMA CharacterIsRead ==
    ASSUME NEW value
    PROVE  ValueCharacter(ImageText("character", value)) = Gives(value)
<1> DEFINE text == <<Quote, value, Quote>>
<1>1. ImageText("character", value) = text
    BY DEF ImageText
<1>2. Quote # Blank
    BY Zenon DEF Quote, Blank
<1>3. /\ text \in Seq({Quote, value}) /\ Len(text) = 3 /\ DOMAIN text = 1..3
      /\ text[1] = Quote /\ text[2] = value /\ text[3] = Quote
    OBVIOUS
<1> HIDE DEF text
<1>4. Trim(text) = SubSeq(text, 1, 3)
    <2>1. 1 \in DOMAIN text /\ 3 \in DOMAIN text /\ \A i \in DOMAIN text : 1 <= i /\ i <= 3
        BY <1>3
    <2> QED BY <1>2, <1>3, <2>1, TrimIs
<1>5. Trim(text) = text
    BY <1>3, <1>4
<1>6. CharAt(text, 1) = Quote /\ CharAt(text, 3) = Quote
    BY <1>3 DEF CharAt
<1> QED BY <1>1, <1>3, <1>5, <1>6 DEF ValueCharacter

\* A literal in capitals has the same capitals, and no blank.
LEMMA UpperTwice == \A c \in STRING : Upper(Upper(c)) = Upper(c) /\ (c # Blank => Upper(c) # Blank)
<1> SUFFICES ASSUME NEW c \in STRING  PROVE Upper(Upper(c)) = Upper(c) /\ (c # Blank => Upper(c) # Blank)
    OBVIOUS
<1>1. "A" # Blank /\ "E" # Blank
    BY Zenon DEF Blank
<1>2. CASE c = "a"
    BY <1>1, <1>2 DEF Upper
<1>3. CASE c = "e"
    BY <1>1, <1>3 DEF Upper
<1>4. CASE c # "a" /\ c # "e"
    BY <1>4 DEF Upper
<1> QED BY <1>2, <1>3, <1>4

\* The literal is the only one with its capitals.
LEMMA LiteralIsRead ==
    ASSUME NEW value \in 0..(Len(Names) - 1)
    PROVE  ValueEnum(ImageText("enum", value)) = Gives(value)
<1> DEFINE k == value + 1
           name == Names[k]
           text == Uppercase(name)
           l == Len(name)
           S == STRING \ {Blank}
<1>1. Names \in Seq(Seq(S) \ {<<>>})
    BY ImagedAssumption
<1>2. Len(Names) \in Nat /\ DOMAIN Names = 1..Len(Names)
    BY <1>1
<1>3. k \in DOMAIN Names /\ k - 1 = value
    BY <1>2
<1>4. ImageText("enum", value) = text
    BY DEF ImageText
<1>5. name \in Seq(S) /\ name # <<>>
    BY <1>1, <1>2, <1>3
<1>6. l \in Nat /\ l >= 1 /\ DOMAIN name = 1..l
    BY <1>5
<1>7. \A i \in 1..l : name[i] \in STRING /\ name[i] # Blank
    BY <1>5, <1>6
<1> HIDE DEF k, name, S
<1>8. text = [i \in 1..l |-> Upper(name[i])]
    BY <1>6 DEF Uppercase
<1> HIDE DEF l
<1>9. \A i \in 1..l : text[i] # Blank
    BY <1>7, <1>8, UpperTwice
<1>10. text \in Seq({text[i] : i \in 1..l}) /\ Len(text) = l /\ DOMAIN text = 1..l
    BY <1>6, <1>8
<1>11. Uppercase(text) = text
    <2>1. Uppercase(text) = [i \in 1..l |-> Upper(text[i])]
        BY <1>10 DEF Uppercase
    <2>2. \A i \in 1..l : Upper(text[i]) = text[i]
        BY <1>7, <1>8, UpperTwice
    <2> QED BY <1>8, <2>1, <2>2
<1> HIDE DEF text
<1>12. Trim(text) = text
    <2>1. 1 \in DOMAIN text /\ l \in DOMAIN text /\ text[1] # Blank /\ text[l] # Blank
          /\ \A i \in DOMAIN text : 1 <= i /\ i <= l
        BY <1>6, <1>9, <1>10
    <2>2. Trim(text) = SubSeq(text, 1, l)
        BY <1>10, <2>1, TrimIs
    <2> QED BY <1>6, <1>10, <2>2
<1> DEFINE same == {i \in DOMAIN Names : Uppercase(Names[i]) = Uppercase(Trim(text))}
<1>13. same = {k}
    <2>1. \A i \in DOMAIN Names : Uppercase(Names[i]) = Uppercase(Names[k]) => i = k
        BY <1>3, ImagedAssumption
    <2>2. Uppercase(Names[k]) = Uppercase(Trim(text))
        BY <1>11, <1>12 DEF text, name
    <2> QED BY <1>3, <2>1, <2>2
<1>14. ValueEnum(text) = IF same = {} THEN Fails ELSE Gives((CHOOSE i \in same : \A j \in same : i <= j) - 1)
    BY DEF ValueEnum
<1> HIDE DEF same
<1>15. (CHOOSE i \in same : \A j \in same : i <= j) = k
    BY <1>2, <1>3, <1>13
<1> QED BY <1>3, <1>4, <1>13, <1>14, <1>15

\* Its image has as many characters.
LEMMA LiteralIsAsLong ==
    ASSUME NEW value \in 0..(Len(Names) - 1)
    PROVE  Len(Uppercase(Names[value + 1])) = Len(Names[value + 1])
<1> DEFINE name == Names[value + 1]
<1>1. Names \in Seq(Seq(STRING \ {Blank}) \ {<<>>})
    BY ImagedAssumption
<1>2. Len(Names) \in Nat /\ DOMAIN Names = 1..Len(Names)
    BY <1>1
<1>3. name \in Seq(STRING \ {Blank})
    BY <1>1, <1>2
<1> HIDE DEF name
<1>4. Len(name) \in Nat /\ DOMAIN name = 1..Len(name)
    BY <1>3
<1>5. Uppercase(name) = [j \in 1..Len(name) |-> Upper(name[j])]
    BY <1>4 DEF Uppercase
<1>6. Len(Uppercase(name)) = Len(name)
    BY <1>4, <1>5
<1> QED BY <1>6 DEF name

Given == {[maker |-> i.maker, value |-> i.value, buffer |-> b] : i \in Imaged, b \in 0..(Buffers - 1)}
Texts == {<<>>} \cup {Stored(ImageText(i.maker, i.value)) : i \in Imaged}

\* How many images the function that made the k-th of h has made since.
Since(h, k) == Cardinality({j \in DOMAIN h : j > k /\ h[j].maker = h[k].maker})

ImageTypeOK ==
    /\ held \in Seq(Given)
    /\ nextBuffer \in [Makers -> 0..(Buffers - 1)]
    /\ buffers \in [Makers -> [0..(Buffers - 1) -> Texts]]

\* So many buffers further on is the one that is next.
InTheRing(k) ==
    LET onward == held[k].buffer + 1 + Since(held, k) IN
    Since(held, k) < Buffers =>
        /\ nextBuffer[held[k].maker] = IF onward < Buffers THEN onward ELSE onward - Buffers
        /\ buffers[held[k].maker][held[k].buffer] = Stored(ImageText(held[k].maker, held[k].value))

ImageInv == ImageTypeOK /\ \A k \in DOMAIN held : InTheRing(k)

\* One more image counts for the function that made it.
LEMMA OneMoreSince ==
    ASSUME NEW h \in Seq(Given), NEW x \in Given
    PROVE  /\ \A k \in DOMAIN h :
                 /\ Since(h, k) \in Nat
                 /\ Since(Append(h, x), k) = IF h[k].maker = x.maker THEN Since(h, k) + 1 ELSE Since(h, k)
           /\ Since(Append(h, x), Len(h) + 1) = 0
<1> DEFINE n == Len(h)
           more == Append(h, x)
<1>1. n \in Nat /\ DOMAIN h = 1..n /\ DOMAIN more = 1..(n + 1) /\ more[n + 1] = x /\ \A j \in 1..n : more[j] = h[j]
    OBVIOUS
<1> HIDE DEF n, more
<1>2. ASSUME NEW k \in 1..n
      PROVE  /\ Since(h, k) \in Nat
             /\ Since(more, k) = IF h[k].maker = x.maker THEN Since(h, k) + 1 ELSE Since(h, k)
    <2> DEFINE later == {j \in DOMAIN h : j > k /\ h[j].maker = h[k].maker}
               laterOf == {j \in DOMAIN more : j > k /\ more[j].maker = more[k].maker}
    <2>1. Since(h, k) = Cardinality(later) /\ Since(more, k) = Cardinality(laterOf)
        BY DEF Since
    <2>2. later \in SUBSET (1..n) /\ n + 1 \notin later
        BY <1>1
    <2>3. laterOf = IF h[k].maker = x.maker THEN later \cup {n + 1} ELSE later
        <3>1. n + 1 > k
            BY <1>1
        <3>2. \A j \in 1..(n + 1) : j \in 1..n \/ j = n + 1
            BY <1>1
        <3>3. \A j \in 1..n : j \in 1..(n + 1)
            BY <1>1
        <3>4. n + 1 \in 1..(n + 1)
            BY <1>1
        <3> QED BY <1>1, <3>1, <3>2, <3>3, <3>4
    <2> HIDE DEF later, laterOf
    <2>4. IsFiniteSet(later)
        <3>1. IsFiniteSet(1..n)
            BY <1>1, FS_Interval
        <3> QED BY <2>2, <3>1, FS_Subset
    <2>5. Cardinality(later) \in Nat
        BY <2>4, FS_CardinalityType
    <2>6. Cardinality(later \cup {n + 1}) = Cardinality(later) + 1
        BY <2>2, <2>4, FS_AddElement
    <2> QED BY <2>1, <2>3, <2>5, <2>6
<1>3. Since(more, n + 1) = 0
    <2>1. {j \in DOMAIN more : j > n + 1 /\ more[j].maker = more[n + 1].maker} = {}
        BY <1>1
    <2>2. Cardinality({}) = 0
        BY FS_EmptySet
    <2> QED BY <2>1, <2>2 DEF Since
<1> QED BY <1>1, <1>2, <1>3 DEF more, n

\* Behind the last buffer comes the first.
LEMMA Around ==
    ASSUME NEW b \in 0..(Buffers - 1)
    PROVE  BufferAfter(b) = (IF b + 1 < Buffers THEN b + 1 ELSE 0)
<1>1. Buffers \in Nat \ {0}
    BY ImageAssumption
<1>2. CASE b + 1 < Buffers
    BY <1>1, <1>2 DEF BufferAfter
<1>3. CASE ~(b + 1 < Buffers)
    <2>1. b + 1 = Buffers
        BY <1>1, <1>3
    <2>2. Buffers % Buffers = 0
        BY <1>1
    <2> QED BY <1>1, <1>3, <2>1, <2>2 DEF BufferAfter
<1> QED BY <1>2, <1>3

\* Nothing was handed out yet.
LEMMA ImageStarts == ImageInit => ImageInv
<1> SUFFICES ASSUME ImageInit  PROVE ImageInv
    OBVIOUS
<1>1. Buffers \in Nat \ {0} /\ 0 \in 0..(Buffers - 1)
    BY ImageAssumption
<1>2. held = <<>> /\ DOMAIN held = {}
    BY DEF ImageInit
<1>3. nextBuffer \in [Makers -> 0..(Buffers - 1)]
    BY <1>1 DEF ImageInit
<1>4. buffers \in [Makers -> [0..(Buffers - 1) -> Texts]]
    BY DEF ImageInit, Texts
<1> QED BY <1>2, <1>3, <1>4 DEF ImageInv, ImageTypeOK

\* The buffer written to is the one handed out longest ago.
LEMMA ImageKeeps == ImageInv /\ [ImageNext]_imageVars => ImageInv'
<1> SUFFICES ASSUME ImageInv, [ImageNext]_imageVars  PROVE ImageInv'
    OBVIOUS
<1>1. CASE UNCHANGED imageVars
    BY <1>1 DEF ImageInv, ImageTypeOK, InTheRing, imageVars
<1>2. CASE ImageNext
    <2>1. PICK i \in Imaged : TakeImage(i.maker, i.value)
        BY <1>2 DEF ImageNext
    <2> DEFINE m == i.maker
               b == nextBuffer[m]
               x == [maker |-> m, value |-> i.value, buffer |-> b]
               text == Stored(ImageText(m, i.value))
    <2>n. PICK n : n = Len(held)
        OBVIOUS
    <2>2. Buffers \in Nat \ {0}
        BY ImageAssumption
    <2>3. m \in Makers
        BY ImagedAssumption DEF Makers
    <2>4. /\ held \in Seq(Given) /\ nextBuffer \in [Makers -> 0..(Buffers - 1)]
          /\ buffers \in [Makers -> [0..(Buffers - 1) -> Texts]]
        BY DEF ImageInv, ImageTypeOK
    <2>5. b \in 0..(Buffers - 1) /\ text \in Texts
        BY <2>3, <2>4 DEF Texts
    <2>6. x \in Given
        BY <2>5 DEF Given
    <2>7. /\ held' = Append(held, x)
          /\ buffers' = [buffers EXCEPT ![m][b] = text]
          /\ nextBuffer' = [nextBuffer EXCEPT ![m] = BufferAfter(b)]
        BY <2>1, <2>3, <2>4 DEF TakeImage
    <2>8. x.maker = m /\ x.value = i.value /\ x.buffer = b
        OBVIOUS
    <2>9. BufferAfter(b) = (IF b + 1 < Buffers THEN b + 1 ELSE 0)
        BY <2>5, Around
    <2>10. BufferAfter(b) \in 0..(Buffers - 1)
        BY <2>2, <2>5, <2>9
    <2>t. text = Stored(ImageText(m, i.value))
        OBVIOUS
    <2> HIDE DEF m, b, x, text
    <2>11. ImageTypeOK'
        BY <2>3, <2>4, <2>5, <2>6, <2>7, <2>10 DEF ImageTypeOK
    <2>12. /\ n \in Nat /\ DOMAIN held = 1..n /\ DOMAIN held' = 1..(n + 1)
           /\ held'[n + 1] = x /\ \A k \in 1..n : held'[k] = held[k]
        BY <2>n, <2>4, <2>6, <2>7
    <2>13. /\ \A k \in 1..n :
                /\ Since(held, k) \in Nat
                /\ Since(held', k) = IF held[k].maker = m THEN Since(held, k) + 1 ELSE Since(held, k)
           /\ Since(held', n + 1) = 0
        <3>1. /\ \A k \in DOMAIN held :
                    /\ Since(held, k) \in Nat
                    /\ Since(Append(held, x), k) =
                           IF held[k].maker = x.maker THEN Since(held, k) + 1 ELSE Since(held, k)
              /\ Since(Append(held, x), Len(held) + 1) = 0
            BY <2>4, <2>6, OneMoreSince
        <3> QED BY <2>n, <2>7, <2>8, <2>12, <3>1
    <2>14. /\ nextBuffer'[m] = BufferAfter(b) /\ buffers'[m][b] = text
           /\ \A c \in 0..(Buffers - 1) : c # b => buffers'[m][c] = buffers[m][c]
           /\ \A o \in Makers : o # m => nextBuffer'[o] = nextBuffer[o] /\ buffers'[o] = buffers[o]
        BY <2>3, <2>4, <2>5, <2>7
    <2>15. InTheRing(n + 1)'
        BY <2>t, <2>2, <2>5, <2>8, <2>9, <2>12, <2>13, <2>14 DEF InTheRing
    <2>16. ASSUME NEW k \in 1..n  PROVE InTheRing(k)'
        <3>h. PICK h : h = held[k]
            OBVIOUS
        <3>1. h \in Given
            BY <2>4, <2>12, <3>h
        <3>2. h.buffer \in 0..(Buffers - 1) /\ h.maker \in Makers
            BY <3>1, ImagedAssumption DEF Given, Makers
        <3>3. InTheRing(k) /\ held'[k] = h /\ held[k] = h
            BY <2>12, <3>h DEF ImageInv
        <3>4. CASE h.maker = m
            <4>1. Since(held', k) = Since(held, k) + 1 /\ Since(held, k) \in Nat
                BY <2>13, <3>3, <3>4
            <4> SUFFICES ASSUME Since(held', k) < Buffers
                         PROVE  /\ nextBuffer'[m] = IF h.buffer + 1 + Since(held', k) < Buffers
                                                    THEN h.buffer + 1 + Since(held', k)
                                                    ELSE h.buffer + 1 + Since(held', k) - Buffers
                                /\ buffers'[m][h.buffer] = Stored(ImageText(h.maker, h.value))
                BY <2>2, <3>2, <3>3, <3>4, <4>1 DEF InTheRing
            <4>2. /\ Since(held, k) < Buffers /\ Since(held, k) + 1 < Buffers
                BY <2>2, <4>1
            <4>3. /\ nextBuffer[m] = IF h.buffer + 1 + Since(held, k) < Buffers THEN h.buffer + 1 + Since(held, k)
                                     ELSE h.buffer + 1 + Since(held, k) - Buffers
                  /\ buffers[m][h.buffer] = Stored(ImageText(h.maker, h.value))
                <5>1. InTheRing(k) /\ held[k] = h /\ held[k].maker = m
                    BY <3>3, <3>4
                <5> QED BY <2>2, <3>2, <4>1, <4>2, <5>1 DEF InTheRing
            <4>b. b = nextBuffer[m]
                BY DEF b
            <4>4. h.buffer # b
                BY <2>2, <3>2, <4>1, <4>2, <4>3, <4>b
            <4> QED BY <2>2, <2>9, <2>14, <3>2, <4>1, <4>2, <4>3, <4>4, <4>b
        <3>5. CASE h.maker # m
            <4>1. Since(held', k) = Since(held, k)
                BY <2>13, <3>3, <3>5
            <4> QED BY <2>14, <3>2, <3>3, <3>5, <4>1 DEF InTheRing
        <3> QED BY <3>4, <3>5
    <2>17. \A k \in 1..(n + 1) : k \in 1..n \/ k = n + 1
        BY <2>12
    <2>18. \A k \in DOMAIN held' : InTheRing(k)'
        BY <2>12, <2>15, <2>16, <2>17
    <2> QED BY <2>11, <2>18 DEF ImageInv
<1> QED BY <1>1, <1>2

\* A function that has not come round yet has left the image alone.
LEMMA StillThere ==
    ASSUME ImageInv, NEW k \in DOMAIN held, Since(held, k) < Buffers
    PROVE  /\ buffers[held[k].maker][held[k].buffer] = Stored(ImageText(held[k].maker, held[k].value))
           /\ held[k].maker # "enum" => Len(ImageText(held[k].maker, held[k].value)) < BufferSize
           /\ \/ held[k].maker = "integer" /\ held[k].value \in (-ValueMax - 1)..ValueMax
              \/ held[k].maker = "enum" /\ held[k].value \in Int
              \/ held[k].maker = "character"
<1>1. held[k] \in Given
    BY DEF ImageInv, ImageTypeOK
<1>2. PICK i \in Imaged : held[k].maker = i.maker /\ held[k].value = i.value
    BY <1>1 DEF Given
<1>3. held[k].maker # "enum" => Len(ImageText(held[k].maker, held[k].value)) < BufferSize
    BY <1>2, ImagedAssumption
<1>4. buffers[held[k].maker][held[k].buffer] = Stored(ImageText(held[k].maker, held[k].value))
    <2>1. InTheRing(k)
        BY DEF ImageInv
    <2>2. Since(held, k) \in Nat /\ Buffers \in Nat /\ held[k].buffer \in Int
        <3>1. Since(held, k) \in Nat
            BY <1>1, OneMoreSince DEF ImageInv, ImageTypeOK
        <3>2. held[k].buffer \in Int
            BY <1>1 DEF Given
        <3> QED BY <3>1, <3>2, ImageAssumption
    <2> QED BY <2>1, <2>2 DEF InTheRing
<1>5. \/ held[k].maker = "integer" /\ held[k].value \in (-ValueMax - 1)..ValueMax
      \/ held[k].maker = "enum" /\ held[k].value \in Int
      \/ held[k].maker = "character"
    BY <1>2, ImagedAssumption
<1> QED BY <1>3, <1>4, <1>5

\* What is in a buffer is the image of its value, and is read as that value.
LEMMA ReadsBack == ImageInv => ImagesIntact
<1> SUFFICES ASSUME ImageInv, NEW i \in DOMAIN held, Since(held, i) < Buffers
             PROVE  LET text == buffers[held[i].maker][held[i].buffer] IN
                    CASE held[i].maker = "integer" ->
                            ValueLongInteger(text, -ValueMax - 1, ValueMax) = Gives(held[i].value)
                      [] held[i].maker = "character" -> ValueCharacter(text) = Gives(held[i].value)
                      [] held[i].maker = "enum" ->
                            IF held[i].value \notin 0..(Len(Names) - 1) THEN text = <<>>
                            ELSE Len(Names[held[i].value + 1]) < BufferSize =>
                                    ValueEnum(text) = Gives(held[i].value)
    BY DEF ImagesIntact, Since
<1> DEFINE maker == held[i].maker
           value == held[i].value
           text == buffers[held[i].maker][held[i].buffer]
<1>1. text = Stored(ImageText(maker, value)) /\ (maker # "enum" => Len(ImageText(maker, value)) < BufferSize)
    BY StillThere
<1>2. \/ maker = "integer" /\ value \in (-ValueMax - 1)..ValueMax
      \/ maker = "enum" /\ value \in Int
      \/ maker = "character"
    BY StillThere
<1> HIDE DEF maker, value, text
<1>3. Len(ImageText(maker, value)) < BufferSize => text = ImageText(maker, value)
    BY <1>1 DEF Stored
<1>4. maker = "integer" => ValueLongInteger(text, -ValueMax - 1, ValueMax) = Gives(value)
    BY <1>1, <1>2, <1>3, NumberIsRead
<1>5. maker = "character" => ValueCharacter(text) = Gives(value)
    BY <1>1, <1>3, CharacterIsRead
<1>6. ASSUME maker = "enum"
      PROVE  IF value \notin 0..(Len(Names) - 1) THEN text = <<>>
             ELSE Len(Names[value + 1]) < BufferSize => ValueEnum(text) = Gives(value)
    <2>1. CASE value \notin 0..(Len(Names) - 1)
        <3>1. ImageText(maker, value) = <<>>
            BY <1>6, <2>1 DEF ImageText
        <3>2. Len(ImageText(maker, value)) < BufferSize
            BY <3>1, ImageAssumption
        <3> QED BY <1>3, <2>1, <3>1, <3>2
    <2>2. CASE value \in 0..(Len(Names) - 1)
        <3>1. ImageText(maker, value) = Uppercase(Names[value + 1])
            BY <1>6, <2>2 DEF ImageText
        <3>2. Len(ImageText(maker, value)) = Len(Names[value + 1])
            BY <2>2, <3>1, LiteralIsAsLong
        <3> QED BY <1>3, <1>6, <2>2, <3>2, LiteralIsRead
    <2> QED BY <2>1, <2>2
<1> QED BY <1>2, <1>4, <1>5, <1>6 DEF maker, value, text

\* The buffers go round: each image is where the turn leaves it.
THEOREM ImageInvHolds == ImageSpec => []ImageInv
<1>1. ImageInv /\ [ImageNext]_imageVars => ImageInv'
    BY ImageKeeps
<1> QED BY <1>1, ImageStarts, PTL DEF ImageSpec

\* 'Value of an image is the value, for every value of a long long, every literal
\* that fits a buffer and every character, while fewer images than there are buffers were taken since.
THEOREM ImagesAreIntact == ImageSpec => []ImagesIntact
<1>1. ImageInv => ImagesIntact
    BY ReadsBack
<1> QED BY <1>1, ImageInvHolds, PTL
=============================================================================

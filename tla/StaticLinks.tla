---------------------------- MODULE StaticLinks ----------------------------
(***************************************************************************)
(* How compiled subprograms reach the variables of the subprograms they    *)
(* are nested in (src/adac/emitter/QbeStorage.cpp, QbeCalls.cpp,           *)
(* QbeFunctions.cpp).  A subprogram that declares others keeps a frame,    *)
(* whose first word is the static link its activation was called with; a   *)
(* caller finds the link to pass, and any code the variables it shares, by *)
(* walking that chain from its own, a load of a first word at a time.      *)
(***************************************************************************)
EXTENDS Integers, Sequences

CONSTANTS
    Subprograms,
    None,
    Owner,      \* The subprogram each is declared in, or None at library level.
    Level,      \* Symbol::level: how many subprograms enclose it.
    Enclosing,  \* Which ones those are.
    MaxDepth    \* Bounds the activations at a time.

ASSUME NestingAssumption ==
    /\ None \notin Subprograms
    /\ Owner \in [Subprograms -> Subprograms \cup {None}]
    /\ Level \in [Subprograms -> Nat]
    /\ Enclosing \in [Subprograms -> SUBSET Subprograms]
    /\ \A s \in Subprograms :
          /\ IF Owner[s] = None THEN Level[s] = 0 /\ Enclosing[s] = {}
             ELSE /\ Level[s] = Level[Owner[s]] + 1
                  /\ Enclosing[s] = Enclosing[Owner[s]] \cup {Owner[s]}
          /\ \A u \in Enclosing[s] : Level[u] < Level[s] /\ Enclosing[u] \subseteq Enclosing[s]
    /\ MaxDepth \in Nat

VARIABLES
    stack,  \* The activations, innermost last: [sub, link]; the frame of the
            \* activation at i has address i, and 0 is the null address.
    walk    \* The search for a frame the running code is in: [goal, callee, at, loads]
            \* with the subprogram whose frame it is, the one to be called with it
            \* (None for the address of a variable), where it is and how many loads
            \* are left.  There is none when goal is None.

linkVars == <<stack, walk>>

Top == Len(stack)
Running == stack[Top].sub
Idle == [goal |-> None, callee |-> None, at |-> 0, loads |-> 0]

\* declareSubprogram: what declares a subprogram has a frame, also if none of its
\* variables is used further in, so that a chain of links is never broken.
NeedsFrame(s) == \E t \in Subprograms : Owner[t] = s

\* How many loads take a subprogram at level current to the frame of level
\* target; a loop that ran once more would end one level too far out.
OneLoadMore(current, target) == current - target
Loads(current, target) == current - 1 - target

\* staticLinkFor and, for a variable, addressOf: where the walk begins.
StaticLinkFor(s, callee) ==
    LET from(address, n) == [goal |-> s, callee |-> callee, at |-> address, loads |-> n] IN
    CASE Level[s] = Level[Running] -> from(IF NeedsFrame(Running) THEN Top ELSE 0, 0)
      [] Level[s] # Level[Running] /\ Level[Running] = 0 -> from(0, 0)
      [] OTHER -> from(stack[Top].link, Loads(Level[Running], Level[s]))

\* A subprogram can be named where it is declared and inside that.
Call(s) ==
    /\ walk = Idle /\ Top < MaxDepth
    /\ IF Owner[s] = None
       THEN stack' = Append(stack, [sub |-> s, link |-> 0]) /\ UNCHANGED walk
       ELSE /\ stack # <<>> /\ Owner[s] \in Enclosing[Running] \cup {Running}
            /\ walk' = StaticLinkFor(Owner[s], s) /\ UNCHANGED stack

\* A variable of a subprogram around this one is used.
Reach(s) ==
    /\ walk = Idle
    /\ stack # <<>> /\ s \in Enclosing[Running]
    /\ walk' = StaticLinkFor(s, None)
    /\ UNCHANGED stack

\* A null address, or that of something that keeps no link, would give anything.
FirstWord(address) ==
    IF address \in DOMAIN stack /\ NeedsFrame(stack[address].sub) THEN stack[address].link ELSE 0

LoadLink ==
    /\ walk.goal # None /\ walk.loads > 0
    /\ walk' = [walk EXCEPT !.at = FirstWord(walk.at), !.loads = @ - 1]
    /\ UNCHANGED stack

UseFrame ==
    /\ walk.goal # None /\ walk.loads = 0
    /\ stack' = IF walk.callee = None THEN stack ELSE Append(stack, [sub |-> walk.callee, link |-> walk.at])
    /\ walk' = Idle

\* A return, or an exception that leaves the subprogram.
Leave ==
    /\ walk = Idle /\ stack # <<>>
    /\ stack' = SubSeq(stack, 1, Top - 1)
    /\ UNCHANGED walk

LinkInit == stack = <<>> /\ walk = Idle
LinkNext ==
    \/ \E s \in Subprograms : Call(s) \/ Reach(s)
    \/ LoadLink \/ UseFrame \/ Leave
LinkSpec == LinkInit /\ [][LinkNext]_linkVars

-----------------------------------------------------------------------------

\* However deep and recursive the calls, the running subprogram that looks for
\* the frame of one it is nested in, for a variable or to pass it on, ends at the
\* most recent activation of it and loads from live frames on the way: the
\* chain is never broken by a subprogram that keeps no variables of its own and
\* never leads to the variables of an older or an unrelated activation.
LinkIsMostRecent ==
    walk.goal # None =>
        /\ walk.at \in DOMAIN stack /\ NeedsFrame(stack[walk.at].sub)
        /\ walk.loads = 0 =>
              /\ stack[walk.at].sub = walk.goal
              /\ \A j \in (walk.at + 1)..Top : stack[j].sub # walk.goal
=============================================================================

---------------------------- MODULE HandlerSearch ----------------------------
(***************************************************************************)
(* Which handler an exception reaches, by the rule of the language: the    *)
(* innermost enclosing handled sequence that names it, searched through    *)
(* the activation that raised and then its callers.                        *)
(*                                                                         *)
(* regions is a sequence of activations, each a sequence of regions: a     *)
(* handled sequence with the exceptions it handles, the body of a handler  *)
(* with the occurrence it caught, or any other construct.                  *)
(***************************************************************************)
EXTENDS Naturals, Sequences

CONSTANT None   \* No exception.

Plain == [kind |-> "plain", handles |-> {}, occurrence |-> None]

Handled(handles) == [kind |-> "handled", handles |-> handles, occurrence |-> None]

Handler(exception) == [kind |-> "handler", handles |-> {}, occurrence |-> exception]

(* The places an exception could land: activation f, region k. *)
Candidates(regions, exception) ==
  { place \in UNION { {f} \X DOMAIN regions[f] : f \in DOMAIN regions } :
      /\ regions[place[1]][place[2]].kind = "handled"
      /\ exception \in regions[place[1]][place[2]].handles }

IsHandled(regions, exception) == Candidates(regions, exception) # {}

NoDeeper(place, other) ==
  \/ place[1] < other[1]
  \/ place[1] = other[1] /\ place[2] <= other[2]

Deepest(places) ==
  CHOOSE place \in places : \A other \in places : NoDeeper(other, place)

Landing(regions, exception) == Deepest(Candidates(regions, exception))

(* Everything inside the landing place is left; its handler takes over. *)
AfterRaise(regions, exception) ==
  IF ~IsHandled(regions, exception)
  THEN << >>
  ELSE LET f == Landing(regions, exception)[1]
           k == Landing(regions, exception)[2]
       IN  Append(SubSeq(regions, 1, f - 1),
                  Append(SubSeq(regions[f], 1, k - 1), Handler(exception)))

=============================================================================

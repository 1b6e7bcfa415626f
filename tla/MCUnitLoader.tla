---------------------------- MODULE MCUnitLoader ----------------------------
(***************************************************************************)
(* A program of a main procedure, a package P with a child, and a package  *)
(* Q, whose files with each other in every way; E stands for               *)
(* Ada.IO_Exceptions, which withs nothing.                                 *)
(***************************************************************************)
EXTENDS UnitLoader, TLC

CONSTANTS E, Main, P, Child, Q

MCUnits == {E, Main, P, Child, Q}

MCParent == [u \in MCUnits |-> IF u = Child THEN P ELSE NoUnit]

At(u, part) == [unit |-> u, part |-> part]
Plain(f) == [file |-> f, spelled |-> "plain"]

(* A file that withs nothing or one unit of S, and one that may be missing. *)
Some(f, S) == { f :> << >> } \cup { f :> << u >> : u \in S }
Maybe(f, S) == { << >> } \cup Some(f, S)

Mains == { At(Main, "body") :> text :
             text \in { << Child >>, << P, Q >>, << Q, Child >> } }

Together(A, B) == { a @@ b : a \in A, b \in B }

(* Any of the files may be missing, but for those of E and Main. *)
MCLibraries ==
  Together(Mains,
    Together(Some(At(E, "spec"), {}),
      Together(Together(Maybe(At(P, "spec"), {Child, Q}), Maybe(At(P, "body"), {Q})),
        Together(Together(Some(At(Child, "spec"), {P, Q}), Maybe(At(Child, "body"), {})),
          Together(Maybe(At(Q, "spec"), {P, Child}), Maybe(At(Q, "body"), {P, Child}))))))

(* Whole packages, P and Q, or P with its child, that with each other. *)
Packages(A, B, u) ==
  Together({ At(Main, "body") :> << u >> },
    Together(Some(At(E, "spec"), {}),
      Together(Together(Some(At(A, "spec"), {B}), Some(At(A, "body"), {B})),
               Together(Some(At(B, "spec"), {A}), Some(At(B, "body"), {A})))))

TwoPackages == Packages(P, Q, P)
ParentAndChild == Packages(P, Child, Child)

(* Main alone, or with a file the loader finds as well, before or after it and
   spelled either way. *)
MCCommandLines ==
  { << Plain(At(Main, "body")) >>,
    << Plain(At(Main, "body")), Found(At(Q, "body")) >>,
    << Found(At(Q, "body")), Plain(At(Main, "body")) >>,
    << Plain(At(Main, "body")), Plain(At(P, "body")) >>,
    << Plain(At(Child, "spec")), Plain(At(Main, "body")) >> }

MainAlone == { << Plain(At(Main, "body")) >> }

MCUnreadable == { At(Q, "spec"), At(Q, "body") }

=============================================================================

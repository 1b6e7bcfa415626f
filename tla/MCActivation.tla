---------------------------- MODULE MCActivation ----------------------------
(* Small instances of Activation for TLC. *)
EXTENDS ActivationRefinement, TLC

(* A handler that names one exception, and "when others". *)
NamedOrOthers == { {ProgramError}, Exceptions }

(* Handlers that name what 'Image raises late and let the others by. *)
NamedOnly == { {ConstraintError} }

BlockSymmetry == Permutations(Blocks)

=============================================================================

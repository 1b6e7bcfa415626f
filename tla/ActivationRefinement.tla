------------------------ MODULE ActivationRefinement ------------------------
(***************************************************************************)
(* Activation implements AdaExceptions.  While an exception is on its way  *)
(* the abstract program has already reached the handler, so the mapping    *)
(* looks ahead: it shows where the exception will land from what is still  *)
(* open.  An exception that is pending while ordinary code runs is the     *)
(* abstract program's late one.                                            *)
(***************************************************************************)
EXTENDS Activation

Search == INSTANCE HandlerSearch

(* The emitter's temporaries and checkpoints mean nothing to the language. *)
Region(construct) ==
  CASE construct.kind = "handled" -> Search!Handled(construct.handles)
    [] construct.kind = "handler" -> Search!Handler(construct.occurrence.id)
    [] OTHER -> Search!Plain

RegionsOf(frame) == [i \in DOMAIN frame.open |-> Region(frame.open[i])]

OpenRegions == [f \in DOMAIN stack |-> RegionsOf(stack[f])]

OnItsWay == pc # "run" /\ pending # None

Doomed == OnItsWay /\ ~Search!IsHandled(OpenRegions, pending)

ShownRegions ==
  IF OnItsWay THEN Search!AfterRaise(OpenRegions, pending) ELSE OpenRegions

ShownPhase ==
  CASE Doomed -> "failed"
    [] ~Doomed /\ pc = "stopped" -> "completed"
    [] OTHER -> phase

ShownUnhandled == IF Doomed THEN pending ELSE None

ShownLate == IF pc = "run" THEN pending ELSE None

Abstract == INSTANCE AdaExceptions WITH
  regions <- ShownRegions,
  phase <- ShownPhase,
  unhandled <- ShownUnhandled,
  late <- ShownLate

(***************************************************************************)
(* The flag, the tests behind calls, the dispatch code and the propagating *)
(* returns together deliver every exception to the handler the language    *)
(* names, with what it caught, or end the program with it, save the one    *)
(* 'Image raises untested, which goes to the handler of where it is        *)
(* noticed; and a subprogram that nothing interrupts resumes its caller    *)
(* where it was.                                                           *)
(***************************************************************************)
DeliversExceptions == Abstract!Spec

=============================================================================

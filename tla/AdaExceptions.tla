---------------------------- MODULE AdaExceptions ----------------------------
(***************************************************************************)
(* What compiled programs promise of exceptions.  A raise is one step: it  *)
(* transfers control to the handler module HandlerSearch finds, leaving    *)
(* every activation and region inside it, or ends the program.  There is   *)
(* no propagation and no test behind a call; module Activation, which has  *)
(* both, is shown to implement this one.                                   *)
(*                                                                         *)
(* One exception is not Ada's: the Constraint_Error of 'Image of an        *)
(* enumeration value is noticed late.  The program goes on with it, into   *)
(* regions and calls and out of regions, until it evaluates something that *)
(* is tested or returns: control is transferred from there, to a handler   *)
(* of a region entered in the meantime if that one names it.  Another      *)
(* raise makes it forgotten.                                               *)
(***************************************************************************)
EXTENDS HandlerSearch

CONSTANTS
  Exceptions,   \* The exception identities of the program.
  ConstraintError,
  HandlerSets   \* The exceptions a handled sequence may name.

VARIABLES
  regions,    \* The activations and their open regions, see HandlerSearch.
  phase,      \* elaborate, main, completed, or failed.
  unhandled,  \* The exception that ended the program.
  late        \* What 'Image raised and nothing has noticed yet, or None.

vars == << regions, phase, unhandled, late >>

Init ==
  /\ regions = << << Plain >> >>
  /\ phase = "elaborate"
  /\ unhandled = None
  /\ late = None

Live == phase \in {"elaborate", "main"} /\ regions # << >>

Depth == Len(regions)
Current == regions[Depth]

(* Control goes from those regions to the handler of the exception. *)
TransferFrom(from, exception) ==
  /\ late' = None
  /\ regions' = AfterRaise(from, exception)
  /\ IF IsHandled(from, exception)
     THEN UNCHANGED << phase, unhandled >>
     ELSE phase' = "failed" /\ unhandled' = exception

Enter(region) ==
  /\ Live
  /\ regions' = [regions EXCEPT ![Depth] = Append(@, region)]
  /\ UNCHANGED << phase, unhandled, late >>

(* Completing a construct, or exiting a loop around several. *)
Leave ==
  /\ Live
  /\ \E k \in 1 .. (Len(Current) - 1) :
        regions' = [regions EXCEPT ![Depth] = SubSeq(@, 1, k)]
  /\ UNCHANGED << phase, unhandled, late >>

Call ==
  /\ Live
  /\ regions' = Append(regions, << Plain >>)
  /\ UNCHANGED << phase, unhandled, late >>

Return ==
  /\ Live
  /\ late = None
  /\ regions' = SubSeq(regions, 1, Depth - 1)
  /\ UNCHANGED << phase, unhandled, late >>

Raise(exception) == Live /\ TransferFrom(regions, exception)

(* raise; re-raises what the innermost handler of the activation caught. *)
Reraise ==
  /\ Live
  /\ \E k \in DOMAIN Current :
        /\ Current[k].kind = "handler"
        /\ \A i \in (k + 1) .. Len(Current) : Current[i].kind # "handler"
        /\ Raise(Current[k].occurrence)

RaiseLate ==
  /\ Live
  /\ late' = ConstraintError
  /\ UNCHANGED << regions, phase, unhandled >>

(* A test where the program is, or in the caller it returns to. *)
Notice ==
  /\ Live
  /\ late # None
  /\ \/ TransferFrom(regions, late)
     \/ TransferFrom(SubSeq(regions, 1, Depth - 1), late)

(* The main procedure starts only after elaboration raised nothing. *)
StartMain ==
  /\ phase = "elaborate"
  /\ regions = << >>
  /\ phase' = "main"
  /\ regions' = << << Plain >> >>
  /\ UNCHANGED << unhandled, late >>

Complete ==
  /\ phase = "main"
  /\ regions = << >>
  /\ phase' = "completed"
  /\ UNCHANGED << regions, unhandled, late >>

Next ==
  \/ Enter(Plain)
  \/ \E handles \in HandlerSets : Enter(Handled(handles))
  \/ Leave
  \/ Call
  \/ Return
  \/ \E exception \in Exceptions : Raise(exception)
  \/ Reraise
  \/ RaiseLate
  \/ Notice
  \/ StartMain
  \/ Complete

Spec == Init /\ [][Next]_vars

=============================================================================

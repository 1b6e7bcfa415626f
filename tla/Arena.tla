-------------------------------- MODULE Arena --------------------------------
(***************************************************************************)
(* The allocation lists of runtime/adart.c: the storage of run time sized  *)
(* local arrays and of array temporaries.                                  *)
(*                                                                         *)
(* An owner is the head pointer of a singly linked list of                 *)
(* AdaArrayAllocation nodes, each owning one data buffer.  Here an owner   *)
(* is the sequence of its blocks, oldest first, so that the head of the C  *)
(* list is the last element.  A node and its data are one block: the code  *)
(* never frees one without the other.  A checkpoint is the head pointer    *)
(* read at some moment, which is what the emitted code keeps in a QBE      *)
(* temporary; NoBlock is the null pointer.                                 *)
(***************************************************************************)
EXTENDS Naturals, Sequences

CONSTANTS
  Blocks,   \* The heap blocks the C allocator may hand out.
  NoBlock   \* The null pointer.

ASSUME NoBlockAssumption == NoBlock \notin Blocks

(* The value of the owner pointer: what storageCheckpoint loads. *)
Checkpoint(owner) == IF owner = << >> THEN NoBlock ELSE owner[Len(owner)]

(* __ada_array_local and __ada_array_adopt link a new node at the head. *)
Link(owner, block) == Append(owner, block)

(***************************************************************************)
(* __ada_array_rewind frees nodes from the head until the head is the      *)
(* checkpoint.  Position is how many nodes stay.  A checkpoint that is     *)
(* neither null nor in the list would run the C loop off its end; the      *)
(* invariant CheckpointsLive of module Activation excludes it.             *)
(***************************************************************************)
Position(owner, checkpoint) ==
  IF checkpoint = NoBlock
  THEN 0
  ELSE CHOOSE i \in 1 .. Len(owner) : owner[i] = checkpoint

Rewind(owner, checkpoint) == SubSeq(owner, 1, Position(owner, checkpoint))

Freed(owner, checkpoint) ==
  { owner[i] : i \in (Position(owner, checkpoint) + 1) .. Len(owner) }

(* The blocks linked into an owner's list. *)
Held(owner) == { owner[i] : i \in 1 .. Len(owner) }

(* No node is linked twice. *)
Distinct(owner) == \A i, j \in 1 .. Len(owner) : owner[i] = owner[j] => i = j

(* The loop of __ada_array_rewind meets this checkpoint. *)
Live(owner, checkpoint) == checkpoint \in Held(owner) \cup {NoBlock}

=============================================================================

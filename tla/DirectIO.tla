------------------------------ MODULE DirectIO ------------------------------
(***************************************************************************)
(* What Ada's Direct_IO promises: a file is a sequence of elements, counted *)
(* from one, with a current index that every access sets and then moves on. *)
(***************************************************************************)
EXTENDS Integers, Sequences

CONSTANTS
    Elements,   \* The values of Element_Type.
    Hole,       \* What an element never written reads as.
    MaxIndex    \* Bounds the indexes used.

VARIABLES
    mode,       \* In_File, Inout_File or Out_File
    elements,   \* the file
    index,      \* the current index
    result      \* of the last operation: [operation, item, number, raised]

directIOVars == <<mode, elements, index, result>>

Item(op, x) == [operation |-> op, item |-> x, number |-> 0, raised |-> "none"]
Number(op, n) == [operation |-> op, item |-> Hole, number |-> n, raised |-> "none"]
Raise(op, error) == [operation |-> op, item |-> Hole, number |-> 0, raised |-> error]

Read(from) ==
    IF from <= Len(elements)
    THEN index' = from + 1 /\ result' = Item("Read", elements[from]) /\ UNCHANGED <<mode, elements>>
    ELSE index' = from /\ result' = Raise("Read", "END_ERROR") /\ UNCHANGED <<mode, elements>>

Write(x, to) ==
    /\ elements' = [i \in 1..(IF to > Len(elements) THEN to ELSE Len(elements)) |->
                       CASE i = to -> x
                         [] i # to /\ i <= Len(elements) -> elements[i]
                         [] OTHER -> Hole]
    /\ index' = to + 1
    /\ result' = Item("Write", Hole)
    /\ UNCHANGED mode

Refused(op) == result' = Raise(op, "MODE_ERROR") /\ UNCHANGED <<mode, elements, index>>
Asked(op, n) == result' = Number(op, n) /\ UNCHANGED <<mode, elements, index>>

Next ==
    \/ mode # "Out_File" /\ \E from \in 1..MaxIndex : Read(from)
    \/ mode # "Out_File" /\ Read(index)
    \/ mode # "In_File" /\ \E x \in Elements, to \in 1..MaxIndex : Write(x, to)
    \/ mode # "In_File" /\ \E x \in Elements : Write(x, index)
    \/ mode = "Out_File" /\ (Refused("Read") \/ Refused("End_Of_File"))
    \/ mode = "In_File" /\ Refused("Write")
    \/ \E to \in 1..MaxIndex :
          index' = to /\ result' = Item("Set_Index", Hole) /\ UNCHANGED <<mode, elements>>
    \/ Asked("Index", index)
    \/ Asked("Size", Len(elements))
    \/ mode # "Out_File" /\ Asked("End_Of_File", IF index > Len(elements) THEN 1 ELSE 0)
    \/ mode' \in {"In_File", "Inout_File"} /\ index' = 1 /\ UNCHANGED <<elements, result>>
    \/ mode' = "Out_File" /\ index' = 1 /\ elements' \in {<<>>, elements} /\ UNCHANGED result

Init ==
    /\ mode \in {"In_File", "Inout_File", "Out_File"}
    /\ elements = <<>> /\ index = 1
    /\ result = Item("Open", Hole)
Spec == Init /\ [][Next]_directIOVars
=============================================================================

---------------------------- MODULE DirectFiles ----------------------------
(***************************************************************************)
(* Direct_IO and Sequential_IO as they are run (src/runtime/adaio.c): a    *)
(* file of bytes with one position, which elements of ElementSize bytes    *)
(* are read from and written to.  An index of zero, which is all that      *)
(* Sequential_IO uses, stands for wherever the file is.  The program       *)
(* implements the Direct_IO of module DirectIO.  Reads and writes may      *)
(* follow one another without a seek, as the C library it runs on allows.  *)
(***************************************************************************)
EXTENDS Integers, Sequences

CONSTANTS
    ElementValues,  \* The elements, as sequences of ElementSize bytes.
    ElementSize,
    MaxIndex,       \* Bounds the indexes used,
    MaxBytes        \* and the length of the file.

ASSUME DirectAssumption ==
    /\ ElementSize \in Nat \ {0}
    /\ \A x \in ElementValues : x \in Seq(Nat) /\ Len(x) = ElementSize
    /\ MaxIndex \in Nat /\ MaxBytes \in Nat

VARIABLES
    directMode,     \* ADA_MODE_IN, ADA_MODE_INOUT or ADA_MODE_OUT
    bytes,          \* what the file holds
    offset,         \* ftell
    direct          \* the result of the last operation: [operation, item, number, raised]

directVars == <<directMode, bytes, offset, direct>>

Zeros(n) == [i \in 1..n |-> 0]
NoItem == Zeros(ElementSize)
Delivered(op, x) == [operation |-> op, item |-> x, number |-> 0, raised |-> "none"]
Counted(op, n) == [operation |-> op, item |-> NoItem, number |-> n, raised |-> "none"]
Refusal(op, error) == [operation |-> op, item |-> NoItem, number |-> 0, raised |-> error]

\* Ada counts elements from one.
OffsetFromZero(index) == index * ElementSize
OffsetOf(index) == (index - 1) * ElementSize

\* fseek, unless the index says to stay.
Sought(index) == IF index > 0 THEN OffsetOf(index) ELSE offset

\* fread: fewer bytes than asked for are the end of the file.
ReadAt(index) ==
    LET start == Sought(index)
        got == IF start + ElementSize <= Len(bytes) THEN ElementSize
               ELSE IF start < Len(bytes) THEN Len(bytes) - start ELSE 0
    IN  /\ offset' = start + got
        /\ direct' = IF got = ElementSize
                     THEN Delivered("Read", SubSeq(bytes, start + 1, start + got))
                     ELSE Refusal("Read", "END_ERROR")
        /\ UNCHANGED <<directMode, bytes>>

\* fwrite: what lies between the end of the file and the offset becomes zero.
WriteAt(item, index) ==
    LET start == Sought(index)
        padded == IF start > Len(bytes) THEN bytes \o Zeros(start - Len(bytes)) ELSE bytes
    IN  /\ start + ElementSize <= MaxBytes
        /\ bytes' = SubSeq(padded, 1, start) \o item \o SubSeq(padded, start + ElementSize + 1, Len(padded))
        /\ offset' = start + ElementSize
        /\ direct' = Delivered("Write", NoItem)
        /\ UNCHANGED directMode

ModeRefuses(op) == direct' = Refusal(op, "MODE_ERROR") /\ UNCHANGED <<directMode, bytes, offset>>

DirectRead(index) == IF directMode = "ADA_MODE_OUT" THEN ModeRefuses("Read") ELSE ReadAt(index)
DirectWrite(item, index) ==
    IF directMode = "ADA_MODE_IN" THEN ModeRefuses("Write") ELSE WriteAt(item, index)

SetIndex(index) ==
    /\ offset' = OffsetOf(index)
    /\ direct' = Delivered("Set_Index", NoItem)
    /\ UNCHANGED <<directMode, bytes>>

IndexOf == (offset \div ElementSize) + 1
SizeOf == Len(bytes) \div ElementSize

AskIndex == direct' = Counted("Index", IndexOf) /\ UNCHANGED <<directMode, bytes, offset>>
\* The end is found by moving there, and the position is put back.
AskSize == direct' = Counted("Size", SizeOf) /\ UNCHANGED <<directMode, bytes, offset>>
EndAt ==
    /\ direct' = Counted("End_Of_File", IF offset >= Len(bytes) THEN 1 ELSE 0)
    /\ UNCHANGED <<directMode, bytes, offset>>
AskEnd == IF directMode = "ADA_MODE_OUT" THEN ModeRefuses("End_Of_File") ELSE EndAt

\* A file with a name is opened anew, which empties it when it will be written
\* only; a scratch file is rewound.
ResetFile ==
    /\ directMode' \in {"ADA_MODE_IN", "ADA_MODE_INOUT", "ADA_MODE_OUT"}
    /\ offset' = 0
    /\ bytes' \in IF directMode' = "ADA_MODE_OUT" THEN {<<>>, bytes} ELSE {bytes}
    /\ UNCHANGED direct

DirectInit ==
    /\ directMode \in {"ADA_MODE_IN", "ADA_MODE_INOUT", "ADA_MODE_OUT"}
    /\ bytes = <<>> /\ offset = 0 /\ direct = Delivered("Open", NoItem)

DirectNext ==
    \/ \E index \in 0..MaxIndex : DirectRead(index) \/ \E x \in ElementValues : DirectWrite(x, index)
    \/ \E index \in 1..MaxIndex : SetIndex(index)
    \/ AskIndex \/ AskSize \/ AskEnd \/ ResetFile

DirectSpec == DirectInit /\ [][DirectNext]_directVars

-----------------------------------------------------------------------------

\* The mode as Ada names it: adaDirectMode.
AdaMode ==
    CASE directMode = "ADA_MODE_IN" -> "In_File"
      [] directMode = "ADA_MODE_INOUT" -> "Inout_File"
      [] OTHER -> "Out_File"

\* The elements that bytes make up.
ElementsOf == [i \in 1..SizeOf |-> SubSeq(bytes, (i - 1) * ElementSize + 1, i * ElementSize)]

Abstract == INSTANCE DirectIO WITH
    Elements <- ElementValues, Hole <- NoItem,
    mode <- AdaMode,
    elements <- ElementsOf,
    index <- IndexOf,
    result <- direct

\* Whatever sequence of reads, writes, moves, questions and resets a program
\* makes, the bytes behave as the file of elements it means: an element read is
\* the one last written at its index, with or without naming it, and a write
\* beyond the end leaves the elements before it readable.
ImplementsDirectIO == Abstract!Spec
=============================================================================

----------------------------- MODULE MCFilePool -----------------------------
(* Small instances of FilePool for TLC. *)
EXTENDS FilePool, TLC

CONSTANTS TextA, TextB   \* Two File_Type objects of Text_IO.

Handles == Permutations({TextA, TextB})

=============================================================================

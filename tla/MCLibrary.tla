------------------------------ MODULE MCLibrary ------------------------------
(* A small instance of Library.                                               *)
EXTENDS Library

CONSTANTS b1, b2

\* One title whose last copy readers race for, one with a copy for each.
MCCopies == [b \in Books |-> IF b = b1 THEN 1 ELSE 2]
=============================================================================

------------------------------- MODULE ListOps -------------------------------
(***************************************************************************)
(* What the code does with lists all over: Vec::retain, Iterator::filter   *)
(* and the WHERE of an ordered query keep some of their members.  It is    *)
(* written as a recursive function of how far the list has been read, and  *)
(* which members stay is a set of places, so that theorems can be stated   *)
(* about it for every list.                                                *)
(***************************************************************************)
EXTENDS Naturals, Sequences

\* The members of a list at some of its places, in the order they have there.
Picked(list, places) ==
    LET upto[i \in 0 .. Len(list)] ==
            IF i = 0 THEN << >>
            ELSE IF i \in places THEN Append(upto[i - 1], list[i]) ELSE upto[i - 1]
    IN  upto[Len(list)]
=============================================================================

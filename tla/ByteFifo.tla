-------------------------------- MODULE ByteFifo --------------------------------
(***************************************************************************)
(* What a cache buffer promises: the bytes put into it, numbered from 1,    *)
(* come out once each and in order.                                         *)
(***************************************************************************)
EXTENDS Integers, Sequences

VARIABLES
    given,  \* number of bytes put so far
    taken   \* the bytes taken so far

UpTo(k) == [i \in 1..k |-> i]

Init == given = 0 /\ taken = <<>>

Put == given' \in Nat /\ given' >= given /\ UNCHANGED taken

Take == \E k \in Len(taken)..given : taken' = UpTo(k) /\ UNCHANGED given

Next == Put \/ Take

Spec == Init /\ [][Next]_<<given, taken>>
=============================================================================

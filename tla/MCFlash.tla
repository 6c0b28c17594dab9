------------------------------ MODULE MCFlash ------------------------------
(* Flash for TLC: ranges that overlap, reach the end, lie beyond it, and an *)
(* empty one.                                                               *)
EXTENDS Flash, TLC

CONSTANTS t1, t2

Request(size, at) == [size |-> size, at |-> at]

SomeRequests == {Request(2, 0), Request(1, 1), Request(2, 2), Request(1, 3), Request(1, 4), Request(0, 1),
                 Request(4, 0)}

ThreadSymmetry == Permutations({t1, t2})
=============================================================================

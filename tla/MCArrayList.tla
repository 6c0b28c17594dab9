---------------------------- MODULE MCArrayList ----------------------------
(* ArrayList for TLC: a list that starts with two slots and is filled to    *)
(* MaxSize, so that it grows, shrinks and is full when an element leaves it. *)
(* The elements are interchangeable.                                        *)
EXTENDS ArrayList, TLC

ElementSymmetry == Permutations(Elements)
=============================================================================

---- MODULE MCIndexGenerations ----
(* IndexGenerations for TLC: two paths, and commits that change one each. *)
EXTENDS IndexGenerations
CONSTANTS p1, p2
MCChanged == [c \in 1..MaxCommit |-> IF c = 1 THEN {p1} ELSE {p2}]
====

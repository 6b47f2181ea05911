------------------------------- MODULE Orders -------------------------------
(***************************************************************************)
(* What the code selects and sorts, without recursion: a set in the order  *)
(* of its elements' places in it, the elements of a sequence at some of    *)
(* its places, and a stable sort.                                          *)
(***************************************************************************)
EXTENDS Integers, Sequences, FiniteSets

Elements(s) == {s[i] : i \in DOMAIN s}

\* The elements of S that come before x, where before is a set of pairs.
Below(x, S, before) == {y \in S : <<y, x>> \in before}

\* The elements of S, each at the place that those before it leave it.
InOrder(S, before) ==
    [k \in 1 .. Cardinality(S) |-> CHOOSE x \in S : Cardinality(Below(x, S, before)) = k - 1]

\* The elements of s at the given places, in order.
Ascending(places) == InOrder(places, {p \in places \X places : p[1] < p[2]})
Picked(s, places) == [k \in 1 .. Cardinality(places) |-> s[Ascending(places)[k]]]

\* s sorted, where before is a set of pairs of its places.
Arranged(s, before) == [k \in DOMAIN s |-> s[InOrder(DOMAIN s, before)[k]]]
=============================================================================

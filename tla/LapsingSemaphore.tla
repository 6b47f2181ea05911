-------------------------- MODULE LapsingSemaphore --------------------------
(***************************************************************************)
(* What a model's slots promise the jobs that call it: a semaphore of      *)
(* Permits whose holder may lose its permit, when its lease lapses, and    *)
(* works on without it until it is done or has the permit back.  "The slot *)
(* expires and another process may take it, which only means one extra     *)
(* concurrent call for a while" (internal/store/lease.go).                 *)
(***************************************************************************)
EXTENDS Naturals, FiniteSets

CONSTANTS Client, \* who may hold a permit
          Permits \* how many there are

VARIABLES holders, \* the clients at work
          lost     \* those of them whose permit lapsed

Init == holders = {} /\ lost = {}

Spare == Cardinality(holders \ lost) < Permits

Acquire(c) ==
    /\ Spare /\ c \notin holders
    /\ holders' = holders \cup {c} /\ UNCHANGED lost

Release(c) ==
    /\ c \in holders
    /\ holders' = holders \ {c} /\ lost' = lost \ {c}

Lapse(c) ==
    /\ c \in holders \ lost
    /\ lost' = lost \cup {c} /\ UNCHANGED holders

Regain(c) ==
    /\ Spare /\ c \in lost
    /\ lost' = lost \ {c} /\ UNCHANGED holders

Next == \E c \in Client : Acquire(c) \/ Release(c) \/ Lapse(c) \/ Regain(c)

Spec == Init /\ [][Next]_<<holders, lost>>
=============================================================================

---- MODULE MCSpending ----
(***************************************************************************)
(* ModelLease and RunBudget for TLC: the slots an account's jobs take and  *)
(* the tokens its runs spend.  They share no state: what a run may spend   *)
(* does not depend on the slot its review holds.  So each behaviour is of  *)
(* one of them, the part, while the other has nothing to do.               *)
(***************************************************************************)
EXTENDS ModelLease, RunBudget

VARIABLE part

Init ==
    /\ part \in {"lease", "spend"}
    /\ LeaseInit /\ (part = "lease" \/ LeaseIdle)
    /\ SpendInit /\ (part = "spend" \/ SpendIdle)
Next ==
    \/ part = "lease" /\ LeaseNext /\ UNCHANGED <<spendVars, part>>
    \/ part = "spend" /\ SpendNext /\ UNCHANGED <<leaseVars, part>>

\* Each part's own fairness, LeaseFairness and SpendFairness, when it is the
\* part of the behaviour.
Fairness ==
    /\ \A j \in Review :
        /\ WF_leaseVars(part = "lease" /\ SearchEnds(j))
        /\ SF_leaseVars(part = "lease" /\ Admit(j))
        /\ SF_leaseVars(part = "lease" /\ SearchStarts(j))
    /\ \A j \in FollowUp \cup Index : SF_leaseVars(part = "lease" /\ Acquire(j))
    /\ \A j \in Job : WF_leaseVars(part = "lease" /\ Works(j))
    /\ WF_leaseVars(part = "lease" /\ \E k \in Key, n \in Slot : Expire(k, n))
    /\ \A r \in Run :
        /\ WF_spendVars(part = "spend" /\ Mint(r))
        /\ WF_spendVars(part = "spend" /\ Revoke(r))
        /\ WF_spendVars(part = "spend" /\ Loop(r))
        /\ \A c \in Conn : WF_spendVars(part = "spend" /\ Serve(r, c))

Spec == Init /\ [][Next]_<<leaseVars, spendVars, part>> /\ Fairness

TypeOK == LeaseTypeOK /\ SpendTypeOK

\* Every job gets its turn at the slots, and every run ends its spending:
\* nobody waits for good on a lease or a call that nobody holds any more.
\* (Jobs that had their turn and runs that are over stay so.)
JobsAndRunsEnd == <>(AllHadTheirTurn /\ SpendingOver)
====

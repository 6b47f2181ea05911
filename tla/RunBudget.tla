----------------------------- MODULE RunBudget -----------------------------
(***************************************************************************)
(* What the runs of one account may spend on models: the agent's loop in   *)
(* the runner (internal/agent/loop.go, internal/runner/agentic.go), the    *)
(* model gateway it calls (internal/gateway), and the run's token and      *)
(* budget (internal/store/gateway.go), which the worker mints before the   *)
(* run and revokes after it (internal/worker/agentic.go).                  *)
(*                                                                         *)
(* A call is reserved against the run's budget before the provider is      *)
(* asked, and settled by what it cost once it answered.  The runner may    *)
(* lose a connection and ask again while the gateway still settles the     *)
(* call it lost, so a run has more than one call on its way.               *)
(***************************************************************************)
EXTENDS Naturals, FiniteSets

CONSTANTS
    Run,         \* runs of the account
    Conn,        \* requests of a run at the gateway at a time
    AgentMax,    \* agent.maxTokens
    PerMonth,    \* limits.tokensPerMonth
    MinLeft,     \* minAgentTokens
    Cost,        \* what a call may cost
    Estimate,    \* what is reserved for one
    MaxSteps,    \* agent.maxSteps
    MaxResends,  \* how often a step is sent again: gatewayRetries, stepRetryWaits
    MaxSpendFaults \* how many connections, writes, gateways and workers fail

ASSUME TokensAssumption ==
    /\ IsFiniteSet(Run) /\ IsFiniteSet(Conn) /\ IsFiniteSet(Cost)
    /\ {AgentMax, PerMonth, Estimate, MaxSteps} \subseteq Nat \ {0}
    /\ {MinLeft, MaxResends, MaxSpendFaults} \subseteq Nat
    /\ Cost \subseteq Nat \ {0} /\ Cost # {}

VARIABLES
    month,  \* the tokens of the account's usage rows this month
    token,  \* a run's gateway token
    budget, \* its budget_tokens,
    spent,  \* and its spent_tokens
    call,   \* where a request stands, and what its answer cost
    loop,   \* where the agent's loop stands
    used,   \* the tokens the loop counts (Result.Usage)
    step,   \* its step
    nudged, \* whether the model was told to submit
    again,  \* how often the step was sent again
    stop,   \* why the loop ended (Result.Stop)
    row,    \* the phase the run's agent_runs row was written with
    paid,   \* what the providers' answers to a run cost
    faults  \* how many there were

spendVars == <<month, token, budget, spent, call, loop, used, step, nudged, again, stop, row, paid, faults>>
tokenVars == <<token, budget, spent>>
loopVars  == <<loop, used, step, nudged, again, stop, row>>

-----------------------------------------------------------------------------
None == "none"
MaxCost == CHOOSE x \in Cost : \A y \in Cost : y <= x
NoCall == [at |-> "none", cost |-> 0, heard |-> FALSE, chat |-> FALSE]

SpendTypeOK ==
    /\ month \in Nat /\ faults \in 0..MaxSpendFaults
    /\ token \in [Run -> {None, "live", "revoked", "expired"}]
    /\ budget \in [Run -> 0..AgentMax] /\ spent \in [Run -> Nat] /\ paid \in [Run -> Nat]
    /\ call \in [Run -> [Conn -> [at: {None, "sent", "admitted", "asking", "answered", "failed", "charged"},
                                  cost: Cost \cup {0}, heard: BOOLEAN, chat: BOOLEAN]]]
    /\ loop \in [Run -> {"queued", "ready", "waiting", "tool", "ended", "gone"}]
    /\ used \in [Run -> Nat] /\ step \in [Run -> 0..MaxSteps - 1]
    /\ nudged \in [Run -> BOOLEAN] /\ again \in [Run -> 0..MaxResends]
    /\ stop \in [Run -> {None, "submitted", "max_steps", "budget", "no_submit", "truncated", "canceled", "error"}]
    /\ row \in [Run -> {None, "done", "failed"}]

\* Some of the runs are to start.
SpendInit ==
    /\ month = 0 /\ faults = 0
    /\ token = [r \in Run |-> None]
    /\ budget = [r \in Run |-> 0] /\ spent = [r \in Run |-> 0] /\ paid = [r \in Run |-> 0]
    /\ call = [r \in Run |-> [c \in Conn |-> NoCall]]
    /\ loop \in [Run -> {"queued", "gone"}]
    /\ used = [r \in Run |-> 0] /\ step = [r \in Run |-> 0]
    /\ nudged = [r \in Run |-> FALSE] /\ again = [r \in Run |-> 0]
    /\ stop = [r \in Run |-> None] /\ row = [r \in Run |-> None]

Fault == faults < MaxSpendFaults /\ faults' = faults + 1

-----------------------------------------------------------------------------
(* The worker: internal/worker/agentic.go.                                 *)

\* agentBudget: what is left of the month, when it is worth starting.
Least(a, b) == IF a <= b THEN a ELSE b

\* agentCaps, then agentSpec, which mints the token last.
Mint(r) ==
    /\ loop[r] = "queued"
    /\ IF PerMonth <= month + MinLeft
       THEN loop' = [loop EXCEPT ![r] = "gone"] /\ UNCHANGED <<token, budget>>
       ELSE /\ loop' = [loop EXCEPT ![r] = "ready"]
            /\ token' = [token EXCEPT ![r] = "live"]
            /\ budget' = [budget EXCEPT ![r] = Least(AgentMax, PerMonth - month)]
    /\ UNCHANGED <<month, spent, call, used, step, nudged, again, stop, row, paid, faults>>

\* MUTANT of RunOver: the token of a run without a row is left alone.
RunDone(r) == loop[r] = "gone" /\ row[r] = "done"

RunOver(r) == loop[r] = "gone"

\* revokeGatewayTokens, once the run is over, or given up by a supervision
\* that could not delete its pod.  It sweeps expired tokens as well.
Revoke(r) ==
    /\ token[r] = "live"
    /\ \/ RunOver(r) /\ UNCHANGED faults
       \/ loop[r] # "gone" /\ Fault
    /\ token' = [x \in Run |-> IF x = r \/ token[x] = "expired" THEN "revoked" ELSE token[x]]
    /\ UNCHANGED <<month, budget, spent, call, loopVars, paid>>

\* The worker died, or could not revoke: the token outlives the run's pod,
\* whose deadline is earlier, and expires.
ExpireToken(r) ==
    /\ loop[r] = "gone" /\ token[r] = "live" /\ Fault
    /\ token' = [token EXCEPT ![r] = "expired"]
    /\ UNCHANGED <<month, budget, spent, call, loopVars, paid>>

\* Another repository's run of the account spends beside these.
OthersSpend ==
    /\ month < PerMonth
    /\ month' = month + MaxCost
    /\ UNCHANGED <<tokenVars, call, loopVars, paid, faults>>

-----------------------------------------------------------------------------
(* The agent's loop: internal/agent/loop.go, Do.                           *)

Exhausted(r) == used[r] >= budget[r]
LastStep(r)  == step[r] = MaxSteps - 1
Forced(r)    == LastStep(r) \/ used[r] * 10 >= budget[r] * 9

\* A request of the loop goes out on an idle connection.
Send(r, chat) ==
    /\ \A c \in Conn : ~call[r][c].heard
    /\ \E c \in Conn : call[r][c] = NoCall
    /\ LET c == CHOOSE x \in Conn : call[r][x] = NoCall
       IN call' = [call EXCEPT ![r][c] = [at |-> "sent", cost |-> 0, heard |-> TRUE, chat |-> chat]]

Ends(r, why) ==
    /\ loop' = [loop EXCEPT ![r] = "ended"]
    /\ stop' = [stop EXCEPT ![r] = why]
    /\ UNCHANGED <<step, nudged, again>>

GoesOn(r, to) ==
    /\ loop' = [loop EXCEPT ![r] = to]
    /\ step' = [step EXCEPT ![r] = IF to = "ready" THEN @ + 1 ELSE @]
    /\ again' = [again EXCEPT ![r] = 0]
    /\ UNCHANGED stop

\* The top of the loop: its own count of the budget, then the request.
Step(r) ==
    /\ loop[r] = "ready"
    /\ IF Exhausted(r)
       THEN Ends(r, "budget") /\ UNCHANGED call
       ELSE Send(r, TRUE) /\ loop' = [loop EXCEPT ![r] = "waiting"] /\ UNCHANGED <<stop, step, nudged, again>>
    /\ UNCHANGED <<month, tokenVars, used, row, paid, faults>>

\* What the model answered: text alone; calls of tools, a search among
\* them; a submission that is valid, that the output cap cut off, or that
\* is not valid and may be corrected unless this step was to submit.
Outcome == {"text", "tools", "search", "valid", "cut", "invalid"}

Handle(r, outcome) ==
    CASE outcome = "valid" -> Ends(r, "submitted")
      [] outcome = "cut" -> Ends(r, "truncated")
      [] outcome = "invalid" /\ Forced(r) -> Ends(r, "no_submit")
      [] outcome = "text" /\ ~LastStep(r) /\ nudged[r] -> Ends(r, "no_submit")
      [] outcome = "search" -> GoesOn(r, "tool") /\ UNCHANGED nudged
      [] OTHER -> IF LastStep(r) THEN Ends(r, "max_steps")
                  ELSE GoesOn(r, "ready") /\ nudged' = [nudged EXCEPT ![r] = @ \/ outcome = "text"]

\* The tools of a step have run, the search of similar code with them.
Searches(r) ==
    /\ loop[r] = "tool" /\ Send(r, FALSE) /\ UNCHANGED <<month, tokenVars, loopVars, paid, faults>>
ToolsDone(r) ==
    IF LastStep(r) THEN Ends(r, "max_steps") ELSE GoesOn(r, "ready") /\ UNCHANGED nudged

\* A step that failed in a way another attempt may not is sent again, by
\* the client and by the loop.
Failed(r, transient) ==
    IF transient /\ again[r] < MaxResends
    THEN /\ loop' = [loop EXCEPT ![r] = "ready"] /\ again' = [again EXCEPT ![r] = @ + 1]
         /\ UNCHANGED <<step, nudged, stop>>
    ELSE Ends(r, "error")

\* runAgentic writes the agent's row and settles the run.
WriteRow(r) ==
    /\ loop[r] = "ended"
    /\ \/ row' = [row EXCEPT ![r] = "done"] /\ UNCHANGED faults
       \/ row' = [row EXCEPT ![r] = "failed"] /\ Fault
    /\ loop' = [loop EXCEPT ![r] = "gone"]
    /\ UNCHANGED <<month, tokenVars, call, used, step, nudged, again, stop, paid>>

\* The run is cancelled, deleted or out of time: the loop ends where it is,
\* its connection is cut, and the row says what it spent so far.
Cancel(r) ==
    /\ loop[r] \in {"ready", "waiting", "tool", "ended"} /\ Fault
    /\ loop' = [loop EXCEPT ![r] = "gone"]
    /\ stop' = [stop EXCEPT ![r] = "canceled"]
    /\ row' = [row EXCEPT ![r] = "failed"]
    /\ call' = [call EXCEPT ![r] = [c \in Conn |-> [call[r][c] EXCEPT !.heard = FALSE]]]
    /\ UNCHANGED <<month, tokenVars, used, step, nudged, again, paid>>

-----------------------------------------------------------------------------
(* The gateway: internal/gateway/gateway.go, similar.go.                   *)

At(r, c, from, to) ==
    /\ call[r][c].at = from
    /\ call' = [call EXCEPT ![r][c].at = to]

\* The answer, or refusal, of a call: what the loop does with it when it
\* still listens.
Refused(r, c, why) ==
    /\ call' = [call EXCEPT ![r][c] = NoCall]
    /\ IF ~call[r][c].heard THEN UNCHANGED <<loop, stop, step, nudged, again>>
       ELSE IF ~call[r][c].chat THEN ToolsDone(r)
       ELSE IF why = "budget" THEN Ends(r, "budget")
       ELSE Failed(r, why = "transient")

\* MUTANT of Capped: the month's cap is for starting a run only.
CappedNever == month >= PerMonth + AgentMax * 9

\* CapReached, of the month's tokens.
Capped == month >= PerMonth

\* admit: the token, then the account's month.
Authorize(r, c) ==
    /\ \/ token[r] = "live" /\ ~Capped
          /\ At(r, c, "sent", "admitted") /\ UNCHANGED loopVars
       \/ call[r][c].at = "sent" /\ token[r] # "live"
          /\ Refused(r, c, "invalid") /\ UNCHANGED <<used, row>>
       \/ call[r][c].at = "sent" /\ token[r] = "live" /\ Capped
          /\ Refused(r, c, "budget") /\ UNCHANGED <<used, row>>
    /\ UNCHANGED <<month, tokenVars, paid, faults>>

\* The gateway's database does not answer, to admit or to reserve.
NoDatabase(r, c) ==
    /\ Fault /\ call[r][c].at \in {"sent", "admitted"}
    /\ Refused(r, c, "transient")
    /\ UNCHANGED <<month, tokenVars, used, row, paid>>

\* MUTANT of Reservable: whatever was spent.
ReservableAlways(r) == token[r] = "live"

\* ReserveGatewayTokens' condition.
Reservable(r) == token[r] = "live" /\ spent[r] < budget[r]

Reserve(r, c) ==
    /\ \/ /\ Reservable(r) /\ At(r, c, "admitted", "asking")
          /\ spent' = [spent EXCEPT ![r] = @ + Estimate]
          /\ UNCHANGED loopVars
       \/ /\ ~Reservable(r) /\ call[r][c].at = "admitted"
          /\ Refused(r, c, "budget") /\ UNCHANGED <<spent, used, row>>
    /\ UNCHANGED <<month, token, budget, paid, faults>>

\* The provider, or the fallback on another one, answers or fails for good
\* (step, fallback).  A connection the runner has cut fails it as well,
\* unless the answer was there first.
Ask(r, c) ==
    /\ call[r][c].at = "asking"
    /\ \/ \E x \in Cost :
            /\ call' = [call EXCEPT ![r][c].at = "answered", ![r][c].cost = x]
            /\ paid' = [paid EXCEPT ![r] = @ + x]
       \/ At(r, c, "asking", "failed") /\ UNCHANGED paid
    /\ UNCHANGED <<month, tokenVars, loopVars, faults>>

\* MUTANTS of Settled: the reservation is given back and the cost forgotten;
\* the reservation stays beside the cost.
SettledAsRefund(r, c) == spent[r] - Estimate

\* The run's spend with the call's cost in the place of its reservation.
Settled(r, c) == spent[r] + call[r][c].cost - Estimate

\* ChargeGatewayToken, of a token that is still there, expired or not.
Charge(r, c) ==
    /\ call[r][c].at \in {"answered", "failed"}
    /\ \/ /\ spent' = IF token[r] = "revoked" THEN spent ELSE [spent EXCEPT ![r] = Settled(r, c)]
          /\ UNCHANGED faults
       \/ Fault /\ UNCHANGED spent
    /\ call' = [call EXCEPT ![r][c].at = "charged"]
    /\ UNCHANGED <<month, token, budget, loopVars, paid>>

\* Result.Usage.Add of the answer's usage.
Counted(r, c) == call[r][c].cost

\* InsertUsage, independent of the charge, and the answer.
Answer(r, c) ==
    /\ call[r][c].at = "charged"
    /\ \/ month' = month + call[r][c].cost /\ UNCHANGED faults
       \/ Fault /\ call[r][c].cost > 0 /\ UNCHANGED month
    /\ IF call[r][c].cost = 0
       THEN /\ \E why \in {"transient", "refused"} : Refused(r, c, why)
            /\ UNCHANGED used
       ELSE /\ call' = [call EXCEPT ![r][c] = NoCall]
            /\ IF ~call[r][c].heard THEN UNCHANGED <<loop, stop, step, nudged, again, used>>
               ELSE IF ~call[r][c].chat THEN ToolsDone(r) /\ UNCHANGED used
               ELSE /\ \E o \in Outcome : Handle(r, o)
                    /\ used' = [used EXCEPT ![r] = @ + Counted(r, c)]
    /\ UNCHANGED <<tokenVars, row, paid>>

\* The connection is cut, or the client's own timeout passes: the runner
\* asks again, or does without the search, while the gateway goes on.
Lose(r, c) ==
    /\ Fault /\ call[r][c].heard
    /\ call' = [call EXCEPT ![r][c].heard = FALSE]
    /\ IF call[r][c].chat THEN Failed(r, TRUE) ELSE ToolsDone(r)
    /\ UNCHANGED <<month, tokenVars, used, row, paid>>

\* A gateway replica dies with the call.
GatewayDies(r, c) ==
    /\ Fault /\ call[r][c].at # None
    /\ call' = [call EXCEPT ![r][c] = NoCall]
    /\ IF ~call[r][c].heard THEN UNCHANGED <<loop, stop, step, nudged, again>>
       ELSE IF call[r][c].chat THEN Failed(r, TRUE) ELSE ToolsDone(r)
    /\ UNCHANGED <<month, tokenVars, used, row, paid>>

-----------------------------------------------------------------------------
Loop(r) == Step(r) \/ Searches(r) \/ WriteRow(r)
Serve(r, c) == Authorize(r, c) \/ Reserve(r, c) \/ Ask(r, c) \/ Charge(r, c) \/ Answer(r, c)

SpendNext ==
    \/ (\E r \in Run : loop[r] # "gone") /\ OthersSpend
    \/ \E r \in Run :
        \/ Mint(r) \/ Revoke(r) \/ ExpireToken(r) \/ Loop(r) \/ Cancel(r)
        \/ \E c \in Conn : Serve(r, c) \/ NoDatabase(r, c) \/ Lose(r, c) \/ GatewayDies(r, c)

\* The worker, the runner and the gateway run on.
SpendFairness ==
    \A r \in Run :
        /\ WF_spendVars(Mint(r)) /\ WF_spendVars(Revoke(r)) /\ WF_spendVars(Loop(r))
        /\ \A c \in Conn : WF_spendVars(Serve(r, c))

SpendSpec == SpendInit /\ [][SpendNext]_spendVars /\ SpendFairness

SpendIdle == \A r \in Run : loop[r] = "gone"

-----------------------------------------------------------------------------
(* Properties.                                                             *)

\* By how much a call may cost more than was reserved for it.
Under == IF MaxCost > Estimate THEN MaxCost - Estimate ELSE 0
Width == Cardinality(Conn)

\* The three counts of a run agree.  The loop's, which the agent's row
\* shows, is never more than the answers cost; the gateway's never less, but
\* for calls that are still being settled and writes that failed; and it is
\* what they cost when nothing is on its way and nothing failed.  So no
\* refund and no call that was lost and sent again gives back tokens that
\* were paid for.
CountsAgree ==
    \A r \in Run : token[r] \in {"live", "expired"} =>
        /\ used[r] <= paid[r]
        /\ paid[r] <= spent[r] + Under * (Width + faults)
        /\ faults = 0 /\ (\A c \in Conn : call[r][c] = NoCall) => spent[r] = paid[r]

\* "Concurrent steps overshoot the budget by at most one step": one step,
\* and what the others on their way, or whose charge failed, cost beyond
\* their estimate.
BudgetHeld ==
    \A r \in Run : token[r] # None => paid[r] < budget[r] + MaxCost + Under * (Width - 1 + faults)

\* The account's month is overshot by no more than the calls admitted
\* before it was reached, each run's and another's.
MonthHeld == month < PerMonth + MaxCost * (1 + Width * Cardinality(Run))

\* However calls are lost, repeated and settled late, and whoever else spends,
\* nothing is spent that no count has, and no limit is passed by more than
\* what was on its way.
SpendingHeld == CountsAgree /\ BudgetHeld /\ MonthHeld

\* What is to become true: every run ends, its row written, its calls settled and its token dead.
SpendingOver == \A r \in Run : loop[r] = "gone" /\ token[r] # "live" /\ \A c \in Conn : call[r][c] = NoCall
=============================================================================

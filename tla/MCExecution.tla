---------------------------- MODULE MCExecution ----------------------------
(***************************************************************************)
(* Instances of Execution for TLC: a vault of ten units, a fifth or less   *)
(* of which may be lost on one leg and a tenth in one window.              *)
(***************************************************************************)
EXTENDS Execution

CONSTANTS alice, treasury, MaxTime, MaxHolding, MaxNonce, MaxVersion

Terms0(m, p, r) ==
    [management_bps |-> m, performance_bps |-> p, recipient |-> r]

MCFees == {Terms0(0, 5, alice)}

MCRoles == {[r \in Role |-> alice]}

MCChanges == {[kind |-> "paused", value |-> FALSE]}

Leg(k, n) == [kind |-> k, amount |-> n]

MCRoutes == {<<Leg("buy", 5)>>, <<Leg("sell", 5)>>, <<Leg("supply", 3)>>,
             <<Leg("withdraw", 3)>>, <<Leg("withdraw", 3), Leg("sell", 2)>>}

\* Bounds of the instance.
Bounds ==
    /\ now <= MaxTime /\ version <= MaxVersion /\ book.nonce <= MaxNonce
    /\ Equity(holdings) <= MaxHolding

\* Swaps alone use up either half of the budget.
BudgetRoutes == {<<Leg("buy", 5)>>, <<Leg("sell", 5)>>, <<Leg("sell", 2), Leg("sell", 2)>>}

Seen == <<state, fees, balance, allowance, holdings, price, now, governed,
          target, book, signed>>

\* No action reads the signers of an earlier call or the two histories, so a run
\* leaves out what its properties do not read.
PlanView   == <<Seen, stale>>
BudgetView == <<Seen, spent>>

\* A pause only takes plans away, so the run about the budget leaves it out.
BudgetBounds == Bounds /\ ~state.paused

=============================================================================

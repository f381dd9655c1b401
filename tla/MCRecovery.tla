----------------------------- MODULE MCRecovery -----------------------------
(***************************************************************************)
(* Instances of Recovery for TLC: a vault that pledges the settlement      *)
(* asset, borrows the other one and gets into trouble when it or the rates *)
(* move.                                                                   *)
(***************************************************************************)
EXTENDS Recovery, FiniteSets

CONSTANTS MaxSpot

Leg(k, a, n) == [kind |-> k, asset |-> a, amount |-> n]

MCSpots == {[a \in Asset |-> IF a = Usdc THEN 10 ELSE 0]}

\* Before and after interest: tokens worth 1, then up to 7/5.
MCRates ==
    {[a \in Asset |-> [b |-> 5, d |-> 5]],
     [a \in Asset |-> IF a = Other THEN [b |-> 6, d |-> 7] ELSE [b |-> 5, d |-> 5]],
     [a \in Asset |-> [b |-> 7, d |-> 7]]}

\* Pledge and borrow; lend; sell what was borrowed.
MCPlans ==
    {<<Leg("collateral", Usdc, 8), Leg("borrow", Other, 3)>>,
     <<Leg("borrow", Other, 1)>>,
     <<Leg("supply", Usdc, 3)>>,
     <<Leg("swap", Other, 3)>>}

\* Buy and repay, also less than was bought; repay and release; release alone;
\* the same of the settlement asset.
MCUnwinds ==
    {<<Leg("swap", Usdc, 3), Leg("repay", Other, 3)>>,
     <<Leg("swap", Usdc, 3), Leg("repay", Other, 1)>>,
     <<Leg("repay", Other, 2), Leg("release", Usdc, 3)>>,
     <<Leg("release", Usdc, 2), Leg("swap", Usdc, 2), Leg("repay", Other, 2)>>,
     <<Leg("release", Usdc, 5)>>,
     <<Leg("withdraw", Usdc, 2), Leg("swap", Other, 1)>>}

\* Bounds of the instance: balances stay small, the pool's oracle is stale or
\* agrees with the vault's, one side accrues rewards at a time, and the borrowed
\* asset only gets dearer, so that no back and forth of its mark feeds the vault.
Bounds ==
    /\ spot[Usdc] <= MaxSpot /\ spot[Other] <= MaxSpot
    /\ oracle \in {0, price}
    /\ Cardinality(rewards) <= 1

MCInit == Init /\ Bounds

MCSpec == MCInit /\ [][Next /\ Bounds' /\ price' >= price]_vars /\ WF_vars(ClaimRewards)

=============================================================================

---------------------------- MODULE MCVaultShares ----------------------------
(***************************************************************************)
(* Instances of VaultShares for TLC.  The scales are small multiples of    *)
(* each other instead of 10^4, 10^12 and 10^18, chosen so that every       *)
(* rounding still has a remainder.                                         *)
(***************************************************************************)
EXTENDS VaultShares

CONSTANTS alice, treasury, MaxTime, MaxSupply, MaxHolding, MaxAsset

MCFees == {[management_bps |-> 2, performance_bps |-> 5, recipient |-> treasury]}

\* What executions leave behind: a gain, a loss, the other asset, a supplied
\* and a leveraged Blend position.
MCPortfolios ==
    {[usdc |-> 3, asset |-> 1, supply |-> 0, collateral |-> 0, debt |-> 0],
     [usdc |-> 1, asset |-> 0, supply |-> 0, collateral |-> 0, debt |-> 0],
     [usdc |-> 1, asset |-> 2, supply |-> 0, collateral |-> 0, debt |-> 0],
     [usdc |-> 1, asset |-> 0, supply |-> 2, collateral |-> 0, debt |-> 0],
     [usdc |-> 2, asset |-> 0, supply |-> 0, collateral |-> 2, debt |-> 1]}

MCDelegations == {<<alice, treasury>>, <<treasury, alice>>}

\* Bounds of the instance: time, shares and every holding stay small.
Bounds ==
    /\ now <= MaxTime
    /\ state.supply <= MaxSupply
    /\ holdings.usdc <= MaxHolding /\ holdings.asset <= MaxAsset

\* Nothing in the module reads window_equity or the previous call's signers, so
\* states that differ only there have the same futures.
View ==
    <<[state EXCEPT !.window_equity = 0], fees, balance, allowance, holdings,
      price, now>>

=============================================================================

---------------------------- MODULE MCGovernance ----------------------------
(***************************************************************************)
(* Instances of Governance for TLC: a vault with little cash, whose fee    *)
(* terms, guardian and pause change while holders come and go.             *)
(***************************************************************************)
EXTENDS Governance

CONSTANTS alice, treasury, MaxTime, MaxSupply, MaxHolding, MaxVersion

Terms0(m, p, r) ==
    [management_bps |-> m, performance_bps |-> p, recipient |-> r]

MCFees == {Terms0(2, 5, treasury)}

FreeFees == {Terms0(0, 5, treasury)}

MCRoles == {[r \in Role |-> alice]}

\* Valid fee terms, terms above the ceiling, a handover, a handover to the vault
\* itself, and the resume.
MCChanges ==
    {[kind |-> "fees", value |-> Terms0(1, 3, alice)],
     [kind |-> "fees", value |-> Terms0(1, 6, alice)],
     [kind |-> "guardian", value |-> treasury],
     [kind |-> "guardian", value |-> Vault],
     [kind |-> "paused", value |-> FALSE]}

\* Waiving the performance fee for a while.
FeeHoliday ==
    {[kind |-> "fees", value |-> Terms0(0, p, treasury)] : p \in {0, 5}}

\* What executions leave behind: a loss and a supplied Blend position.
MCPortfolios ==
    {[usdc |-> 3, asset |-> 0, supply |-> 0, collateral |-> 0, debt |-> 0],
     [usdc |-> 1, asset |-> 0, supply |-> 0, collateral |-> 0, debt |-> 0]}

\* Two gains in a row.
Gains ==
    {[usdc |-> n, asset |-> 0, supply |-> 0, collateral |-> 0, debt |-> 0] :
        n \in {5, 7}}

\* Bounds of the instance.
Bounds ==
    /\ now <= MaxTime /\ version <= MaxVersion
    /\ state.supply <= MaxSupply
    /\ holdings.usdc <= MaxHolding

\* Nothing reads window_equity or the signers of an earlier call.
View ==
    <<[state EXCEPT !.window_equity = 0], fees, balance, allowance, holdings,
      price, now, governed>>

=============================================================================

----------------------------- MODULE MCAdapter -----------------------------
(***************************************************************************)
(* An instance of Adapter for TLC: the parent invests beside one holder    *)
(* while fees accrue, also over years without a call.                      *)
(***************************************************************************)
EXTENDS Adapter

CONSTANTS alice, MaxTime, MaxSupply, MaxHolding

MCFees == {[management_bps |-> 2, performance_bps |-> 5, recipient |-> alice]}

\* A gain, and a leveraged position that loses part of it again.
MCPortfolios ==
    {[usdc |-> 4, asset |-> 0, supply |-> 0, collateral |-> 0, debt |-> 0],
     [usdc |-> 2, asset |-> 0, supply |-> 0, collateral |-> 2, debt |-> 1]}

\* Bounds of the instance, kept by every step but the fair one, so that no state
\* is left in which fairness asks for a step the bounds forbid.
Bounds ==
    /\ now <= MaxTime /\ state.supply <= MaxSupply
    /\ holdings.usdc <= MaxHolding /\ state.window_equity <= MaxHolding

MCSpec ==
    /\ AdapterInit /\ [][AdapterNext /\ (~Bounds' => CheckpointFees)]_adapterVars
    /\ WF_adapterVars(CheckpointFees /\ UNCHANGED cash)

=============================================================================

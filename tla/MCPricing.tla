------------------------------- MODULE MCPricing -------------------------------
(***************************************************************************)
(* An instance of PricingHistory for TLC.                                  *)
(***************************************************************************)
EXTENDS PricingHistory

CONSTANTS MaxLedger, MaxTime

\* Two prices, and a pool too shallow to observe.
MCReserves == {[asset |-> 1, usdc |-> 4], [asset |-> 1, usdc |-> 5],
               [asset |-> 1, usdc |-> 0]}

Bounds == ledger <= MaxLedger /\ time <= MaxTime

=============================================================================

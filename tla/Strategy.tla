------------------------------ MODULE Strategy ------------------------------
(***************************************************************************)
(* What a DeFindex parent may rely on when it invests through a strategy:  *)
(* the claim it is shown moves with its own cash, one for one but for the  *)
(* rounding of one share and the fees not charged yet, and never by more   *)
(* than the cash it moved.  While it moves no cash, markets, fees and      *)
(* other holders move the claim.                                           *)
(***************************************************************************)
EXTENDS Integers

CONSTANT NoClaim    \* the strategy cannot value the claim

VARIABLES
    claim,      \* what `balance` answers, or NoClaim
    cash,       \* what the parent and its recipients hold
    unit        \* the value of one share and of the fees pending, rounded up

promised == <<claim, cash, unit>>

\* The strategy answers, and its answer is off by at most a unit, never in the
\* parent's favour.
Follows(expected) ==
    /\ claim' # NoClaim
    /\ claim' \in expected - unit' .. expected

\* Cash that leaves the parent becomes claim, and the other way round.
CashMoves ==
    /\ claim # NoClaim
    /\ Follows(claim + cash - cash')

MarketMoves == cash' = cash

Promise == [][MarketMoves \/ CashMoves]_promised

=============================================================================

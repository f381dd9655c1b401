------------------------------ MODULE BlendPool ------------------------------
(***************************************************************************)
(* The Blend lending pool as the vault sees it: positions in pool tokens,  *)
(* rates that convert them to the underlying asset, and one request.       *)
(*                                                                         *)
(* Submit is the pool's own arithmetic, as the tests' pool executes it     *)
(* (contracts/vault/src/testutils.rs); Expected is what the vault computes *)
(* beforehand and insists on (execution.rs, pool_action).                  *)
(*                                                                         *)
(* A request is [kind, asset, amount]; a position is one record per asset. *)
(***************************************************************************)
EXTENDS VaultMath

CONSTANT RATE_SCALE     \* fixed-point one of a pool rate (10^12)

ASSUME RateAssumption == RATE_SCALE \in Nat \ {0}

Side == [withdraw |-> "supply", supply |-> "supply", collateral |-> "collateral",
         release |-> "collateral", borrow |-> "debt", repay |-> "debt"]

PoolKind == DOMAIN Side

Lends     == {"supply", "collateral"}        \* request types 0 and 2
Withdraws == {"withdraw", "release"}         \* request types 1 and 3

\* Rates are [b, d]: what one token of a claim and one of a debt are worth.
RateOf(kind, rate) == IF Side[kind] = "debt" THEN rate.d ELSE rate.b

\* Claims round down, debts up.
ClaimValue(tokens, rate) == MulDivFloor(tokens, rate.b, RATE_SCALE)

DebtValue(tokens, rate) == MulDivCeil(tokens, rate.d, RATE_SCALE)

-----------------------------------------------------------------------------

\* The pool: a request for more than the position is cut down to it, then
\* converted against the caller.
Submit(kind, old, rate, amount) ==
    LET r == RateOf(kind, rate)
        n == CASE kind \in Withdraws -> Least(amount, ClaimValue(old, rate))
               [] kind = "repay"     -> Least(amount, DebtValue(old, rate))
               [] OTHER              -> amount
    IN  [moved  |-> n,
         tokens |-> CASE kind \in Lends     -> old + MulDivFloor(n, RATE_SCALE, r)
                      [] kind \in Withdraws -> old - MulDivCeil(n, RATE_SCALE, r)
                      [] kind = "borrow"    -> old + MulDivCeil(n, RATE_SCALE, r)
                      [] kind = "repay"     -> old - MulDivFloor(n, RATE_SCALE, r)]

\* The vault caps a repayment itself, because the pool takes the requested
\* amount before it refunds the excess.
Requested(kind, old, rate, amount) ==
    IF kind = "repay" THEN Least(amount, DebtValue(old, rate)) ELSE amount

\* A fault: a withdrawal burns tokens rounded down.
TokensOfFloor(kind, rate, n) == MulDivFloor(n, RATE_SCALE, RateOf(kind, rate))

TokensOf(kind, rate, n) ==
    IF kind \in Withdraws \cup {"borrow"}
      THEN MulDivCeil(n, RATE_SCALE, RateOf(kind, rate))
      ELSE MulDivFloor(n, RATE_SCALE, RateOf(kind, rate))

\* The vault: the position and the transfer it accepts as the answer.
Expected(kind, old, rate, amount) ==
    LET n      == Requested(kind, old, rate, amount)
        tokens == TokensOf(kind, rate, n)
    IN  [moved  |-> IF kind \in Withdraws /\ tokens > old THEN ClaimValue(old, rate) ELSE n,
         tokens |-> IF kind \in Withdraws \cup {"repay"} THEN old - Least(tokens, old)
                    ELSE old + tokens]

\* What pool_action refuses before it calls the pool.
Requestable(kind, old, rate, amount) ==
    /\ amount > 0 /\ Requested(kind, old, rate, amount) > 0
    /\ Expected(kind, old, rate, amount).tokens # old

=============================================================================

----------------------------- MODULE VaultShares -----------------------------
(***************************************************************************)
(* The vault contract as a share ledger: SEP-41 balances and allowances,   *)
(* the SEP-56 flows that issue and burn shares against the vault's         *)
(* holdings, fee settlement, and the price-free basket exit                *)
(* (contracts/vault/src/{lib,fees,token,storage,pricing}.rs).              *)
(*                                                                         *)
(* A call is one atomic ledger transaction: a panic rolls everything back, *)
(* so each entry point is one action whose guard is the conjunction of     *)
(* everything the call checks on its way.  What is interleaved are whole   *)
(* calls of different parties, price marks, donations and time.            *)
(*                                                                         *)
(* Rebalance, RecoverSupply and Repay are what execution.rs may do to this *)
(* state; everything else about plans and targets is outside the module.   *)
(***************************************************************************)
EXTENDS VaultFees, FiniteSets

CONSTANTS
    Vault,              \* the contract's own address; holds only the seed
    Holders,            \* every other address that can hold shares
    MAX_AMOUNT,         \* largest asset or share amount of one call
    SEED_ASSETS,        \* settlement asset funded by the constructor
    SHARE_MULTIPLIER,   \* shares per settlement atom at the first price
    PRICE_SCALE,        \* fixed-point one of a price
    InitialFees,        \* fee terms the constructor may be given
    InitialTime,        \* ledger at which the vault is deployed
    Portfolios,         \* holdings an execution may leave behind
    Amounts,            \* asset and share amounts callers pass
    Limits,             \* slippage limits callers pass
    Deadlines,          \* deadlines and allowance expirations callers pass
    Operators,          \* who calls deposit and mint
    Delegations,        \* <<owner, spender>> pairs approvals are made for
    Donations,          \* amounts sent to the vault without a call
    Marks,              \* marks of the other asset, 0 for no valid mark
    Steps               \* how many ledgers may close between two calls

Accounts   == Holders \cup {Vault}
SeedShares == SEED_ASSETS * SHARE_MULTIPLIER

FeeTerms == [management_bps  : 0 .. MAX_MANAGEMENT_BPS,
             performance_bps : 0 .. MAX_PERFORMANCE_BPS,
             recipient       : Holders]

\* Spot balances of the settlement asset and of one other asset, and the Blend
\* position in settlement units.
HoldingSet == [usdc : Nat, asset : Nat,
               supply : Nat, collateral : Nat, debt : Nat]

ASSUME ShareAssumption ==
    /\ IsFiniteSet(Holders) /\ Vault \notin Holders
    /\ MAX_AMOUNT \in Nat
    /\ SEED_ASSETS \in Nat \ {0} /\ SHARE_MULTIPLIER \in Nat \ {0}
    /\ PRICE_SCALE \in Nat \ {0}
    /\ InitialFees \subseteq FeeTerms
    /\ InitialTime \in Nat \ {0}
    /\ Portfolios \subseteq HoldingSet
    /\ Amounts \subseteq Nat /\ Limits \subseteq Nat /\ Donations \subseteq Nat
    /\ Deadlines \subseteq Nat
    /\ Operators \subseteq Holders
    /\ Delegations \subseteq Holders \X Holders
    /\ Marks \subseteq Nat /\ Steps \subseteq Nat \ {0}

VARIABLES
    state,      \* storage key State: the record of types.rs
    fees,       \* Config.fees
    balance,    \* storage keys Balance(who)
    allowance,  \* storage keys Allowance(owner, spender)
    holdings,   \* what the vault owns outside its own storage
    price,      \* valid mark of the other asset, 0 when pricing::price fails
    now,        \* ledger sequence; one unit of time per ledger
    signers     \* addresses whose authorization the last call consumed

vars == <<state, fees, balance, allowance, holdings, price, now, signers>>

-----------------------------------------------------------------------------
(* Valuation.                                                              *)

\* equity_of skips an asset the vault does not hold, so a missing mark only
\* matters while that asset is held.
Priced(h) == h.asset = 0 \/ price > 0

Equity(h) ==
    h.usdc + h.supply + h.collateral - h.debt
      + MulDivFloor(h.asset, price, PRICE_SCALE)

NoExternalClaim(h) == h.collateral = 0 /\ h.debt = 0

Transferable(h) == NoExternalClaim(h) /\ h.supply = 0

-----------------------------------------------------------------------------
(* The share token.                                                        *)

IsAmount(n)       == n \in 0 .. MAX_AMOUNT        \* nonnegative
IsPositive(n)     == n \in 1 .. MAX_AMOUNT        \* positive

Credit(b, who, n) == [b EXCEPT ![who] = @ + n]

\* A fault: the vault's own shares are not protected.
CanDebitAny(b, who, n) == IsAmount(n) /\ b[who] >= n

CanDebit(b, who, n) == IsAmount(n) /\ who # Vault /\ b[who] >= n

Debit(b, who, n) == [b EXCEPT ![who] = @ - n]

\* An allowance that was never written is the record NoAllowance, which has
\* expired before the vault exists: the code refuses both the same way.
NoAllowance == [amount |-> 0, expiration |-> 0]

\* A fault: an expired allowance can be spent.
CanSpendExpired(owner, spender, n) ==
    owner = spender \/ allowance[owner][spender].amount >= n

CanSpend(owner, spender, n) ==
    \/ owner = spender
    \/ /\ allowance[owner][spender].expiration >= now
       /\ allowance[owner][spender].amount >= n

Spend(owner, spender, n) ==
    IF owner = spender THEN allowance
    ELSE [allowance EXCEPT ![owner][spender].amount = @ - n]

-----------------------------------------------------------------------------
(* Settlement at the start of a call.                                      *)

Settlement == Settle(state, fees, now, Equity(holdings))

\* A fault: fee shares count in the supply and belong to nobody.
SettledForgotten(minted) == balance

\* The fee shares are credited to the recipient before anything else happens.
Settled(minted) == Credit(balance, fees.recipient, minted)

CanSettle ==
    /\ Priced(holdings)
    /\ SettleDefined(state, fees, now, Equity(holdings))
    /\ IsAmount(Settlement.minted)

\* enter_flow: every flow needs computable fees and a positive equity.  It
\* hands the settlement to the flow, the parameter `s` below.
FlowOpen == CanSettle /\ Equity(holdings) > 0

-----------------------------------------------------------------------------
(* Views (lib.rs): they simulate the settlement and change nothing.        *)

ConvertToShares(s, assets) ==
    MulDivFloor(assets, s.state.supply, Equity(holdings))

ConvertToAssets(s, shares) ==
    MulDivFloor(shares, Equity(holdings), s.state.supply)

\* A fault: debt and collateral are not a reason to report zero.
MaxWithdrawIndebted(owner) ==
    IF owner = Vault \/ ~Priced(holdings) \/ Equity(holdings) <= 0 THEN 0
    ELSE Least(ConvertToAssets(Settlement, balance[owner]), holdings.usdc)

MaxWithdraw(owner) ==
    IF owner = Vault \/ ~Priced(holdings) \/ Equity(holdings) <= 0
         \/ ~NoExternalClaim(holdings)
      THEN 0
      ELSE Least(ConvertToAssets(Settlement, balance[owner]), holdings.usdc)

MaxRedeem(owner) ==
    LET max == MaxWithdraw(owner)
    IN  IF max = 0 THEN 0
        ELSE Least(ConvertToShares(Settlement, max), balance[owner])

-----------------------------------------------------------------------------
(* Flows.                                                                  *)

\* issue: what deposit and mint share once assets and shares are known.
Issue(s, assets, shares, receiver, operator) ==
    /\ IsPositive(assets) /\ IsPositive(shares)
    /\ receiver # Vault
    /\ holdings' = [holdings EXCEPT !.usdc = @ + assets]
    /\ state' = [s.state EXCEPT !.supply        = @ + shares,
                                !.window_equity = @ + assets]
    /\ balance' = Credit(Settled(s.minted), receiver, shares)
    /\ signers' = {operator}
    /\ UNCHANGED <<fees, allowance, price, now>>

Deposit(s, assets, receiver, operator, min_shares, deadline) ==
    /\ ~state.paused
    /\ deadline >= now
    /\ IsPositive(assets) /\ IsPositive(min_shares)
    /\ ConvertToShares(s, assets) >= min_shares
    /\ Issue(s, assets, ConvertToShares(s, assets), receiver, operator)

\* What mint charges for `shares`, rounded up.
MintAssets(s, shares) ==
    MulDivCeil(shares, Equity(holdings), s.state.supply)

Mint(s, shares, receiver, operator, max_assets, deadline) ==
    /\ ~state.paused
    /\ deadline >= now
    /\ IsPositive(shares) /\ IsAmount(max_assets)
    /\ MintAssets(s, shares) <= max_assets
    /\ Issue(s, MintAssets(s, shares), shares, receiver, operator)

\* What exit checks before it pays `assets` for `shares` of `owner`.
CanExit(s, assets, shares, receiver, owner, operator) ==
    /\ receiver # Vault
    /\ IsPositive(assets) /\ IsPositive(shares)
    /\ CanSpend(owner, operator, shares)
    /\ holdings.usdc >= assets
    /\ NoExternalClaim(holdings)
    /\ shares <= s.state.supply
    /\ CanDebit(Settled(s.minted), owner, shares)

\* What is left of n when `shares` of `supply` leave.
ScaleDown(n, shares, supply) == MulDivFloor(n, supply - shares, supply)

Exit(s, assets, shares, receiver, owner, operator) ==
    /\ CanExit(s, assets, shares, receiver, owner, operator)
    /\ allowance' = Spend(owner, operator, shares)
    /\ state' = [s.state EXCEPT
         !.performance_dust = ScaleDown(@, shares, s.state.supply),
         !.window_equity    = Greatest(@ - assets, 0),
         !.supply           = @ - shares]
    /\ balance' = Debit(Settled(s.minted), owner, shares)
    /\ holdings' = [holdings EXCEPT !.usdc = @ - assets]
    /\ signers' = {operator}
    /\ UNCHANGED <<fees, price, now>>

\* A fault: the shares of a withdrawal are rounded to the caller's favour.
WithdrawSharesFloor(s, assets) ==
    MulDivFloor(assets, s.state.supply, Equity(holdings))

\* What withdraw burns for `assets`, rounded up.
WithdrawShares(s, assets) ==
    MulDivCeil(assets, s.state.supply, Equity(holdings))

Withdraw(s, assets, receiver, owner, operator, max_shares, deadline) ==
    /\ deadline >= now
    /\ IsPositive(assets) /\ IsAmount(max_shares)
    /\ WithdrawShares(s, assets) <= max_shares
    /\ Exit(s, assets, WithdrawShares(s, assets), receiver, owner, operator)

Redeem(s, shares, receiver, owner, operator, min_assets, deadline) ==
    /\ deadline >= now
    /\ IsPositive(shares) /\ IsAmount(min_assets)
    /\ ConvertToAssets(s, shares) >= min_assets
    /\ Exit(s, ConvertToAssets(s, shares), shares, receiver, owner, operator)

\* burn and burn_from settle fees like a flow and pay nothing; burn is the case
\* spender = from, which needs no allowance.
BurnFrom(s, spender, from, amount) ==
    /\ CanSpend(from, spender, amount)
    /\ CanDebit(Settled(s.minted), from, amount)
    /\ allowance' = Spend(from, spender, amount)
    /\ state' = [s.state EXCEPT !.supply = @ - amount]
    /\ balance' = Debit(Settled(s.minted), from, amount)
    /\ signers' = {spender}
    /\ UNCHANGED <<fees, holdings, price, now>>

-----------------------------------------------------------------------------
(* The basket exit: pro rata in every asset, with or without a price.      *)

\* Without a valid price the performance fee of this call is waived.
BasketSettlement ==
    IF Priced(holdings) THEN Settlement ELSE Management(state, fees, now)

BasketOpen ==
    /\ Transferable(holdings)
    /\ CaughtUp(state, now)
    /\ Priced(holdings) => CanSettle
    /\ IsAmount(BasketSettlement.minted)

\* A fault: a basket payment is rounded up.
BasketShareCeil(s, spot, shares) == MulDivCeil(spot, shares, s.state.supply)

BasketShare(s, spot, shares) == MulDivFloor(spot, shares, s.state.supply)

RedeemInKind(s, shares, owner, receiver, minima, deadline) ==
    LET paid == [usdc  |-> BasketShare(s, holdings.usdc, shares),
                 asset |-> BasketShare(s, holdings.asset, shares)]
    IN  /\ deadline >= now
        /\ IsPositive(shares) /\ receiver # Vault
        /\ shares <= s.state.supply
        /\ CanDebit(Settled(s.minted), owner, shares)
        /\ \A a \in {"usdc", "asset"} :
              IsAmount(minima[a]) /\ paid[a] >= minima[a]
        /\ state' = [s.state EXCEPT
             !.performance_dust = ScaleDown(@, shares, s.state.supply),
             !.window_equity    = ScaleDown(@, shares, s.state.supply),
             !.supply           = @ - shares]
        /\ balance' = Debit(Settled(s.minted), owner, shares)
        /\ holdings' = [holdings EXCEPT !.usdc  = @ - paid.usdc,
                                        !.asset = @ - paid.asset]
        /\ signers' = {owner}
        /\ UNCHANGED <<fees, allowance, price, now>>

-----------------------------------------------------------------------------
(* The SEP-41 token.                                                       *)

Approve(from, spender, amount, expiration) ==
    /\ IsAmount(amount) /\ from # Vault
    /\ amount > 0 => expiration >= now
    /\ allowance' = [allowance EXCEPT ![from][spender] =
                        [amount |-> amount, expiration |-> expiration]]
    /\ signers' = {from}
    /\ UNCHANGED <<state, fees, balance, holdings, price, now>>

Move(from, to, amount) ==
    /\ CanDebit(balance, from, amount)
    /\ to # Vault
    /\ balance' = Credit(Debit(balance, from, amount), to, amount)

Transfer(from, to, amount) ==
    /\ Move(from, to, amount)
    /\ signers' = {from}
    /\ UNCHANGED <<state, fees, allowance, holdings, price, now>>

TransferFrom(spender, from, to, amount) ==
    /\ CanSpend(from, spender, amount)
    /\ Move(from, to, amount)
    /\ allowance' = Spend(from, spender, amount)
    /\ signers' = {spender}
    /\ UNCHANGED <<state, fees, holdings, price, now>>

-----------------------------------------------------------------------------
(* Fees on their own; anyone may call both.                                *)

CollectFees ==
    /\ CanSettle
    /\ state' = Settlement.state
    /\ balance' = Settled(Settlement.minted)
    /\ signers' = {}
    /\ UNCHANGED <<fees, allowance, holdings, price, now>>

\* A fault: a checkpoint settles like every priced call.
CheckpointFeesPriced == CollectFees

\* Accrues at most a year of management fee, with no price and no performance
\* fee, so that an overdue vault can be caught up step by step.
CheckpointFees ==
    LET m == Management(state, fees, now)
    IN  /\ IsAmount(m.minted)
        /\ state' = m.state
        /\ balance' = Settled(m.minted)
        /\ signers' = {}
        /\ UNCHANGED <<fees, allowance, holdings, price, now>>

-----------------------------------------------------------------------------
(* What execution.rs does to this state.                                   *)

\* execute and unwind settle fees, then leave any holdings of positive value
\* behind; the loss budget may restart its window at the equity before.
Rebalance(h) ==
    /\ FlowOpen
    /\ Priced(h) /\ Equity(h) > 0
    /\ \E w \in {state.window_equity, Equity(holdings)} :
          state' = [Settlement.state EXCEPT !.window_equity = w]
    /\ balance' = Settled(Settlement.minted)
    /\ holdings' = h
    /\ signers' = {}
    /\ UNCHANGED <<fees, allowance, price, now>>

\* recover_supply and repay need no price and settle nothing; converting
\* between pool tokens and underlying may lose one atom.
RecoverSupply(amount, lost) ==
    /\ IsPositive(amount) /\ lost \in 0 .. 1
    /\ amount + lost <= holdings.supply
    /\ holdings' = [holdings EXCEPT !.usdc   = @ + amount,
                                    !.supply = @ - amount - lost]
    /\ signers' = {}
    /\ UNCHANGED <<state, fees, balance, allowance, price, now>>

Repay(amount, lost) ==
    /\ IsPositive(amount) /\ lost \in 0 .. 1
    /\ amount + lost <= Least(holdings.debt, holdings.usdc)
    /\ holdings' = [holdings EXCEPT !.usdc = @ - amount - lost,
                                    !.debt = @ - amount]
    /\ signers' = {}
    /\ UNCHANGED <<state, fees, balance, allowance, price, now>>

-----------------------------------------------------------------------------
(* The environment: marks, donations, time.                                *)

Mark(p) ==
    /\ price' = p
    /\ signers' = {}
    /\ UNCHANGED <<state, fees, balance, allowance, holdings, now>>

\* Anybody may transfer an asset to the vault without calling it.
Donate(a, amount) ==
    /\ holdings' = [holdings EXCEPT ![a] = @ + amount]
    /\ signers' = {}
    /\ UNCHANGED <<state, fees, balance, allowance, price, now>>

Tick(step) ==
    /\ now' = now + step
    /\ signers' = {}
    /\ UNCHANGED <<state, fees, balance, allowance, holdings, price>>

-----------------------------------------------------------------------------
(* The specification.                                                      *)

\* The constructor: the seed is funded and its shares belong to the vault.
Init ==
    /\ state = [supply           |-> SeedShares,
                high_water       |-> SCALE \div SHARE_MULTIPLIER,
                last_fee         |-> InitialTime,
                management_dust  |-> 0,
                performance_dust |-> 0,
                paused           |-> FALSE,
                window_equity    |-> SEED_ASSETS]
    /\ fees \in InitialFees
    /\ balance = [a \in Accounts |-> IF a = Vault THEN SeedShares ELSE 0]
    /\ allowance = [o \in Holders |-> [s \in Holders |-> NoAllowance]]
    /\ holdings = [usdc |-> SEED_ASSETS, asset |-> 0,
                   supply |-> 0, collateral |-> 0, debt |-> 0]
    /\ price \in Marks
    /\ now = InitialTime
    /\ signers = {}

Issuing(s) ==
    \E amount \in Amounts, receiver \in Accounts, operator \in Operators,
       limit \in Limits, deadline \in Deadlines :
      \/ Deposit(s, amount, receiver, operator, limit, deadline)
      \/ Mint(s, amount, receiver, operator, limit, deadline)

Exiting(s) ==
    \E amount \in Amounts, owner \in Holders, operator \in Holders :
      \/ \E receiver \in {owner, Vault}, limit \in Limits,
            deadline \in Deadlines :
           \/ Withdraw(s, amount, receiver, owner, operator, limit, deadline)
           \/ Redeem(s, amount, receiver, owner, operator, limit, deadline)
      \/ BurnFrom(s, operator, owner, amount)

Flows == FlowOpen /\ LET s == Settlement IN Issuing(s) \/ Exiting(s)

BasketExits ==
    /\ BasketOpen
    /\ LET s == BasketSettlement
       IN  \E amount \in Amounts, owner \in Holders, least \in {0} \cup Limits,
              deadline \in Deadlines :
             \E receiver \in {owner, Vault} :
               RedeemInKind(s, amount, owner, receiver,
                            [usdc |-> 0, asset |-> least], deadline)

Token ==
    \/ \E amount \in Amounts, from \in Accounts, to \in Accounts :
          Transfer(from, to, amount)
    \/ \E amount \in Amounts, from \in Holders, spender \in Holders,
          to \in Accounts : TransferFrom(spender, from, to, amount)
    \/ \E delegation \in Delegations, amount \in Amounts,
          expiration \in Deadlines :
          Approve(delegation[1], delegation[2], amount, expiration)

FeeCalls == CollectFees \/ CheckpointFees

Execution ==
    \/ \E h \in Portfolios : Rebalance(h)
    \/ \E amount \in Amounts, lost \in 0 .. 1 :
          RecoverSupply(amount, lost) \/ Repay(amount, lost)

Environment ==
    \/ \E p \in Marks : Mark(p)
    \/ \E a \in {"usdc", "asset"}, amount \in Donations : Donate(a, amount)
    \/ \E step \in Steps : Tick(step)

Next == Flows \/ BasketExits \/ Token \/ FeeCalls \/ Execution \/ Environment

Spec == Init /\ [][Next]_vars

-----------------------------------------------------------------------------
(* Properties.                                                             *)

Allowance == [amount : Nat, expiration : Nat]

TypeOK ==
    /\ state \in StateSet
    /\ fees \in FeeTerms
    /\ balance \in [Accounts -> Nat]
    /\ allowance \in [Holders -> [Holders -> Allowance]]
    /\ holdings \in HoldingSet
    /\ price \in Nat
    /\ now \in Nat
    /\ signers \subseteq Holders

\* Every share unit of the balances b, tagged with its owner: the cardinality of
\* this set is the sum of b.
ShareUnits(b) == UNION {{a} \X (1 .. b[a]) : a \in Accounts}

\* The recorded supply is the sum of all balances: no call mints or burns on
\* one side only, whatever order fees, flows and transfers come in.
ShareConservation == Cardinality(ShareUnits(balance)) = state.supply

\* The seed never moves, and no other share can get stuck on the vault's own
\* address (token::debit, token::transfer, issue).
SeedLocked == balance[Vault] = SeedShares

\* The carried performance fee is never negative (mul_div would abort every
\* exit forever) and never exceeds what one share is worth at the mark, through
\* any sequence of settlements, exits, losses and burns.
PerformanceDustBound == state.performance_dust \in 0 .. state.high_water

\* A vault with positive equity and less than a year of outstanding management
\* fee can always settle: the dust and the new charge together never reach the
\* whole equity, which would make `performance` abort and lock every exit.
FeesNeverBlock ==
    (Priced(holdings) /\ Equity(holdings) > 0 /\ CaughtUp(state, now))
        => SettleDefined(state, fees, now, Equity(holdings))

\* Settling twice at the same ledger and equity charges once: the second
\* settlement mints nothing and changes nothing.
SettleIdempotent ==
    (CanSettle /\ Equity(holdings) > 0) =>
        LET again == Settle(Settlement.state, fees, now, Equity(holdings))
        IN  again = [minted |-> 0, state |-> Settlement.state]

\* What max_withdraw reports can really be withdrawn by the owner
\* (docs/interfaces.md: "Executable idle-USDC limits").
MaxWithdrawExecutable ==
    \A owner \in Holders :
        LET max == MaxWithdraw(owner)
        IN  (FlowOpen /\ max \in 1 .. MAX_AMOUNT
               /\ WithdrawShares(Settlement, max) <= MAX_AMOUNT)
              => CanExit(Settlement, max, WithdrawShares(Settlement, max), owner, owner, owner)

\* The same promise for max_redeem.
MaxRedeemExecutable ==
    \A owner \in Holders :
        LET max == MaxRedeem(owner)
        IN  (FlowOpen /\ max \in 1 .. MAX_AMOUNT)
              => CanExit(Settlement, ConvertToAssets(Settlement, max), max, owner, owner, owner)

\* Fees are charged on new highs only: the mark is never lowered, also not by
\* losses, exits or a change of fee terms.
HighWaterMonotone == [][state'.high_water >= state.high_water]_vars

\* Shares leave an address only if it signed, or a signer spent at least that
\* much of an unexpired allowance.
OnlyAuthorizedDebits ==
    [][\A owner \in Holders :
          balance'[owner] < balance[owner] =>
            \/ owner \in signers'
            \/ \E s \in signers' :
                 /\ allowance[owner][s].expiration >= now
                 /\ allowance[owner][s].amount - allowance'[owner][s].amount
                      >= balance[owner] - balance'[owner]]_vars

\* A call that moves settlement assets and shares together: deposit, mint,
\* withdraw or redeem, or the cash leg of a basket exit of cash only.
CashFlow ==
    /\ holdings' = [holdings EXCEPT !.usdc = holdings'.usdc]
    /\ price' = price /\ FlowOpen
    /\ state'.supply # Settlement.state.supply

\* After its fees are settled, no deposit, mint, withdrawal or redemption lowers
\* the equity behind each remaining share: every rounding is against the caller.
NoDilution ==
    [][CashFlow =>
         Equity(holdings)' * Settlement.state.supply
           >= Equity(holdings) * state'.supply]_vars

BasketExit ==
    /\ state'.supply # state.supply
    /\ BasketOpen
    /\ LET s == BasketSettlement
       IN  \E shares \in Amounts, owner \in signers' :
             RedeemInKind(s, shares, owner, owner,
                          [usdc |-> 0, asset |-> 0], now)

\* The basket exit leaves at least the remaining holders' share of every asset
\* in the vault, with or without a valid price for it.
BasketNeverDilutes ==
    [][BasketExit =>
         \A a \in {"usdc", "asset"} :
            holdings'[a] * BasketSettlement.state.supply
              >= holdings[a] * state'.supply]_vars

=============================================================================

------------------------------- MODULE Adapter -------------------------------
(***************************************************************************)
(* The DeFindex adapter (contracts/adapter/src/lib.rs) composed with the   *)
(* vault it invests in.  The adapter is one holder of shares; only the     *)
(* parent it is bound to makes it act, and it keeps no cash of its own.    *)
(***************************************************************************)
EXTENDS VaultShares

CONSTANTS
    Self,           \* the adapter's address, one of the holders
    ParentCash,     \* settlement assets of the parent at the start
    Invested,       \* amounts the parent deposits and withdraws
    Recipients,     \* where the parent sends a withdrawal
    NoClaim

ASSUME AdapterAssumption ==
    /\ Self \in Holders
    /\ ParentCash \in Nat /\ Invested \subseteq Int
    /\ Recipients \subseteq Accounts
    /\ NoClaim \notin Int
    /\ \A terms \in InitialFees : terms.recipient # Self

VARIABLE cash       \* settlement assets of the parent and its recipients

adapterVars == <<vars, cash>>

\* convert_to_assets answers for the shares of the adapter; a view credits no fee
\* shares, so it bounds none.
Answers ==
    /\ Priced(holdings) /\ Equity(holdings) > 0
    /\ SettleDefined(state, fees, now, Equity(holdings))
    /\ IsAmount(balance[Self])

\* balance: the assets the adapter's shares convert to after pending fees.
Claim == IF Answers THEN ConvertToAssets(Settlement, balance[Self]) ELSE NoClaim

\* The checks every call of the parent passes.
Positive(amount) == amount > 0

\* A fault: the parent's transfer to the adapter is not checked.
AdapterDepositUnfunded(amount) ==
    /\ Positive(amount)
    /\ FlowOpen
    /\ Deposit(Settlement, amount, Self, Self, 1, now)
    /\ Answers'
    /\ cash' = cash - amount

\* Deposits and withdrawals return the new balance, and fail when there is none.
AdapterDeposit(amount) ==
    /\ Positive(amount) /\ amount <= cash
    /\ FlowOpen
    /\ Deposit(Settlement, amount, Self, Self, 1, now)
    /\ Answers'
    /\ cash' = cash - amount

\* A withdrawal above the executable limit is refused before the vault is called,
\* so the parent's own burn is rolled back.  The limit is asked of the same view.
AdapterWithdraw(amount, to) ==
    /\ Positive(amount)
    /\ to \notin {Self, Vault}
    /\ FlowOpen /\ Answers
    /\ amount <= MaxWithdraw(Self)
    /\ Withdraw(Settlement, amount, to, Self, Self, MAX_AMOUNT, now)
    /\ Answers'
    /\ cash' = cash + amount

Harvest == CollectFees /\ UNCHANGED cash

\* Everybody else: the adapter itself never transfers, approves or redeems.
\* Somebody checkpoints the fees before more time passes once they are overdue.
Others ==
    /\ Flows \/ BasketExits \/ FeeCalls \/ Execution \/ Environment
    /\ Self \notin signers'
    /\ now' # now => CaughtUp(state, now)
    /\ UNCHANGED cash

AdapterInit == Init /\ cash = ParentCash

AdapterNext ==
    \/ \E amount \in Invested :
         \/ AdapterDeposit(amount)
         \/ \E to \in Recipients : AdapterWithdraw(amount, to)
    \/ Harvest
    \/ Others

\* checkpoint_fees is open to all, needs no price and never fails.
AdapterSpec ==
    AdapterInit /\ [][AdapterNext]_adapterVars /\ WF_adapterVars(CheckpointFees /\ UNCHANGED cash)

-----------------------------------------------------------------------------
(* Properties.                                                             *)

AdapterTypeOK == TypeOK /\ cash \in Nat

\* The value of one share and of the fee shares that are pending, rounded up.
Unit ==
    IF Answers
      THEN MulDivCeil(1 + Settlement.minted, Equity(holdings), Settlement.state.supply)
      ELSE 0

Parent == INSTANCE Strategy WITH claim <- Claim, unit <- Unit

\* The adapter keeps the promise of Strategy, whatever fees are pending and
\* whoever else deposits, exits or executes in between.
KeepsStrategy == Parent!Promise

\* However many years nobody called the vault, repeated checkpoints catch up and
\* reopen the priced calls.
OverdueCatchesUp == ~CaughtUp(state, now) ~> CaughtUp(state, now)

=============================================================================

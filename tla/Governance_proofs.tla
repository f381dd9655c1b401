-------------------------- MODULE Governance_proofs --------------------------
(***************************************************************************)
(* The governed vault keeps the invariants of the share ledger under any   *)
(* change of fee terms, and implements the timelock it promises.           *)
(***************************************************************************)
EXTENDS Governance, VaultShares_proofs

GovernedInv == /\ Inv
               /\ GovernanceTypeOK
               /\ HashIsCurrent

\* What the pending slot holds when it is not empty.
LEMMA PendingFacts ==
    ASSUME GovernedInv, pending # NoPending
    PROVE  /\ pending \in Pending
           /\ pending.change \in ChangeSet
           /\ pending.earliest \in Nat
<1>1. pending \in Pending
  BY DEF GovernedInv, GovernanceTypeOK
<1> QED
  BY <1>1 DEF Pending

\* Valid fee terms in the slot are fee terms within the ceilings.
LEMMA PendingFees ==
    ASSUME GovernedInv, pending # NoPending, pending.change.kind = "fees",
           ValidFees(pending.change.value)
    PROVE  pending.change.value \in FeeTerms
<1> DEFINE f == pending.change.value
<1>1. f \in [management_bps : Nat, performance_bps : Nat, recipient : Accounts]
  BY PendingFacts DEF ChangeSet, Role
<1>2. /\ f.management_bps \in 0 .. MAX_MANAGEMENT_BPS
      /\ f.performance_bps \in 0 .. MAX_PERFORMANCE_BPS
      /\ f.recipient \in Holders
  BY <1>1, FeeScaleAssumption DEF ValidFees, Accounts
<1> QED
  BY <1>1, <1>2 DEF FeeTerms

-----------------------------------------------------------------------------
(* One lemma per action.                                                   *)

LEMMA SharesKeepGovernance ==
    ASSUME GovernedInv, [Next]_vars, UNCHANGED governed
    PROVE  GovernedInv' /\ Steady
<1>1. Inv' /\ Steady
  BY StepPreserves DEF GovernedInv
<1> QED
  BY <1>1 DEF GovernedInv, GovernanceTypeOK, HashIsCurrent, Inv, governed

LEMMA PausePreserves ==
    ASSUME GovernedInv, Pause PROVE GovernedInv'
<1>1. /\ state' \in StateSet
      /\ state'.supply = state.supply /\ state'.last_fee = state.last_fee
      /\ state'.high_water = state.high_water
      /\ state'.performance_dust = state.performance_dust
  BY DEF Pause, GovernedInv, Inv, TypeOK, StateSet
<1>2. signers' \subseteq Holders
  BY DEF Pause, GovernedInv, GovernanceTypeOK, Role
<1>3. Inv'
  BY <1>1, <1>2, StateFacts, InvParts DEF Pause, GovernedInv, Inv, TypeOK
<1> QED
  BY <1>3 DEF Pause, GovernedInv, GovernanceTypeOK, HashIsCurrent, Inv, governed

LEMMA AnnouncePreserves ==
    ASSUME GovernedInv, NEW change \in Changes, Announce(change)
    PROVE  GovernedInv'
<1>1. signers' \subseteq Holders
  BY DEF Announce, GovernedInv, GovernanceTypeOK, Role
<1>2. Inv'
  BY <1>1, StateFacts, QuietPreserves
     DEF Announce, GovernedInv, Inv, TypeOK
<1>3. change \in ChangeSet /\ version \in Nat /\ now + ROLE_DELAY \in Nat
  BY GovernanceAssumption, StateFacts DEF GovernedInv, GovernanceTypeOK
<1>4. pending' \in Pending
  BY <1>3 DEF Announce, Hash, Pending
<1>5. /\ pending'.hash = Hash(version, pending'.change)
      /\ roles' = roles /\ version' = version
  BY DEF Announce
<1> QED
  BY <1>2, <1>4, <1>5
     DEF GovernedInv, GovernanceTypeOK, HashIsCurrent, Inv, Hash

LEMMA CancelPreserves ==
    ASSUME GovernedInv, NEW hash, Cancel(hash) PROVE GovernedInv'
<1>1. signers' \subseteq Holders
  BY DEF Cancel, GovernedInv, GovernanceTypeOK, Role
<1>2. Inv'
  BY <1>1, StateFacts, QuietPreserves
     DEF Cancel, GovernedInv, Inv, TypeOK
<1> QED
  BY <1>2 DEF Cancel, GovernedInv, GovernanceTypeOK, HashIsCurrent, Inv

\* Applying a change empties the slot, so that only the ledger's own invariant
\* and the roles are left to check.
LEMMA AppliedPreserves ==
    ASSUME GovernedInv, Applied, Inv', roles' \in [Role -> Holders]
    PROVE  GovernedInv'
<1>1. version' \in Nat
  BY DEF Applied, GovernedInv, GovernanceTypeOK
<1> QED
  BY <1>1 DEF Applied, GovernedInv, GovernanceTypeOK, HashIsCurrent, Inv

LEMMA ApplyFeesPreserves ==
    ASSUME GovernedInv, NEW hash, ApplyFees(hash)
    PROVE  GovernedInv' /\ state'.paused = state.paused
<1>1. SettlementOK(Settlement)
  BY PricedSettlement DEF ApplyFees, FlowOpen, GovernedInv
<1>2. fees' \in FeeTerms
  BY PendingFees DEF ApplyFees, Matured
<1>3. /\ state' = Settlement.state /\ balance' = Settled(Settlement.minted)
      /\ signers' = {} /\ roles' = roles
      /\ UNCHANGED <<allowance, holdings, price, now>>
  BY DEF ApplyFees, Applied
<1>4. Inv /\ GovernanceTypeOK
  BY DEF GovernedInv
<1> HIDE DEF Settlement
<1>5. Inv' /\ state'.paused = state.paused
  BY <1>1, <1>2, <1>3, <1>4, SettlementFacts, StateFacts, InvParts
     DEF Inv, TypeOK
<1> QED
  BY <1>3, <1>4, <1>5, AppliedPreserves DEF ApplyFees, GovernanceTypeOK

LEMMA ApplyRolePreserves ==
    ASSUME GovernedInv, NEW hash, ApplyRole(hash)
    PROVE  GovernedInv'
<1>1. pending.change.value \in Holders
  <2>1. pending.change.value \in Accounts
    BY PendingFacts DEF ApplyRole, Matured, ChangeSet, Role
  <2> QED
    BY <2>1 DEF ApplyRole, Accounts
<1>2. roles' \in [Role -> Holders] /\ signers' \subseteq Holders
  BY <1>1 DEF ApplyRole, GovernedInv, GovernanceTypeOK
<1>3. Inv'
  BY <1>2, StateFacts, QuietPreserves
     DEF ApplyRole, Applied, GovernedInv, Inv, TypeOK
<1> QED
  BY <1>2, <1>3, AppliedPreserves DEF ApplyRole

LEMMA ApplyResumePreserves ==
    ASSUME GovernedInv, NEW hash, ApplyResume(hash)
    PROVE  GovernedInv'
<1>1. /\ state' \in StateSet
      /\ state'.supply = state.supply /\ state'.last_fee = state.last_fee
      /\ state'.high_water = state.high_water
      /\ state'.performance_dust = state.performance_dust
  BY DEF ApplyResume, GovernedInv, Inv, TypeOK, StateSet
<1>2. Inv'
  BY <1>1, StateFacts, InvParts
     DEF ApplyResume, Applied, GovernedInv, Inv, TypeOK
<1> QED
  BY <1>2, AppliedPreserves DEF ApplyResume, GovernedInv, GovernanceTypeOK

LEMMA GovernPreserves ==
    ASSUME GovernedInv, Govern PROVE GovernedInv'
  BY PausePreserves, AnnouncePreserves, CancelPreserves, ApplyFeesPreserves,
     ApplyRolePreserves, ApplyResumePreserves
     DEF Govern, ApplyChange

LEMMA GovernedStep ==
    ASSUME GovernedInv, [GovernedNext]_<<vars, governed>>
    PROVE  GovernedInv'
<1>1. CASE [Next]_vars /\ UNCHANGED governed
  BY <1>1, SharesKeepGovernance
<1>2. CASE Govern
  BY <1>2, GovernPreserves
<1> QED
  BY <1>1, <1>2 DEF GovernedNext

-----------------------------------------------------------------------------
(* The theorems.                                                           *)

\* The invariants of the share ledger hold under governance, and the pending
\* slot stays consistent with the version.
THEOREM GovernedInvariance == GovernedSpec => []GovernedInv
<1>1. GovernedInit => GovernedInv
  BY InitInv, GovernanceAssumption
     DEF GovernedInit, GovernedInv, GovernanceTypeOK, HashIsCurrent, Inv
<1>2. GovernedInv /\ [GovernedNext]_<<vars, governed>> => GovernedInv'
  BY GovernedStep
<1> QED
  BY <1>1, <1>2, PTL DEF GovernedSpec

\* Every variable of the governed vault keeps its type: valid fee terms, role
\* holders other than the vault, a slot that holds one announced change
\* (governance.rs announce, cancel and apply_change).
THEOREM GovernedTypeCorrect == GovernedSpec => []GovernanceTypeOK
<1>1. GovernedInv => GovernanceTypeOK
  BY DEF GovernedInv
<1> QED
  BY <1>1, GovernedInvariance, PTL

\* Only the current version's content can be cancelled or applied.
THEOREM HashesStayCurrent == GovernedSpec => []HashIsCurrent
<1>1. GovernedInv => HashIsCurrent
  BY DEF GovernedInv
<1> QED
  BY <1>1, GovernedInvariance, PTL

\* Whatever terms governance moves between, a vault with positive equity that
\* is at most a year behind can settle its fees.
THEOREM GovernedFeesAlwaysSettle == GovernedSpec => []FeesNeverBlock
<1>1. GovernedInv => FeesNeverBlock
  BY InvSettles DEF GovernedInv
<1> QED
  BY <1>1, GovernedInvariance, PTL

LEMMA GovernKeepsMark ==
    ASSUME GovernedInv, Govern PROVE state'.high_water >= state.high_water
<1>1. Inv /\ state \in StateSet /\ state.high_water \in Nat
  BY StateFacts DEF GovernedInv, Inv, TypeOK
<1>2. CASE Pause
  BY <1>1, <1>2 DEF Pause, StateSet
<1>3. CASE \E change \in Changes : Announce(change)
  BY <1>1, <1>3 DEF Announce
<1>4. CASE \E hash : Cancel(hash)
  BY <1>1, <1>4 DEF Cancel
<1>5. CASE \E hash : ApplyFees(hash)
  <2>1. SettlementOK(Settlement) /\ state' = Settlement.state
    BY <1>1, <1>5, PricedSettlement DEF ApplyFees, FlowOpen
  <2> QED
    BY <2>1 DEF SettlementOK
<1>6. CASE \E hash : ApplyRole(hash)
  BY <1>1, <1>6 DEF ApplyRole
<1>7. CASE \E hash : ApplyResume(hash)
  BY <1>1, <1>7 DEF ApplyResume, StateSet
<1> QED
  BY <1>2, <1>3, <1>4, <1>5, <1>6, <1>7 DEF Govern, ApplyChange

\* No governed step lowers the high-water mark either: in particular new fee
\* terms do not start from a new mark (governance.rs apply_change).
THEOREM GovernedMarkNeverFalls == GovernedSpec => HighWaterMonotone
<1>1. GovernedInv /\ [GovernedNext]_<<vars, governed>>
        => [state'.high_water >= state.high_water]_vars
  <2> SUFFICES ASSUME GovernedInv, [GovernedNext]_<<vars, governed>>
               PROVE  [state'.high_water >= state.high_water]_vars
    OBVIOUS
  <2>1. CASE [Next]_vars /\ UNCHANGED governed
    BY <2>1, SharesKeepGovernance DEF Steady
  <2>2. CASE Govern
    BY <2>2, GovernKeepsMark
  <2> QED
    BY <2>1, <2>2 DEF GovernedNext
<1> QED
  BY <1>1, GovernedInvariance, PTL DEF GovernedSpec, HighWaterMonotone

-----------------------------------------------------------------------------
(* The timelock.  Every governed step is a step of Timelock or a stutter.   *)

LEMMA TermsValue ==
    /\ Terms["fees"] = fees
    /\ Terms["paused"] = state.paused
    /\ \A r \in Role : Terms[r] = roles[r]
  BY DEF Terms, Role

LEMMA NoticeValue ==
    ASSUME GovernedInv, pending # NoPending
    PROVE  /\ Notice = [change |-> pending.change,
                        given  |-> pending.earliest - ROLE_DELAY]
           /\ Notice # NoPending
<1>1. Notice = [change |-> pending.change,
                given  |-> pending.earliest - ROLE_DELAY]
  BY DEF Notice
<1>2. pending.earliest - ROLE_DELAY \in Int /\ pending.change \in ChangeSet
  BY PendingFacts, GovernanceAssumption
<1> QED
  BY <1>1, <1>2, GovernanceAssumption

\* A call that leaves fee terms, pause and governance alone, or time passing.
LEMMA SteadyKeepsNotice ==
    ASSUME GovernedInv, GovernedInv', Steady, UNCHANGED governed
    PROVE  [Holder!Act]_<<Terms, Notice, now>>
<1>1. Terms' = Terms /\ Notice' = Notice
  BY DEF Steady, Terms, Notice, governed
<1>2. now' > now \/ now' = now
  <2>1. now \in Nat /\ now' \in Nat
    BY DEF GovernedInv, Inv, TypeOK
  <2> QED
    BY <2>1 DEF Steady
<1> QED
  BY <1>1, <1>2 DEF Holder!Act, Holder!Pass

LEMMA PauseKeepsNotice ==
    ASSUME GovernedInv, Pause PROVE Holder!Stop
<1>1. state'.paused = TRUE
  BY DEF Pause, GovernedInv, Inv, TypeOK, StateSet
<1>2. Terms' = [Terms EXCEPT !["paused"] = TRUE]
  BY <1>1 DEF Pause, Terms, Role, governed
<1>3. Notice' = Notice /\ now' = now
  BY DEF Pause, Notice, governed
<1> QED
  BY <1>2, <1>3 DEF Holder!Stop

LEMMA AnnounceKeepsNotice ==
    ASSUME GovernedInv, NEW change \in Changes, Announce(change)
    PROVE  Holder!Give
<1>1. Notice = NoPending
  BY DEF Announce, Notice
<1>2. GovernedInv'
  BY AnnouncePreserves
<1>3. pending' # NoPending /\ pending'.change = change
      /\ pending'.earliest - ROLE_DELAY = now
  <2>1. change \in ChangeSet /\ version \in Nat /\ now \in Nat /\ ROLE_DELAY \in Nat
    BY GovernanceAssumption, StateFacts DEF GovernedInv, GovernanceTypeOK
  <2>2. pending' = [hash |-> Hash(version, change), earliest |-> now + ROLE_DELAY,
                    change |-> change]
    BY DEF Announce
  <2>3. pending' \in Pending
    BY <2>1, <2>2 DEF Pending, Hash
  <2> QED
    BY <2>1, <2>2, <2>3, GovernanceAssumption
<1>4. Notice' = [change |-> change, given |-> now]
  BY <1>3 DEF Notice
<1>5. Terms' = Terms /\ now' = now
  BY DEF Announce, Terms
<1> QED
  BY <1>1, <1>4, <1>5 DEF Holder!Give

LEMMA CancelKeepsNotice ==
    ASSUME GovernedInv, NEW hash, Cancel(hash) PROVE Holder!Retract
<1>1. Notice # NoPending
  BY NoticeValue DEF Cancel
<1>2. Notice' = NoPending /\ Terms' = Terms /\ now' = now
  BY DEF Cancel, Notice, Terms
<1> QED
  BY <1>1, <1>2 DEF Holder!Retract

\* An application whose only effect on the terms is the announced one.
LEMMA AppliedKeepsNotice ==
    ASSUME GovernedInv, NEW hash, Matured(hash), Applied,
           Terms' = [Terms EXCEPT ![pending.change.kind] = pending.change.value]
    PROVE  Holder!TakeEffect
<1>1. /\ Notice # NoPending
      /\ Notice.change = pending.change
      /\ Notice.given = pending.earliest - ROLE_DELAY
  BY NoticeValue DEF Matured
<1>2. now >= Notice.given + ROLE_DELAY
  <2>1. pending.earliest \in Nat /\ now >= pending.earliest /\ ROLE_DELAY \in Nat
    BY PendingFacts, GovernanceAssumption DEF Matured
  <2> QED
    BY <1>1, <2>1
<1>3. Notice' = NoPending /\ now' = now
  BY DEF Applied, Notice
<1> QED
  BY <1>1, <1>2, <1>3 DEF Holder!TakeEffect

LEMMA ApplyFeesKeepsNotice ==
    ASSUME GovernedInv, NEW hash, ApplyFees(hash) PROVE Holder!TakeEffect
<1>1. state'.paused = state.paused /\ roles' = roles
      /\ fees' = pending.change.value /\ pending.change.kind = "fees"
  BY ApplyFeesPreserves DEF ApplyFees
<1>2. Terms' = [Terms EXCEPT !["fees"] = pending.change.value]
  BY <1>1 DEF Terms, Role
<1> QED
  BY <1>1, <1>2, AppliedKeepsNotice DEF ApplyFees

LEMMA ApplyRoleKeepsNotice ==
    ASSUME GovernedInv, NEW hash, ApplyRole(hash) PROVE Holder!TakeEffect
<1> DEFINE kind == pending.change.kind
           value == pending.change.value
<1>1. /\ state' = state /\ fees' = fees /\ kind \in Role
      /\ roles' = [roles EXCEPT ![kind] = value]
      /\ roles \in [Role -> Holders]
  BY DEF ApplyRole, GovernedInv, GovernanceTypeOK
<1>2. \A r \in Role : r # "fees" /\ r # "paused"
  BY DEF Role
<1> HIDE DEF kind, value
<1>3. Terms' = [Terms EXCEPT ![kind] = value]
  BY <1>1, <1>2 DEF Terms
<1> QED
  BY <1>3, AppliedKeepsNotice DEF ApplyRole, kind, value

LEMMA ApplyResumeKeepsNotice ==
    ASSUME GovernedInv, NEW hash, ApplyResume(hash) PROVE Holder!TakeEffect
<1>1. pending.change.value = FALSE
  BY PendingFacts DEF ApplyResume, Matured, ChangeSet, Role
<1>2. state'.paused = FALSE /\ roles' = roles /\ fees' = fees
  BY DEF ApplyResume, GovernedInv, Inv, TypeOK, StateSet
<1>3. Terms' = [Terms EXCEPT !["paused"] = FALSE]
  BY <1>2 DEF Terms, Role
<1> QED
  BY <1>1, <1>3, AppliedKeepsNotice DEF ApplyResume

LEMMA GovernKeepsNotice ==
    ASSUME GovernedInv, Govern PROVE [Holder!Act]_<<Terms, Notice, now>>
<1>1. CASE Pause
  BY <1>1, PauseKeepsNotice DEF Holder!Act
<1>2. CASE \E change \in Changes : Announce(change)
  BY <1>2, AnnounceKeepsNotice DEF Holder!Act
<1>3. CASE \E hash : Cancel(hash)
  BY <1>3, CancelKeepsNotice DEF Holder!Act
<1>4. CASE \E hash : ApplyChange(hash)
  BY <1>4, ApplyFeesKeepsNotice, ApplyRoleKeepsNotice, ApplyResumeKeepsNotice
     DEF ApplyChange, Holder!Act
<1> QED
  BY <1>1, <1>2, <1>3, <1>4 DEF Govern

\* The governed vault implements the timelock: no fee term, role or resume takes
\* effect without uninterrupted notice of exactly that change for ROLE_DELAY
\* ledgers (governance.rs announce, cancel and apply_change).
THEOREM GovernanceKeepsNotice == GovernedSpec => KeepsNotice
<1>1. GovernedInit => Holder!Start
  BY DEF GovernedInit, Holder!Start, Notice
<1>2. GovernedInv /\ [GovernedNext]_<<vars, governed>>
        => [Holder!Act]_<<Terms, Notice, now>>
  <2> SUFFICES ASSUME GovernedInv, [GovernedNext]_<<vars, governed>>
               PROVE  [Holder!Act]_<<Terms, Notice, now>>
    OBVIOUS
  <2>1. CASE [Next]_vars /\ UNCHANGED governed
    BY <2>1, SharesKeepGovernance, SteadyKeepsNotice
  <2>2. CASE Govern
    BY <2>2, GovernKeepsNotice
  <2> QED
    BY <2>1, <2>2 DEF GovernedNext
<1> QED
  BY <1>1, <1>2, GovernedInvariance, PTL
     DEF GovernedSpec, KeepsNotice, Holder!Promise

=============================================================================
